\* Three requests and two invoices that compete for two numbers: edits that
\* overlap, or an edit, a deletion and a delivery with a payment after it.
SPECIFICATION Spec
CONSTANTS
    Invoices = {i1, i2}
    Requests = {r1, r2, r3}
    Lines = {l1, l2, l3}
    MaxNumber = 2
    Nil = Nil
SYMMETRY Symmetry
INVARIANTS
    IInv
    TotalsHaveLines
    NoOrphanLines
    PaidInvoiceStays
