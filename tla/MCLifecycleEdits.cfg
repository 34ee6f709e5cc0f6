SPECIFICATION Spec
CONSTANTS
    Invoices = {i1}
    Requests = {r1, r2}
    Lines = {l1, l2, l3}
    MaxNumber = 1
    Nil = Nil
INVARIANT
    TotalsOfLines
