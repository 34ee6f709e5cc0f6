\* The providers of today: manual payments and Stripe.  Two sessions, so that
\* one supersedes the other and a payment intent can meet the wrong one.
SPECIFICATION Spec
CONSTANTS
    Requests = {r1, r2}
    Manuals = {m1}
    Sessions = {s1, s2}
    Orders = {}
    Total = 2
    Nil = Nil
SYMMETRY Symmetry
CHECK_DEADLOCK FALSE
INVARIANTS
    NoOverpayment
    OneEntryPerCapture
    StripeCreditsBacked
    StoredAmountCoversRows
