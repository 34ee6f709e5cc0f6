\* An invoice with a PayPal order from before: captures, refunds and captures
\* again, against a manual payment.  Settlements and refunds wait for each
\* other's rows, and every handler must end; liveness, so without symmetry.
SPECIFICATION FairSpec
CONSTANTS
    Requests = {r1, r2}
    Manuals = {m1}
    Sessions = {}
    Orders = {o1}
    Total = 2
    Nil = Nil
CHECK_DEADLOCK FALSE
INVARIANTS
    StatusMatchesAmount
    IInv
PROPERTIES
    ImplementsLedger
    EveryRequestEnds
