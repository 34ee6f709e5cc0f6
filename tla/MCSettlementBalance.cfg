SPECIFICATION Spec
CONSTANTS
    Requests = {r1, r2}
    Manuals = {m1}
    Sessions = {s1}
    Orders = {}
    Total = 2
    Nil = Nil
CHECK_DEADLOCK FALSE
INVARIANT
    BalanceFromRows
