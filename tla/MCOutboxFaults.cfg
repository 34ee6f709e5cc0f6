\* Redis refuses, leases end early, Redis restarts without its data and BullMQ
\* forgets jobs that ended: two events compete to be the invoice's active one.
SPECIFICATION Spec
CONSTANTS
    Events = {e1, e2}
    Senders = {s1}
    Workers = {w1}
    MaxAttempts = 2
    Faults = {"lease", "redis", "wipe", "clean"}
    Nil = Nil
SYMMETRY Symmetry
CHECK_DEADLOCK FALSE
INVARIANTS
    IInv
