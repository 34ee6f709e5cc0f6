\* Redis answers and leases last; two job slots to race over, jobs are given
\* out twice, mails fail and processes die.  Liveness, so without symmetry.
SPECIFICATION FairSpec
CONSTANTS
    Events = {e1}
    Senders = {s1}
    Workers = {w1, w2}
    MaxAttempts = 1
    Faults = {"crash", "stall", "mail", "db"}
    Nil = Nil
CHECK_DEADLOCK FALSE
INVARIANTS
    SentMeansMailed
    OneDelivery
    CompletedJobIsDone
PROPERTIES
    JobEnds
