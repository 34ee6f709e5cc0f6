SPECIFICATION Spec
CONSTANTS
    Events = {e1}
    Senders = {s1}
    Workers = {w1}
    MaxAttempts = 2
    Faults = {"mail"}
    Nil = Nil
CHECK_DEADLOCK FALSE
PROPERTIES
    QueuedMeansJob
