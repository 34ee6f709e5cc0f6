SPECIFICATION Spec
CONSTANTS
    s = s
    a = a
    m = m
    o1 = o1
    Users = {s, a, m}
    Orgs = {o1, o2}
    Emails = {"boot@", "a@", "m@"}
    None = None
    Tokens = {t1, t2}
    Requests = {r1, r2}
    InitialDirectories <- Directories
    MaxRevoked = 1
    MaxBegun = 4
SYMMETRY Symmetry
INVARIANTS
    IInv
    RevokedSessionsEnd
    MembersWithAdministrator
    MemberListAgrees
CHECK_DEADLOCK FALSE
