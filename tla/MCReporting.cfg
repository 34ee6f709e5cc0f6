SPECIFICATION Spec
CONSTANTS
    s = s
    a = a
    m = m
    n = n
    o1 = o1
    o2 = o2
    c1 = c1
    c2 = c2
    Users = {s, a, m, n}
    Orgs = {o1, o2}
    Emails = {"mail@"}
    None = None
    Customers = {c1, c2}
    Invoices = {i1, i2}
    Currencies = {"USD", "EUR"}
    LastMonth = 35
    DaysIn <- MCDaysIn
    FirstWeekday = 0
    CustomerRow <- MCCustomerRow
    Drafts <- MCDrafts
    InitialDirectory <- Directory
    Expenses <- MCExpenses
    FirstDay = 55
    LastDay = 56
    MaxPayments = 2
    MaxDisturbances = 1
    TopRows = 1
SYMMETRY Symmetry
INVARIANTS
    ListAgreesWithAccess
    BoardAgrees
    FiguresWithinAccess
    RevenueIsPaid
    CountsMakeUp
    
    PeriodsHold
CHECK_DEADLOCK FALSE
