CONSTANTS
  Requests = {q1, q2}
  Admins = {u1}
  Others = {v1}
  Accounts = {a1, a2}
  States = {i1, i2}
  Nothing = Nothing
  StateLife = 1
  MaxTime = 1
  Handlers = {q1, q2}
  Keys = {i1, i2}
  MaxOffers = 2
  Logos = {l1}
  Jobs = {q1, q2}
  MaxVersion = 2
  MaxMails = 2
  Callers = {q1, q2}
  Lives = {1, 4}
  Margin = 2
  Floor = 2
  LastTick = 4
  Products = {i1, i2}
  Skus = {k1}
  Customers = {c1}
  Documents = {d1}
  Names = {n1}
  MaxSends = 2
SPECIFICATION PlatformSpec
SYMMETRY Symmetry
INVARIANTS
  StateSpentOnce
  ConnectionsAreVouched
  RowIsOneConnection
  LogosAreThere
  FirstMailIsExact
  CachedTokenLasts
  CatalogueHolds
  AcknowledgedIsSettled
  OneReceipt
