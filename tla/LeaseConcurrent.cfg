CONSTANTS
  c1 = c1
  u1 = u1
  v1 = v1
  a1 = a1
  a2 = a2
  h1 = h1
  h2 = h2
  s1 = s1
  Account = {c1}
  Alias = {}
  Resolve <- IdOf
  Provider = {v1}
  Session = {a1, a2}
  Named = {}
  Attempt = {a1, a2}
  AccountOf <- OneAccountOf
  ProviderOf <- OneProviderOf
  SessionOf <- DrawnOf
  Stateful = {a1, a2}
  Limit = 2
  Client = {h1, h2}
  KeyOf <- AccountKey
  AskOf <- AskForNone
  Sweeper = Sweeper
  Restorer = Restorer
  NoProc = NoProc
  NoLease = NoLease
  NoSession = NoSession
  Faults = {"delete", "session", "save", "limiter"}
  MaxCrashes = 0
SPECIFICATION Spec
INVARIANTS TypeOK OneActivePerAccount NoRouteAfterEnd RouteAccounted
SYMMETRY Symmetry
