CONSTANTS
  c1 = c1
  u1 = u1
  v1 = v1
  a1 = a1
  a2 = a2
  h1 = h1
  h2 = h2
  s1 = s1
  Account = {c1}
  Alias = {}
  Resolve <- IdOf
  Provider = {v1}
  Session = {s1}
  Named = {s1}
  Attempt = {a1, a2}
  AccountOf <- OneAccountOf
  ProviderOf <- OneProviderOf
  SessionOf <- NamedOf
  Stateful = {}
  Limit = 2
  Client = {h1}
  KeyOf <- AccountKey
  AskOf <- AskForOne
  Sweeper = Sweeper
  Restorer = Restorer
  NoProc = NoProc
  NoLease = NoLease
  NoSession = NoSession
  Faults = {}
  MaxCrashes = 0
SPECIFICATION Spec
INVARIANTS ActiveIsServed
