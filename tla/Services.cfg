SPECIFICATION ServicesSpec
CONSTANTS
  Account = {a1}
  Holder = {h1, h2, h3}
  AskedPolicy <- MCAskedPolicy
  LimiterLimit = 2
  AskedTTL = {0, 1}
  DefaultTTL = 3
  MinTTL = 2
  MaxClock = 5
  Caller = {c1, c2}
  Nobody = Nobody
  LockTTL = 2
  AccountList <- MCAccountList
  InstanceList <- MCInstanceList
  Supported = {"p"}
  HostOf <- MCHostOf
  Alpha <- MCAlpha
  Public <- MCPublic
  GeoProviders <- MCGeoProviders
  ContinentOf <- MCContinentOf
  Requests <- MCRequests
  Profile = Profile
  ProfileAsks <- MCProfileAsks
  Lease = Lease
  Other = Other
  ProbeHolder = ProbeHolder
  HashOf <- MCHashOf
  NoRequest = NoRequest
  NoPick = NoPick
  AnyEndpoint = AnyEndpoint
  MaxFacts = 1
  Updater = {u1}
  NoUpdate = NoUpdate
  SettingsRequests <- MCSettingsRequests
  ConfigProfiles = {"A"}
  DynamicKinds = {"dyn"}
  LookupKinds = {"k"}
  AnonymousKinds = {}
  KeyedKinds = {"k"}
  DefaultId <- MCDefaultId
  NumberedId <- MCNumberedId
  SessionOf <- MCSessionOf
  NativeUpdater = {n1}
  NativeRequests <- MCNativeRequests
  StableId <- MCStableId
  Malformed = {"bad"}
  InitialStores <- MCInitialStores
  Ticking = FALSE
  MaxUpdates = 2
  MaxFaults = 1
  Listener = {l1}
  Address = {ip1}
  Check = {k1, k2}
  MaxChanges = 1
  MaxAsked = 2
  FraudLookup = {f1, f2}
  KeyCount <- MCKeyCount
  KindOf <- MCKindOf
  AnswersOf <- MCAnswersOf
  Cooldown = 1
  RetryAfters = {0, 1}
  MaxSends = 2
  MaxBackoff = 1
  ClientTimeout = 1
  VerdictTTL = 1
  MaxLookups = 2
  MaxMoment = 2
  NodeFiles <- MCNodeFiles
  SettingsFiles <- MCSettingsFiles
  SessionRoutes <- MCSessionRoutes
  SessionOrder <- MCSessionOrder
  Safe <- MCSafe
  BadNode = {"bad"}
  MaxLeasing = 1
  ProviderAccount = {"acc"}
  AccountLease = {v1, v2}
  LeaseAccount <- MCLeaseAccount
  AccountUpdate = {w1}
  AccountRequests <- MCAccountRequests
  FirstRow <- MCFirstRow
  FirstSecret <- MCFirstSecret
  NoRow = NoRow
  NoHolder = NoHolder
  TermLease = {t1}
  LeaseAsks <- MCLeaseAsks
  ReleaseAsks <- MCReleaseAsks
  TermSettings <- MCTermSettings
  GatewayPassword = ""
  PlaygroundId = "playground-egress"
  PlaygroundRule = "in-user-playground"
  PlaygroundUser = "playground"
  Minute = 2
  DefaultSticky = 4
  SlotBuffer = 4
  MaxMinutes = 2
  LockPatience = 4
  MaxTermClock = 4
  NoTerms = NoTerms
  NoFlow = NoFlow
  NoRoute = NoRoute
  Browser = {b1}
  Asked <- MCAsked
  SessionTTL = 1
  TokenTTL = 0
  NoSession = NoSession
  MaxSecret = 2
  MaxHour = 2
  MaxHops = 3
  User = {"playground", "me"}
  PlaygroundUsername = "playground"
  OfPlayground = {"playground", "me"}
  Connection = {q1}
  Closer = {d1, d2}
  MaxWays = 1
INVARIANTS
  ServicesTypeOK
  EarlyLossIsByKeyExpiry
  OverlapIsReported
  EveryAccountTried
  RulesResolve
  ChangedRoutesDisconnected
  SettledIsApplied
  PendingIsAsked
  ViewIsOfRoute
  LookupsAreCurrent
  LeavesByOwnProfile
  ServedByStoredAccount
  SlotCoversLease
  OldWayExplained
PROPERTIES
  LimiterIsPool
  PickIsGood
  UnnamedKeysKept
  RefsFollowNodes
  PassedOverForCause
  OthersKeepRoute
  LeaseLineExists
  RestoredAsAcquired
  AnswersRestOnLogin
CHECK_DEADLOCK FALSE
