SPECIFICATION ApplySpec
CONSTANTS
  Updater = {u1}
  NoUpdate = NoUpdate
  SettingsRequests <- MCSettingsRequests
  ConfigProfiles = {"A"}
  DynamicKinds = {"dyn"}
  LookupKinds = {"k"}
  AnonymousKinds = {}
  KeyedKinds = {"k"}
  DefaultId <- MCDefaultId
  NumberedId <- MCNumberedId
  SessionOf <- MCSessionOf
  NativeUpdater = {n1}
  NativeRequests <- MCNativeClearing
  StableId <- MCStableId
  Malformed = {"bad"}
  InitialStores <- MCInitialStores
  Ticking = FALSE
  MaxUpdates = 2
  MaxFaults = 1
PROPERTY FileIsOnlyProjection
CHECK_DEADLOCK FALSE
