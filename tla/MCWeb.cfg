SPECIFICATION WebSpec
CONSTANTS
  Classes <- SomeClasses
  TypedFields = {"name", "password"}
  OtherFields = {"peers", "blocked_peers"}
  MaxActs = 2
  MaxCalls = 2
  PeerKeys = {k1, k2}
  MaxPeerActs = 3
  Second = 10
  Forms <- SomeForms
  MaxSettingsActs = 2
  Filters = {"http", "websocket"}
  Thin = {"r1", "r2"}
  Whole = {"r3"}
  MaxInspectorActs = 4
  Spokes = {"s1", "s2"}
  Lans = {"a", "c", "d"}
  Covering = {"c"}
  HubRoutes = {"d"}
  Shares <- SomeShares
  MaxJournal = 3
  MaxHubActs = 4
  MaxHomeActs = 5
  MeshPeers = {"m1", "m2"}
  MaxLog = 3
  MaxJournalActs = 4
  MaxProbeActs = 3
INVARIANTS SavesAreTaken InspectorSound RefusalsHandled StallIsTold
PROPERTIES UserKeepsPlace SaveKeepsUntyped AddressKept Unblocked
CHECK_DEADLOCK FALSE
