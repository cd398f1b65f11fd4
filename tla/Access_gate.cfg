SPECIFICATION Spec
CONSTANTS
  Slots = {p1, p2}
  Devices = {"tv", "anon", "web"}
  Anonymous = "anon"
  Names = {"ann", "bob"}
  RawRequests <- MCRawRequests
  MaxTokens = 2
  MaxUpdates = 2
INVARIANTS
  TypeOK
  SetupOnce
  LiveCredentialAccepted
  CapabilitiesOfDevice
PROPERTIES
  DeadTokenNeverEnters
  RoutedAsSpelled
SYMMETRY Symmetry
