SPECIFICATION Spec
CONSTANTS
  Calls = {c1, c2}
  Tools = {gmail}
  Gmail = gmail
  Reaped = {gmail}
  Nonces = {n1}
  None = None
  MaxFailures = 1
  MaxRestarts = 1
INVARIANTS
  TypeOK
  ConnectedWasProven
PROPERTIES
  GrantsOnlyGrow
  CallbackLeavesConnecting
  HydrationReaps
  NoStaleConnected
SYMMETRY SlotSymmetry
