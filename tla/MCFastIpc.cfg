SPECIFICATION Spec
CONSTANTS
  Clients = {c1, c2}
  NoClient = NoClient
  SlotCount = 2
  IndexSpace = 4
  MaxBegun = 4
INVARIANTS
  RingHoldsPending
  ResponseIsSignalled
  CompletionIsWhole
SYMMETRY ClientsSymmetry
PROPERTY PreloadIsCompleted
