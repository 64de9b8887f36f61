CONSTANTS
  Keys = {1, 2, 3}
  Fingerprints = {f, g}
  Holders = {h1, h2, h3}
  Messages = {1, 2, 3}
  Limit = 2
  TTL = 2
  MaxTime = 3
SPECIFICATION Spec
SYMMETRY Symmetry
CONSTRAINT Bounds
CHECK_DEADLOCK FALSE
INVARIANT TypeOK
INVARIANT PendingIffHeld
INVARIANT ReplayedWhileLive
PROPERTY OldestEvictedFirst
