CONSTANTS
  Clash = Clash
  Sessions = {a, b, m}
  Honest = {a, b}
  N = 3
  Public = TRUE
  Channel = FALSE
  Kinds = {"inputs", "nonces", "psigs"}
  RegKinds = {"good", "short"}
  Addrs = {y}
  Dropped = {"nonces"}
  MaxPosts = 3
  MaxPayouts = 2
  MaxClears = 0
SPECIFICATION Spec
CHECK_DEADLOCK FALSE
INVARIANTS SignedIsCovered HonestNotBlamed
PROPERTY ImplementsCommit
