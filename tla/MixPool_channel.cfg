CONSTANTS
  Clash = Clash
  Sessions = {a, m, x}
  Honest = {a}
  N = 2
  Public = FALSE
  Channel = TRUE
  Kinds = {"abort", "junk", "inputs", "view", "nonces", "psigs"}
  RegKinds = {"good", "short", "badcoin", "refused"}
  Addrs = {a}
  Dropped = {}
  MaxPosts = 4
  MaxPayouts = 1
  MaxClears = 1
SPECIFICATION Spec
CHECK_DEADLOCK FALSE
INVARIANTS TypeOK StoppedMovedNothing SignedIsCovered NonceOnce OursIsIn
SYMMETRY Others
