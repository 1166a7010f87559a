CONSTANTS
  Clash = Clash
  Sessions = {a, b, c}
  Honest = {a, b, c}
  N = 3
  Public = FALSE
  Channel = FALSE
  Kinds = {}
  RegKinds = {}
  Addrs = {}
  Dropped = {}
  MaxPosts = 0
  MaxPayouts = 0
  MaxClears = 0
SPECIFICATION CalmSpec
CHECK_DEADLOCK FALSE
PROPERTY CalmPoolCompletes
