SPECIFICATION FairSpec
CONSTANTS
  p1 = p1
  p2 = p2
  local = local
  public = public
  old = old
  unknown = unknown
  Nil = Nil
  Peers = {p1, p2}
  Urls = {local, public, old, unknown}
  Priority <- Priorities
  Receivers = {r1}
  Capacity = 2
  Scenarios <- SingleStack
INVARIANT TypeOK
PROPERTIES Found
CHECK_DEADLOCK FALSE
