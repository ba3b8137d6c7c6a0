SPECIFICATION FairSpec
CONSTANTS
  Workers = {w1, w2}
  IPs = {ip1, ip2}
  packetCost = 1
  maxTokens = 2
  garbageCollectTime = 2
  MaxTime = 4
  MaxCalls = 3
INVARIANTS TypeOK RateBounded
PROPERTY Served
CHECK_DEADLOCK FALSE
