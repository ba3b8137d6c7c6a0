SPECIFICATION Spec
CONSTANTS
  Settings <- AllSettings
  URLs <- HostURLs
  Senders = {s1, s2}
  MaxOutages = 2
  MaxSends = 2
  MaxSets = 1
  MaxRoams = 1
INVARIANTS TypeOK UDPFirst NeverStuck

CHECK_DEADLOCK FALSE
