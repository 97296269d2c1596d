SPECIFICATION FairSpec
CONSTANTS
  c1 = c1
  c2 = c2
  raid = raid
  file = file
  Clients = {c1, c2}
  Types = {raid, file}
  MaxEvents = 3
  Type <- TypesOfEvents
  Follows <- Pages
  BroadcastCap = 1
  SendCap = 1
INVARIANT NoSendOnClosed
PROPERTIES OrderedStream GoneIsForgotten NewsReachesEveryone
CHECK_DEADLOCK FALSE
