\* Three readers, a queue and a socket for two messages each.
CONSTANTS
  Reader = {r1, r2, r3}
  NoFile = NoFile
  Stale = Stale
  NoOne = NoOne
  MaxQueue = 2
  MaxBacklog = 2
SPECIFICATION FairSpec
INVARIANTS OneLate
PROPERTIES LostToAStart PacketsLeave
