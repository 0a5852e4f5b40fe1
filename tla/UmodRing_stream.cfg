SPECIFICATION FairSpec
CONSTANTS
  Size = 2
  IdxMod = 6
  Words = {w1, w2}
  LoadsMaySink = TRUE
  MaxEvents = 6
  MaxLag = 5
INVARIANTS TypeOK NoLostWakeup
PROPERTIES RefinesStream AtMostOneLap Drained
