SPECIFICATION Spec
CONSTANTS
  Size = 2
  IdxMod = 6
  Words = {w1, w2}
  LoadsMaySink = FALSE
  MaxEvents = 8
  MaxLag = 5
SYMMETRY WordSymmetry
INVARIANTS CheckedReadIsIntact
