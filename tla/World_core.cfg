SPECIFICATION Spec
CONSTANTS
  Name = {lobby, den}
  Room = {r1, r2, r3}
  Win = {w1, w2}
  Sender = {s1}
  None = none
  MaxRestarts = 1
SYMMETRY Symmetry
INVARIANTS OneRoomPerName LostOnlyWithItsRoom TotalExact
