SPECIFICATION Spec
CONSTANTS
  Name = {lobby}
  Room = {r1, r2, r3}
  Win = {w1, w2}
  Sender = {s1}
  None = none
  MaxRestarts = 0
SYMMETRY Symmetry
INVARIANT PurgedIsEmpty
