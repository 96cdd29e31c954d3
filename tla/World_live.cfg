SPECIFICATION FairSpec
CONSTANTS
  Name = {lobby}
  Room = {r1, r2}
  Win = {w1, w2}
  Sender = {s1}
  None = none
  MaxRestarts = 0
PROPERTIES OrphansLeave EmptyRoomsGo RequestsServed
