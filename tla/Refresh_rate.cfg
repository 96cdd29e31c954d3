SPECIFICATION Spec
CONSTANTS
  Poster = {p1, p2, p3}
  Timed = {a1}
  Widths = 1
  MaxLag = 1
  MaxStray = 1
  MayBeSlow = FALSE
SYMMETRY Symmetry
PROPERTY OnePerSecond
