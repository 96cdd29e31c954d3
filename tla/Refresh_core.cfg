SPECIFICATION FairSpec
CONSTANTS
  Poster = {p1}
  Timed = {a1}
  Widths = 2
  MaxLag = 1
  MaxStray = 1
  MayBeSlow = FALSE
INVARIANT TimerAlive
PROPERTIES OncePerSecondUnlessLate EntriesShown PicturesSettle ClosedFallsSilent
