SPECIFICATION Spec
CONSTANTS
  Refresher = {f1}
  Reader = {c1}
  Fits <- TwoWidths
  MaxTags = 1
  MaxLinks = 1
  MaxPosts = 2
INVARIANT AnsweredWithoutPanic
