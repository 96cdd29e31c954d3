SPECIFICATION RenderSpec
CONSTANTS
  Refresher = {f1, f2}
  Reader = {c1}
  Fits <- TwoWidths
  MaxTags = 1
  MaxLinks = 1
  MaxPosts = 2
  Rune <- MCRune
  NoDraw <- MCNoDraw
  GlyphWidth <- MCGlyphWidth
  Tables <- MCTables
  Texts <- MCTexts
  WidthsOf <- MCWidths
INVARIANTS AnswerWasTrue LaidOut GapsAsPlanned ProbeIsLongest
PROPERTY TagsSettle
