-------------------------------- MODULE Layout --------------------------------
(***************************************************************************)
(* How render puts the text of a message on the picture (channel.go,       *)
(* draw.go).  It goes through the text twice: first it breaks it into      *)
(* lines and notes where emojis are to be, then DrawStringOmitEmojis draws *)
(* each line and leaves gaps for them.  Both passes ask probeEmoji whether *)
(* an emoji begins with a rune, the first one with the rest of the         *)
(* message's line, the second one with the rest of the broken line.        *)
(*                                                                         *)
(* Runes are their code points, which sort as their encodings do, and a    *)
(* text is the sequence of its lines.  Kerning is left out, and so are     *)
(* the tags of links: Links has them.                                      *)
(***************************************************************************)
EXTENDS Integers, FiniteSets, Sequences, SequencesExt

CONSTANTS
  Rune,       \* code points
  NoDraw,     \* those of them that noDrawRune skips
  GlyphWidth, \* GlyphWidth[c]: what the font advances for c
  Tables,     \* values of emojiTable: what may follow c in an emoji
  Texts,      \* texts of messages
  WidthsOf    \* widths of pictures

ContentLeft  == 10
Margins      == 24   \* margin*6, no less than an emoji is wide
EmojiAdvance == 30

(* Texts and emojis are made of the same runes, and the picture has room   *)
(* for something.                                                          *)
ASSUME LayoutAssumption ==
  /\ Rune \subseteq Nat /\ NoDraw \subseteq Rune
  /\ GlyphWidth \in [Rune -> 1..Margins]
  /\ \A t \in Tables : \A c \in DOMAIN t :
       t[c] \subseteq Seq(Rune) /\ IsFiniteSet(t[c])
  /\ Texts \subseteq Seq(Seq(Rune))
  /\ WidthsOf \subseteq {w \in Nat : w > ContentLeft + Margins}

VARIABLES
  stage,   \* "none", "wrap", "draw", then "shown"
  setting, \* emojiTable, the message's text and the width of the picture
  at,      \* the line of the text that is broken, i and prevI in it
  pen,     \* x, or d.Dot.X while lines are drawn
  lines,   \* the lines so far
  plan,    \* plan[y]: what render expects on line y, and where
  row,     \* the line that is drawn and how much of it has been
  seen     \* seen[y]: what has been drawn on line y, and where

layoutVars == <<stage, setting, at, pen, lines, plan, row, seen>>

Item == [emoji : BOOLEAN, x : Nat]

(* The types of the locals.                                                *)
LayoutTypeOK ==
  /\ stage \in {"none", "wrap", "draw", "shown"}
  /\ stage # "none" => setting \in [table : Tables, text : Texts, w : WidthsOf]
  /\ at.k \in Nat /\ at.i \in Nat /\ at.prevI \in 0..at.i
  /\ pen \in Nat
  /\ lines \in Seq(Seq(Rune))
  /\ plan \in Seq(Seq(Item)) /\ seen \in Seq(Seq(Item))
  /\ row.y \in Nat /\ row.i \in Nat

NoSetting == [table |-> <<>>, text |-> <<>>, w |-> 0]
Top == [k |-> 1, i |-> 0, prevI |-> 0]
Origin == [y |-> 1, i |-> 0]

LayoutInit ==
  /\ stage = "none"
  /\ setting = NoSetting
  /\ at = Top
  /\ pen = ContentLeft
  /\ lines = <<>> /\ plan = <<<<>>>>
  /\ row = Origin /\ seen = <<<<>>>>

-------------------------------------------------------------------------------
(* probeEmoji.                                                             *)

(* The order of strings.                                                   *)
Below(s, t) ==
  \/ IsStrictPrefix(s, t)
  \/ \E j \in DOMAIN s \cap DOMAIN t :
       s[j] < t[j] /\ \A n \in 1..(j - 1) : s[n] = t[n]

(* The first candidate that is not below the suffix or, failing that, the  *)
(* one before it, if the suffix begins with it; {} for no emoji.           *)
Probe_Before(cands, suffix) ==
  {t \in cands : /\ Below(t, suffix) /\ IsPrefix(t, suffix)
                 /\ ~\E u \in cands : Below(t, u) /\ Below(u, suffix)}
Probe(cands, suffix) ==
  LET from == {t \in cands : ~Below(t, suffix)}
      idx  == {t \in from : ~\E u \in from : Below(u, t)}
      last == {t \in cands \ from : ~\E u \in cands \ from : Below(t, u)}
      found(s) == {t \in s : IsPrefix(t, suffix)}
  IN IF found(idx) # {} THEN found(idx) ELSE found(last)

Cands(c) ==
  IF c \in DOMAIN setting.table THEN setting.table[c] ELSE {}

(* The emojis that begin with rune n of a line.                            *)
EmojiAt(line, n) == Probe(Cands(line[n]), SubSeq(line, n + 1, Len(line)))

-------------------------------------------------------------------------------
(* Breaking the text into lines.                                           *)

Line == setting.text[at.k]
NextRune == Line[at.i + 1]
Wrapping == stage = "wrap" /\ at.k <= Len(setting.text)

(* A message's turn: message and width are anything render may have.       *)
Start ==
  /\ stage = "none"
  /\ stage' = "wrap"
  /\ setting' \in [table : Tables, text : Texts, w : WidthsOf]
  /\ UNCHANGED <<at, pen, lines, plan, row, seen>>

SkipNoDraw ==
  /\ Wrapping /\ at.i < Len(Line) /\ NextRune \in NoDraw
  /\ at' = [at EXCEPT !.i = @ + 1]
  /\ UNCHANGED <<stage, setting, pen, lines, plan, row, seen>>

(* What follows at x would not fit any more.                               *)
Full_AtTheEdge(x) == x >= setting.w
Full(x) == x >= setting.w - Margins

(* The next line begins here.                                              *)
GoOnAt_PastRune(i) == i + 1
GoOnAt_BeforeSuffix(i) == at.i + 1
GoOnAt(i) == i

(* Rune and emoji, up to i, go onto the current line, which may end there. *)
PutItem(isEmoji, i, advance) ==
  LET put == [plan EXCEPT ![Len(plan)] =
                Append(@, [emoji |-> isEmoji, x |-> pen])]
  IN IF Full(pen + advance)
     THEN /\ lines' = Append(lines, SubSeq(Line, at.prevI + 1, i))
          /\ plan' = Append(put, <<>>)
          /\ pen' = ContentLeft
          /\ at' = [at EXCEPT !.i = i, !.prevI = GoOnAt(i)]
     ELSE /\ plan' = put
          /\ pen' = pen + advance
          /\ at' = [at EXCEPT !.i = i]
          /\ UNCHANGED lines

PlaceEmoji ==
  /\ Wrapping /\ at.i < Len(Line) /\ NextRune \notin NoDraw
  /\ \E t \in EmojiAt(Line, at.i + 1) :
       PutItem(TRUE, at.i + 1 + Len(t), EmojiAdvance)
  /\ UNCHANGED <<stage, setting, row, seen>>

PlaceGlyph ==
  /\ Wrapping /\ at.i < Len(Line) /\ NextRune \notin NoDraw
  /\ EmojiAt(Line, at.i + 1) = {}
  /\ PutItem(FALSE, at.i + 1, GlyphWidth[NextRune])
  /\ UNCHANGED <<stage, setting, row, seen>>

(* The end of a line of the text: the rest of it is a line, too.           *)
RestOf_Whole == Line
RestOf == SubSeq(Line, at.prevI + 1, Len(Line))

EndLine ==
  /\ Wrapping /\ at.i >= Len(Line)
  /\ IF RestOf # <<>>
     THEN lines' = Append(lines, RestOf) /\ plan' = Append(plan, <<>>)
     ELSE UNCHANGED <<lines, plan>>
  /\ pen' = ContentLeft
  /\ at' = [k |-> at.k + 1, i |-> 0, prevI |-> 0]
  /\ UNCHANGED <<stage, setting, row, seen>>

AllBroken ==
  /\ stage = "wrap" /\ at.k > Len(setting.text)
  /\ stage' = "draw"
  /\ UNCHANGED <<setting, at, pen, lines, plan, row, seen>>

-------------------------------------------------------------------------------
(* DrawStringOmitEmojis, line by line.                                     *)

Drawing == stage = "draw" /\ row.y <= Len(lines)
NextDrawn == lines[row.y][row.i + 1]

SkipDrawing ==
  /\ Drawing /\ row.i < Len(lines[row.y]) /\ NextDrawn \in NoDraw
  /\ row' = [row EXCEPT !.i = @ + 1]
  /\ UNCHANGED <<stage, setting, at, pen, lines, plan, seen>>

DrawItem(isEmoji, i, advance) ==
  /\ seen' = [seen EXCEPT ![row.y] = Append(@, [emoji |-> isEmoji, x |-> pen])]
  /\ pen' = pen + advance
  /\ row' = [row EXCEPT !.i = i]
  /\ UNCHANGED <<stage, setting, at, lines, plan>>

OmitEmoji ==
  /\ Drawing /\ row.i < Len(lines[row.y]) /\ NextDrawn \notin NoDraw
  /\ \E t \in EmojiAt(lines[row.y], row.i + 1) :
       DrawItem(TRUE, row.i + 1 + Len(t), EmojiAdvance)

DrawGlyph ==
  /\ Drawing /\ row.i < Len(lines[row.y]) /\ NextDrawn \notin NoDraw
  /\ EmojiAt(lines[row.y], row.i + 1) = {}
  /\ DrawItem(FALSE, row.i + 1, GlyphWidth[NextDrawn])

NextRow ==
  /\ Drawing /\ row.i >= Len(lines[row.y])
  /\ row' = [y |-> row.y + 1, i |-> 0]
  /\ seen' = Append(seen, <<>>)
  /\ pen' = ContentLeft
  /\ UNCHANGED <<stage, setting, at, lines, plan>>

Shown ==
  /\ stage = "draw" /\ row.y > Len(lines)
  /\ stage' = "shown"
  /\ UNCHANGED <<setting, at, pen, lines, plan, row, seen>>

(* The next message has nothing of this one.                               *)
NextMessage ==
  /\ stage = "shown"
  /\ stage' = "none" /\ setting' = NoSetting
  /\ at' = Top /\ pen' = ContentLeft
  /\ lines' = <<>> /\ plan' = <<<<>>>>
  /\ row' = Origin /\ seen' = <<<<>>>>

LayoutNext ==
  \/ Start \/ SkipNoDraw \/ PlaceEmoji \/ PlaceGlyph \/ EndLine \/ AllBroken
  \/ SkipDrawing \/ OmitEmoji \/ DrawGlyph \/ NextRow \/ Shown
  \/ NextMessage

LayoutSpec == LayoutInit /\ [][LayoutNext]_layoutVars

-------------------------------------------------------------------------------
(* Properties.                                                             *)

(* No rune of the message gets lost or is written twice where the lines    *)
(* are broken (channel.go:463, 474).                                       *)
TextKept ==
  stage = "wrap" =>
    FlattenSeq(lines)
      \o (IF Wrapping THEN SubSeq(Line, at.prevI + 1, Len(Line)) ELSE <<>>)
      \o FlattenSeq(SubSeq(setting.text, at.k + 1, Len(setting.text)))
    = FlattenSeq(setting.text)

(* Nothing is put where it would stick out of the picture, although the    *)
(* room is only looked at behind each rune (channel.go:463).               *)
InsideThePicture ==
  \A y \in DOMAIN plan : \A n \in DOMAIN plan[y] :
    plan[y][n].x + Margins <= setting.w

(* Both hold of the lines as they are made, which are lists of runes.      *)
LaidOut == LayoutTypeOK /\ TextKept /\ InsideThePicture

(* A line that was ended for want of room.                                 *)
Ends == [k \in 0..Len(setting.text) |->
           Len(FlattenSeq(SubSeq(setting.text, 1, k)))]
Broken(y) ==
  Len(FlattenSeq(SubSeq(lines, 1, y))) \notin {Ends[k] : k \in DOMAIN Ends}

(* The drawn line is what the layout has planned, so that the emojis lie   *)
(* on the gaps.  Only on a broken line may the second pass leave a gap     *)
(* where the first one has planned a glyph: the head of an emoji that is   *)
(* one no longer, or one only now, as what followed it has gone to the     *)
(* next line (channel.go:446, draw.go:143).                                *)
GapsAsPlanned ==
  stage = "shown" =>
    \A y \in DOMAIN lines :
      \/ seen[y] = plan[y]
      \/ /\ Broken(y)
         /\ \E n \in DOMAIN seen[y] \cap DOMAIN plan[y] :
              /\ SubSeq(seen[y], 1, n - 1) = SubSeq(plan[y], 1, n - 1)
              /\ seen[y][n].x = plan[y][n].x
              /\ seen[y][n].emoji /\ ~plan[y][n].emoji

(* What a complete search would answer.  probeEmoji finds the longest      *)
(* emoji or none, and none only if there is none or if one that does not   *)
(* fit sorts between the fitting ones and the text (draw.go:176).          *)
LongestOrNone(cands, s) ==
  LET fitting == {t \in cands : IsPrefix(t, s)}
      p       == Probe(cands, s)
  IN /\ p \subseteq fitting
     /\ \A t \in p : \A u \in fitting : Len(u) <= Len(t)
     /\ p = {} => \A t \in fitting :
                    \E u \in cands \ fitting : Below(t, u) /\ Below(u, s)
ProbeIsLongest ==
  stage = "wrap" /\ Wrapping /\ at.i < Len(Line) =>
    LongestOrNone(Cands(NextRune), SubSeq(Line, at.i + 2, Len(Line)))
===============================================================================
