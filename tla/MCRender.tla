-------------------------------- MODULE MCRender -------------------------------
(***************************************************************************)
(* Small instances of Links and Layout for TLC.  The two halves of render  *)
(* have no state in common: a behaviour is one of Links, or it lays out    *)
(* one message.                                                            *)
(***************************************************************************)
EXTENDS MCLinks, Layout

(* A letter, a joiner, and two heads of emojis; the second of them has a   *)
(* glyph of Unifont.                                                       *)
MCRune == 1..4
MCGlyphWidth == <<10, 10, 18, 18>>
MCNoDraw == {2}
MCTables ==
  {<<{}, {}, t, {<<>>}>> :
     t \in {{<<>>}, {<<2>>}, {<<>>, <<2>>}, {<<>>, <<2, 4>>}, {<<4>>, <<4, 4>>},
            {<<2>>, <<2, 3>>, <<2, 4, 2>>}, {<<>>, <<4, 1>>, <<4, 3>>}}}
MCTexts ==
  {<<l>> : l \in UNION {[1..n -> MCRune] : n \in 0..4}}
  \cup {<<l, <<3>>>> : l \in [1..2 -> MCRune]} \cup {<<<<>>, <<1>>>>}
  \cup {<<<<3, 2>> \o l>> : l \in [1..3 -> MCRune]}
MCWidths == {35, 55}

Untouched == UNCHANGED <<data, links, pc, refreshVars, readVars, moments>>

LinksOrLayout ==
  \/ stage = "none" /\ Next /\ UNCHANGED layoutVars
  \/ /\ data = <<>> /\ \A t \in DOMAIN pc : pc[t] = "idle"
     /\ LayoutNext /\ Untouched

RenderInit == Init /\ LayoutInit

RenderSpec ==
  /\ RenderInit
  /\ [][LinksOrLayout]_<<vars, layoutVars>>
  /\ \A f \in Refresher : WF_vars(Renders(f) /\ stage = "none")
  /\ WF_vars((\E f \in Refresher : Begin(f)) /\ stage = "none")
===============================================================================
