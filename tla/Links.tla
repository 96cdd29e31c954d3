-------------------------------- MODULE Links ---------------------------------
(***************************************************************************)
(* Links and their tags (channel.go, index.go).  render numbers the links  *)
(* it finds, from the newest message up, draws the numbers into the        *)
(* picture and leaves the list in ch.links; handleLink opens the link with *)
(* a given number.  Every Refresh renders once per screen width and then   *)
(* publishes the pictures; when a Refresh may start is left to Refresh.tla,*)
(* here it may start at any time.                                          *)
(*                                                                         *)
(* Message n has data[n] links, <<n, 1>>, <<n, 2>>...; a picture is known  *)
(* by its width and the number of messages that there were.                *)
(***************************************************************************)
EXTENDS Naturals, Sequences, SequencesExt

CONSTANTS
  Refresher,  \* goroutines in Refresh
  Reader,     \* requests to /~link/
  Fits,       \* Fits[w]: messages that fit into a picture of width w
  MaxTags,    \* tags of a picture (16 in the code)
  MaxLinks,   \* bound: links of a message
  MaxPosts    \* bound: messages

Widths == Len(Fits)

(* A wider picture has no more lines per message and the same height.      *)
ASSUME LinksAssumption ==
  /\ Refresher \cap Reader = {}
  /\ Fits \in Seq(Nat \ {0}) /\ Widths > 0
  /\ \A v, w \in 1..Widths : v <= w => Fits[v] <= Fits[w]
  /\ MaxTags \in Nat /\ MaxLinks \in Nat /\ MaxPosts \in Nat

VARIABLES
  data,     \* ch.data: the number of links of each message
  links,    \* ch.links
  shown,    \* shown[w]: the messages that the published picture was made of
  pc,       \* where every goroutine is
  snap,     \* snap[f]: messages that f has copied for the picture it renders
  made,     \* made[f]: pictures that f has rendered
  tag,      \* tag[c]: the number c asks for
  copy,     \* copy[c]: handleLink's copy of ch.links
  answer,   \* answer[c]: what c got
  moments   \* history variable: what c would have got since it asked

refreshVars == <<snap, made, shown>>
readVars    == <<tag, copy, answer>>
vars == <<data, links, pc, refreshVars, readVars, moments>>

(* What a request may get besides a link.                                  *)
Missing == <<0, 0>>
Panic   == <<0, 1>>
Link    == (1..MaxPosts) \X (1..MaxLinks)

(* The types of the fields and locals.                                     *)
TypeOK ==
  /\ data \in Seq(0..MaxLinks) /\ Len(data) <= MaxPosts
  /\ links \in Seq(Link) /\ Len(links) <= MaxTags
  /\ shown \in [1..Widths -> 0..Len(data)]
  /\ pc \in [Refresher \cup Reader -> {"idle", "copy", "draw", "publish",
                                       "check", "index", "done"}]
  /\ snap \in [Refresher -> 0..Len(data)]
  /\ made \in [Refresher -> Seq(0..Len(data))]
  /\ tag \in [Reader -> 0..MaxTags]
  /\ copy \in [Reader -> Seq(Link)]
  /\ answer \in [Reader -> Link \cup {Missing, Panic}]
  /\ moments \in [Reader -> SUBSET (Link \cup {Missing})]

Init ==
  /\ data = <<>>
  /\ links = <<>>
  /\ shown = [w \in 1..Widths |-> 0]
  /\ pc = [t \in Refresher \cup Reader |-> "idle"]
  /\ snap = [f \in Refresher |-> 0]
  /\ made = [f \in Refresher |-> <<>>]
  /\ tag = [c \in Reader |-> 0]
  /\ copy = [c \in Reader |-> <<>>]
  /\ answer = [c \in Reader |-> Missing]
  /\ moments = [c \in Reader |-> {}]

Goto(t, l) == pc' = [pc EXCEPT ![t] = l]

-------------------------------------------------------------------------------
(* A message with k links is appended.                                     *)
Post(k) ==
  /\ Len(data) < MaxPosts
  /\ data' = Append(data, k)
  /\ UNCHANGED <<links, pc, refreshVars, readVars, moments>>

-------------------------------------------------------------------------------
(* render.                                                                 *)

(* The messages in a picture of width w when there are n: newest first.    *)
OnPicture(n, w) ==
  IF n <= Fits[w] THEN [i \in 1..n |-> n + 1 - i]
                  ELSE [i \in 1..Fits[w] |-> n + 1 - i]
LinksOf(m) == [k \in 1..data[m] |-> <<m, k>>]
FirstOf(s, n) == SubSeq(s, 1, IF Len(s) <= n THEN Len(s) ELSE n)

(* The tags of that picture, in order.                                     *)
Numbered_Oldest(n, w) ==
  LET ms == OnPicture(n, w)
  IN FirstOf(FlattenSeq([i \in DOMAIN ms |-> LinksOf(ms[Len(ms) + 1 - i])]),
             MaxTags)
Numbered(n, w) ==
  LET ms == OnPicture(n, w)
  IN FirstOf(FlattenSeq([i \in DOMAIN ms |-> LinksOf(ms[i])]), MaxTags)

Begin(f) ==
  /\ pc[f] = "idle"
  /\ Goto(f, "copy")
  /\ UNCHANGED <<data, links, refreshVars, readVars, moments>>

(* The copy of ch.data, under ch.mu.                                       *)
Copy(f) ==
  /\ pc[f] = "copy"
  /\ snap' = [snap EXCEPT ![f] = Len(data)]
  /\ Goto(f, "draw")
  /\ UNCHANGED <<data, links, made, shown, readVars, moments>>

(* What a request for tag n gets from a list.                              *)
Open(l, n) == IF n < Len(l) THEN l[n + 1] ELSE Missing

Asking(c) == pc[c] \in {"copy", "check", "index"}

(* The picture is drawn; ch.links is replaced under ch.mu.                 *)
Draw(f) ==
  /\ pc[f] = "draw"
  /\ made' = [made EXCEPT ![f] = Append(@, snap[f])]
  /\ links' = Numbered(snap[f], Len(made[f]) + 1)
  /\ moments' = [c \in Reader |-> IF Asking(c)
                                  THEN moments[c] \cup {Open(links', tag[c])}
                                  ELSE moments[c]]
  /\ Goto(f, IF Len(made[f]) + 1 < Widths THEN "copy" ELSE "publish")
  /\ UNCHANGED <<data, snap, shown, readVars>>

Publish(f) ==
  /\ pc[f] = "publish"
  /\ shown' = made[f]
  /\ made' = [made EXCEPT ![f] = <<>>]
  /\ Goto(f, "idle")
  /\ UNCHANGED <<data, links, snap, readVars, moments>>

-------------------------------------------------------------------------------
(* handleLink.                                                             *)

Ask(c, n) ==
  /\ pc[c] = "idle"
  /\ tag' = [tag EXCEPT ![c] = n]
  /\ moments' = [moments EXCEPT ![c] = {Open(links, n)}]
  /\ Goto(c, "copy")
  /\ UNCHANGED <<data, links, refreshVars, copy, answer>>

CopyLinks(c) ==
  /\ pc[c] = "copy"
  /\ copy' = [copy EXCEPT ![c] = links]
  /\ Goto(c, "check")
  /\ UNCHANGED <<data, links, refreshVars, tag, answer, moments>>

(* The number is compared with the length of ch.links, now without ch.mu,  *)
(* and not with that of the copy.                                          *)
Check(c) ==
  /\ pc[c] = "check"
  /\ \/ tag[c] < Len(links) /\ Goto(c, "index") /\ UNCHANGED answer
     \/ /\ ~(tag[c] < Len(links))
        /\ answer' = [answer EXCEPT ![c] = Missing]
        /\ Goto(c, "done")
  /\ UNCHANGED <<data, links, refreshVars, tag, copy, moments>>

Indexed_FromOne(c) == IF tag[c] = 0 THEN Missing ELSE Open(copy[c], tag[c] - 1)
Indexed(c) == IF tag[c] < Len(copy[c]) THEN copy[c][tag[c] + 1] ELSE Panic

Index(c) ==
  /\ pc[c] = "index"
  /\ answer' = [answer EXCEPT ![c] = Indexed(c)]
  /\ Goto(c, "done")
  /\ UNCHANGED <<data, links, refreshVars, tag, copy, moments>>

-------------------------------------------------------------------------------
Renders(f) == Copy(f) \/ Draw(f) \/ Publish(f)

Next ==
  \/ \E k \in 0..MaxLinks : Post(k)
  \/ \E f \in Refresher : Begin(f) \/ Renders(f)
  \/ \E c \in Reader : \/ \E n \in 0..MaxTags : Ask(c, n)
                       \/ CopyLinks(c) \/ Check(c) \/ Index(c)

Spec == Init /\ [][Next]_vars

(* Goroutines run, and while somebody watches there is always another      *)
(* Refresh (TimerAlive and EntriesShown in Refresh.tla).                   *)
FairSpec ==
  /\ Spec
  /\ \A f \in Refresher : WF_vars(Renders(f))
  /\ WF_vars(\E f \in Refresher : Begin(f))

-------------------------------------------------------------------------------
(* Properties.                                                             *)

(* The tags on the published picture of width w open the links they stand  *)
(* beside.                                                                 *)
TagsRight(w) == IsPrefix(Numbered(shown[w], w), links)

Resting == \A f \in Refresher : pc[f] = "idle"

(* "New link appeared on chat screen will be assigned a tag, so you know   *)
(* which to open" (index.go:117).  ch.links is the list of the picture     *)
(* rendered last, of whatever width and by whatever Refresh, so tags can   *)
(* be wrong; but not for long: when nothing more is said, those of the     *)
(* narrow picture become right for good, and those of the others, too,     *)
(* except while a Refresh is under way, which begins with the narrow list  *)
(* again (channel.go:573).                                                 *)
TagsSettle ==
  <>[](/\ TagsRight(1)
       /\ Resting => \A w \in 1..Widths : TagsRight(w))

(* Whoever is not turned down by a panic gets what ch.links held under the *)
(* tag at some moment since the request (index.go:96-99).                  *)
AnswerWasTrue ==
  \A c \in Reader :
    pc[c] = "done" => answer[c] \in moments[c] \cup {Panic}

(* A tag that the copied list does not have is answered with "Link %x      *)
(* doesn't exist in the current channel" (index.go:108).                   *)
AnsweredWithoutPanic == \A c \in Reader : answer[c] # Panic
===============================================================================
