-------------------------------- MODULE MCPost ---------------------------------
(***************************************************************************)
(* Small instances of SendGate, Text and History for TLC.  handleSend      *)
(* sanitizes what a post brings, asks whether the post may pass, and       *)
(* appends it; it keeps nothing of one step in the next but its answer.  A *)
(* behaviour is about one part: the gate, a text, or the store.            *)
(***************************************************************************)
EXTENDS MCSendGate, Text, History

VARIABLE part

MCBytes == [r \in {"letter", "dash", "space", "return", "newline", "wide",
                    "bad"} |->
              IF r = "wide" THEN 4 ELSE IF r = "bad" THEN 3 ELSE 1]

(* Texts of up to five runes or bytes that are no rune.                    *)
Pieces == {Encoded(r) : r \in Runes \ {"bad", "dash"}}
            \cup {<<<<"wide", 1>>>>, <<<<"wide", 2>>>>}
MCInputs == {FlattenSeq(s) : s \in BoundedSeq(Pieces, 5)}
MCNicks == {[k \in 1..n |-> <<"letter", 1>>] : n \in {0, 1, 2, 6}}

MCRandomTails == {<<<<"dash", 1>>, <<"dash", 1>>>>}

(* Addresses and the counter of IDs differ only where they play a role.    *)
PostInit ==
  /\ Init /\ TextInit /\ HistoryInit
  /\ part \in {"gate", "text", "store"}
  /\ part # "gate" => \A r, q \in Req : ip[r] = ip[q]
  /\ part # "store" => idctr = 0

PostNext ==
  /\ UNCHANGED part
  /\ \/ part = "gate" /\ Next /\ UNCHANGED <<textVars, historyVars>>
     \/ part = "text" /\ TextNext /\ UNCHANGED <<vars, historyVars>>
     \/ part = "store" /\ HistoryNext /\ UNCHANGED <<vars, textVars>>

PostSpec == PostInit /\ [][PostNext]_<<vars, textVars, historyVars, part>>
===============================================================================
