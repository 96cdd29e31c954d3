------------------------------- MODULE SendGate -------------------------------
(***************************************************************************)
(* What a POST to /~send/ has to pass before its message is appended       *)
(* (send.go, ctx.go).  First the cooldown: CheckIP looks the address up in *)
(* cdMap, AddIP then puts it there for a second.  Then the token: makeToken*)
(* writes a new one into every page, validateToken decrypts it, looks it   *)
(* up in tokenStore, adds it there and checks browser and age.  Requests   *)
(* run in goroutines of their own; cdMap and tokenStore are only atomic    *)
(* call by call.                                                           *)
(*                                                                         *)
(* Browser and age of a token are abstracted to a free choice: whether     *)
(* they fit plays no role for the properties, only that they are checked   *)
(* after the token has been used up.                                       *)
(***************************************************************************)
EXTENDS Naturals, FiniteSets

CONSTANTS
  Req,     \* POST requests
  Ip,      \* client addresses
  Token,   \* tokens that makeToken makes
  Forged,  \* whatever does not decrypt to a token
  Cap,     \* capacity of tokenStore (60000 in the code)
  Admin    \* requests with an admin cookie

ASSUME SendGateAssumption ==
  /\ IsFiniteSet(Req)
  /\ Forged \notin Token
  /\ Cap \in Nat \ {0}
  /\ Admin \subseteq Req

VARIABLES
  pc,      \* pc[r]: where request r is; an answer in the end
  ip,      \* ip[r]: its address
  tok,     \* tok[r]: its token
  made,    \* the tokens made so far
  hot,     \* the keys of cdMap
  timers,  \* timers[a]: timers that are to delete a
  used,    \* the entries of tokenStore
  besideIp,  \* history variable: besideIp[r]: requests of r's address that
             \* were between CheckIP and AddIP when r passed CheckIP
  besideTok, \* history variable: besideTok[r]: requests with r's token that
             \* were between Get and Add when r did not get the token
  cooled,  \* history variable: the requests of an address that passed
           \* CheckIP since cdMap last lost it
  evicted  \* history variable: tokens that tokenStore once forgot

reqVars  == <<pc, ip, tok, made>>
gateVars == <<hot, timers>>
histVars == <<besideIp, besideTok, cooled, evicted>>
vars == <<reqVars, gateVars, used, histVars>>

Refused  == {"cooling", "invalid", "reused", "browser", "old"}

(* The types of the fields and locals.                                     *)
TypeOK ==
  /\ pc \in [Req -> {"idle", "check", "add", "arm", "open", "look", "use",
                     "judge", "accept"} \cup Refused]
  /\ ip \in [Req -> Ip]
  /\ tok \in [Req -> Token \cup {Forged}]
  /\ made \subseteq Token
  /\ hot \subseteq Ip
  /\ timers \in [Ip -> Nat]
  /\ used \subseteq Token /\ Cardinality(used) <= Cap
  /\ besideIp \in [Req -> SUBSET Req]
  /\ besideTok \in [Req -> SUBSET Req]
  /\ cooled \in [Ip -> SUBSET Req]
  /\ evicted \subseteq Token

Init ==
  /\ pc = [r \in Req |-> "idle"]
  /\ ip \in [Req -> Ip]
  /\ tok = [r \in Req |-> Forged]
  /\ made = {}
  /\ hot = {} /\ timers = [a \in Ip |-> 0]
  /\ used = {}
  /\ besideIp = [r \in Req |-> {}]
  /\ besideTok = [r \in Req |-> {}]
  /\ cooled = [a \in Ip |-> {}]
  /\ evicted = {}

Goto(r, l) == pc' = [pc EXCEPT ![r] = l]

-------------------------------------------------------------------------------
(* makeToken: a nonce and a counter make every token a new one.            *)
Make(t) ==
  /\ t \notin made
  /\ made' = made \cup {t}
  /\ UNCHANGED <<pc, ip, tok, gateVars, used, histVars>>

(* A form is posted, with a token of some page or with anything else.      *)
Post(r, t) ==
  /\ pc[r] = "idle"
  /\ t \in made \cup {Forged}
  /\ tok' = [tok EXCEPT ![r] = t]
  /\ Goto(r, "check")
  /\ UNCHANGED <<ip, made, gateVars, used, histVars>>

-------------------------------------------------------------------------------
(* The cooldown.                                                           *)

Passes_Always(r) == TRUE
Passes(r) == r \in Admin \/ ip[r] \notin hot

(* Those of the address of r that have passed CheckIP but are not in cdMap *)
(* yet.                                                                    *)
Adding(r) == {q \in Req : pc[q] = "add" /\ ip[q] = ip[r]}

CheckIP(r) ==
  /\ pc[r] = "check"
  /\ IF Passes(r)
     THEN /\ Goto(r, "add")
          /\ besideIp' = [besideIp EXCEPT ![r] = @ \cup Adding(r)]
          /\ cooled' = [cooled EXCEPT ![ip[r]] = @ \cup {r}]
     ELSE Goto(r, "cooling") /\ UNCHANGED <<besideIp, cooled>>
  /\ UNCHANGED <<ip, tok, made, gateVars, used, besideTok, evicted>>

(* AddIP: Swap; the request that did not find the address arms the timer.  *)
Arms_Always(r) == TRUE
Arms(r) == ip[r] \notin hot

AddIP(r) ==
  /\ pc[r] = "add"
  /\ hot' = hot \cup {ip[r]}
  /\ Goto(r, IF Arms(r) THEN "arm" ELSE "open")
  /\ UNCHANGED <<ip, tok, made, timers, used, histVars>>

Arm(r) ==
  /\ pc[r] = "arm"
  /\ timers' = [timers EXCEPT ![ip[r]] = @ + 1]
  /\ Goto(r, "open")
  /\ UNCHANGED <<ip, tok, made, hot, used, histVars>>

(* A second after it was armed.                                            *)
Cool(a) ==
  /\ timers[a] > 0
  /\ timers' = [timers EXCEPT ![a] = @ - 1]
  /\ hot' = hot \ {a}
  /\ cooled' = [cooled EXCEPT ![a] = {}]
  /\ UNCHANGED <<reqVars, used, besideIp, besideTok, evicted>>

-------------------------------------------------------------------------------
(* validateToken.                                                          *)

OpenToken(r) ==
  /\ pc[r] = "open"
  /\ Goto(r, IF tok[r] = Forged THEN "invalid" ELSE "look")
  /\ UNCHANGED <<ip, tok, made, gateVars, used, histVars>>

(* tokenStore.Get.                                                         *)
Fresh_Always(r) == TRUE
Fresh(r) == tok[r] \notin used

Using(r) == {q \in Req : pc[q] = "use" /\ tok[q] = tok[r]}

Look(r) ==
  /\ pc[r] = "look"
  /\ IF Fresh(r)
     THEN /\ Goto(r, "use")
          /\ besideTok' = [besideTok EXCEPT ![r] = @ \cup Using(r)]
     ELSE Goto(r, "reused") /\ UNCHANGED besideTok
  /\ UNCHANGED <<ip, tok, made, gateVars, used, besideIp, cooled, evicted>>

(* tokenStore.Add.  A full store forgets an entry; which one is plru's.    *)
Room == Cap

Use(r) ==
  /\ pc[r] = "use"
  /\ \E gone \in SUBSET (used \ {tok[r]}) :
       /\ Cardinality(gone) =
            IF Cardinality(used \cup {tok[r]}) > Room THEN 1 ELSE 0
       /\ used' = (used \cup {tok[r]}) \ gone
       /\ evicted' = evicted \cup gone
  /\ Goto(r, "judge")
  /\ UNCHANGED <<ip, tok, made, gateVars, besideIp, besideTok, cooled>>

(* Browser, then age.  A token that does not fit has been used up.         *)
Judge(r) ==
  /\ pc[r] = "judge"
  /\ Goto(r, "accept") \/ Goto(r, "browser") \/ Goto(r, "old")
  /\ UNCHANGED <<ip, tok, made, gateVars, used, histVars>>

-------------------------------------------------------------------------------
Runs(r) == CheckIP(r) \/ AddIP(r) \/ Arm(r) \/ OpenToken(r) \/ Look(r)
           \/ Use(r) \/ Judge(r)

Next ==
  \/ \E t \in Token : Make(t)
  \/ \E r \in Req : (\E t \in Token \cup {Forged} : Post(r, t)) \/ Runs(r)
  \/ \E a \in Ip : Cool(a)

Spec == Init /\ [][Next]_vars

-------------------------------------------------------------------------------
(* Properties.                                                             *)

Spent == {"judge", "accept", "browser", "old"}

(* Of two requests with one token the second is refused, whatever became   *)
(* of the first one, unless one looked while the other was between its Get *)
(* and its Add, or tokenStore has forgotten the token (send.go:64).        *)
TokenOnce ==
  \A r, q \in Req :
    (r # q /\ tok[r] = tok[q] /\ pc[r] \in Spent /\ pc[q] \in Spent
       /\ tok[r] \notin evicted)
      => r \in besideTok[q] \/ q \in besideTok[r]

(* An address that is not an admin's gets one request through CheckIP      *)
(* before cdMap forgets it again, unless they overlap between CheckIP and  *)
(* AddIP (ctx.go:187).                                                     *)
OnePerCooldown ==
  \A a \in Ip : \A r, q \in cooled[a] \ Admin :
    r # q => r \in besideIp[q] \/ q \in besideIp[r]

(* Those that found their address missing and have no timer yet.           *)
Arming(a) == {r \in Req : pc[r] = "arm" /\ ip[r] = a}

(* An address in cdMap has a timer that will take it out, or somebody is   *)
(* about to arm it, so no cooldown lasts for ever; and it never has two,   *)
(* which would cut the next one short (ctx.go:195).                        *)
OneTimerPerAddress ==
  \A a \in Ip :
    timers[a] + Cardinality(Arming(a)) = IF a \in hot THEN 1 ELSE 0
===============================================================================
