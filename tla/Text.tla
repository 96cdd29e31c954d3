--------------------------------- MODULE Text ---------------------------------
(***************************************************************************)
(* What becomes of the text of a request (index.go, message.go): names go  *)
(* through sanitizeStrict whenever they come in, with a random suffix that *)
(* handleIndex may have appended in between, a message once through        *)
(* sanitizeMessage; Marshal writes it to the store, Unmarshal reads it.    *)
(*                                                                         *)
(* A text is a sequence of bytes, and the byte <<r, k>> is the k-th one of *)
(* the encoding of rune r.  Decoding makes a Bad rune (U+FFFD) of a byte   *)
(* that does not begin a whole encoding.  The fixed fields of an entry     *)
(* take one cell each.                                                     *)
(***************************************************************************)
EXTENDS Naturals, FiniteSets, Sequences, SequencesExt

CONSTANTS
  Bytes,     \* Bytes[r]: the length of the encoding of rune r
  Kept,      \* the runes sanitizeStrict keeps
  Return,    \* '\r'
  Newline,   \* '\n'
  Bad,       \* U+FFFD
  MaxName,   \* bytes of a name (50 or 20 in the code)
  MaxText,   \* bytes of a message (1024 in the code)
  MaxLines,  \* its lines (10 in the code)
  Base,      \* values of a digit of a varint (128 in the code)
  RandomTails, \* what randomize may append to a name (14 bytes in the code)
  Inputs,    \* bound: texts of requests
  Nicks      \* bound: nicknames

Runes == DOMAIN Bytes
Byte == UNION {{<<r, k>> : k \in 1..Bytes[r]} : r \in Runes}

ASSUME TextAssumption ==
  /\ \A r \in Runes : Bytes[r] \in 1..4
  /\ Kept \subseteq Runes /\ Bad \in Kept
  /\ Bytes[Bad] = 3
  /\ {Return, Newline} \subseteq Runes \ Kept
  /\ \A n \in {MaxName, MaxText, MaxLines} : n \in Nat \ {0}
  /\ Base \in Nat /\ Base > 1
  /\ RandomTails \subseteq Seq({<<r, 1>> : r \in {k \in Kept : Bytes[k] = 1}})
  /\ Inputs \subseteq Seq(Byte) /\ Nicks \subseteq Seq(Byte)

VARIABLES
  task,    \* "none", "name" or "message"; "store", "stored" and "loaded" are
           \* the way of a message through Marshal and Unmarshal
  round,   \* which request brings the name: the "first" one, the "random"
           \* one that handleIndex redirects to, or one "again" of its page
  rest,    \* what the loop has not come to yet
  tmp,     \* what it has kept
  lines,   \* the newlines among it
  former,  \* history variable: the name as the round before has made it
  entry    \* what has been marshalled: from and text, the bytes, what has
           \* been unmarshalled

textVars == <<task, round, rest, tmp, lines, former, entry>>

NoEntry == [from |-> <<>>, bytes |-> <<>>, back |-> <<>>]

(* The types of the locals.                                                *)
TextTypeOK ==
  /\ task \in {"none", "name", "message", "store", "stored", "loaded"}
  /\ round \in {"first", "random", "again"}
  /\ rest \in Seq(Byte) /\ tmp \in Seq(Byte) /\ former \in Seq(Byte)
  /\ lines \in 0..MaxLines

TextInit ==
  /\ task = "none" /\ round = "first"
  /\ rest = <<>> /\ tmp = <<>> /\ lines = 0
  /\ former = <<>> /\ entry = NoEntry

-------------------------------------------------------------------------------
(* Runes and their encodings.                                              *)

Encoded(r) == [k \in 1..Bytes[r] |-> <<r, k>>]

(* What range finds first in a text: a rune and its width.                 *)
First(s) ==
  LET r == Head(s)[1]
  IN IF IsPrefix(Encoded(r), s) THEN [rune |-> r, width |-> Bytes[r]]
                                ELSE [rune |-> Bad, width |-> 1]
Later(s) == SubSeq(s, First(s).width + 1, Len(s))

-------------------------------------------------------------------------------
(* A request brings a name or a message.                                   *)
Comes ==
  /\ task = "none"
  /\ task' \in {"name", "message"} /\ rest' \in Inputs
  /\ UNCHANGED <<round, tmp, lines, former, entry>>

(* sanitizeStrict: the rune that reaches the limit is still kept.          *)
Strict_Cut(s) == SubSeq(s, 1, IF Len(s) < MaxName THEN Len(s) ELSE MaxName)
Strict(s) == s

NameRune ==
  /\ task = "name" /\ rest # <<>>
  /\ LET r == First(rest).rune
         kept == IF r \in Kept THEN tmp \o Encoded(r) ELSE tmp
     IN /\ tmp' = Strict(kept)
        /\ rest' = IF Len(kept) >= MaxName THEN <<>> ELSE Later(rest)
  /\ UNCHANGED <<task, round, lines, former, entry>>

(* handleIndex with randomize: a redirect to the name and a suffix, which  *)
(* are sanitized together when they come back.                             *)
Randomize(suffix) ==
  /\ task = "name" /\ rest = <<>> /\ tmp # <<>> /\ round = "first"
  /\ round' = "random" /\ former' = tmp \o suffix
  /\ rest' = tmp \o suffix /\ tmp' = <<>>
  /\ UNCHANGED <<task, lines, entry>>

(* The page that a name leads to sends it again; without a name there is   *)
(* the front page only.                                                    *)
NameAgain ==
  /\ task = "name" /\ rest = <<>> /\ tmp # <<>> /\ round # "again"
  /\ round' = "again" /\ former' = tmp
  /\ rest' = tmp /\ tmp' = <<>>
  /\ UNCHANGED <<task, lines, entry>>

(* sanitizeMessage.                                                        *)
Ends_OneLate(s, n) == Len(s) > MaxText \/ n > MaxLines
Ends_Lines(s, n) == n >= MaxLines
Ends(s, n) == Len(s) >= MaxText \/ n >= MaxLines

MessageRune ==
  /\ task = "message" /\ rest # <<>>
  /\ LET r == First(rest).rune
         n == lines + (IF r = Newline THEN 1 ELSE 0)
     IN IF r = Return
        THEN rest' = Later(rest) /\ UNCHANGED <<tmp, lines>>
        ELSE /\ tmp' = tmp \o Encoded(r)
             /\ lines' = n
             /\ rest' = IF Ends(tmp', n) THEN <<>> ELSE Later(rest)
  /\ UNCHANGED <<task, round, former, entry>>

(* An empty message is not appended.                                       *)
Sent(from) ==
  /\ task = "message" /\ rest = <<>> /\ tmp # <<>>
  /\ task' = "store"
  /\ entry' = [entry EXCEPT !.from = from]
  /\ UNCHANGED <<round, rest, tmp, lines, former>>

-------------------------------------------------------------------------------
(* Marshal and Unmarshal.                                                  *)

(* AppendUvarint: digits from the lowest one up, all but the last marked.  *)
Varint_OneByte(n) == <<<<"digit", n % Base>>>>
Digits[n \in Nat] ==
  IF n < Base THEN <<<<"digit", n>>>>
  ELSE <<<<"digit", Base + (n % Base)>>>> \o Digits[n \div Base]
Varint(n) == Digits[n]

(* Uvarint: the value and its width; a byte of a text is no marked digit.  *)
Digit(b) == IF b[1] = "digit" THEN b[2] ELSE 0
Width(p) == CHOOSE w \in 1..Len(p) :
              Digit(p[w]) < Base /\ \A k \in 1..(w - 1) : Digit(p[k]) >= Base
Uvarint(p) ==
  LET from[k \in 1..Width(p)] ==
        (Digit(p[k]) % Base) + (IF k = Width(p) THEN 0 ELSE Base * from[k + 1])
  IN [value |-> from[1], width |-> Width(p)]

Fixed == <<<<"id", 0>>, <<"type", 0>>, <<"time", 0>>>>

Marshal ==
  /\ task = "store"
  /\ entry' = [entry EXCEPT !.bytes =
                 Fixed \o Varint(Len(entry.from)) \o entry.from
                       \o Varint(Len(tmp)) \o tmp]
  /\ task' = "stored"
  /\ UNCHANGED <<round, rest, tmp, lines, former>>

Cut(p, n) == SubSeq(p, n + 1, Len(p))

Unmarshal ==
  /\ task = "stored"
  /\ LET p == Cut(entry.bytes, Len(Fixed))
         n == Uvarint(p)
         q == Cut(p, n.width)
         m == Uvarint(Cut(q, n.value))
     IN entry' = [entry EXCEPT !.back =
          <<SubSeq(q, 1, n.value),
            SubSeq(Cut(Cut(q, n.value), m.width), 1, m.value)>>]
  /\ task' = "loaded"
  /\ UNCHANGED <<round, rest, tmp, lines, former>>

(* The next request.                                                       *)
NextText ==
  /\ \/ task = "name" /\ rest = <<>> /\ (round = "again" \/ tmp = <<>>)
     \/ task = "message" /\ rest = <<>> /\ tmp = <<>>
     \/ task = "loaded"
  /\ task' = "none" /\ round' = "first"
  /\ rest' = <<>> /\ tmp' = <<>> /\ lines' = 0
  /\ former' = <<>> /\ entry' = NoEntry

TextNext ==
  \/ Comes \/ NameRune \/ NameAgain \/ MessageRune
  \/ \E suffix \in RandomTails : Randomize(suffix)
  \/ \E from \in Nicks : Sent(from)
  \/ Marshal \/ Unmarshal \/ NextText

TextSpec == TextInit /\ [][TextNext]_textVars

-------------------------------------------------------------------------------
(* Properties.                                                             *)

(* A sanitized name is a fixed point: every later request that carries it  *)
(* means the same channel, although a name may be cut anywhere and may     *)
(* have come with bytes that are no text.  A random suffix is lost only as *)
(* far as the name reaches the limit (index.go:18, 40, 126, 139).          *)
NameIsStable ==
  task = "name" /\ rest = <<>> =>
    /\ round = "again" => tmp = former
    /\ round = "random" =>
         IsPrefix(tmp, former) /\ (tmp # former => Len(tmp) >= MaxName)

(* What is built is a text.  The limit may be exceeded, by what is left of *)
(* the rune that reaches it, and a message has no more lines than it may   *)
(* (index.go:157, 174).                                                    *)
LengthLimited ==
  /\ TextTypeOK
  /\ task = "name" => Len(tmp) <= MaxName + 3
  /\ task = "message" => Len(tmp) <= MaxText + 3 /\ lines <= MaxLines
  /\ lines = Cardinality({k \in DOMAIN tmp : tmp[k] = <<Newline, 1>>})

(* An entry that is read has the nickname and the text that were written,  *)
(* however long: both lengths take a byte or more (message.go:24-43).      *)
RoundTrip == task = "loaded" => entry.back = <<entry.from, tmp>>

(* What was taken stays what it is: in the next request, and in the store. *)
TextsStay == NameIsStable /\ RoundTrip
===============================================================================
