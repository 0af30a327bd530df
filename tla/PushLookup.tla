------------------------------ MODULE PushLookup ------------------------------
(***************************************************************************)
(* The resumable lookahead of the persistent push driver.                  *)
(*                                                                         *)
(* Before it scans a construct on a non-final call, the driver asks        *)
(* whether the construct's terminator has been received: lookup_gt for a   *)
(* tag, lookup_char for an end tag or a reference, lookup_char_data for a  *)
(* text run, lookup_string for a PI, a comment or a CDATA section.  An     *)
(* unsuccessful lookup parks a continuation (ParkedConstruct) so that the  *)
(* next call scans only what is new.  This module models the lookups loop  *)
(* iteration by loop iteration, over a stream that is received in chunks   *)
(* of any size: an answer may depend on what was received and never on     *)
(* how it was cut into chunks.                                             *)
(*                                                                         *)
(* Offsets are zero based, as in the code: doc[i] is the byte at absolute  *)
(* offset i of the base input, and doc is read only below len.             *)
(***************************************************************************)
EXTENDS Integers

CONSTANTS
  Byte,     \* the byte classes the lookups tell apart
  N,        \* length of the longest stream (a bound)
  Kinds,    \* the lookups exercised, a subset of AllKinds
  Docs,     \* the streams considered
  SectionStart  \* bytes of `<![CDATA[', 9 in the code

AllKinds == {"gt", "char", "ref", "data", "pi", "comment", "cdata"}

ASSUME LookupAssumption ==
  /\ N \in Nat
  /\ Docs \subseteq [0 .. N - 1 -> Byte]
  /\ Kinds \subseteq AllKinds
  /\ SectionStart \in Nat \ {0}

Quotes == {"none", "'", "dq"}            \* the `quote` byte of lookup_gt

VARIABLES
  doc,       \* the whole stream, of which the driver sees a prefix
  len,       \* bytes materialized so far (data_len)
  pos,       \* the cursor: first byte of the construct (pos)
  kind,      \* which lookup the construct at pos needs
  parked,    \* ParkedConstruct: [tag, checked, quote]
  scanning,  \* TRUE inside the loop of a lookup
  at, quote, \* that loop's locals
  verdict,   \* answer of the last lookup: "none", "found" or "parked"
  lex        \* history: the quoting before each offset of a scan that
             \* starts at the construct and is never interrupted

vars == <<doc, len, pos, kind, parked, scanning, at, quote, verdict, lex>>

Between == [tag |-> "between", checked |-> 0, quote |-> "none"]

Needle(k) == CASE k = "pi"    -> [l |-> 2, b |-> <<"?", ">">>]
               [] k = "cdata" -> [l |-> 3, b |-> <<"]", "]", ">">>]
               [] OTHER       -> [l |-> 3, b |-> <<"-", "-", ">">>]
IsString(k) == k \in {"pi", "comment", "cdata"}

\* Where a lookup with no usable continuation starts, relative to pos.
StartDelta(k) == CASE k = "data"    -> 0
                   [] k = "pi"      -> 2
                   [] k = "comment" -> 4
                   [] k = "cdata"   -> SectionStart
                   [] OTHER         -> 1

Start == pos + StartDelta(kind)

\* One iteration of lookup_gt on the quote state.
QuoteStep(q, b) == CASE q # "none" /\ b = q       -> "none"
                     [] q # "none" /\ b # q       -> q
                     [] q = "none" /\ b \in {"'", "dq"} -> b
                     [] OTHER                     -> "none"

\* Does byte b end the construct, seen with quote state q?
Ends(k, q, b) == CASE k = "gt"   -> q = "none" /\ b = ">"
                   [] k = "char" -> b = ">"
                   [] k = "ref"  -> b = ";"
                   [] k = "data" -> b \in {"<", "&"}
                   [] OTHER      -> FALSE

\* Does the needle of a string lookup occur at offset i, below `end`?
Match(i, end) == /\ i + Needle(kind).l <= end
                 /\ \A j \in 0 .. Needle(kind).l - 1 :
                       doc[i + j] = Needle(kind).b[j + 1]

\* A fault: the last byte received does not count as inside the buffer.
ValidContinuation_Strict(checked) == pos <= checked /\ checked < len

\* valid_continuation
ValidContinuation(checked) == pos <= checked /\ checked <= len

Usable == parked.tag = kind /\ ValidContinuation(parked.checked)

----------------------------------------------------------------------------
(* The reference: the quote state of one uninterrupted scan from pos.      *)

IsLex(f, p) == \A i \in 0 .. N - 1 :
                  IF i < p + 1 THEN f[i] = "none" /\ f[i + 1] = "none"
                               ELSE f[i + 1] = QuoteStep(f[i], doc[i])

\* Only lookup_gt minds quotes.
Lexings(p, k) ==
  IF k = "gt" THEN {f \in [0 .. N -> {"none"} \cup (Byte \cap Quotes)] :
                       f[0] = "none" /\ IsLex(f, p)}
              ELSE {[i \in 0 .. N |-> "none"]}

\* Offset i is where an uninterrupted scan would stop.
Terminator(i) == IF IsString(kind) THEN Match(i, N)
                                   ELSE Ends(kind, lex[i], doc[i])

----------------------------------------------------------------------------
Init == /\ doc \in Docs
        /\ len = 0
        /\ pos = 0
        /\ kind \in Kinds
        /\ parked = Between
        /\ scanning = FALSE
        /\ at = 0
        /\ quote = "none"
        /\ verdict = "none"
        /\ lex \in Lexings(0, kind)

\* A chunk of any size, possibly empty, arrives and is appended.
Receive == /\ ~scanning
           /\ verdict # "found"
           /\ \E n \in len .. N : len' = n
           /\ verdict' = "none"
           /\ UNCHANGED <<doc, pos, kind, parked, scanning, at, quote, lex>>

\* The callers' avail gates: enough bytes to tell which construct this is.
GateOpen == verdict = "none" /\ len - pos >= 1 /\ Start <= len

\* A fault: the continuation is resumed without its quote.
Begin_ForgetsQuote ==
  /\ ~scanning /\ GateOpen
  /\ scanning' = TRUE
  /\ at' = IF Usable THEN parked.checked ELSE Start
  /\ quote' = "none"
  /\ UNCHANGED <<doc, len, pos, kind, parked, verdict, lex>>

\* A lookup begins: resume at the continuation or start afresh.
Begin == /\ ~scanning
         /\ GateOpen
         /\ scanning' = TRUE
         /\ at' = IF Usable THEN parked.checked ELSE Start
         /\ quote' = IF Usable THEN parked.quote ELSE "none"
         /\ UNCHANGED <<doc, len, pos, kind, parked, verdict, lex>>

\* One byte of the loop of lookup_gt, lookup_char or lookup_char_data that
\* is not the terminator.
ScanByte == /\ scanning
            /\ ~IsString(kind)
            /\ at < len
            /\ ~Ends(kind, quote, doc[at])
            /\ at' = at + 1
            /\ quote' = IF kind = "gt" THEN QuoteStep(quote, doc[at])
                                       ELSE quote
            /\ UNCHANGED <<doc, len, pos, kind, parked, scanning, verdict, lex>>

\* The loop meets the terminator: the construct is complete.
Hit == /\ scanning
       /\ ~IsString(kind)
       /\ at < len
       /\ Ends(kind, quote, doc[at])
       /\ parked' = Between
       /\ scanning' = FALSE
       /\ verdict' = "found"
       /\ UNCHANGED <<doc, len, pos, kind, at, quote, lex>>

\* The loop runs out of received bytes.
Miss == /\ scanning
        /\ ~IsString(kind)
        /\ at = len
        /\ parked' = [tag |-> kind, checked |-> at, quote |-> quote]
        /\ scanning' = FALSE
        /\ verdict' = "parked"
        /\ UNCHANGED <<doc, len, pos, kind, at, quote, lex>>

\* lookup_string finds its needle with find_subslice: the first occurrence.
StringHit == /\ scanning
             /\ IsString(kind)
             /\ \E i \in at .. len :
                   /\ Match(i, len)
                   /\ \A j \in at .. i - 1 : ~Match(j, len)
                   /\ at' = i
             /\ parked' = Between
             /\ scanning' = FALSE
             /\ verdict' = "found"
             /\ UNCHANGED <<doc, len, pos, kind, quote, lex>>

\* Faults: no overlap at all, and a scan that does not advance.
StringChecked_NoOverlap == len
StringChecked_Restarts == at

\* The overlap kept by lookup_string: a needle may straddle the boundary.
StringChecked == LET tail == len - (Needle(kind).l - 1)
                 IN  IF tail > at THEN tail ELSE at

StringMiss == /\ scanning
              /\ IsString(kind)
              /\ \A i \in at .. len : ~Match(i, len)
              /\ parked' = [tag |-> kind, checked |-> StringChecked,
                            quote |-> "none"]
              /\ scanning' = FALSE
              /\ verdict' = "parked"
              /\ UNCHANGED <<doc, len, pos, kind, at, quote, lex>>

\* The driver consumes the construct and stands on the next one; it resets
\* the continuation because the cursor moved (drive_persistent).
TerminatorLen == IF IsString(kind) THEN Needle(kind).l
                 ELSE IF kind = "data" THEN 0 ELSE 1
Consume == /\ ~scanning
           /\ verdict = "found"
           /\ at + TerminatorLen > pos
           /\ pos' = at + TerminatorLen
           /\ \E k \in Kinds : kind' = k
           /\ parked' = Between
           /\ verdict' = "none"
           /\ lex' \in Lexings(pos', kind')
           /\ UNCHANGED <<doc, len, scanning, at, quote>>

Next == \/ Receive \/ Begin \/ ScanByte \/ Hit \/ Miss
        \/ StringHit \/ StringMiss \/ Consume

Spec == Init /\ [][Next]_vars

----------------------------------------------------------------------------
TypeOK ==
  /\ doc \in [0 .. N - 1 -> Byte]
  /\ len \in 0 .. N
  /\ pos \in 0 .. N
  /\ kind \in Kinds
  /\ parked \in [tag : Kinds \cup {"between"}, checked : 0 .. N, quote : Quotes]
  /\ scanning \in BOOLEAN
  /\ at \in 0 .. N
  /\ quote \in Quotes
  /\ verdict \in {"none", "found", "parked"}
  /\ lex \in [0 .. N -> Quotes]

(***************************************************************************)
(* A successful lookup stops at the very terminator that one uninterrupted *)
(* scan of the whole stream stops at: no chunk boundary, inside a quoted   *)
(* attribute value or in the middle of a needle, makes it stop elsewhere   *)
(* (pushdrive.rs, persistent_driver_matches_the_recursive_parser_under_    *)
(* every_partition).                                                       *)
(***************************************************************************)
FoundIsFirst ==
  verdict = "found" => /\ Terminator(at)
                       /\ \A i \in Start .. at - 1 : ~Terminator(i)

(***************************************************************************)
(* A lookup parks only when it has to: no terminator lies in what has been *)
(* received.  A lookup that missed one would hold the construct's events   *)
(* back until some later call (suspension is never a loss).                *)
(***************************************************************************)
ParkedIsIncomplete ==
  verdict = "parked" =>
     \A i \in Start .. len - 1 :
        IF IsString(kind) THEN ~Match(i, len) ELSE ~Terminator(i)

(***************************************************************************)
(* A parked continuation is always usable by the next lookup: it lies      *)
(* between the cursor and the end of the input, so no call falls back to   *)
(* rescanning the construct from its first byte (the quadratic behaviour   *)
(* the persistent driver was written to remove).                           *)
(***************************************************************************)
NeverRestarts == parked # Between => Usable

(***************************************************************************)
(* The complexity receipt: a resumed lookup begins at most an overlap of   *)
(* needle_len - 1 bytes before the point where the stream ended when the   *)
(* continuation was parked.                                                *)
(***************************************************************************)
BoundedOverlap ==
  [][verdict' = "parked" /\ verdict # "parked" =>
        len - parked'.checked <= IF IsString(kind) THEN Needle(kind).l - 1
                                                  ELSE 0]_vars

----------------------------------------------------------------------------
(* The inductive invariant: what a continuation, or a scan in progress,    *)
(* knows about the bytes it has passed.                                    *)

Passed(end, q) ==
  /\ Start <= end /\ end <= len
  /\ \A i \in Start .. end - 1 : ~Terminator(i)
  /\ kind = "gt" => q = lex[end]

IInv ==
  /\ TypeOK
  /\ lex \in Lexings(pos, kind)
  /\ pos <= len
  /\ scanning => Passed(at, quote) /\ verdict = "none"
  /\ parked # Between => parked.tag = kind /\ Passed(parked.checked, parked.quote)
  /\ FoundIsFirst
  /\ verdict = "found" => at + TerminatorLen <= len /\ Start <= at
  /\ ParkedIsIncomplete
=============================================================================
