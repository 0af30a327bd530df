-------------------------- MODULE PushLookups_proofs --------------------------
(***************************************************************************)
(* Proofs about the resumable lookups of the push driver, for every stream *)
(* and every way of cutting it into chunks: those of PushLookup, and the   *)
(* lookup of the internal subset of PushSubset, a state machine of its own *)
(* with its own variables.                                                 *)
(***************************************************************************)
EXTENDS PushLookup, PushSubset, TLAPS

(***************************************************************************)
(* PushLookup.  IInv records what a scan in progress, or a parked          *)
(* continuation, knows: the bytes it passed hold no terminator, and its    *)
(* quote state is the one an uninterrupted scan has there.                 *)
(***************************************************************************)

\* A needle is two or three bytes.
LEMMA NeedleLength == \A k \in AllKinds : Needle(k).l \in {2, 3}
  BY DEF AllKinds, Needle

\* Where a lookup starts is a natural number past, or on, the cursor.
LEMMA StartType == TypeOK => Start \in Nat /\ pos <= Start /\ StartDelta(kind) \in Nat
  BY LookupAssumption DEF TypeOK, Start, StartDelta, AllKinds

\* A needle below len lies in the stream, and one whose end was received
\* is visible in the received prefix.
LEMMA MatchMonotone ==
  ASSUME TypeOK, NEW i \in Nat
  PROVE  /\ Match(i, len) => Match(i, N)
         /\ i + Needle(kind).l <= len /\ Match(i, N) => Match(i, len)
<1>1. len <= N /\ len \in Nat /\ N \in Nat
  BY LookupAssumption DEF TypeOK
<1>2. Needle(kind).l \in Nat
  BY NeedleLength, LookupAssumption DEF TypeOK
<1> QED
  BY <1>1, <1>2 DEF Match

LEMMA QuoteStepType == \A q \in Quotes, b \in Byte : QuoteStep(q, b) \in Quotes
  BY DEF QuoteStep, Quotes

LEMMA LexingsType == \A p, k : Lexings(p, k) \subseteq [0 .. N -> Quotes]
  BY DEF Lexings, Quotes

\* The absent continuation is a continuation record.
LEMMA BetweenType ==
  Between \in [tag : Kinds \cup {"between"}, checked : 0 .. N, quote : Quotes]
<1>1. 0 \in 0 .. N
  BY LookupAssumption
<1> QED
  BY <1>1 DEF Between, Quotes

\* A step that moves neither the cursor nor the history keeps the lexing.
LEMMA LexStable ==
  ASSUME IInv, UNCHANGED <<doc, pos, kind, lex>>
  PROVE  (lex \in Lexings(pos, kind))'
<1>1. lex \in Lexings(pos, kind)
  BY DEF IInv
<1> QED
  BY <1>1 DEF Lexings, IsLex

\* What a scan knows when it starts without a continuation: nothing passed,
\* and no quote open.
LEMMA FreshScan ==
  ASSUME IInv, GateOpen
  PROVE  Passed(Start, "none")
<1>1. Start \in Nat /\ Start <= len /\ len <= N
  BY StartType, LookupAssumption DEF IInv, TypeOK, GateOpen
<1>2. \A i \in Start .. Start - 1 : ~Terminator(i)
  BY <1>1
<1>3. CASE kind = "gt"
  <2>1. Start = pos + 1 /\ pos \in 0 .. N - 1
    BY <1>1, <1>3, LookupAssumption DEF IInv, TypeOK, Start, StartDelta
  <2>2. lex[pos + 1] = "none"
    BY <2>1, LookupAssumption DEF IInv, Lexings, IsLex
  <2> QED
    BY <1>1, <1>2, <2>1, <2>2 DEF Passed
<1> QED
  BY <1>1, <1>2, <1>3 DEF Passed

\* One more byte passed that does not end the construct.
LEMMA PassOne ==
  ASSUME IInv, ScanByte
  PROVE  Passed(at', quote')
<1>1. /\ at \in Nat /\ len \in Nat /\ at < len /\ len <= N /\ at' = at + 1
      /\ Start \in Nat /\ Start <= at /\ Passed(at, quote) /\ ~IsString(kind)
      /\ pos \in Nat /\ N \in Nat
  BY StartType, LookupAssumption DEF IInv, TypeOK, ScanByte, Passed
<1>2. ~Terminator(at)
  BY <1>1 DEF ScanByte, Terminator, Ends, Passed
<1>3. \A i \in Start .. at' - 1 : ~Terminator(i)
  BY <1>1, <1>2 DEF Passed
<1>4. CASE kind = "gt"
  <2>1. pos + 1 <= at
    BY <1>1, <1>4 DEF Start, StartDelta
  <2>2. lex[at + 1] = QuoteStep(lex[at], doc[at])
    BY <1>1, <1>4, <2>1 DEF IInv, Lexings, IsLex
  <2> QED
    BY <1>1, <1>3, <1>4, <2>2 DEF Passed, ScanByte
<1> QED
  BY <1>1, <1>3, <1>4 DEF Passed

\* The continuation lookup_string parks lies past no needle.
LEMMA ParkString ==
  ASSUME IInv, StringMiss
  PROVE  /\ Passed(StringChecked, "none")
         /\ StringChecked \in 0 .. N
         /\ len - StringChecked <= Needle(kind).l - 1
         /\ \A i \in Start .. len - 1 : ~Match(i, len)
<1> DEFINE l == Needle(kind).l
<1>1. /\ at \in Nat /\ len \in Nat /\ at <= len /\ len <= N /\ N \in Nat
      /\ Start \in Nat /\ Start <= at /\ Passed(at, quote)
      /\ IsString(kind) /\ kind # "gt"
      /\ \A i \in at .. len : ~Match(i, len)
  BY StartType, LookupAssumption DEF IInv, TypeOK, StringMiss, Passed, IsString
<1>2. l \in {2, 3}
  BY NeedleLength, LookupAssumption DEF IInv, TypeOK
<1>3. /\ StringChecked \in Nat /\ at <= StringChecked /\ StringChecked <= len
      /\ StringChecked > at => StringChecked = len - (l - 1)
      /\ len - StringChecked <= l - 1
  BY <1>1, <1>2 DEF StringChecked
<1>4. \A i \in Start .. at - 1 : ~Match(i, N)
  BY <1>1 DEF Passed, Terminator
<1>5. ASSUME NEW i \in Start .. StringChecked - 1
      PROVE  ~Match(i, N)
  <2>1. CASE i < at
    BY <1>1, <1>3, <1>4, <2>1
  <2>2. CASE i >= at
    <3>1. i \in Nat /\ i \in at .. len /\ i + l <= len
      BY <1>1, <1>2, <1>3, <2>2
    <3> QED
      BY <1>1, <3>1, MatchMonotone DEF IInv
  <2> QED
    BY <1>1, <2>1, <2>2
<1>6. ASSUME NEW i \in Start .. len - 1
      PROVE  ~Match(i, len)
  <2>1. CASE i < at
    BY <1>1, <1>4, <2>1, MatchMonotone DEF IInv
  <2>2. CASE i >= at
    BY <1>1, <2>2
  <2> QED
    BY <1>1, <2>1, <2>2
<1> QED
  BY <1>1, <1>3, <1>5, <1>6 DEF Passed, Terminator

\* The needle lookup_string finds is the first of the whole stream.
LEMMA FirstNeedle ==
  ASSUME IInv, StringHit
  PROVE  /\ at' \in Nat /\ Start <= at' /\ at' + Needle(kind).l <= len
         /\ Match(at', N)
         /\ \A i \in Start .. at' - 1 : ~Match(i, N)
<1> DEFINE l == Needle(kind).l
<1>1. /\ at \in Nat /\ len \in Nat /\ len <= N /\ N \in Nat
      /\ Start \in Nat /\ Start <= at /\ Passed(at, quote) /\ IsString(kind)
  BY StartType, LookupAssumption DEF IInv, TypeOK, StringHit, Passed
<1>2. l \in {2, 3}
  BY NeedleLength, LookupAssumption DEF IInv, TypeOK
<1>3. PICK a \in at .. len : /\ at' = a /\ Match(a, len)
                            /\ \A j \in at .. a - 1 : ~Match(j, len)
  BY DEF StringHit
<1>4. a \in Nat /\ Start <= a /\ a + l <= len
  BY <1>1, <1>3 DEF Match
<1>5. Match(a, N)
  BY <1>3, <1>4, MatchMonotone DEF IInv
<1>6. ASSUME NEW i \in Start .. a - 1
      PROVE  ~Match(i, N)
  <2>1. CASE i < at
    BY <1>1, <2>1 DEF Passed, Terminator
  <2>2. CASE i >= at
    <3>1. i \in Nat /\ i \in at .. a - 1 /\ i + l <= len
      BY <1>1, <1>2, <1>4, <2>2
    <3> QED
      BY <1>3, <3>1, MatchMonotone DEF IInv
  <2> QED
    BY <1>1, <1>4, <2>1, <2>2
<1> QED
  BY <1>3, <1>4, <1>5, <1>6

-----------------------------------------------------------------------------
LEMMA InitIInv == Init => IInv
<1> SUFFICES ASSUME Init PROVE IInv
  OBVIOUS
<1>1. TypeOK
  <2>1. 0 \in 0 .. N /\ doc \in [0 .. N - 1 -> Byte] /\ lex \in [0 .. N -> Quotes]
    BY LookupAssumption, LexingsType DEF Init
  <2> QED
    BY <2>1, BetweenType DEF Init, TypeOK, Quotes
<1>2. parked = Between /\ ~scanning /\ verdict = "none" /\ pos <= len
  BY DEF Init
<1> QED
  BY <1>1, <1>2 DEF Init, IInv, FoundIsFirst, ParkedIsIncomplete

LEMMA StepType ==
  ASSUME IInv, [Next]_vars
  PROVE  TypeOK'
<1> USE LookupAssumption DEF IInv, TypeOK
<1>1. CASE Receive
  BY <1>1 DEF Receive
<1>2. CASE Begin
  BY <1>2, StartType DEF Begin, Usable, GateOpen, Quotes
<1>3. CASE ScanByte
  <2>1. at + 1 \in 0 .. N
    BY <1>3 DEF ScanByte
  <2>2. quote' \in Quotes
    BY <1>3, QuoteStepType DEF ScanByte
  <2> QED
    BY <1>3, <2>1, <2>2 DEF ScanByte
<1>4. CASE Hit
  BY <1>4, BetweenType DEF Hit
<1>5. CASE Miss
  BY <1>5 DEF Miss
<1>6. CASE StringHit
  <2>1. at' \in 0 .. N
    BY <1>6 DEF StringHit
  <2> QED
    BY <1>6, <2>1, BetweenType DEF StringHit
<1>7. CASE StringMiss
  BY <1>7, ParkString DEF StringMiss, Quotes
<1>8. CASE Consume
  <2>1. pos' \in 0 .. N
    BY <1>8, NeedleLength DEF Consume, TerminatorLen
  <2>2. lex' \in [0 .. N -> Quotes]
    BY <1>8, LexingsType DEF Consume
  <2> QED
    BY <1>8, <2>1, <2>2, BetweenType DEF Consume
<1>9. CASE UNCHANGED vars
  BY <1>9 DEF vars
<1> QED
  BY <1>1, <1>2, <1>3, <1>4, <1>5, <1>6, <1>7, <1>8, <1>9 DEF Next

\* Every step preserves the inductive invariant.
LEMMA StepIInv == IInv /\ [Next]_vars => IInv'
<1> SUFFICES ASSUME IInv, [Next]_vars PROVE IInv'
  OBVIOUS
<1>0. TypeOK'
  BY StepType
<1>1. CASE Receive
  <2>1. /\ len' >= len /\ len' \in Nat /\ verdict' = "none" /\ ~scanning'
        /\ UNCHANGED <<doc, pos, kind, parked, lex>>
    BY <1>1, LookupAssumption DEF Receive, IInv, TypeOK
  <2>2. parked # Between => Passed(parked.checked, parked.quote)'
    BY <2>1, StartType, LookupAssumption
       DEF IInv, TypeOK, Passed, Start, Terminator, Match
  <2> QED
    BY <1>0, <2>1, <2>2, LexStable, LookupAssumption
       DEF IInv, TypeOK, FoundIsFirst, ParkedIsIncomplete
<1>2. CASE Begin
  <2>1. UNCHANGED <<doc, len, pos, kind, parked, verdict, lex>> /\ verdict = "none"
    BY <1>2 DEF Begin, GateOpen
  <2>2. Passed(at', quote')
    <3>1. CASE Usable
      <4>1. parked # Between
        BY <3>1, LookupAssumption DEF Usable, IInv, TypeOK, Between, AllKinds
      <4> QED
        BY <1>2, <3>1, <4>1 DEF Begin, IInv
    <3>2. CASE ~Usable
      BY <1>2, <3>2, FreshScan DEF Begin
    <3> QED
      BY <3>1, <3>2
  <2>3. Passed(at, quote)'
    BY <2>1, <2>2 DEF Passed, Start, Terminator, Match
  <2>4. parked # Between => Passed(parked.checked, parked.quote)'
    BY <2>1 DEF IInv, Passed, Start, Terminator, Match
  <2> QED
    BY <1>0, <2>1, <2>3, <2>4, LexStable DEF IInv, FoundIsFirst, ParkedIsIncomplete
<1>3. CASE ScanByte
  <2>1. UNCHANGED <<doc, len, pos, kind, parked, scanning, verdict, lex>> /\ verdict = "none"
    BY <1>3 DEF ScanByte, IInv
  <2>2. Passed(at', quote')
    BY <1>3, PassOne
  <2>3. Passed(at, quote)'
    BY <2>1, <2>2 DEF Passed, Start, Terminator, Match
  <2>4. parked # Between => Passed(parked.checked, parked.quote)'
    BY <2>1 DEF IInv, Passed, Start, Terminator, Match
  <2> QED
    BY <1>0, <2>1, <2>3, <2>4, LexStable DEF IInv, FoundIsFirst, ParkedIsIncomplete
<1>4. CASE Hit
  <2>1. UNCHANGED <<doc, len, pos, kind, at, quote, lex>> /\ parked' = Between
        /\ ~scanning' /\ verdict' = "found"
    BY <1>4 DEF Hit
  <2>2. Terminator(at) /\ at + TerminatorLen <= len
    <3>1. Ends(kind, quote, doc[at]) /\ ~IsString(kind) /\ at < len /\ Passed(at, quote)
      BY <1>4 DEF Hit, IInv
    <3>2. Terminator(at)
      BY <3>1 DEF Terminator, Ends, Passed
    <3>3. TerminatorLen \in {0, 1}
      BY <3>1 DEF TerminatorLen
    <3> QED  BY <3>1, <3>2, <3>3, LookupAssumption DEF IInv, TypeOK
  <2>3. (\A i \in Start .. at - 1 : ~Terminator(i)) /\ Start <= at
    BY <1>4 DEF Hit, IInv, Passed
  <2>4. FoundIsFirst'
    BY <2>1, <2>2, <2>3 DEF FoundIsFirst, Start, Terminator, Match
  <2>5. (verdict = "found" => at + TerminatorLen <= len /\ Start <= at)'
    BY <2>1, <2>2, <2>3 DEF TerminatorLen, Start
  <2> QED
    BY <1>0, <2>1, <2>4, <2>5, LexStable DEF IInv, ParkedIsIncomplete
<1>5. CASE Miss
  <2>1. UNCHANGED <<doc, len, pos, kind, at, quote, lex>> /\ verdict' = "parked"
        /\ parked' = [tag |-> kind, checked |-> at, quote |-> quote]
        /\ ~scanning' /\ ~IsString(kind) /\ at = len
    BY <1>5 DEF Miss
  <2>2. Passed(at, quote)
    BY <1>5 DEF Miss, IInv
  <2>3. Passed(parked.checked, parked.quote)'
    BY <2>1, <2>2 DEF Passed, Start, Terminator, Match
  <2>4. ParkedIsIncomplete'
    BY <2>1, <2>2 DEF ParkedIsIncomplete, Passed, Start, Terminator, Match
  <2>5. parked'.tag = kind'
    BY <2>1
  <2> QED
    BY <1>0, <2>1, <2>3, <2>4, <2>5, LexStable DEF IInv, FoundIsFirst
<1>6. CASE StringHit
  <2>1. UNCHANGED <<doc, len, pos, kind, quote, lex>> /\ parked' = Between
        /\ ~scanning' /\ verdict' = "found" /\ IsString(kind)
    BY <1>6 DEF StringHit
  <2>2. /\ Start <= at' /\ at' + Needle(kind).l <= len
        /\ Match(at', N) /\ \A i \in Start .. at' - 1 : ~Match(i, N)
    BY <1>6, FirstNeedle
  <2>3. FoundIsFirst'
    BY <2>1, <2>2 DEF FoundIsFirst, Start, Terminator, Match
  <2>4. (verdict = "found" => at + TerminatorLen <= len /\ Start <= at)'
    BY <2>1, <2>2 DEF TerminatorLen, Start
  <2> QED
    BY <1>0, <2>1, <2>3, <2>4, LexStable DEF IInv, ParkedIsIncomplete
<1>7. CASE StringMiss
  <2>1. UNCHANGED <<doc, len, pos, kind, at, quote, lex>> /\ verdict' = "parked"
        /\ parked' = [tag |-> kind, checked |-> StringChecked, quote |-> "none"]
        /\ ~scanning' /\ IsString(kind)
    BY <1>7 DEF StringMiss
  <2>2. Passed(StringChecked, "none") /\ \A i \in Start .. len - 1 : ~Match(i, len)
    BY <1>7, ParkString
  <2>3. Passed(parked.checked, parked.quote)'
    BY <2>1, <2>2 DEF Passed, Start, Terminator, Match
  <2>4. ParkedIsIncomplete'
    BY <2>1, <2>2 DEF ParkedIsIncomplete, Start, Match
  <2>5. parked'.tag = kind'
    BY <2>1
  <2> QED
    BY <1>0, <2>1, <2>3, <2>4, <2>5, LexStable DEF IInv, FoundIsFirst
<1>8. CASE Consume
  <2>1. /\ verdict = "found" /\ verdict' = "none" /\ ~scanning'
        /\ parked' = Between /\ pos' = at + TerminatorLen /\ lex' \in Lexings(pos', kind')
        /\ UNCHANGED <<doc, len>>
    BY <1>8 DEF Consume
  <2>2. (lex \in Lexings(pos, kind))'
    BY <2>1 DEF Lexings, IsLex
  <2>3. pos' <= len'
    BY <2>1 DEF IInv
  <2> QED
    BY <1>0, <2>1, <2>2, <2>3 DEF IInv, FoundIsFirst, ParkedIsIncomplete
<1>9. CASE UNCHANGED vars
  BY <1>0, <1>9, LexStable
     DEF vars, IInv, FoundIsFirst, ParkedIsIncomplete, Passed, Start,
         Terminator, TerminatorLen, Match
<1> QED
  BY <1>1, <1>2, <1>3, <1>4, <1>5, <1>6, <1>7, <1>8, <1>9 DEF Next

-----------------------------------------------------------------------------
(* The inductive invariant holds in every reachable state, for every       *)
(* stream and every chunking.                                              *)
THEOREM Invariant == Spec => []IInv
  BY InitIInv, StepIInv, PTL DEF Spec

(* Type correctness of the lookups' state.                                 *)
THEOREM TypeCorrect == Spec => []TypeOK
<1>1. IInv => TypeOK
  BY DEF IInv
<1> QED
  BY <1>1, Invariant, PTL

(* A lookup that succeeds stops at the first terminator of the whole       *)
(* stream, wherever the chunk boundaries fell.                             *)
THEOREM FindsTheFirstTerminator == Spec => []FoundIsFirst
<1>1. IInv => FoundIsFirst
  BY DEF IInv
<1> QED
  BY <1>1, Invariant, PTL

(* A lookup parks only if the received bytes hold no terminator.           *)
THEOREM ParksOnlyIfIncomplete == Spec => []ParkedIsIncomplete
<1>1. IInv => ParkedIsIncomplete
  BY DEF IInv
<1> QED
  BY <1>1, Invariant, PTL

(* A continuation is never discarded: each call scans only what is new.    *)
THEOREM ContinuationSurvives == Spec => []NeverRestarts
<1>1. IInv => NeverRestarts
  BY StartType DEF IInv, NeverRestarts, Usable, ValidContinuation, Passed, TypeOK
<1> QED
  BY <1>1, Invariant, PTL

(* The overlap a resumed string lookup re-inspects is needle_len - 1 bytes *)
(* and the byte lookups re-inspect nothing.                                *)
THEOREM OverlapIsBounded == Spec => BoundedOverlap
<1>1. IInv /\ [Next]_vars =>
        [verdict' = "parked" /\ verdict # "parked" =>
           len - parked'.checked <= IF IsString(kind) THEN Needle(kind).l - 1
                                                     ELSE 0]_vars
  <2> SUFFICES ASSUME IInv, Next, verdict' = "parked", verdict # "parked"
               PROVE  len - parked'.checked <= IF IsString(kind)
                                               THEN Needle(kind).l - 1 ELSE 0
    BY DEF vars
  <2>1. CASE Miss
    BY <2>1, LookupAssumption DEF Miss, IInv, TypeOK
  <2>2. CASE StringMiss
    BY <2>2, ParkString DEF StringMiss
  <2> QED
    BY <2>1, <2>2 DEF Next, Receive, Begin, ScanByte, Hit, StringHit, Consume
<1> QED
  BY <1>1, Invariant, PTL DEF Spec, BoundedOverlap

----------------------------------------------------------------------------
(***************************************************************************)
(* PushSubset: its answers are those of the byte by byte reading, and a    *)
(* parked scan steps back by at most three bytes.  The two read delimiters *)
(* differently: the reading sees one whole where it begins, the scan only  *)
(* once it has all of it.  The invariant follows the scan until then.      *)
(***************************************************************************)

State == {"top", "-", "]"} \cup Blank \cup Quote

\* The scan's state at an offset agrees with the reading there.
Sync(k, st) ==
  /\ st \in State
  /\ \/ st = reading[k]
     \/ k < Len(dtd) /\ st = Settled(reading[k], dtd[k + 1]) /\ ~End(k)

\* The end of the subset lies at or after an offset.
PassedBy(k) == \A j \in 1 .. k - 1 : ~End(j)

\* A delimiter opens at an offset but is cut by the end of what was received.
Cut(p, l, st) == \/ st = "top" /\ Opens(p) /\ l < p + 4
                 \/ st = "-" /\ Closes(p) /\ l < p + 3

\* A scan at k, in state st since s, agrees with the reading up to p; it has
\* passed p only if a delimiter is cut there.
Trail(p, l, k, st, s) ==
  /\ p \in s .. k
  /\ p = k \/ Cut(p, l, st)
  /\ Sync(p, st) /\ PassedBy(p)
  /\ st \in {"top", "-"} => \A j \in s .. p : Sync(j, st)

Shape == /\ dtd \in Seq(STRING) /\ received \in 0 .. Len(dtd)
         /\ IsReading(reading)

Scanning == inScan => /\ 1 <= start /\ index <= received
                      /\ start \in Nat /\ index \in Nat
                      /\ answer = "none"
                      /\ \E p \in Nat : Trail(p, received, index, state, start)

Parked == \/ parkedScan = NoPark
          \/ /\ parkedScan.checked \in 1 .. received
             /\ Sync(parkedScan.checked, parkedScan.state)
             /\ PassedBy(parkedScan.checked)

SubsetIInv == Shape /\ Scanning /\ Parked /\ AnswerIsRight /\ BoundedRescan

-----------------------------------------------------------------------------
(* The reading, one byte at a time.                                        *)

\* The reading starts at offset 1, outside any literal or comment.
LEMMA FirstByte ==
  ASSUME Shape, received >= 1
  PROVE  Sync(1, "top") /\ PassedBy(1)
<1>1. 1 \in 0 .. Len(dtd)
  BY DEF Shape
<1>2. reading[1] = "top"
  <2>1. reading[1] = IF 1 < 2 THEN "top" ELSE Read(reading[1 - 1], 1 - 1)
    BY <1>1 DEF Shape, IsReading
  <2> QED
    BY <2>1
<1>4. Sync(1, "top")
  BY <1>2 DEF Sync, State
<1>5. 1 .. 1 - 1 = {}
  OBVIOUS
<1> QED
  BY <1>4, <1>5 DEF PassedBy

\* From a state that agrees, the next byte is read as from that state.
LEMMA NextByte ==
  ASSUME Shape, NEW k \in Nat, 1 <= k, k < Len(dtd)
  PROVE  reading[k + 1] = Read(reading[k], k)
<1>1. k + 1 \in 0 .. Len(dtd) /\ ~(k + 1 < 2) /\ (k + 1) - 1 = k
  BY DEF Shape
<1>2. reading[k + 1] = Read(reading[(k + 1) - 1], (k + 1) - 1)
  BY <1>1 DEF Shape, IsReading
<1> QED
  BY <1>1, <1>2

\* A settled state settles again to itself, and is read like the original.
LEMMA SettledByte ==
  ASSUME Shape, NEW k \in Nat, 1 <= k, k < Len(dtd), NEW st, Sync(k, st)
  PROVE  reading[k + 1] = Read(st, k)
<1>1. reading[k + 1] = Read(reading[k], k)
  BY NextByte
<1>2. CASE st = reading[k]
  BY <1>1, <1>2
<1>3. CASE st # reading[k]
  <2>1. /\ reading[k] \in {"]", "sp"} /\ st = "top"
        /\ Settled(reading[k], dtd[k + 1]) = "top"
    BY <1>3 DEF Sync, Settled
  <2>2. Settled(st, dtd[k + 1]) = "top"
    BY <2>1 DEF Settled
  <2> QED
    BY <1>1, <2>1, <2>2 DEF Read
<1> QED
  BY <1>2, <1>3

\* A state that agrees knows whether the end is here.
LEMMA EndHere ==
  ASSUME Shape, NEW k \in Nat, k < received, NEW st, Sync(k, st)
  PROVE  End(k) <=> Found(received, k, st)
<1>1. ByteAt(received, k) = ByteAt(Len(dtd), k) /\ k < Len(dtd)
  <2>1. received \in Nat /\ Len(dtd) \in Nat /\ received <= Len(dtd)
    BY DEF Shape
  <2> QED
    BY <2>1 DEF ByteAt
<1>2. CASE st = reading[k]
  BY <1>1, <1>2 DEF End, Found
<1>3. CASE st # reading[k]
  <2>1. st = "top" /\ ~End(k)
    BY <1>3 DEF Sync, Settled
  <2> QED
    BY <2>1 DEF Found
<1> QED
  BY <1>2, <1>3

\* A plain byte.
LEMMA PlainByte ==
  ASSUME Shape, NEW k \in Nat, 1 <= k, k < Len(dtd), NEW st, Sync(k, st),
         Settled(st, dtd[k + 1]) = st,
         ~(st = "top" /\ Opens(k)), ~(st = "-" /\ Closes(k))
  PROVE  Sync(k + 1, After(st, dtd[k + 1]))
<1>1. st \in State
  BY DEF Sync
<1>2. Read(st, k) = After(st, dtd[k + 1])
  BY <1>1 DEF Read, State, Blank, Quote
<1>3. After(st, dtd[k + 1]) \in State
  BY <1>1 DEF After, State, Quote, Blank
<1> QED
  BY <1>2, <1>3, SettledByte DEF Sync

\* An opening delimiter is read as four bytes.
LEMMA Opening ==
  ASSUME Shape, NEW k \in Nat, 1 <= k, k < Len(dtd), Sync(k, "top"), Opens(k)
  PROVE  /\ k + 4 <= Len(dtd)
         /\ Sync(k + 4, "-")
         /\ \A j \in k + 1 .. k + 3 : ~End(j)
<1>1. k + 4 <= Len(dtd)
  <2>1. ByteAt(Len(dtd), k + 3) = "-"
    BY DEF Opens
  <2>2. k + 3 < Len(dtd)
    BY <2>1 DEF ByteAt
  <2> QED
    BY <2>2 DEF Shape
<1>2. reading[k + 1] = "!--"
  BY SettledByte DEF Read, Settled, Blank
<1>3. reading[k + 2] = "--"
  <2>1. (k + 1) + 1 = k + 2 /\ k + 1 \in Nat /\ 1 <= k + 1 /\ k + 1 < Len(dtd)
    BY <1>1 DEF Shape
  <2>2. reading[k + 2] = Read(reading[k + 1], k + 1)
    BY <2>1, NextByte
  <2> QED
    BY <2>2, <1>2 DEF Read, Settled
<1>4. reading[k + 3] = "-<"
  <2>1. (k + 2) + 1 = k + 3 /\ k + 2 \in Nat /\ 1 <= k + 2 /\ k + 2 < Len(dtd)
    BY <1>1 DEF Shape
  <2>2. reading[k + 3] = Read(reading[k + 2], k + 2)
    BY <2>1, NextByte
  <2> QED
    BY <2>2, <1>3 DEF Read, Settled
<1>5. reading[k + 4] = "-"
  <2>1. (k + 3) + 1 = k + 4 /\ k + 3 \in Nat /\ 1 <= k + 3 /\ k + 3 < Len(dtd)
    BY <1>1 DEF Shape
  <2>2. reading[k + 4] = Read(reading[k + 3], k + 3)
    BY <2>1, NextByte
  <2> QED
    BY <2>2, <1>4 DEF Read, Settled
<1>6. ~End(k + 1) /\ ~End(k + 2) /\ ~End(k + 3)
  BY <1>2, <1>3, <1>4 DEF End, Found
<1>7. \A j \in k + 1 .. k + 3 : j = k + 1 \/ j = k + 2 \/ j = k + 3
  OBVIOUS
<1>8. Sync(k + 4, "-")
  BY <1>5 DEF Sync, State
<1> QED
  BY <1>1, <1>6, <1>7, <1>8

\* A closing delimiter is read as three bytes.
LEMMA Closing ==
  ASSUME Shape, NEW k \in Nat, 1 <= k, k < Len(dtd), Sync(k, "-"), Closes(k)
  PROVE  /\ k + 3 <= Len(dtd)
         /\ Sync(k + 3, "top")
         /\ \A j \in k + 1 .. k + 2 : ~End(j)
<1>1. k + 3 <= Len(dtd)
  <2>1. ByteAt(Len(dtd), k + 2) = ">"
    BY DEF Closes
  <2>2. k + 2 < Len(dtd)
    BY <2>1 DEF ByteAt
  <2> QED
    BY <2>2 DEF Shape
<1>2. reading[k + 1] = "->"
  BY SettledByte DEF Read, Settled, Blank
<1>3. reading[k + 2] = ">"
  <2>1. (k + 1) + 1 = k + 2 /\ k + 1 \in Nat /\ 1 <= k + 1 /\ k + 1 < Len(dtd)
    BY <1>1 DEF Shape
  <2>2. reading[k + 2] = Read(reading[k + 1], k + 1)
    BY <2>1, NextByte
  <2> QED
    BY <2>2, <1>2 DEF Read, Settled
<1>4. reading[k + 3] = "top"
  <2>1. (k + 2) + 1 = k + 3 /\ k + 2 \in Nat /\ 1 <= k + 2 /\ k + 2 < Len(dtd)
    BY <1>1 DEF Shape
  <2>2. reading[k + 3] = Read(reading[k + 2], k + 2)
    BY <2>1, NextByte
  <2> QED
    BY <2>2, <1>3 DEF Read, Settled
<1>5. ~End(k + 1) /\ ~End(k + 2)
  BY <1>2, <1>3 DEF End, Found
<1>6. \A j \in k + 1 .. k + 2 : j = k + 1 \/ j = k + 2
  OBVIOUS
<1>7. Sync(k + 3, "top")
  BY <1>4 DEF Sync, State
<1> QED
  BY <1>1, <1>5, <1>6, <1>7

-----------------------------------------------------------------------------
(* One iteration of the loop keeps the scan on the reading's trail.        *)

\* The scan agrees at an offset from which it starts afresh.
LEMMA Restart ==
  ASSUME NEW k \in Nat, NEW m \in Nat, k <= m, NEW l, NEW st, k >= 1,
         PassedBy(k), \A j \in k .. m - 1 : ~End(j), Sync(m, st)
  PROVE  Trail(m, l, m, st, m)
<1>1. PassedBy(m)
  <2>1. ASSUME NEW j \in 1 .. m - 1 PROVE ~End(j)
    <3>1. CASE j < k
      BY <3>1 DEF PassedBy
    <3>2. CASE j >= k
      BY <3>2
    <3> QED
      BY <3>1, <3>2
  <2> QED
    BY <2>1 DEF PassedBy
<1>2. m \in m .. m /\ \A j \in m .. m : j = m
  OBVIOUS
<1> QED
  BY <1>1, <1>2 DEF Trail

\* The scan agrees one byte further, in the same literal or outside any.
LEMMA Slide ==
  ASSUME NEW k \in Nat, NEW s \in Nat, NEW l, NEW st, NEW st2, k >= 1,
         Trail(k, l, k, st, s), ~End(k), Sync(k + 1, st2),
         st2 \in {"top", "-"} => st2 = st
  PROVE  Trail(k + 1, l, k + 1, st2, s)
<1>1. PassedBy(k) /\ k \in s .. k
  BY DEF Trail
<1>2. PassedBy(k + 1)
  <2>1. ASSUME NEW j \in 1 .. (k + 1) - 1 PROVE ~End(j)
    <3>1. CASE j = k
      BY <3>1
    <3>2. CASE j # k
      <4>1. j \in 1 .. k - 1
        BY <3>2
      <4> QED
        BY <4>1, <1>1 DEF PassedBy
    <3> QED
      BY <3>1, <3>2
  <2> QED
    BY <2>1 DEF PassedBy
<1>3. ASSUME st2 \in {"top", "-"}, NEW j \in s .. k + 1 PROVE Sync(j, st2)
  <2>1. CASE j = k + 1
    BY <2>1
  <2>2. CASE j # k + 1
    <3>1. j \in s .. k
      BY <2>2
    <3> QED
      BY <3>1, <1>3 DEF Trail
  <2> QED
    BY <2>1, <2>2
<1>4. k + 1 \in s .. k + 1
  BY <1>1
<1> QED
  BY <1>2, <1>3, <1>4 DEF Trail

\* Behind a cut delimiter the scan only counts.
LEMMA Behind ==
  ASSUME Shape, NEW k \in Nat, k < received, NEW st, NEW s \in Nat, NEW p \in Nat,
         Trail(p, received, k, st, s), p < k
  PROVE  /\ Iterate(received, k, st, s) = [k |-> k + 1, st |-> st, s |-> s]
         /\ Trail(p, received, k + 1, st, s)
<1>1. Cut(p, received, st)
  BY DEF Trail
<1>2. Trail(p, received, k + 1, st, s)
  <2>1. p \in s .. k + 1
    BY DEF Trail
  <2> QED
    BY <1>1, <2>1 DEF Trail
<1>3. received \in Nat /\ Len(dtd) \in Nat /\ received <= Len(dtd)
  BY DEF Shape
<1>4. ByteAt(received, k) = dtd[k + 1]
  BY DEF ByteAt
<1>5. CASE st = "top"
  <2>1. Opens(p) /\ received < p + 4
    BY <1>1, <1>5 DEF Cut
  <2>2. k = p + 1 \/ k = p + 2
    BY <2>1, <1>3
  <2>3. dtd[k + 1] \in {"!", "-"}
    <3>1. ByteAt(Len(dtd), k) \in {"!", "-"}
      BY <2>1, <2>2 DEF Opens
    <3> QED
      BY <3>1, <1>3 DEF ByteAt
  <2> QED
    BY <1>2, <1>4, <1>5, <2>3 DEF Iterate, Blank, Quote
<1>6. CASE st = "-"
  <2>1. Closes(p) /\ received < p + 3
    BY <1>1, <1>6 DEF Cut
  <2>2. k + 1 >= received
    BY <2>1, <1>3
  <2>3. ByteAt(received, k + 1) = "NUL"
    BY <2>2, <1>3 DEF ByteAt
  <2> QED
    BY <1>2, <1>6, <2>3 DEF Iterate, Blank, Quote
<1> QED
  BY <1>1, <1>5, <1>6 DEF Cut

\* What an iteration must give: a bounded index, and a trail up to it.
Goes(n) == /\ n.k \in Nat /\ n.k <= received /\ n.s \in Nat /\ 1 <= n.s
           /\ \E q \in Nat : Trail(q, received, n.k, n.st, n.s)

\* A state, and an index that starts afresh or only moves on.
LEMMA GoesTo ==
  ASSUME NEW k \in Nat, k <= received, NEW st, NEW s \in Nat, 1 <= s,
         NEW q \in Nat, Trail(q, received, k, st, s)
  PROVE  Goes([k |-> k, st |-> st, s |-> s])
BY DEF Goes

\* Outside literals and comments.
LEMMA AtTop ==
  ASSUME Shape, NEW k \in Nat, 1 <= k, k < received, NEW s \in Nat, 1 <= s,
         Trail(k, received, k, "top", s), ~End(k)
  PROVE  Goes(Iterate(received, k, "top", s))
<1> DEFINE cur == dtd[k + 1]
<1>1. received \in Nat /\ Len(dtd) \in Nat /\ received <= Len(dtd)
  BY DEF Shape
<1>2. ByteAt(received, k) = cur
  BY DEF ByteAt
<1>3. Sync(k, "top") /\ PassedBy(k)
  BY DEF Trail
<1>4. CASE Opens(k) /\ k + 4 <= received
  <2>1. cur = "<" /\ ByteAt(received, k + 1) = "!"
        /\ ByteAt(received, k + 2) = "-" /\ ByteAt(received, k + 3) = "-"
    BY <1>1, <1>4 DEF Opens, ByteAt
  <2>2. Iterate(received, k, "top", s) = [k |-> k + 4, st |-> "-", s |-> k + 4]
    BY <1>2, <2>1 DEF Iterate, Blank, Quote
  <2>3. Sync(k + 4, "-") /\ \A j \in k + 1 .. k + 3 : ~End(j)
    BY <1>1, <1>3, <1>4, Opening
  <2>4. \A j \in k .. (k + 4) - 1 : j = k \/ j \in k + 1 .. k + 3
    OBVIOUS
  <2>5. Trail(k + 4, received, k + 4, "-", k + 4)
    BY <1>3, <2>3, <2>4, Restart
  <2> QED
    BY <1>4, <2>2, <2>5, GoesTo
<1>5. CASE Opens(k) /\ received < k + 4
  <2>1. cur = "<"
    BY <1>5 DEF Opens
  <2>2. ByteAt(received, k + 3) = "NUL"
    BY <1>1, <1>5 DEF ByteAt
  <2>3. Iterate(received, k, "top", s) = [k |-> k + 1, st |-> "top", s |-> s]
    BY <1>2, <2>1, <2>2 DEF Iterate, Blank, Quote
  <2>4. Trail(k, received, k + 1, "top", s)
    <3>1. k \in s .. k /\ k \in s .. k + 1
      BY DEF Trail
    <3>2. Cut(k, received, "top")
      BY <1>5 DEF Cut
    <3> QED
      BY <3>1, <3>2 DEF Trail
  <2> QED
    BY <1>1, <2>3, <2>4, GoesTo
<1>6. CASE ~Opens(k)
  <2>1. ~(cur = "<" /\ ByteAt(received, k + 1) = "!"
          /\ ByteAt(received, k + 2) = "-" /\ ByteAt(received, k + 3) = "-")
    BY <1>1, <1>6 DEF Opens, ByteAt
  <2>2. Iterate(received, k, "top", s)
          = [k |-> k + 1, st |-> After("top", cur), s |-> s]
    BY <1>2, <2>1 DEF Iterate, After, Blank, Quote
  <2>3. Settled("top", cur) = "top"
    BY DEF Settled
  <2>4. Sync(k + 1, After("top", cur))
    BY <1>1, <1>3, <1>6, <2>3, PlainByte
  <2>5. After("top", cur) \in {"top", "-"} => After("top", cur) = "top"
    BY DEF After, Quote
  <2>6. Trail(k + 1, received, k + 1, After("top", cur), s)
    BY <2>4, <2>5, Slide
  <2> QED
    BY <1>1, <2>2, <2>6, GoesTo
<1> QED
  BY <1>1, <1>4, <1>5, <1>6

\* Inside a comment.
LEMMA InComment ==
  ASSUME Shape, NEW k \in Nat, 1 <= k, k < received, NEW s \in Nat, 1 <= s,
         Trail(k, received, k, "-", s), ~End(k)
  PROVE  Goes(Iterate(received, k, "-", s))
<1> DEFINE cur == dtd[k + 1]
<1>1. received \in Nat /\ Len(dtd) \in Nat /\ received <= Len(dtd)
  BY DEF Shape
<1>2. ByteAt(received, k) = cur
  BY DEF ByteAt
<1>3. Sync(k, "-") /\ PassedBy(k)
  BY DEF Trail
<1>4. CASE Closes(k) /\ k + 3 <= received
  <2>1. cur = "-" /\ ByteAt(received, k + 1) = "-" /\ ByteAt(received, k + 2) = ">"
    BY <1>1, <1>4 DEF Closes, ByteAt
  <2>2. Iterate(received, k, "-", s) = [k |-> k + 3, st |-> "top", s |-> k + 3]
    BY <1>2, <2>1 DEF Iterate, Blank, Quote
  <2>3. Sync(k + 3, "top") /\ \A j \in k + 1 .. k + 2 : ~End(j)
    BY <1>1, <1>3, <1>4, Closing
  <2>4. \A j \in k .. (k + 3) - 1 : j = k \/ j \in k + 1 .. k + 2
    OBVIOUS
  <2>5. Trail(k + 3, received, k + 3, "top", k + 3)
    BY <1>3, <2>3, <2>4, Restart
  <2> QED
    BY <1>4, <2>2, <2>5, GoesTo
<1>5. CASE Closes(k) /\ received < k + 3
  <2>1. ByteAt(received, k + 2) = "NUL"
    BY <1>1, <1>5 DEF ByteAt
  <2>2. Iterate(received, k, "-", s) = [k |-> k + 1, st |-> "-", s |-> s]
    BY <1>2, <2>1 DEF Iterate, Blank, Quote
  <2>3. Trail(k, received, k + 1, "-", s)
    <3>1. k \in s .. k /\ k \in s .. k + 1
      BY DEF Trail
    <3>2. Cut(k, received, "-")
      BY <1>5 DEF Cut
    <3> QED
      BY <3>1, <3>2 DEF Trail
  <2> QED
    BY <1>1, <2>2, <2>3, GoesTo
<1>6. CASE ~Closes(k)
  <2>1. ~(cur = "-" /\ ByteAt(received, k + 1) = "-" /\ ByteAt(received, k + 2) = ">")
    BY <1>1, <1>6 DEF Closes, ByteAt
  <2>2. Iterate(received, k, "-", s) = [k |-> k + 1, st |-> "-", s |-> s]
    BY <1>2, <2>1 DEF Iterate, Blank, Quote
  <2>3. Settled("-", cur) = "-" /\ After("-", cur) = "-"
    BY DEF Settled, After, Quote
  <2>4. Sync(k + 1, "-")
    BY <1>1, <1>3, <1>6, <2>3, PlainByte
  <2>5. Trail(k + 1, received, k + 1, "-", s)
    BY <2>4, Slide
  <2> QED
    BY <1>1, <2>2, <2>5, GoesTo
<1> QED
  BY <1>1, <1>4, <1>5, <1>6

\* Inside a quoted literal.
LEMMA InLiteral ==
  ASSUME Shape, NEW k \in Nat, 1 <= k, k < received, NEW s \in Nat, 1 <= s,
         NEW st \in Quote, Trail(k, received, k, st, s), ~End(k)
  PROVE  Goes(Iterate(received, k, st, s))
<1> DEFINE cur == dtd[k + 1]
<1>1. received \in Nat /\ Len(dtd) \in Nat /\ received <= Len(dtd)
  BY DEF Shape
<1>2. ByteAt(received, k) = cur
  BY DEF ByteAt
<1>3. Sync(k, st) /\ PassedBy(k)
  BY DEF Trail
<1>4. Settled(st, cur) = st /\ st # "top" /\ st # "-"
  BY DEF Settled, Quote
<1>5. Sync(k + 1, After(st, cur))
  BY <1>1, <1>3, <1>4, PlainByte
<1>6. CASE cur = st
  <2>1. Iterate(received, k, st, s) = [k |-> k + 1, st |-> "top", s |-> k + 1]
    BY <1>2, <1>6 DEF Iterate, Blank, Quote
  <2>2. Sync(k + 1, "top")
    BY <1>5, <1>6 DEF After, Quote
  <2>3. \A j \in k .. (k + 1) - 1 : j = k
    OBVIOUS
  <2>4. Trail(k + 1, received, k + 1, "top", k + 1)
    BY <1>3, <2>2, <2>3, Restart
  <2> QED
    BY <1>1, <2>1, <2>4, GoesTo
<1>7. CASE cur # st
  <2>1. Iterate(received, k, st, s) = [k |-> k + 1, st |-> st, s |-> s]
    BY <1>2, <1>7 DEF Iterate, Blank, Quote
  <2>2. Sync(k + 1, st)
    BY <1>5, <1>7 DEF After, Quote
  <2>3. Trail(k + 1, received, k + 1, st, s)
    BY <1>4, <2>2, Slide
  <2> QED
    BY <1>1, <2>1, <2>3, GoesTo
<1> QED
  BY <1>6, <1>7

\* After a bracket, or a blank that follows one.
LEMMA AfterBracket ==
  ASSUME Shape, NEW k \in Nat, 1 <= k, k < received, NEW s \in Nat, 1 <= s,
         NEW st \in {"]", "sp"}, Trail(k, received, k, st, s), ~End(k)
  PROVE  Goes(Iterate(received, k, st, s))
<1> DEFINE cur == dtd[k + 1]
<1>1. received \in Nat /\ Len(dtd) \in Nat /\ received <= Len(dtd)
  BY DEF Shape
<1>2. ByteAt(received, k) = cur
  BY DEF ByteAt
<1>3. Sync(k, st) /\ PassedBy(k)
  BY DEF Trail
<1>4. CASE Settled(st, cur) = st
  <2>1. cur \in Blank \/ (st = "]" /\ cur = "]")
    BY <1>4 DEF Settled, Blank
  <2>2. Iterate(received, k, st, s) = [k |-> k + 1, st |-> After(st, cur), s |-> s]
    BY <1>2, <2>1 DEF Iterate, After, Blank, Quote
  <2>3. After(st, cur) \in {"]", "sp"}
    BY <2>1 DEF After, Quote, Blank
  <2>4. Sync(k + 1, After(st, cur))
    BY <1>1, <1>3, <1>4, PlainByte
  <2>5. Trail(k + 1, received, k + 1, After(st, cur), s)
    BY <2>3, <2>4, Slide
  <2> QED
    BY <1>1, <2>2, <2>5, GoesTo
<1>5. CASE Settled(st, cur) # st
  <2>1. Settled(st, cur) = "top"
        /\ (cur \notin Blank \cup {"]"} \/ (st = "sp" /\ cur = "]"))
    BY <1>5 DEF Settled
  <2>2. Iterate(received, k, st, s) = [k |-> k, st |-> "top", s |-> k]
    BY <1>2, <2>1 DEF Iterate, Blank, Quote
  <2>3. st = reading[k]
    BY <1>3 DEF Sync, Settled
  <2>4. Sync(k, "top")
    BY <1>1, <2>1, <2>3 DEF Sync, State
  <2>5. Trail(k, received, k, "top", k)
    <3>1. \A j \in k .. k - 1 : ~End(j)
      OBVIOUS
    <3> QED
      BY <1>3, <2>4, <3>1, Restart
  <2> QED
    BY <1>1, <2>2, <2>5, GoesTo
<1> QED
  BY <1>4, <1>5

LEMMA Iterates ==
  ASSUME Shape, NEW k \in Nat, 1 <= k, k < received, NEW s \in Nat, 1 <= s, NEW st,
         NEW p \in Nat, Trail(p, received, k, st, s), ~Found(received, k, st)
  PROVE  Goes(Iterate(received, k, st, s))
<1>1. p \in s .. k
  BY DEF Trail
<1>2. CASE p < k
  <2>1. /\ Iterate(received, k, st, s) = [k |-> k + 1, st |-> st, s |-> s]
        /\ Trail(p, received, k + 1, st, s)
    BY <1>2, Behind
  <2>2. k + 1 \in Nat /\ k + 1 <= received
    BY DEF Shape
  <2> QED
    BY <2>1, <2>2, GoesTo
<1>3. CASE p = k
  <2>1. Trail(k, received, k, st, s) /\ Sync(k, st)
    BY <1>3 DEF Trail
  <2>2. ~End(k)
    BY <2>1, EndHere
  <2>3. st \in {"top", "-"} \cup {"]", "sp"} \cup Quote
    BY <2>1 DEF Sync, State, Blank
  <2> QED
    BY <2>1, <2>2, <2>3, AtTop, InComment, InLiteral, AfterBracket
<1> QED
  BY <1>1, <1>2, <1>3

\* A scan at the end of what was received has passed no end, and steps back to
\* where it agrees with the reading.
LEMMA AtLimit ==
  ASSUME Shape, received >= 1, index = received, start \in Nat, 1 <= start,
         NEW p \in Nat, Trail(p, received, index, state, start)
  PROVE  /\ \A k \in 1 .. received - 1 : ~End(k)
         /\ StepBack \in 1 .. received /\ received - StepBack <= 3
         /\ Sync(StepBack, state) /\ PassedBy(StepBack)
<1>1. received \in Nat /\ Len(dtd) \in Nat /\ received <= Len(dtd)
  BY DEF Shape
<1>2. p \in start .. received /\ PassedBy(p) /\ Sync(p, state)
  BY DEF Trail
<1>3. \A k \in p .. received - 1 : ~End(k)
  <2>1. CASE p = received
    BY <1>1, <2>1
  <2>2. CASE p # received
    <3>1. Cut(p, received, state)
      BY <2>2 DEF Trail
    <3>2. ASSUME NEW k \in p .. received - 1 PROVE ByteAt(Len(dtd), k) # ">"
      <4>1. CASE Opens(p) /\ received < p + 4
        <5>1. k = p \/ k = p + 1 \/ k = p + 2
          BY <1>1, <4>1
        <5>2. ByteAt(Len(dtd), p) = dtd[p + 1]
          BY <1>1, <1>2, <3>2 DEF ByteAt
        <5> QED
          BY <4>1, <5>1, <5>2 DEF Opens
      <4>2. CASE Closes(p) /\ received < p + 3
        <5>1. k = p \/ k = p + 1
          BY <1>1, <4>2
        <5>2. ByteAt(Len(dtd), p) = dtd[p + 1]
          BY <1>1, <1>2, <3>2 DEF ByteAt
        <5> QED
          BY <4>2, <5>1, <5>2 DEF Closes
      <4> QED
        BY <3>1, <4>1, <4>2 DEF Cut
    <3> QED
      BY <3>2 DEF End, Found
  <2> QED
    BY <2>1, <2>2
<1>4. \A k \in 1 .. received - 1 : ~End(k)
  <2>1. ASSUME NEW k \in 1 .. received - 1 PROVE ~End(k)
    <3>1. CASE k < p
      <4>1. k \in 1 .. p - 1
        BY <3>1
      <4> QED
        BY <4>1, <1>2 DEF PassedBy
    <3>2. CASE k >= p
      BY <1>1, <1>3, <3>2
    <3> QED
      BY <1>1, <3>1, <3>2
  <2> QED
    BY <2>1
<1>5. StepBack \in 1 .. received /\ received - StepBack <= 3
  BY <1>1, <1>2 DEF StepBack
<1>6. Sync(StepBack, state)
  <2>1. CASE state \in {"top", "-"}
    <3>1. p = received \/ received < p + 4
      BY <1>1 DEF Trail, Cut
    <3>2. StepBack \in start .. p
      BY <1>1, <1>2, <2>1, <3>1 DEF StepBack
    <3> QED
      BY <2>1, <3>2 DEF Trail
  <2>2. CASE state \notin {"top", "-"}
    <3>1. p = received
      BY <2>2 DEF Trail, Cut
    <3> QED
      BY <1>2, <2>2, <3>1 DEF StepBack
  <2> QED
    BY <2>1, <2>2
<1>7. PassedBy(StepBack)
  <2>1. \A k \in 1 .. StepBack - 1 : k \in 1 .. received - 1
    BY <1>1, <1>5
  <2> QED
    BY <1>4, <2>1 DEF PassedBy
<1> QED
  BY <1>4, <1>5, <1>6, <1>7

-----------------------------------------------------------------------------
(* The invariant.                                                          *)

LEMMA Initially == SubsetInit => SubsetIInv
<1> SUFFICES ASSUME SubsetInit PROVE SubsetIInv
  OBVIOUS
<1>1. Shape
  BY SubsetAssumption DEF SubsetInit, Shape
<1>2. Scanning /\ Parked /\ AnswerIsRight /\ BoundedRescan
  BY DEF SubsetInit, Scanning, Parked, AnswerIsRight, BoundedRescan
<1> QED
  BY <1>1, <1>2 DEF SubsetIInv

\* The reading does not change, and with it what a trail says.
LEMMA TrailStill ==
  ASSUME dtd' = dtd, reading' = reading,
         \E p \in Nat : Trail(p, received', index', state', start')
  PROVE  (\E p \in Nat : Trail(p, received, index, state, start))'
BY DEF Trail, Cut, Opens, Closes, ByteAt, Sync, PassedBy, Settled, State, End,
       Found, Blank, Quote

LEMMA ShapeKept ==
  ASSUME Shape, dtd' = dtd, reading' = reading, received' \in 0 .. Len(dtd)
  PROVE  Shape'
<1>1. IsReading(reading)'
  BY DEF Shape, IsReading, Read, After, Settled, Opens, Closes, ByteAt, Blank,
         Quote
<1> QED
  BY <1>1 DEF Shape

\* A parked offset stays good as more is received.
LEMMA ParkedKept ==
  ASSUME Shape, Parked, dtd' = dtd, reading' = reading, parkedScan' = parkedScan,
         received' \in Nat, received <= received'
  PROVE  Parked'
<1>1. CASE parkedScan = NoPark
  BY <1>1 DEF Parked, NoPark
<1>2. CASE /\ parkedScan.checked \in 1 .. received
           /\ Sync(parkedScan.checked, parkedScan.state)
           /\ PassedBy(parkedScan.checked)
  <2> DEFINE c == parkedScan.checked
             s == parkedScan.state
  <2>1. c \in 1 .. received'
    BY <1>2 DEF Shape
  <2> HIDE DEF c, s
  <2>2. Sync(c, s)' = Sync(c, s) /\ PassedBy(c)' = PassedBy(c)
    <3>1. c' = c /\ s' = s
      BY DEF c, s
    <3>2. Sync(c, s)' = Sync(c, s)
      BY <3>1 DEF Sync, Settled, End, Found, ByteAt, State, Blank, Quote
    <3>3. PassedBy(c)' = PassedBy(c)
      BY <3>1 DEF PassedBy, End, Found, ByteAt, Blank, Quote
    <3> QED
      BY <3>2, <3>3
  <2>3. c' = c
    BY DEF c
  <2> QED
    BY <1>2, <2>1, <2>2, <2>3 DEF Parked, c, s
<1> QED
  BY <1>1, <1>2 DEF Parked

LEMMA ReceiveKeeps == ASSUME SubsetIInv, SubsetReceive PROVE SubsetIInv'
<1>1. /\ Shape /\ Parked /\ dtd' = dtd /\ reading' = reading /\ parkedScan' = parkedScan
      /\ inScan' = FALSE /\ answer' = "none"
  BY DEF SubsetIInv, SubsetReceive
<1>2. ~inScan'
  BY DEF SubsetReceive
<1>3. received' \in 0 .. Len(dtd) /\ received' \in Nat /\ received <= received'
  BY <1>1 DEF SubsetReceive, Shape
<1>4. Shape' /\ Parked'
  BY <1>1, <1>3, ShapeKept, ParkedKept
<1>5. Scanning' /\ AnswerIsRight' /\ BoundedRescan'
  BY <1>1, <1>2 DEF Scanning, AnswerIsRight, BoundedRescan
<1> QED
  BY <1>4, <1>5 DEF SubsetIInv

LEMMA BeginKeeps == ASSUME SubsetIInv, SubsetBegin PROVE SubsetIInv'
<1>1. /\ Shape /\ Parked /\ dtd' = dtd /\ reading' = reading /\ parkedScan' = parkedScan
      /\ received' = received /\ answer = "none" /\ answer' = "none" /\ received >= 1
      /\ start' = index'
  BY DEF SubsetIInv, SubsetBegin
<1>2. received \in Nat /\ received \in 0 .. Len(dtd)
  BY <1>1 DEF Shape
<1>3. Shape' /\ Parked'
  BY <1>1, <1>2, ShapeKept, ParkedKept
<1>4. index' \in 1 .. received /\ Sync(index', state') /\ PassedBy(index')
  <2>1. CASE Resumable
    <3>1. parkedScan # NoPark
      BY <2>1 DEF Resumable, NoPark
    <3>2. index' = parkedScan.checked /\ state' = parkedScan.state
      BY <2>1 DEF SubsetBegin
    <3> QED
      BY <1>1, <3>1, <3>2 DEF Parked
  <2>2. CASE ~Resumable
    <3>1. index' = 1 /\ state' = "top"
      BY <2>2 DEF SubsetBegin
    <3> QED
      BY <1>1, <1>2, <3>1, FirstByte
  <2> QED
    BY <2>1, <2>2
<1>5. Trail(index', received', index', state', start')
  <2>1. ASSUME NEW k \in Nat, k >= 1, NEW l, NEW st, Sync(k, st), PassedBy(k)
        PROVE  Trail(k, l, k, st, k)
    <3>1. \A j \in k .. k - 1 : ~End(j)
      OBVIOUS
    <3> QED
      BY <2>1, <3>1, Restart
  <2> QED
    BY <1>1, <1>4, <2>1
<1>6. Scanning'
  <2>1. \E q \in Nat : Trail(q, received', index', state', start')
    BY <1>4, <1>5
  <2>2. (\E q \in Nat : Trail(q, received, index, state, start))'
    BY <1>1, <2>1, TrailStill
  <2> QED
    BY <1>1, <1>4, <2>2 DEF Scanning
<1>7. AnswerIsRight' /\ BoundedRescan'
  BY <1>1 DEF AnswerIsRight, BoundedRescan
<1> QED
  BY <1>3, <1>6, <1>7 DEF SubsetIInv

LEMMA StepKeeps == ASSUME SubsetIInv, Step PROVE SubsetIInv'
<1>1. /\ Shape /\ Parked /\ dtd' = dtd /\ reading' = reading /\ parkedScan' = parkedScan
      /\ received' = received /\ answer' = answer /\ inScan' = inScan
      /\ inScan /\ index < received /\ ~Found(received, index, state)
  BY DEF SubsetIInv, Step
<1>2. received \in Nat /\ received \in 0 .. Len(dtd)
  BY <1>1 DEF Shape
<1>3. Shape' /\ Parked'
  BY <1>1, <1>2, ShapeKept, ParkedKept
<1>4. /\ 1 <= start /\ start \in Nat /\ index \in Nat /\ answer = "none"
      /\ \E p \in Nat : Trail(p, received, index, state, start)
  BY <1>1 DEF SubsetIInv, Scanning
<1>5. 1 <= index
  BY <1>4 DEF Trail
<1>6. Goes(Iterate(received, index, state, start))
  BY <1>1, <1>4, <1>5, Iterates
<1>7. /\ index' \in Nat /\ index' <= received /\ start' \in Nat /\ 1 <= start'
      /\ \E q \in Nat : Trail(q, received', index', state', start')
  BY <1>1, <1>6 DEF Goes, Step
<1>8. (\E q \in Nat : Trail(q, received, index, state, start))'
  BY <1>1, <1>7, TrailStill
<1>9. Scanning' /\ AnswerIsRight' /\ BoundedRescan'
  BY <1>1, <1>4, <1>7, <1>8 DEF Scanning, AnswerIsRight, BoundedRescan
<1> QED
  BY <1>3, <1>9 DEF SubsetIInv

LEMMA HitKeeps == ASSUME SubsetIInv, SubsetHit PROVE SubsetIInv'
<1>1. /\ Shape /\ dtd' = dtd /\ reading' = reading /\ parkedScan' = NoPark /\ index' = index
      /\ received' = received /\ answer' = "found" /\ inScan' = FALSE
      /\ inScan /\ index < received /\ Found(received, index, state)
  BY DEF SubsetIInv, SubsetHit
<1>2. received \in Nat /\ received \in 0 .. Len(dtd)
  BY <1>1 DEF Shape
<1>3. Shape' /\ Parked'
  BY <1>1, <1>2, ShapeKept DEF Parked, NoPark
<1>4. PICK p \in Nat : Trail(p, received, index, state, start)
  BY <1>1 DEF SubsetIInv, Scanning
<1>5. state \in {"]", "sp"} /\ index \in Nat
  BY <1>1 DEF Found, SubsetIInv, Scanning
<1>6. Sync(index, state) /\ PassedBy(index)
  BY <1>4, <1>5 DEF Trail, Cut
<1>7. End(index) /\ \A k \in 1 .. index - 1 : ~End(k)
  BY <1>1, <1>5, <1>6, EndHere DEF PassedBy
<1>8. AnswerIsRight'
  <2>1. (End(index) /\ \A k \in 1 .. index - 1 : ~End(k))'
    BY <1>1, <1>7 DEF End, Found, ByteAt, Blank
  <2>2. (answer # "parked")'
    BY <1>1
  <2> QED
    BY <2>1, <2>2 DEF AnswerIsRight
<1>9. ~inScan'
  BY DEF SubsetHit
<1>10. Scanning' /\ BoundedRescan'
  BY <1>1, <1>9 DEF Scanning, BoundedRescan
<1> QED
  BY <1>3, <1>8, <1>10 DEF SubsetIInv

LEMMA MissKeeps == ASSUME SubsetIInv, SubsetMiss PROVE SubsetIInv'
<1>1. /\ Shape /\ dtd' = dtd /\ reading' = reading /\ index' = index
      /\ parkedScan' = [checked |-> StepBack, state |-> state]
      /\ received' = received /\ answer' = "parked" /\ inScan' = FALSE
      /\ inScan /\ index >= received
  BY DEF SubsetIInv, SubsetMiss
<1>2. received \in Nat /\ received \in 0 .. Len(dtd)
  BY <1>1 DEF Shape
<1>3. Shape'
  BY <1>1, <1>2, ShapeKept
<1>4. /\ index \in Nat /\ index <= received /\ start \in Nat /\ 1 <= start
      /\ \E p \in Nat : Trail(p, received, index, state, start)
  BY <1>1 DEF SubsetIInv, Scanning
<1>5. index = received /\ received >= 1
  BY <1>1, <1>2, <1>4 DEF Trail
<1>6. /\ \A k \in 1 .. received - 1 : ~End(k)
      /\ StepBack \in 1 .. received /\ received - StepBack <= 3
      /\ Sync(StepBack, state) /\ PassedBy(StepBack)
  BY <1>1, <1>4, <1>5, AtLimit
<1>7. parkedScan'.checked = StepBack /\ parkedScan'.state = state
  BY <1>1
<1>8. Sync(parkedScan'.checked, parkedScan'.state) /\ PassedBy(parkedScan'.checked)
  BY <1>6, <1>7
<1>9. (Sync(parkedScan.checked, parkedScan.state) /\ PassedBy(parkedScan.checked))'
  BY <1>1, <1>8 DEF Sync, PassedBy, Settled, End, Found, ByteAt, State, Blank, Quote
<1>10. (parkedScan.checked \in 1 .. received)'
  BY <1>1, <1>6, <1>7
<1>11. Parked'
  BY <1>9, <1>10 DEF Parked
<1>12. AnswerIsRight'
  <2>1. (\A k \in 1 .. received - 1 : ~End(k))'
    BY <1>1, <1>6 DEF End, Found, ByteAt, Blank
  <2>2. (answer # "found")'
    BY <1>1
  <2> QED
    BY <2>1, <2>2 DEF AnswerIsRight
<1>13. BoundedRescan'
  <2>1. StepBack \in Nat /\ 0 <= StepBack /\ StepBack <= received
    BY <1>6
  <2> QED
    BY <1>1, <1>6, <1>7, <2>1 DEF BoundedRescan, Resumable
<1>14. ~inScan'
  BY DEF SubsetMiss
<1>15. Scanning'
  BY <1>14 DEF Scanning
<1> QED
  BY <1>3, <1>11, <1>12, <1>13, <1>15 DEF SubsetIInv

\* The tokenizer's scan, and stuttering, change nothing the invariant reads.
LEMMA OthersKeep ==
  ASSUME SubsetIInv,
         UNCHANGED <<dtd, received, parkedScan, inScan, index, state, start, answer, reading>>
  PROVE  SubsetIInv'
<1>1. Shape /\ Shape'
  BY ShapeKept DEF SubsetIInv, Shape
<1>2. Parked'
  BY <1>1, ParkedKept DEF SubsetIInv, Shape
<1>3. Scanning'
  BY TrailStill DEF SubsetIInv, Scanning
<1>4. AnswerIsRight'
  BY DEF SubsetIInv, AnswerIsRight, End, Found, ByteAt, Blank
<1>5. BoundedRescan'
  BY DEF SubsetIInv, BoundedRescan, Resumable
<1> QED
  BY <1>1, <1>2, <1>3, <1>4, <1>5 DEF SubsetIInv

LEMMA IInvStep == SubsetIInv /\ [SubsetNext]_subsetVars => SubsetIInv'
<1> SUFFICES ASSUME SubsetIInv, [SubsetNext]_subsetVars PROVE SubsetIInv'
  OBVIOUS
<1>1. CASE SubsetReceive
  BY <1>1, ReceiveKeeps
<1>2. CASE SubsetBegin
  BY <1>2, BeginKeeps
<1>3. CASE Step
  BY <1>3, StepKeeps
<1>4. CASE SubsetHit
  BY <1>4, HitKeeps
<1>5. CASE SubsetMiss
  BY <1>5, MissKeeps
<1>6. CASE Scan
  BY <1>6, OthersKeep DEF Scan
<1>7. CASE UNCHANGED subsetVars
  BY <1>7, OthersKeep DEF subsetVars
<1> QED
  BY <1>1, <1>2, <1>3, <1>4, <1>5, <1>6, <1>7 DEF SubsetNext

LEMMA Inductive == SubsetSpec => []SubsetIInv
<1>1. SubsetInit => SubsetIInv
  BY Initially
<1>2. SubsetIInv /\ [SubsetNext]_subsetVars => SubsetIInv'
  BY IInvStep
<1> QED
  BY <1>1, <1>2, PTL DEF SubsetSpec

(***************************************************************************)
(* The resumed lookup of the internal subset answers as one byte by byte   *)
(* reading of the stream would, however the stream was cut.                *)
(***************************************************************************)
THEOREM SubsetAnswerIsRight == SubsetSpec => []AnswerIsRight
<1>1. SubsetIInv => AnswerIsRight
  BY DEF SubsetIInv
<1> QED
  BY <1>1, Inductive, PTL

(***************************************************************************)
(* A parked scan steps back by at most three bytes, whatever it has read.  *)
(***************************************************************************)
THEOREM SubsetRescanIsBounded == SubsetSpec => []BoundedRescan
<1>1. SubsetIInv => BoundedRescan
  BY DEF SubsetIInv
<1> QED
  BY <1>1, Inductive, PTL
=============================================================================
