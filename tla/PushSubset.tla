------------------------------ MODULE PushSubset ------------------------------
(***************************************************************************)
(* lookup_internal_subset: is the whole internal DTD subset, from its `['  *)
(* through `]' S? `>', received?  Quoted literals and comments hide        *)
(* brackets, so the scan keeps a state byte (0 is "top" here); because     *)
(* `<!--' and `-->' may be split across chunks, a parked scan steps back   *)
(* over at most three bytes, but never over the point where its state last *)
(* changed.                                                                *)
(*                                                                         *)
(* One action is one iteration of the loop.  The reference reads the whole *)
(* stream byte by byte, and never stops or looks back.                     *)
(* When the lookup succeeds, scan_doctype_subset takes the subset from the *)
(* input by its own rule; a terminating call scans without asking first    *)
(* and is not modelled here.                                               *)
(* Offsets are zero based; the cursor stays on the `[' at offset 0.        *)
(***************************************************************************)
EXTENDS Integers, Sequences, FiniteSets

CONSTANTS Subsets   \* the streams considered, sequences of byte classes

VARIABLES
  dtd, received,    \* the stream, and how much of it was received
  parkedScan,       \* ParkedConstruct::Subset [checked, state], or NoPark
  inScan,
  index, state, start,  \* the loop's locals, as absolute offsets
  answer,           \* "none", "found" or "parked"
  token,            \* scan_doctype_subset's `closed', once it has run
  reading           \* history: the reading of the whole stream

subsetVars == <<dtd, received, parkedScan, inScan, index, state, start, answer,
                token, reading>>

ASSUME SubsetAssumption == Subsets \subseteq Seq(STRING)

Blank == {"sp"}
Quote == {"'", "dq"}
NoPark == [checked |-> -1, state |-> "top"]

\* rem.get(k): the byte at an offset, or NUL at the end of what was received.
ByteAt(end, k) == IF k < end THEN dtd[k + 1] ELSE "NUL"

Found(end, k, st) == st \in {"]", "sp"} /\ ByteAt(end, k) = ">"

\* One iteration that does not find the end: the next index, state, start.
Iterate(end, k, st, s) ==
  LET cur == ByteAt(end, k)
      go(k2, st2, s2) == [k |-> k2, st |-> st2, s |-> s2]
  IN  CASE st = "-" /\ cur = "-"
              /\ ByteAt(end, k + 1) = "-" /\ ByteAt(end, k + 2) = ">"
             -> go(k + 3, "top", k + 3)
        [] st \in {"]", "sp"} /\ cur \in Blank  -> go(k + 1, "sp", s)
        [] st = "]" /\ cur = "]"                -> go(k + 1, "]", s)
        [] st \in {"]", "sp"} /\ cur \notin Blank \cup {"]"}
             -> go(k, "top", k)
        [] st = "sp" /\ cur = "]"               -> go(k, "top", k)
        [] st \in Quote /\ cur = st             -> go(k + 1, "top", k + 1)
        [] st = "top" /\ cur = "<" /\ ByteAt(end, k + 1) = "!"
              /\ ByteAt(end, k + 2) = "-" /\ ByteAt(end, k + 3) = "-"
             -> go(k + 4, "-", k + 4)
        [] st = "top" /\ cur \in Quote \cup {"]"} -> go(k + 1, cur, s)
        [] OTHER                                -> go(k + 1, st, s)

-----------------------------------------------------------------------------
(* The reference: what each byte of the whole stream is, read one by one.  *)

\* A bracket, or a blank after one, that does not go on to the end is forgotten.
Settled(st, b) ==
  IF \/ st \in {"]", "sp"} /\ b \notin Blank \cup {"]"}
     \/ st = "sp" /\ b = "]"
  THEN "top" ELSE st

After(st, b) ==
  CASE st \in {"]", "sp"}                   -> IF b \in Blank THEN "sp" ELSE "]"
    [] st \in Quote /\ b = st               -> "top"
    [] st = "top" /\ b \in Quote \cup {"]"} -> b
    [] OTHER                                -> st

Opens(k) == /\ dtd[k + 1] = "<" /\ ByteAt(Len(dtd), k + 1) = "!"
            /\ ByteAt(Len(dtd), k + 2) = "-" /\ ByteAt(Len(dtd), k + 3) = "-"
Closes(k) == /\ dtd[k + 1] = "-" /\ ByteAt(Len(dtd), k + 1) = "-"
             /\ ByteAt(Len(dtd), k + 2) = ">"

\* The state before each byte.  Inside `<!--' and `-->' it names what is left of
\* the delimiter (`-<' is the last byte of `<!--').
Read(st, k) ==
  LET b == dtd[k + 1]
  IN  CASE st = "!--" -> "--"
        [] st = "--"  -> "-<"
        [] st = "-<"  -> "-"
        [] st = "->"  -> ">"
        [] st = ">"   -> "top"
        [] Settled(st, b) = "top" /\ Opens(k) -> "!--"
        [] st = "-" /\ Closes(k)              -> "->"
        [] OTHER                              -> After(Settled(st, b), b)

Reading ==
  LET f[k \in 0 .. Len(dtd)] == IF k < 2 THEN "top" ELSE Read(f[k - 1], k - 1)
  IN  f

\* What the recursion says, for every byte.
IsReading(f) ==
  \A k \in 0 .. Len(dtd) : f[k] = IF k < 2 THEN "top" ELSE Read(f[k - 1], k - 1)

End(k) == Found(Len(dtd), k, reading[k])

----------------------------------------------------------------------------
SubsetInit == /\ dtd \in Subsets
              /\ received = 0
              /\ parkedScan = NoPark
              /\ inScan = FALSE
              /\ index = 0 /\ state = "top" /\ start = 0
              /\ answer = "none"
              /\ token = "none"
              /\ reading = Reading /\ IsReading(reading)

SubsetReceive == /\ ~inScan /\ answer # "found"
                 /\ \E n \in received .. Len(dtd) : received' = n
                 /\ answer' = "none"
                 /\ UNCHANGED <<dtd, parkedScan, inScan, index, state, start,
                                token, reading>>

Resumable == 0 <= parkedScan.checked /\ parkedScan.checked <= received

\* avail >= 1 is the driver loop's own gate.
SubsetBegin == /\ ~inScan /\ answer = "none" /\ received >= 1
               /\ inScan' = TRUE
               /\ index' = IF Resumable THEN parkedScan.checked ELSE 1
               /\ state' = IF Resumable THEN parkedScan.state ELSE "top"
               /\ start' = index'
               /\ UNCHANGED <<dtd, received, parkedScan, answer, token,
                              reading>>

Step == /\ inScan /\ index < received /\ ~Found(received, index, state)
        /\ LET n == Iterate(received, index, state, start)
           IN  index' = n.k /\ state' = n.st /\ start' = n.s
        /\ UNCHANGED <<dtd, received, parkedScan, inScan, answer, token,
                        reading>>

SubsetHit == /\ inScan /\ index < received /\ Found(received, index, state)
             /\ parkedScan' = NoPark
             /\ inScan' = FALSE
             /\ answer' = "found"
             /\ UNCHANGED <<dtd, received, index, state, start, token, reading>>

\* Faults: no rescan, one that passes the last change of state, and one of
\* everything since.
StepBack_None == index
StepBack_ToStart == IF state \in {"top", "-"} THEN start ELSE index

\* "Rescan the three last characters to detect `<!--' and `-->' split across
\* chunks."
StepBack == IF state \in {"top", "-"}
            THEN IF index - start < 3 THEN start ELSE index - 3
            ELSE index

SubsetMiss == /\ inScan /\ index >= received
              /\ parkedScan' = [checked |-> StepBack, state |-> state]
              /\ inScan' = FALSE
              /\ answer' = "parked"
              /\ UNCHANGED <<dtd, received, index, state, start, token, reading>>

----------------------------------------------------------------------------
(* scan_doctype_subset, run as soon as the lookup has found the end.       *)

\* The nesting depth once the byte at offset k is consumed: every bracket
\* counts, in a literal or a comment as well.
Depth(k) == Cardinality({j \in 0 .. k : dtd[j + 1] = "["})
              - Cardinality({j \in 0 .. k : dtd[j + 1] = "]"})

\* The first `]' at depth 0.
LastBracket(k) == /\ dtd[k + 1] = "]" /\ Depth(k) = 0
                  /\ \A j \in 0 .. k - 1 : dtd[j + 1] = "]" => Depth(j) > 0

Closed(end) ==
  \E k \in 0 .. end - 1 : LastBracket(k) /\ ByteAt(end, k + 1) = ">"

Scan == /\ answer = "found" /\ token = "none"
        /\ token' = IF Closed(received) THEN "closed" ELSE "short"
        /\ UNCHANGED <<dtd, received, parkedScan, inScan, index, state, start,
                        answer, reading>>

SubsetNext == \/ SubsetReceive \/ SubsetBegin \/ Step
              \/ SubsetHit \/ SubsetMiss \/ Scan

SubsetSpec == SubsetInit /\ [][SubsetNext]_subsetVars

----------------------------------------------------------------------------
(***************************************************************************)
(* The resumed lookup answers as one scan of the whole stream would: it    *)
(* finds the end of the subset where that scan finds it, and asks for more *)
(* only if that end has not arrived, though `<!--', `-->', a quoted        *)
(* literal or the final `] >' may be split between any two chunks.         *)
(***************************************************************************)
AnswerIsRight ==
  /\ answer = "found" => End(index) /\ \A k \in 1 .. index - 1 : ~End(k)
  /\ answer = "parked" => \A k \in 1 .. received - 1 : ~End(k)

(***************************************************************************)
(* The bounded rescan: a parked subset scan steps back at most three       *)
(* bytes, and its continuation is usable by the next call.                 *)
(***************************************************************************)
BoundedRescan ==
  answer = "parked" => received - parkedScan.checked <= 3 /\ Resumable

(***************************************************************************)
(* The gate and the scan agree: scan_doctype_subset is run on a subset     *)
(* known to be complete, so it consumes "through the matching depth-0 `]'  *)
(* and the `>' that must follow" (tokenizer.rs).                           *)
(***************************************************************************)
ScanReachesTheEnd == token # "short"
=============================================================================
