------------------------------ MODULE ParScan ------------------------------
(***************************************************************************)
(* The parallel structural scanner (src/src/xml/parser/scan/parallel.rs)   *)
(* and the tokenizer's use of it (src/src/xml/parser/tokenizer.rs): how    *)
(* far a run of comment, CDATA or text bytes goes, answered by a           *)
(* sequential scan, by ordered waves of blocks on the private pool, or by  *)
(* an index of the whole input that the pool builds once; and the check of *)
(* UTF-8 in blocks that begin at characters.                               *)
(*                                                                         *)
(* A block is scanned in one step, by any worker, in any order: workers    *)
(* read what does not change meanwhile and write a slot of their own.      *)
(* Entity inputs, which never use the index, the SIMD and GPU classifiers  *)
(* and the summary that only a measurement uses are left out.              *)
(***************************************************************************)
EXTENDS Naturals, Sequences, FiniteSets, FiniteSetsExt

CONSTANTS Inputs,      \* the documents, or the strings to be validated
          Block,       \* BLOCK, of the sequential prefix and of the waves
          Coarse,      \* COARSE, of the index
          Utf8Block,   \* UTF8_BLOCK
          Threads,     \* workers of the pool
          WaveMult,    \* WAVE_MULT, blocks of a wave for each worker
          Threshold,   \* where `auto' begins to use the pool
          Ratio,       \* INDEX_BREAKEVEN_RATIO, for one run
          Share,       \* the 8 of note_class_run, for many
          NoHit        \* no terminator, or no answer

ASCII == {"a", "<", "-", "]"}
Continuation == "80"
CharLen == [b \in ASCII \cup {"C3", "E2", "F0"} |->
             IF b = "C3" THEN 2 ELSE IF b = "E2" THEN 3 ELSE IF b = "F0" THEN 4 ELSE 1]
Byte == DOMAIN CharLen \cup {Continuation}

ASSUME ScanConstants ==
  /\ Inputs \subseteq Seq(Byte)
  /\ {Block, Coarse, Utf8Block, Threads, WaveMult, Ratio, Share} \subseteq Nat \ {0}
  /\ Threshold \in Nat /\ NoHit \notin Nat

\* What a run of each class may hold
Clean == [text |-> {"a", "-"}, comment |-> {"a", "<", "]"}, cdata |-> {"a", "<", "-"}]
Class == DOMAIN Clean

VARIABLES input,       \* all of the document
          mode,        \* LIBXML_RS_PARALLEL
          have,        \* how many of its bytes the base input has
          final,       \* the last call terminates: truncation is not silent
          pos,         \* the tokenizer's cursor
          index,       \* scan_index: for each coarse block, the first terminators
          attempted,   \* scan_index_attempted
          classBytes,  \* class_run_bytes
          ask,         \* the class asked about, "utf8", or "none"
          answer,      \* the answer to ask
          job,         \* what the pool works on
          done         \* its slots that are filled

parser == <<input, mode, have, final, pos>>
vars == <<parser, index, attempted, classBytes, ask, answer, job, done>>

-----------------------------------------------------------------------------
(* Blocks of the input, and what one worker finds in one *)

\* Where, from a position on, the first byte is that ends a run
Find(class, from, to) ==
  LET ends == {k \in from..(to - 1) : input[k + 1] \notin Clean[class]}
  IN IF ends = {} THEN NoHit ELSE Min(ends) - from
RunIn(class, from, to) ==
  LET hit == Find(class, from, to) IN IF hit = NoHit THEN to - from ELSE hit

\* par_chunks
Even(from, to, size) ==
  [i \in 1..((to - from + size - 1) \div size) |-> from + (i - 1) * size]

\* A fault: a block may begin within a character.
LeadStarts_Even == Even(0, have, Utf8Block)

\* The blocks of utf8_is_valid_lax begin at bytes that continue nothing.
LeadStarts ==
  LET lead(s) == Min({e \in (s + Utf8Block)..have :
                        e = have \/ input[e + 1] # Continuation})
      from[s \in 0..have] ==
        IF s + Utf8Block >= have \/ lead(s) = have THEN <<s>> ELSE <<s>> \o from[lead(s)]
  IN from[0]

\* validate_lax_block: 1 if the bytes are valid, else 0
ValidLax(start, end) ==
  LET from[i \in start..end] ==
        \/ i = end
        \/ /\ input[i + 1] \in DOMAIN CharLen
           /\ i + CharLen[input[i + 1]] <= end
           /\ \A j \in (i + 2)..(i + CharLen[input[i + 1]]) : input[j] = Continuation
           /\ from[i + CharLen[input[i + 1]]]
  IN IF from[start] THEN 1 ELSE 0

-----------------------------------------------------------------------------
(* Configuration and index *)

Engages(len) ==
  \/ mode = "on" /\ len > 0
  \/ mode = "auto" /\ Threads > 1 /\ len >= Threshold
PerCallEngages(len) == mode = "on" /\ len > 0

\* A fault: an index is built of what a push parser has so far.
Eligible_Always == TRUE

\* scan_index_eligible, of the base input
Eligible == final

NoIndex == <<>>
HasIndex == index # NoIndex

\* StructIndex::run_len at offset off; NoHit where it cannot answer.
RunLen(class, off) ==
  LET bi == off \div Coarse + 1
      later == {j \in (bi + 1)..Len(index) : index[j][class] # NoHit}
  IN IF bi <= Len(index) /\ index[bi][class] # NoHit
     THEN IF index[bi][class] >= off % Coarse
          THEN index[bi][class] - (off % Coarse) ELSE NoHit
     ELSE IF later = {} THEN have - off
     ELSE Min({have, (Min(later) - 1) * Coarse + index[Min(later)][class]}) - off

\* run_len_indexed: what is left of a block that the index cannot answer for is
\* scanned, and at the next block the index can.
RunLenIndexed(class) ==
  LET blockEnd == Min({(pos \div Coarse + 1) * Coarse, have})
      local == Find(class, pos, blockEnd)
  IN IF RunLen(class, pos) # NoHit THEN RunLen(class, pos)
     ELSE IF local # NoHit THEN local
     ELSE IF blockEnd = have THEN have - pos
     ELSE blockEnd - pos + RunLen(class, blockEnd)

-----------------------------------------------------------------------------
(* Work of the pool *)

NoJob == [kind |-> "none"]
Idle == ask = "none"
Answer(run) == answer' = run /\ job' = NoJob /\ done' = <<>>
Dispatch(j) == job' = j /\ done' = <<>> /\ UNCHANGED answer

Wave(from) ==
  LET to == Min({from + Threads * WaveMult * Block, have})
  IN [kind |-> "wave", starts |-> Even(from, to, Block), to |-> to]
IndexJob(then) ==
  [kind |-> "index", starts |-> Even(0, have, Coarse), to |-> have, then |-> then]
Utf8Job == [kind |-> "utf8", starts |-> LeadStarts, to |-> have]

BlockEnd(i) == IF i < Len(job.starts) THEN job.starts[i + 1] ELSE job.to
Scan(from, to) ==
  CASE job.kind = "wave" -> Find(ask, from, to)
    [] job.kind = "index" -> [c \in Class |-> Find(c, from, to)]
    [] OTHER -> ValidLax(from, to)

\* A worker takes any block that is left.
Work ==
  /\ job # NoJob
  /\ \E i \in DOMAIN job.starts \ DOMAIN done :
       done' = [k \in DOMAIN done \cup {i} |->
                  IF k = i THEN Scan(job.starts[i], BlockEnd(i)) ELSE done[k]]
  /\ UNCHANGED <<parser, index, attempted, classBytes, ask, answer, job>>

-----------------------------------------------------------------------------
(* Questions *)

\* first_match_with: a sequential prefix, then waves.
FirstMatch(class) ==
  LET prefix == Min({Block, have - pos})
      hit == Find(class, pos, pos + prefix)
  IN IF ~PerCallEngages(have - pos) THEN Answer(RunIn(class, pos, have))
     ELSE IF hit # NoHit THEN Answer(hit)
     ELSE IF pos + prefix = have THEN Answer(have - pos)
     ELSE Dispatch(Wave(pos + prefix))

\* maybe_build_scan_index, and what is answered after it: then, or if that is
\* NoHit what the index says.
BuildIndex(class, then) ==
  /\ attempted' = TRUE
  /\ IF Engages(have) THEN Dispatch(IndexJob(then))
     ELSE IF then # NoHit THEN Answer(then) ELSE FirstMatch(class)

Budget == Min({Max({have \div Ratio, Block}), Max({Threshold, Block})})
Enough == Max({have \div Share, 2 * Block})

\* class_content_run with a run that ended inside the probe: note_class_run
Exact(class, run) ==
  /\ classBytes' = classBytes + run
  /\ IF run > 0 /\ classBytes' >= Enough THEN BuildIndex(class, run)
     ELSE Answer(run) /\ UNCHANGED attempted

\* class_content_run, and the bulk step of scan_characters
AskRun(class) ==
  /\ Idle /\ pos < have /\ ask' = class
  /\ LET probed == Min({Budget, have - pos})
         hit == Find(class, pos, pos + probed)
     IN IF HasIndex
        THEN Answer(RunLenIndexed(class)) /\ UNCHANGED <<attempted, classBytes>>
        ELSE IF class # "text" /\ mode # "off" /\ Eligible /\ ~attempted
        THEN IF hit # NoHit THEN Exact(class, hit)
             ELSE IF probed = have - pos THEN Exact(class, probed)
             ELSE BuildIndex(class, NoHit) /\ UNCHANGED classBytes
        ELSE /\ IF class = "text" /\ have - pos < Block
                THEN Answer(RunIn(class, pos, have))
                ELSE FirstMatch(class)
             /\ UNCHANGED <<attempted, classBytes>>
  /\ UNCHANGED <<parser, index>>

\* utf8_is_valid_lax, of a whole string
AskUtf8 ==
  /\ Idle /\ pos = 0 /\ have = Len(input) /\ ask' = "utf8"
  /\ IF ~Engages(have) \/ Threads <= 1 THEN Answer(ValidLax(0, have))
                                       ELSE Dispatch(Utf8Job)
  /\ UNCHANGED <<parser, index, attempted, classBytes>>

\* Faults: a later block wins; a wave is followed by itself.
FirstHit_Last(hits) == Max(hits)
NextWave_Same == Wave(job.starts[1])

FirstHit(hits) == Min(hits)
NextWave == Wave(job.to)

AllDone == DOMAIN done = DOMAIN job.starts
CollectWave ==
  /\ job.kind = "wave" /\ AllDone
  /\ LET hits == {i \in DOMAIN done : done[i] # NoHit}
     IN IF hits # {}
        THEN LET i == FirstHit(hits) IN Answer(job.starts[i] + done[i] - pos)
        ELSE IF job.to = have THEN Answer(have - pos) ELSE Dispatch(NextWave)
  /\ UNCHANGED <<parser, index, attempted, classBytes, ask>>

\* The index is kept, and the next step answers from it.
CollectIndex ==
  /\ job.kind = "index" /\ AllDone
  /\ index' = [i \in DOMAIN job.starts |-> done[i]]
  /\ Answer(job.then)
  /\ UNCHANGED <<parser, attempted, classBytes, ask>>
Resolve ==
  /\ ask \in Class /\ answer = NoHit /\ job = NoJob
  /\ answer' = RunLenIndexed(ask)
  /\ UNCHANGED <<parser, index, attempted, classBytes, ask, job, done>>

\* `all' stops at the first block that is not valid.
CollectUtf8 ==
  /\ job.kind = "utf8"
  /\ AllDone \/ \E i \in DOMAIN done : done[i] = 0
  /\ Answer(Min({done[i] : i \in DOMAIN done}))
  /\ UNCHANGED <<parser, index, attempted, classBytes, ask>>

Collect == CollectWave \/ CollectIndex \/ Resolve \/ CollectUtf8

-----------------------------------------------------------------------------
(* The parser *)

Init ==
  /\ input \in Inputs /\ mode \in {"off", "on", "auto"}
  /\ have = 0 /\ final = FALSE /\ pos = 0
  /\ index = NoIndex /\ attempted = FALSE /\ classBytes = 0
  /\ ask = "none" /\ answer = NoHit /\ job = NoJob /\ done = <<>>

\* A chunk; a document that is pulled comes at once, in a final one.
Chunk(n, terminate) ==
  /\ Idle /\ ~final
  /\ have' = have + n /\ final' = terminate
  /\ UNCHANGED <<input, mode, pos, index, attempted, classBytes, ask, answer, job, done>>

\* The parser goes over the run, and over more bytes that it looks at singly.
Consume(more) ==
  /\ ask \in Class /\ answer # NoHit
  /\ answer + more > 0 /\ pos + answer + more <= have
  /\ pos' = pos + answer + more /\ ask' = "none" /\ answer' = NoHit
  /\ UNCHANGED <<input, mode, have, final, index, attempted, classBytes, job, done>>
Report ==
  /\ ask = "utf8" /\ answer # NoHit /\ ask' = "none" /\ answer' = NoHit
  /\ UNCHANGED <<parser, index, attempted, classBytes, job, done>>

Next ==
  \/ \E n \in 0..(Len(input) - have), terminate \in BOOLEAN : Chunk(n, terminate)
  \/ \E class \in Class : AskRun(class)
  \/ AskUtf8
  \/ Work
  \/ Collect
  \/ \E more \in 0..(have - pos) : Consume(more)
  \/ Report

\* Workers run, and the caller waits for nothing else.
Spec == Init /\ [][Next]_vars /\ WF_vars(Work) /\ WF_vars(Collect)

-----------------------------------------------------------------------------
(* Properties *)

\* A whole string is valid exactly if every byte that continues nothing has
\* the continuations it announces, and there are no others.
ValidText(bytes) ==
  \A i \in DOMAIN bytes :
    IF bytes[i] = Continuation
    THEN \E l \in 1..(i - 1) :
           /\ bytes[l] \in DOMAIN CharLen /\ i < l + CharLen[bytes[l]]
           /\ \A j \in (l + 1)..i : bytes[j] = Continuation
    ELSE /\ i + CharLen[bytes[i]] - 1 <= Len(bytes)
         /\ \A j \in (i + 1)..(i + CharLen[bytes[i]] - 1) : bytes[j] = Continuation

\* Whichever way the answer came about, in whichever order the workers ended, it
\* is the one that a sequential scan of the bytes received gives (parallel.rs
\* 26-32, 48-58; tokenizer.rs 498-505).
AnswerIsSequential ==
  ask \in Class /\ answer # NoHit => answer = RunIn(ask, pos, have)

\* A string is found valid in blocks exactly if it is (parallel.rs 591-598).
VerdictIsWhole == ask = "utf8" /\ answer # NoHit => (answer = 1 <=> ValidText(input))

\* An index never outlives the input it was built of: it tells the first
\* terminators of every block of all there is (tokenizer.rs 461-468).
IndexIsCurrent ==
  HasIndex =>
    LET starts == Even(0, have, Coarse)
    IN index = [i \in DOMAIN starts |->
                  [c \in Class |-> Find(c, starts[i], Min({starts[i] + Coarse, have}))]]

\* Every question is answered: waves end, and no block is waited for in vain.
Answered == ask # "none" ~> answer # NoHit
=============================================================================
