-------------------------- MODULE PushDriver_proofs --------------------------
(***************************************************************************)
(* Proofs about the push driver, for every set of streams and every buffer *)
(* bound: its invariants, and that it implements the SAX protocol, whether *)
(* or not callbacks may stop the parser; and that what it dispatches does  *)
(* not depend on the chunks, when they do not.                             *)
(***************************************************************************)
EXTENDS PushPartition, SequenceTheorems, WellFoundedInduction, TLAPS

Entry == [ev : Event, nm : Names \cup {""}]
Callback == Event \ {"fatal", "endDocument"}

\* A batch of callbacks, as a step hands it to Deliver.
Batch(evs) == evs \in Seq(Entry) /\ \A i \in 1 .. Len(evs) : evs[i].ev \in Callback

----------------------------------------------------------------------------
(* The context operations.                                                 *)

\* Appending events of the kind Deliver appends keeps a log in order, as long
\* as it holds neither a fatal nor endDocument.
LEMMA AppendBatch ==
  ASSUME NEW x \in Context, NEW evs, Batch(evs), LogOK(x, FALSE),
         x.disableSAX = 0,
         NEW y \in Context, y.log = x.log \o evs
  PROVE  LogOK(y, FALSE)
<1>1. x.log \in Seq(Entry) /\ evs \in Seq(Entry)
  BY DEF Context, Entry, Batch
<1>2. /\ Len(y.log) = Len(x.log) + Len(evs)
      /\ \A i \in 1 .. Len(y.log) :
            y.log[i] = IF i <= Len(x.log) THEN x.log[i] ELSE evs[i - Len(x.log)]
      /\ Len(x.log) \in Nat /\ Len(evs) \in Nat
  BY <1>1, ConcatProperties, LenProperties
<1>3. \A i \in 1 .. Len(y.log) : y.log[i].ev \notin {"fatal", "endDocument"}
  BY <1>2 DEF LogOK, Batch, Callback
<1> QED
  BY <1>3 DEF LogOK

\* A context is put together from a flag, an error, a verdict and a log.
LEMMA CtxtType ==
  ASSUME NEW d \in 0 .. 2, NEW e \in ErrNo, NEW w \in BOOLEAN, NEW l \in Seq(Entry)
  PROVE  /\ Ctxt(d, e, w, l) \in Context
         /\ Ctxt(d, e, w, l).log = l
         /\ Ctxt(d, e, w, l).disableSAX = d
  BY DEF Ctxt, Context, Entry

LEMMA ContextFields ==
  ASSUME NEW x \in Context
  PROVE  /\ x.disableSAX \in 0 .. 2 /\ x.errNo \in ErrNo
         /\ x.wellFormed \in BOOLEAN /\ x.log \in Seq(Entry)
  BY DEF Context, Entry

LEMMA LeafType ==
  ASSUME NEW e \in Event
  PROVE  Leaf(e) \in Entry /\ Leaf(e).ev = e
  BY DEF Leaf, E, Entry

LEMMA AppendLog ==
  ASSUME NEW l \in Seq(Entry), NEW e \in Event
  PROVE  LET m == Append(l, Leaf(e)) IN
         /\ m \in Seq(Entry) /\ Len(m) = Len(l) + 1 /\ Len(l) \in Nat
         /\ \A i \in 1 .. Len(l) : m[i] = l[i]
         /\ m[Len(l) + 1].ev = e
  BY LeafType

\* One more event at the end of a log that is in order, if it may stand there.
LEMMA FatalOrder ==
  ASSUME NEW x \in Context, NEW y \in Context, NEW ended, LogOK(x, ended),
         Len(x.log) \in Nat, Len(y.log) = Len(x.log) + 1,
         \A i \in 1 .. Len(x.log) : y.log[i] = x.log[i],
         y.log[Len(x.log) + 1].ev = "fatal", y.disableSAX # 0
  PROVE  LogOK(y, ended)
<1> DEFINE n == Len(x.log)
<1>1. \A i \in 1 .. Len(y.log) : i \in 1 .. n \/ i = n + 1
  OBVIOUS
<1>2. ASSUME NEW i \in 1 .. Len(y.log), NEW j \in 1 .. Len(y.log), i < j
      PROVE  /\ y.log[i].ev = "endDocument" => y.log[j].ev = "fatal"
             /\ y.log[i].ev = "fatal" => y.log[j].ev \in {"fatal", "endDocument"}
  <2>1. i \in 1 .. n /\ y.log[i] = x.log[i]
    BY <1>2
  <2>2. CASE j \in 1 .. n
    BY <1>2, <2>1, <2>2 DEF LogOK
  <2>3. CASE j = n + 1
    BY <2>3
  <2> QED
    BY <1>1, <2>2, <2>3
<1>3. ~ended => \A i \in 1 .. Len(y.log) : y.log[i].ev # "endDocument"
  BY <1>1 DEF LogOK
<1> QED
  BY <1>2, <1>3 DEF LogOK

LEMMA EndOrder ==
  ASSUME NEW x \in Context, NEW y \in Context, LogOK(x, FALSE),
         Len(x.log) \in Nat, Len(y.log) = Len(x.log) + 1,
         \A i \in 1 .. Len(x.log) : y.log[i] = x.log[i],
         y.log[Len(x.log) + 1].ev = "endDocument",
         y.disableSAX = x.disableSAX
  PROVE  LogOK(y, TRUE)
<1> DEFINE n == Len(x.log)
<1>1. \A i \in 1 .. Len(y.log) : i \in 1 .. n \/ i = n + 1
  OBVIOUS
<1>2. ASSUME NEW i \in 1 .. Len(y.log), NEW j \in 1 .. Len(y.log), i < j
      PROVE  /\ y.log[i].ev = "endDocument" => y.log[j].ev = "fatal"
             /\ y.log[i].ev = "fatal" => y.log[j].ev \in {"fatal", "endDocument"}
  <2>1. i \in 1 .. n /\ y.log[i] = x.log[i] /\ x.log[i].ev # "endDocument"
    BY <1>2 DEF LogOK
  <2>2. CASE j \in 1 .. n
    BY <1>2, <2>1, <2>2 DEF LogOK
  <2>3. CASE j = n + 1
    BY <2>1, <2>3
  <2> QED
    BY <1>1, <2>2, <2>3
<1>3. y.disableSAX = 0 => \A i \in 1 .. Len(y.log) : y.log[i].ev # "fatal"
  BY <1>1 DEF LogOK
<1> QED
  BY <1>2, <1>3 DEF LogOK

LEMMA FatalKeeps ==
  ASSUME NEW x \in Context, NEW ended \in BOOLEAN, LogOK(x, ended)
  PROVE  LogOK(RaiseFatal(x), ended) /\ RaiseFatal(x).disableSAX = 1
<1> DEFINE m == Append(x.log, Leaf("fatal"))
           y == Ctxt(1, "fatal", FALSE, m)
<1>1. x.log \in Seq(Entry) /\ "fatal" \in Event /\ "fatal" \in ErrNo
  BY ContextFields DEF Event, ErrNo
<1>2. /\ m \in Seq(Entry) /\ Len(m) = Len(x.log) + 1 /\ Len(x.log) \in Nat
      /\ \A i \in 1 .. Len(x.log) : m[i] = x.log[i]
      /\ m[Len(x.log) + 1].ev = "fatal"
  BY <1>1, AppendLog
<1> HIDE DEF m
<1>3. y \in Context /\ y.log = m /\ y.disableSAX = 1
  <2>1. 1 \in 0 .. 2 /\ FALSE \in BOOLEAN
    OBVIOUS
  <2> QED
    BY <1>1, <1>2, <2>1 DEF Ctxt, Context, Entry
<1> HIDE DEF y
<1>4. LogOK(y, ended)
  BY <1>2, <1>3, FatalOrder
<1> QED
  BY <1>3, <1>4 DEF y, m, RaiseFatal

LEMMA ErrorKeeps ==
  ASSUME NEW x \in Context, LogOK(x, FALSE), x.disableSAX = 0
  PROVE  LogOK(RaiseError(x), FALSE)
<1> DEFINE evs == <<Leaf("error")>>
           m == Append(x.log, Leaf("error"))
           y == Ctxt(x.disableSAX, "ns", x.wellFormed, m)
<1>1. /\ x.log \in Seq(Entry) /\ x.disableSAX \in 0 .. 2
      /\ x.wellFormed \in BOOLEAN /\ "error" \in Event /\ "ns" \in ErrNo
  BY ContextFields DEF Event, ErrNo
<1>2. m = x.log \o evs /\ Leaf("error") \in Entry /\ Leaf("error").ev = "error"
  BY <1>1, LeafType
<1>3. m \in Seq(Entry)
  BY <1>1, AppendLog
<1>4. Batch(evs)
  BY <1>1, <1>2 DEF Batch, Callback
<1> HIDE DEF m, evs
<1>5. y \in Context /\ y.log = m
  BY <1>1, <1>3, CtxtType
<1> HIDE DEF y
<1>6. LogOK(y, FALSE)
  BY <1>2, <1>4, <1>5, AppendBatch
<1> QED
  BY <1>6 DEF y, m, RaiseError

LEMMA DeliverKeeps ==
  ASSUME NEW x \in Context, LogOK(x, FALSE), NEW evs, Batch(evs),
         NEW s \in 0 .. Len(evs)
  PROVE  LogOK(Deliver(x, evs, s), FALSE)
<1>0. /\ x.disableSAX \in 0 .. 2 /\ x.errNo \in ErrNo
      /\ x.wellFormed \in BOOLEAN /\ x.log \in Seq(Entry) /\ evs \in Seq(Entry)
  BY ContextFields DEF Batch
<1>1. CASE x.disableSAX # 0
  BY <1>1 DEF Deliver
<1>2. CASE x.disableSAX = 0 /\ s = 0
  <2> DEFINE y == Ctxt(0, x.errNo, x.wellFormed, x.log \o evs)
  <2>1. x.log \o evs \in Seq(Entry)
    BY <1>0, ConcatProperties
  <2>2. y \in Context /\ y.log = x.log \o evs
    <3>1. 0 \in 0 .. 2
      OBVIOUS
    <3> QED
      BY <1>0, <2>1, <3>1 DEF Ctxt, Context, Entry
  <2> HIDE DEF y
  <2>3. LogOK(y, FALSE)
    BY <1>2, <2>2, AppendBatch
  <2> QED
    BY <1>2, <2>3 DEF Deliver, y
<1>3. CASE x.disableSAX = 0 /\ s # 0
  <2> DEFINE part == SubSeq(evs, 1, s)
             y == Stopped(x, x.log \o part)
  <2>1. /\ part \in Seq(Entry) /\ Len(part) = s
        /\ \A i \in 1 .. s : part[i] = evs[i]
    <3>1. \A i \in 1 .. s : evs[i] \in Entry
      BY <1>0
    <3> QED
      BY <1>3, <3>1, SubSeqProperties
  <2>2. Batch(part)
    BY <2>1 DEF Batch
  <2> HIDE DEF part
  <2>3. x.log \o part \in Seq(Entry)
    BY <1>0, <2>1, ConcatProperties
  <2>4. y \in Context /\ y.log = x.log \o part
    <3>1. "stop" \in ErrNo /\ 2 \in 0 .. 2 /\ FALSE \in BOOLEAN
      BY DEF ErrNo
    <3>2. CASE x.errNo = "ok"
      BY <2>3, <3>1, <3>2 DEF Stopped, Ctxt, Context, Entry
    <3>3. CASE x.errNo # "ok"
      BY <1>0, <2>3, <3>1, <3>3 DEF Stopped, Ctxt, Context, Entry
    <3> QED
      BY <3>2, <3>3
  <2> HIDE DEF y
  <2>5. LogOK(y, FALSE)
    BY <1>3, <2>2, <2>4, AppendBatch
  <2> QED
    BY <1>3, <2>5 DEF Deliver, y, part
<1> QED
  BY <1>0, <1>1, <1>2, <1>3

LEMMA FinishKeeps ==
  ASSUME NEW x \in Context, endDoc \in BOOLEAN, LogOK(x, endDoc)
  PROVE  LogOK(Finished(x), TRUE)
<1>1. CASE endDoc
  BY <1>1 DEF Finished, LogOK
<1>2. CASE ~endDoc
  <2> DEFINE m == Append(x.log, Leaf("endDocument"))
             y == Ctxt(x.disableSAX, x.errNo, x.wellFormed, m)
  <2>1. /\ x.disableSAX \in 0 .. 2 /\ x.errNo \in ErrNo
        /\ x.wellFormed \in BOOLEAN /\ x.log \in Seq(Entry)
        /\ "endDocument" \in Event
    BY ContextFields DEF Event
  <2>2. /\ m \in Seq(Entry) /\ Len(m) = Len(x.log) + 1 /\ Len(x.log) \in Nat
        /\ \A i \in 1 .. Len(x.log) : m[i] = x.log[i]
        /\ m[Len(x.log) + 1].ev = "endDocument"
    BY <2>1, AppendLog
  <2> HIDE DEF m
  <2>3. y \in Context /\ y.log = m /\ y.disableSAX = x.disableSAX
    BY <2>1, <2>2, CtxtType
  <2> HIDE DEF y
  <2>4. LogOK(x, FALSE)
    BY <1>2
  <2>5. LogOK(y, TRUE)
    BY <2>2, <2>3, <2>4, EndOrder
  <2> QED
    BY <1>2, <2>5 DEF Finished, y, m
<1> QED
  BY <1>1, <1>2

----------------------------------------------------------------------------
(* The batches of the steps.                                               *)

LEMMA BatchOfOne ==
  ASSUME NEW a \in Entry, a.ev \in Callback
  PROVE  Batch(<<a>>)
BY DEF Batch

LEMMA BatchOfTwo ==
  ASSUME NEW a \in Entry, a.ev \in Callback, NEW b \in Entry, b.ev \in Callback
  PROVE  Batch(<<a, b>>)
BY DEF Batch

LEMMA LeafBatch ==
  ASSUME NEW e \in Callback
  PROVE  Batch(<<Leaf(e)>>)
<1>1. Leaf(e) \in Entry /\ Leaf(e).ev = e
  BY LeafType DEF Callback
<1> QED
  BY <1>1, BatchOfOne

LEMMA TagBatch ==
  ASSUME NEW nm \in Names
  PROVE  /\ Batch(<<E("start", nm)>>) /\ Batch(<<E("end", nm)>>)
         /\ Batch(<<E("start", nm), E("end", nm)>>)
<1>1. /\ E("start", nm) \in Entry /\ E("start", nm).ev = "start"
      /\ E("end", nm) \in Entry /\ E("end", nm).ev = "end"
  BY DEF E, Entry, Event
<1>2. "start" \in Callback /\ "end" \in Callback
  BY DEF Callback, Event
<1> QED
  BY <1>1, <1>2, BatchOfOne, BatchOfTwo

LEMMA TextBatch ==
  ASSUME NEW n \in Nat
  PROVE  Batch(TextEvents(n)) /\ Len(TextEvents(n)) = n
<1>1. Leaf("text") \in Entry /\ Leaf("text").ev = "text" /\ "text" \in Callback
  BY LeafType DEF Callback, Event
<1>2. TextEvents(n) \in Seq(Entry) /\ Len(TextEvents(n)) = n
  BY <1>1 DEF TextEvents
<1> QED
  BY <1>1, <1>2 DEF Batch, TextEvents

\* One step's callbacks, wherever the application stops the parser.
LEMMA DeliverStep ==
  ASSUME NEW x \in Context, LogOK(x, FALSE), NEW evs, Batch(evs),
         NEW s \in StopPoints(evs)
  PROVE  LogOK(Deliver(x, evs, s), FALSE)
<1>1. s \in 0 .. Len(evs)
  <2>1. Len(evs) \in Nat
    BY DEF Batch
  <2> QED
    BY <2>1 DEF StopPoints
<1> QED
  BY <1>1, DeliverKeeps

\* check_eof
LEMMA EofCheckKeeps ==
  ASSUME c \in Context, NEW ended \in BOOLEAN, LogOK(c, ended)
  PROVE  LogOK(EofCheck, ended) /\ EofCheck \in Context
<1>1. LogOK(RaiseFatal(c), ended)
  BY FatalKeeps
<1> QED
  BY <1>1 DEF EofCheck, LogOK

----------------------------------------------------------------------------
(* How the invariant is reassembled after a step.                          *)

Flow == /\ fatal \in BOOLEAN
        /\ pc \in {"idle", "loop", "final"}
        /\ ret \in {"none", "need", "complete", "await", "fatal", "refused"}

LEMMA Assemble ==
  ASSUME IInv, UNCHANGED Input, pos' \in 0 .. have, phase' \in Phase,
         open' \in Seq(Names), startDoc' \in BOOLEAN, endDoc' \in BOOLEAN,
         Flow', PhaseMatchesStack', LogOK(c', endDoc'),
         endDoc' => phase' = "EOF"
  PROVE  IInv'
<1>1. c' \in Context
  BY DEF LogOK
<1>2. TypeOK'
  BY <1>1 DEF IInv, TypeOK, Input, Flow
<1>3. recv' > 0 /\ doc'[recv'].con.k \in {"half", "badunit"} => have' < recv'
  BY DEF IInv, Input
<1> QED
  BY <1>2, <1>3 DEF IInv

LEMMA FlowOfStep ==
  ASSUME IInv, Advance \/ Fail
  PROVE  Flow'
BY DEF IInv, TypeOK, Flow, Advance, Fail, Return

LEMMA LeaveKeeps ==
  ASSUME IInv, Leave, UNCHANGED Input
  PROVE  IInv'
<1>1. Flow'
  BY DEF IInv, TypeOK, Flow, Leave, Return, Progress
<1>2. UNCHANGED <<pos, phase, open, startDoc, endDoc, c>>
  BY DEF Leave
<1>3. PhaseMatchesStack'
  BY <1>2 DEF IInv, PhaseMatchesStack
<1>4. LogOK(c', endDoc')
  BY <1>2 DEF IInv
<1> QED
  BY <1>1, <1>2, <1>3, <1>4, Assemble DEF IInv, TypeOK

\* In a live state before the end, the context holds neither a fatal nor an
\* endDocument, and the cursor stands on a construct.
LEMMA LiveFacts ==
  ASSUME IInv, NEW ps, InPhase(ps), "EOF" \notin ps
  PROVE  /\ endDoc = FALSE /\ c \in Context /\ LogOK(c, FALSE)
         /\ pos \in Nat /\ have \in Nat /\ pos < have
         /\ Cur \in Construct /\ Size(Cur.k) \in 1 .. 3
         /\ pos + 1 \in 0 .. have
         /\ Whole => pos + Size(Cur.k) \in 0 .. have
<1>1. endDoc = FALSE
  BY DEF IInv, InPhase, TypeOK
<1>2. c \in Context /\ LogOK(c, FALSE)
  BY <1>1 DEF IInv, LogOK
<1>3. pos \in Nat /\ have \in Nat /\ pos < have /\ pos + 1 \in 1 .. Len(doc)
  BY DEF IInv, TypeOK, InPhase, Avail
<1>4. Cur \in Construct
  <2>1. doc[pos + 1] \in Cell
    BY <1>3 DEF IInv, TypeOK
  <2> QED
    BY <2>1 DEF Cell, Cur
<1>5. Size(Cur.k) \in 1 .. 3
  BY DEF Size
<1>6. pos + 1 \in 0 .. have
  BY <1>3
<1>7. ASSUME Whole
      PROVE  pos + Size(Cur.k) \in 0 .. have
  <2> DEFINE n == Size(Cur.k)
  <2>1. n \in 1 .. 3 /\ have - pos >= n
    BY <1>5, <1>7 DEF Whole, Avail
  <2> HIDE DEF n
  <2>2. pos + n \in 0 .. have
    BY <1>3, <2>1
  <2> QED
    BY <2>2 DEF n
<1> QED
  BY <1>1, <1>2, <1>3, <1>4, <1>5, <1>6, <1>7

----------------------------------------------------------------------------
(* Init, and the steps that leave the context alone.                       *)

LEMMA InitIInv == Init => IInv
<1> SUFFICES ASSUME Init
             PROVE  IInv
  OBVIOUS
<1>1. c \in Context /\ c.log = <<>>
  BY DEF Init, Ctxt, Context, ErrNo
<1>2. doc \in Seq(Cell)
  BY DriverAssumption DEF Init
<1>3. TypeOK
  <2>1. 0 \in 0 .. Len(doc) /\ 0 \in 0 .. 0 /\ <<>> \in Seq(Names)
    BY <1>2
  <2>2. "START" \in Phase
    BY DEF Phase
  <2> QED
    BY <1>1, <1>2, <2>1, <2>2 DEF Init, TypeOK
<1>4. LogOK(c, endDoc)
  BY <1>1 DEF LogOK
<1> QED
  BY <1>3, <1>4 DEF Init, IInv, PhaseMatchesStack

LEMMA ParkKeeps ==
  ASSUME IInv,
         \/ Exhausted \/ XmlDeclPark \/ MiscPark \/ SubsetPark
         \/ StartTagPark \/ ContentPark \/ EndTagPark
  PROVE  IInv'
<1>1. Leave /\ UNCHANGED Input
  BY DEF Exhausted, XmlDeclPark, MiscPark, SubsetPark, StartTagPark,
         ContentPark, EndTagPark
<1> QED
  BY <1>1, LeaveKeeps

\* Steps that move the phase, or the cursor over blanks, and nothing else.
LEMMA QuietKeeps ==
  ASSUME IInv, StepStart \/ MiscTail \/ ContentTag \/ SkipBlanks
  PROVE  IInv'
<1>1. /\ UNCHANGED Input /\ UNCHANGED <<open, startDoc, endDoc, c>>
      /\ Advance
  BY DEF StepStart, MiscTail, ContentTag, SkipBlanks
<1>2. endDoc = FALSE
  BY LiveFacts DEF StepStart, MiscTail, ContentTag, SkipBlanks, Misc
<1>3. pos' \in 0 .. have
  BY DEF StepStart, MiscTail, ContentTag, SkipBlanks, IInv, TypeOK
<1>4. phase' \in Phase
  BY DEF StepStart, MiscTail, ContentTag, SkipBlanks, Phase, IInv, TypeOK
<1>5. PhaseMatchesStack'
  BY <1>1 DEF StepStart, MiscTail, ContentTag, SkipBlanks, InPhase,
              IInv, PhaseMatchesStack
<1>6. LogOK(c', endDoc')
  BY <1>1 DEF IInv
<1>7. Flow'
  BY <1>1, FlowOfStep
<1> QED
  BY <1>1, <1>2, <1>3, <1>4, <1>5, <1>6, <1>7, Assemble DEF IInv, TypeOK

LEMMA LatchKeeps ==
  ASSUME IInv, Latch
  PROVE  IInv'
<1>1. /\ UNCHANGED Input
      /\ UNCHANGED <<pos, phase, open, startDoc, endDoc, c>> /\ Fail
  BY DEF Latch
<1>2. PhaseMatchesStack' /\ LogOK(c', endDoc')
  BY <1>1 DEF IInv, PhaseMatchesStack
<1>3. Flow'
  BY <1>1, FlowOfStep
<1> QED
  BY <1>1, <1>2, <1>3, Assemble DEF IInv, TypeOK

----------------------------------------------------------------------------
(* Receiving.                                                              *)

LEMMA ReceiveKeeps ==
  ASSUME IInv, Chunk \/ ChunkInvalid \/ Refuse
  PROVE  IInv'
<1>1. CASE Refuse
  <2>1. UNCHANGED <<doc, recv, have, truncated, pos, phase, open, startDoc,
                    endDoc, fatal, c, term>>
    BY <1>1 DEF Refuse
  <2>2. TypeOK'
    BY <1>1, <2>1 DEF IInv, TypeOK, Refuse, Return
  <2> QED
    BY <2>1, <2>2 DEF IInv, PhaseMatchesStack
<1>2. ASSUME NEW n \in recv .. Len(doc), NEW t \in BOOLEAN,
             doc' = doc, recv' = n, have' = Decoded(n, t)
      PROVE  /\ recv' \in 0 .. Len(doc) /\ have' \in 0 .. recv' /\ pos \in 0 .. have'
             /\ recv' > 0 /\ doc'[recv'].con.k \in {"half", "badunit"} => have' < recv'
  <2>1. /\ Len(doc) \in Nat /\ recv \in 0 .. Len(doc) /\ have \in 0 .. recv
        /\ pos \in 0 .. have /\ Detect \in Nat \ {0}
    BY DriverAssumption DEF IInv, TypeOK
  <2>2. n \in Nat /\ recv <= n /\ n <= Len(doc)
    BY <2>1
  <2>3. CASE have = 0 /\ n < Detect /\ ~t
    BY <1>2, <2>1, <2>2, <2>3 DEF Decoded
  <2>4. CASE ~(have = 0 /\ n < Detect /\ ~t)
    <3>1. CASE n > 0 /\ doc[n].con.k \in {"half", "badunit"}
      <4>1. have' = n - 1
        BY <1>2, <2>4, <3>1 DEF Decoded
      <4>2. have <= n - 1
        <5>1. CASE recv = n
          BY <2>1, <2>2, <3>1, <5>1 DEF IInv
        <5>2. CASE recv # n
          BY <2>1, <2>2, <5>2
        <5> QED
          BY <5>1, <5>2
      <4> QED
        BY <1>2, <2>1, <2>2, <3>1, <4>1, <4>2
    <3>2. CASE ~(n > 0 /\ doc[n].con.k \in {"half", "badunit"})
      <4>1. have' = n
        BY <1>2, <2>4, <3>2 DEF Decoded
      <4> QED
        BY <1>2, <2>1, <2>2, <3>2, <4>1
    <3> QED
      BY <3>1, <3>2
  <2> QED
    BY <2>3, <2>4
<1>3. CASE Chunk
  <2>1. PICK n \in recv .. Len(doc), t \in BOOLEAN :
           /\ recv' = n /\ term' = t /\ have' = Decoded(n, t)
           /\ truncated' = (t /\ n > 0 /\ doc[n].con.k = "half")
    BY <1>3 DEF Chunk
  <2>2. /\ UNCHANGED <<doc, pos, phase, open, startDoc, endDoc, fatal, c, ret>>
        /\ pc' = "loop"
    BY <1>3 DEF Chunk
  <2>3. TypeOK'
    BY <1>2, <2>1, <2>2 DEF IInv, TypeOK
  <2>4. recv' > 0 /\ doc'[recv'].con.k \in {"half", "badunit"} => have' < recv'
    BY <1>2, <2>1, <2>2
  <2> QED
    BY <2>2, <2>3, <2>4 DEF IInv, PhaseMatchesStack
<1>4. CASE ChunkInvalid
  <2>1. PICK n \in recv .. Len(doc), t \in BOOLEAN :
           recv' = n /\ term' = t /\ have' = Decoded(n, t)
    BY <1>4 DEF ChunkInvalid
  <2>2. /\ UNCHANGED <<doc, truncated, pos, open, startDoc, endDoc>>
        /\ c' = RaiseFatal(c)
        /\ phase' = IF phase = "START" THEN "XML_DECL" ELSE phase
    BY <1>4 DEF ChunkInvalid
  <2>3. LogOK(c', endDoc') /\ c' \in Context
    <3>1. LogOK(RaiseFatal(c), endDoc)
      BY FatalKeeps DEF IInv, TypeOK
    <3> QED
      BY <2>2, <3>1 DEF LogOK
  <2>4. Flow'
    BY <1>4, FlowOfStep DEF ChunkInvalid
  <2>5. TypeOK'
    BY <1>2, <2>1, <2>2, <2>3, <2>4 DEF IInv, TypeOK, Phase, Flow
  <2>6. recv' > 0 /\ doc'[recv'].con.k \in {"half", "badunit"} => have' < recv'
    BY <1>2, <2>1, <2>2
  <2>7. PhaseMatchesStack' /\ (endDoc' => phase' = "EOF")
    BY <2>2 DEF IInv, PhaseMatchesStack
  <2> QED
    BY <2>3, <2>5, <2>6, <2>7 DEF IInv
<1> QED
  BY <1>1, <1>3, <1>4

----------------------------------------------------------------------------
(* Steps before the root element.                                          *)

LEMMA XmlDeclKeeps ==
  ASSUME IInv, StepXmlDecl
  PROVE  IInv'
<1>1. /\ endDoc = FALSE /\ c \in Context /\ LogOK(c, FALSE)
      /\ pos \in Nat /\ have \in Nat /\ pos < have
      /\ Whole => pos + Size(Cur.k) \in 0 .. have
  BY LiveFacts DEF StepXmlDecl
<1> DEFINE isDecl == Cur.k = "decl" /\ Avail >= 2
           x == IF isDecl /\ (~Whole \/ Cur.bad = "scan") THEN RaiseFatal(c)
                                                          ELSE c
           evs == <<Leaf("startDocument")>>
<1>2. LogOK(x, FALSE) /\ x \in Context
  <2>1. LogOK(RaiseFatal(c), FALSE)
    BY <1>1, FatalKeeps
  <2> QED
    BY <1>1, <2>1 DEF LogOK
<1>3. PICK s \in StopPoints(evs) : c' = Deliver(x, evs, s)
  BY DEF StepXmlDecl
<1>4. Batch(evs)
  BY LeafBatch DEF Callback, Event
<1>5. pos' \in 0 .. have
  <2>1. isDecl => Size("decl") = Size(Cur.k)
    OBVIOUS
  <2> QED
    BY <1>1, <2>1 DEF StepXmlDecl
<1> HIDE DEF x, evs
<1>6. LogOK(c', FALSE)
  BY <1>2, <1>3, <1>4, DeliverStep
<1>7. /\ UNCHANGED Input /\ UNCHANGED <<open, endDoc>>
      /\ startDoc' = TRUE /\ phase' = "MISC" /\ Flow'
  BY FlowOfStep DEF StepXmlDecl
<1>8. PhaseMatchesStack'
  BY <1>7 DEF IInv, PhaseMatchesStack, StepXmlDecl, InPhase
<1>9. open' \in Seq(Names) /\ phase' \in Phase
  BY <1>7 DEF IInv, TypeOK, Phase
<1> QED
  BY <1>1, <1>5, <1>6, <1>7, <1>8, <1>9, Assemble

LEMMA InlineKeeps ==
  ASSUME IInv, ScanInline
  PROVE  IInv'
<1>1. /\ endDoc = FALSE /\ c \in Context /\ LogOK(c, FALSE)
      /\ pos \in Nat /\ have \in Nat /\ pos < have
      /\ Whole => pos + Size(Cur.k) \in 0 .. have
  BY LiveFacts DEF ScanInline, Misc
<1> DEFINE x == IF ~Whole \/ Cur.bad = "scan" \/ Cur.k = "decl"
                THEN RaiseFatal(c) ELSE c
           evs == <<InlineEvent(Cur.k)>>
<1>2. LogOK(x, FALSE) /\ x \in Context
  <2>1. LogOK(RaiseFatal(c), FALSE)
    BY <1>1, FatalKeeps
  <2> QED
    BY <1>1, <2>1 DEF LogOK
<1>3. PICK s \in StopPoints(evs) : c' = Deliver(x, evs, s)
  BY DEF ScanInline
<1>4. Batch(evs)
  <2> DEFINE k == IF Cur.k = "decl" THEN "pi" ELSE Cur.k
  <2>1. k \in Callback
    BY DEF ScanInline, Inline, Callback, Event
  <2> HIDE DEF k
  <2>2. Batch(<<Leaf(k)>>)
    BY <2>1, LeafBatch
  <2> QED
    BY <2>2 DEF InlineEvent, k
<1>5. pos' \in 0 .. have
  BY <1>1 DEF ScanInline
<1> HIDE DEF x, evs
<1>6. LogOK(c', FALSE)
  BY <1>2, <1>3, <1>4, DeliverStep
<1>7. /\ UNCHANGED Input /\ UNCHANGED <<phase, open, startDoc, endDoc>>
      /\ Flow'
  BY FlowOfStep DEF ScanInline
<1>8. PhaseMatchesStack'
  BY <1>7 DEF IInv, PhaseMatchesStack
<1> QED
  BY <1>1, <1>5, <1>6, <1>7, <1>8, Assemble DEF IInv, TypeOK

LEMMA DoctypeKeeps ==
  ASSUME IInv, StepDoctype
  PROVE  IInv'
<1>1. /\ endDoc = FALSE /\ c \in Context /\ LogOK(c, FALSE)
      /\ pos \in Nat /\ have \in Nat /\ pos < have
      /\ Whole => pos + Size(Cur.k) \in 0 .. have
  BY LiveFacts DEF StepDoctype
<1> DEFINE x == IF Whole THEN c ELSE RaiseFatal(c)
           evs == <<Leaf("internalSubset"), Leaf("externalSubset")>>
<1>2. LogOK(x, FALSE) /\ x \in Context
  <2>1. LogOK(RaiseFatal(c), FALSE)
    BY <1>1, FatalKeeps
  <2> QED
    BY <1>1, <2>1 DEF LogOK
<1>3. PICK s \in StopPoints(evs) : c' = Deliver(x, evs, s)
  BY DEF StepDoctype
<1>4. Batch(evs)
  <2>1. /\ "internalSubset" \in Event /\ "internalSubset" \in Callback
        /\ "externalSubset" \in Event /\ "externalSubset" \in Callback
    BY DEF Callback, Event
  <2> QED
    BY <2>1, LeafType, BatchOfTwo
<1>5. pos' \in 0 .. have
  BY <1>1 DEF StepDoctype
<1> HIDE DEF x, evs
<1>6. LogOK(c', FALSE)
  BY <1>2, <1>3, <1>4, DeliverStep
<1>7. /\ UNCHANGED Input /\ UNCHANGED <<open, startDoc, endDoc>>
      /\ phase' = "PROLOG" /\ Flow'
  BY FlowOfStep DEF StepDoctype
<1>8. PhaseMatchesStack'
  BY <1>7 DEF IInv, PhaseMatchesStack, StepDoctype, InPhase
<1>9. phase' \in Phase
  BY <1>7 DEF Phase
<1> QED
  BY <1>1, <1>5, <1>6, <1>7, <1>8, <1>9, Assemble DEF IInv, TypeOK

LEMMA DoctypeHeadKeeps ==
  ASSUME IInv, StepDoctypeHead
  PROVE  IInv'
<1>1. /\ endDoc = FALSE /\ c \in Context /\ LogOK(c, FALSE)
      /\ pos \in Nat /\ have \in Nat /\ pos < have
      /\ Whole => pos + Size(Cur.k) \in 0 .. have
  BY LiveFacts DEF StepDoctypeHead
<1> DEFINE x == IF Avail >= 3 THEN c ELSE RaiseFatal(c)
           evs == <<Leaf("internalSubset")>>
<1>2. LogOK(x, FALSE) /\ x \in Context
  <2>1. LogOK(RaiseFatal(c), FALSE)
    BY <1>1, FatalKeeps
  <2> QED
    BY <1>1, <2>1 DEF LogOK
<1>3. PICK s \in StopPoints(evs) : c' = Deliver(x, evs, s)
  BY DEF StepDoctypeHead
<1>4. Batch(evs)
  BY LeafBatch DEF Callback, Event
<1>5. pos' \in 0 .. have
  <2>1. Avail >= 2 /\ Cur.k = "dtdhead"
    BY <1>1 DEF StepDoctypeHead, DoctypeReady, Avail
  <2>2. Whole
    BY <2>1 DEF Whole, Size
  <2> QED
    BY <1>1, <2>2 DEF StepDoctypeHead
<1> HIDE DEF x, evs
<1>6. LogOK(c', FALSE)
  BY <1>2, <1>3, <1>4, DeliverStep
<1>7. /\ UNCHANGED Input /\ UNCHANGED <<open, startDoc, endDoc>>
      /\ phase' \in {"DTD", "PROLOG"} /\ Flow'
  BY FlowOfStep DEF StepDoctypeHead
<1>8. PhaseMatchesStack'
  BY <1>7 DEF IInv, PhaseMatchesStack, StepDoctypeHead, InPhase
<1>9. phase' \in Phase
  BY <1>7 DEF Phase
<1> QED
  BY <1>1, <1>5, <1>6, <1>7, <1>8, <1>9, Assemble DEF IInv, TypeOK

LEMMA SubsetKeeps ==
  ASSUME IInv, StepSubset
  PROVE  IInv'
<1>1. /\ endDoc = FALSE /\ c \in Context /\ LogOK(c, FALSE)
      /\ pos \in Nat /\ have \in Nat /\ pos < have
      /\ Whole => pos + Size(Cur.k) \in 0 .. have
  BY LiveFacts DEF StepSubset
<1> DEFINE evs == <<Leaf("externalSubset")>>
<1>2. Batch(evs)
  BY LeafBatch DEF Callback, Event
<1>3. pos' \in 0 .. have
  BY <1>1 DEF StepSubset
<1>4. LogOK(c', FALSE) /\ Flow'
  <2>1. CASE Whole /\ Cur.bad = "no"
    <3>1. PICK s \in StopPoints(evs) : c' = Deliver(c, evs, s)
      BY <2>1 DEF StepSubset
    <3> HIDE DEF evs
    <3>2. LogOK(c', FALSE)
      BY <1>1, <1>2, <3>1, DeliverStep
    <3> QED
      BY <2>1, <3>2, FlowOfStep DEF StepSubset
  <2>2. CASE ~(Whole /\ Cur.bad = "no")
    BY <1>1, <2>2, FatalKeeps, FlowOfStep DEF StepSubset
  <2> QED
    BY <2>1, <2>2
<1>5. /\ UNCHANGED Input /\ UNCHANGED <<open, startDoc, endDoc>>
      /\ phase' = "PROLOG"
  BY DEF StepSubset
<1>6. PhaseMatchesStack'
  BY <1>5 DEF IInv, PhaseMatchesStack, StepSubset, InPhase
<1>7. phase' \in Phase
  BY <1>5 DEF Phase
<1> QED
  BY <1>1, <1>3, <1>4, <1>5, <1>6, <1>7, Assemble DEF IInv, TypeOK

----------------------------------------------------------------------------
(* Steps that end the document.                                            *)

LEMMA EndAtKeeps ==
  ASSUME endDoc \in BOOLEAN, NEW x \in Context, LogOK(x, endDoc), EndAt(x)
  PROVE  /\ LogOK(c', endDoc') /\ endDoc' = TRUE
         /\ phase' = "EOF" /\ phase' \in Phase /\ PhaseMatchesStack'
<1>1. c' = Finished(x) /\ endDoc' = TRUE /\ phase' = "EOF"
  BY DEF EndAt
<1>2. LogOK(Finished(x), TRUE)
  BY FinishKeeps
<1> QED
  BY <1>1, <1>2 DEF Phase, PhaseMatchesStack

LEMMA EpilogKeeps ==
  ASSUME IInv, EpilogTail
  PROVE  IInv'
<1>1. endDoc \in BOOLEAN /\ c \in Context /\ LogOK(c, endDoc)
  BY DEF IInv, TypeOK
<1>2. LogOK(EofCheck, endDoc) /\ EofCheck \in Context
  BY <1>1, EofCheckKeeps
<1>3. /\ LogOK(c', endDoc') /\ endDoc' = TRUE
      /\ phase' = "EOF" /\ phase' \in Phase /\ PhaseMatchesStack'
  BY <1>1, <1>2, EndAtKeeps DEF EpilogTail
<1>4. UNCHANGED Input /\ UNCHANGED <<pos, open, startDoc>> /\ Flow'
  BY DEF EpilogTail, Flow, IInv, TypeOK
<1> QED
  BY <1>3, <1>4, Assemble DEF IInv, TypeOK

LEMMA RejectKeeps ==
  ASSUME IInv, NotATag \/ BadName \/ WrongToken
  PROVE  IInv'
<1>1. /\ c \in Context /\ LogOK(c, FALSE) /\ endDoc = FALSE
      /\ pos \in Nat /\ have \in Nat /\ pos < have
      /\ pos + 1 \in 0 .. have
      /\ Whole => pos + Size(Cur.k) \in 0 .. have
  BY LiveFacts DEF NotATag, BadName, WrongToken, TagReady
<1>2. LogOK(RaiseFatal(c), endDoc) /\ RaiseFatal(c) \in Context
  BY <1>1, FatalKeeps DEF LogOK
<1>3. EndAt(RaiseFatal(c)) /\ Fail
  BY DEF NotATag, BadName, WrongToken
<1>4. /\ LogOK(c', endDoc') /\ endDoc' = TRUE
      /\ phase' = "EOF" /\ phase' \in Phase /\ PhaseMatchesStack'
  BY <1>1, <1>2, <1>3, EndAtKeeps
<1>5. pos' \in 0 .. have
  BY <1>1 DEF NotATag, BadName, WrongToken
<1>6. Flow'
  BY <1>3, FlowOfStep
<1>7. UNCHANGED Input /\ UNCHANGED <<open, startDoc>>
  BY DEF NotATag, BadName, WrongToken
<1> QED
  BY <1>4, <1>5, <1>6, <1>7, Assemble DEF IInv, TypeOK

LEMMA TerminateKeeps ==
  ASSUME IInv, Terminate
  PROVE  IInv'
<1> DEFINE x == IF phase \in {"EOF", "EPILOG"} THEN EofCheck ELSE RaiseFatal(c)
<1>1. endDoc \in BOOLEAN /\ c \in Context /\ LogOK(c, endDoc)
  BY DEF IInv, TypeOK
<1>2. LogOK(x, endDoc) /\ x \in Context
  <2>1. LogOK(RaiseFatal(c), endDoc)
    BY <1>1, FatalKeeps
  <2>2. LogOK(EofCheck, endDoc)
    BY <1>1, EofCheckKeeps
  <2> QED
    BY <2>1, <2>2 DEF LogOK
<1>3. /\ IF phase # "EOF" THEN EndAt(x) ELSE c' = x /\ UNCHANGED <<phase, endDoc>>
      /\ fatal' = (x # c)
      /\ UNCHANGED Input /\ UNCHANGED <<pos, open, startDoc>>
  BY DEF Terminate
<1>4. Flow'
  BY DEF Terminate, Return, Flow
<1> HIDE DEF x
<1>5. /\ LogOK(c', endDoc') /\ (endDoc' => phase' = "EOF") /\ endDoc' \in BOOLEAN
      /\ phase' \in Phase /\ PhaseMatchesStack'
  <2>1. CASE phase # "EOF"
    BY <1>1, <1>2, <1>3, <2>1, EndAtKeeps
  <2>2. CASE phase = "EOF"
    BY <1>1, <1>2, <1>3, <2>2 DEF PhaseMatchesStack, Phase
  <2> QED
    BY <2>1, <2>2
<1> QED
  BY <1>3, <1>4, <1>5, Assemble DEF IInv, TypeOK

----------------------------------------------------------------------------
(* Tags.                                                                   *)

\* A tag the driver scans: what the scan leaves of the context.
LEMMA ScannedKeeps ==
  ASSUME IInv, TagReady
  PROVE  LogOK(Scanned, FALSE) /\ Scanned \in Context
<1>1. c \in Context /\ LogOK(c, FALSE) /\ c.disableSAX = 0
  BY LiveFacts DEF TagReady, InPhase, Live
<1>2. LogOK(RaiseFatal(c), FALSE) /\ LogOK(RaiseError(c), FALSE)
  BY <1>1, FatalKeeps, ErrorKeeps
<1> QED
  BY <1>1, <1>2 DEF Scanned, LogOK

LEMMA CutTagKeeps ==
  ASSUME IInv, CutTag
  PROVE  IInv'
<1>1. /\ endDoc = FALSE /\ Cur \in Construct /\ have \in Nat
  BY LiveFacts DEF CutTag, TagReady
<1> DEFINE evs == <<E("start", Cur.nm)>>
<1>2. PICK s \in StopPoints(evs) : c' = RaiseFatal(Deliver(Scanned, evs, s))
  BY DEF CutTag
<1>3. Batch(evs)
  BY <1>1, TagBatch DEF Construct
<1>4. LogOK(Scanned, FALSE) /\ Scanned \in Context
  BY ScannedKeeps DEF CutTag
<1> HIDE DEF evs
<1>5. LogOK(Deliver(Scanned, evs, s), FALSE)
  BY <1>3, <1>4, DeliverStep
<1>6. LogOK(c', FALSE)
  BY <1>2, <1>5, FatalKeeps DEF LogOK
<1>7. /\ UNCHANGED Input /\ UNCHANGED <<open, startDoc, endDoc>>
      /\ pos' = have /\ phase' = AfterTag(open) /\ Flow'
  BY FlowOfStep DEF CutTag
<1>8. PhaseMatchesStack' /\ phase' \in Phase
  BY <1>7 DEF PhaseMatchesStack, AfterTag, Phase
<1>9. pos' \in 0 .. have
  BY <1>1, <1>7
<1> QED
  BY <1>1, <1>6, <1>7, <1>8, <1>9, Assemble DEF IInv, TypeOK

LEMMA OpenTagKeeps ==
  ASSUME IInv, OpenTag
  PROVE  IInv'
<1>1. /\ endDoc = FALSE /\ Cur \in Construct
      /\ Whole => pos + Size(Cur.k) \in 0 .. have
  BY LiveFacts DEF OpenTag, TagReady
<1> DEFINE evs == <<E("start", Cur.nm)>>
<1>2. PICK s \in StopPoints(evs) : c' = Deliver(Scanned, evs, s)
  BY DEF OpenTag
<1>3. Batch(evs) /\ Cur.nm \in Names
  BY <1>1, TagBatch DEF Construct
<1>4. LogOK(Scanned, FALSE) /\ Scanned \in Context
  BY ScannedKeeps DEF OpenTag
<1> HIDE DEF evs
<1>5. LogOK(c', FALSE)
  BY <1>2, <1>3, <1>4, DeliverStep
<1>6. /\ UNCHANGED Input /\ UNCHANGED <<startDoc, endDoc>>
      /\ pos' = pos + Size(Cur.k) /\ Whole
      /\ open' = Append(open, Cur.nm) /\ phase' = "CONTENT" /\ Flow'
  BY FlowOfStep DEF OpenTag
<1>7. open' \in Seq(Names) /\ open' # <<>>
  BY <1>3, <1>6 DEF IInv, TypeOK
<1>8. PhaseMatchesStack' /\ phase' \in Phase
  BY <1>6, <1>7 DEF PhaseMatchesStack, Phase
<1> QED
  BY <1>1, <1>5, <1>6, <1>7, <1>8, Assemble DEF IInv, TypeOK

LEMMA EmptyTagKeeps ==
  ASSUME IInv, EmptyTag
  PROVE  IInv'
<1>1. /\ endDoc = FALSE /\ Cur \in Construct
      /\ Whole => pos + Size(Cur.k) \in 0 .. have
  BY LiveFacts DEF EmptyTag, TagReady
<1> DEFINE evs == <<E("start", Cur.nm), E("end", Cur.nm)>>
<1>2. PICK s \in StopPoints(evs) : c' = Deliver(Scanned, evs, s)
  BY DEF EmptyTag
<1>3. Batch(evs)
  BY <1>1, TagBatch DEF Construct
<1>4. LogOK(Scanned, FALSE) /\ Scanned \in Context
  BY ScannedKeeps DEF EmptyTag
<1> HIDE DEF evs
<1>5. LogOK(c', FALSE)
  BY <1>2, <1>3, <1>4, DeliverStep
<1>6. /\ UNCHANGED Input /\ UNCHANGED <<open, startDoc, endDoc>>
      /\ pos' = pos + Size(Cur.k) /\ Whole
      /\ phase' = AfterTag(open) /\ Flow'
  BY FlowOfStep DEF EmptyTag
<1>7. PhaseMatchesStack' /\ phase' \in Phase
  BY <1>6 DEF PhaseMatchesStack, Phase, AfterTag
<1> QED
  BY <1>1, <1>5, <1>6, <1>7, Assemble DEF IInv, TypeOK

LEMMA EndTagKeeps ==
  ASSUME IInv, EndTag
  PROVE  IInv'
<1>1. /\ endDoc = FALSE /\ c \in Context /\ LogOK(c, FALSE)
      /\ pos \in Nat /\ have \in Nat /\ pos < have
      /\ Whole => pos + Size(Cur.k) \in 0 .. have
  BY LiveFacts DEF EndTag
<1>2. pos' \in 0 .. have
  BY <1>1 DEF EndTag
<1>3. open # <<>>
  BY DEF EndTag, InPhase, IInv, PhaseMatchesStack
<1> DEFINE top == open[Len(open)]
           x == IF Whole THEN c ELSE RaiseFatal(c)
           y == IF Cur.nm = top THEN x ELSE RaiseFatal(x)
           evs == <<E("end", top)>>
<1>4. /\ \E s \in StopPoints(evs) : c' = Deliver(y, evs, s)
      /\ open' = SubSeq(open, 1, Len(open) - 1)
      /\ phase' = AfterTag(open') /\ Advance
      /\ UNCHANGED Input /\ UNCHANGED <<startDoc, endDoc>>
  BY <1>3 DEF EndTag
<1>5. PICK s \in StopPoints(evs) : c' = Deliver(y, evs, s)
  BY <1>4
<1>6. Batch(evs)
  <2>1. top \in Names
    BY <1>3 DEF IInv, TypeOK
  <2> QED
    BY <2>1, TagBatch
<1>7. LogOK(y, FALSE) /\ y \in Context
  <2>1. LogOK(x, FALSE) /\ x \in Context
    <3>1. LogOK(RaiseFatal(c), FALSE)
      BY <1>1, FatalKeeps
    <3> QED
      BY <1>1, <3>1 DEF LogOK
  <2> HIDE DEF x
  <2>2. LogOK(RaiseFatal(x), FALSE)
    BY <2>1, FatalKeeps
  <2> QED
    BY <2>1, <2>2 DEF LogOK
<1> HIDE DEF y, evs
<1>8. LogOK(c', FALSE)
  BY <1>5, <1>6, <1>7, DeliverStep
<1>9. open' \in Seq(Names)
  BY <1>3, <1>4 DEF IInv, TypeOK
<1>10. PhaseMatchesStack' /\ phase' \in Phase
  BY <1>4 DEF PhaseMatchesStack, Phase, AfterTag
<1>11. Flow'
  BY <1>4, FlowOfStep
<1> QED
  BY <1>1, <1>2, <1>4, <1>8, <1>9, <1>10, <1>11, Assemble DEF IInv, TypeOK

----------------------------------------------------------------------------
(* Content.                                                                *)

LEMMA ReferenceKeeps ==
  ASSUME IInv, Reference
  PROVE  IInv'
<1>1. /\ endDoc = FALSE /\ c \in Context /\ LogOK(c, FALSE)
      /\ pos \in Nat /\ have \in Nat /\ pos < have
      /\ Whole => pos + Size(Cur.k) \in 0 .. have
  BY LiveFacts DEF Reference
<1> DEFINE evs == <<Leaf("ref")>>
<1>2. Batch(evs)
  BY LeafBatch DEF Callback, Event
<1>3. pos' \in 0 .. have
  <2>1. Cur.k = "ref"
    BY DEF Reference
  <2> QED
    BY <1>1, <2>1 DEF Reference
<1>4. LogOK(c', FALSE) /\ Flow'
  <2>1. CASE Whole /\ Cur.bad = "no"
    <3>1. PICK s \in StopPoints(evs) : c' = Deliver(c, evs, s)
      BY <2>1 DEF Reference
    <3> HIDE DEF evs
    <3>2. LogOK(c', FALSE)
      BY <1>1, <1>2, <3>1, DeliverStep
    <3> QED
      BY <2>1, <3>2, FlowOfStep DEF Reference
  <2>2. CASE ~(Whole /\ Cur.bad = "no")
    BY <1>1, <2>2, FatalKeeps, FlowOfStep DEF Reference
  <2> QED
    BY <2>1, <2>2
<1>5. UNCHANGED Input /\ UNCHANGED <<phase, open, startDoc, endDoc>>
  BY DEF Reference
<1>6. PhaseMatchesStack'
  BY <1>5 DEF IInv, PhaseMatchesStack
<1> QED
  BY <1>1, <1>3, <1>4, <1>5, <1>6, Assemble DEF IInv, TypeOK

LEMMA CharDataKeeps ==
  ASSUME IInv, CharData
  PROVE  IInv'
<1>1. /\ endDoc = FALSE /\ c \in Context /\ LogOK(c, FALSE)
      /\ pos \in Nat /\ have \in Nat
  BY LiveFacts DEF CharData
<1>2. /\ UNCHANGED Input /\ UNCHANGED <<phase, open, startDoc, endDoc>>
      /\ Flow'
  BY FlowOfStep DEF CharData
<1>3. PICK e \in pos .. have :
        /\ pos' = e
        /\ \/ \E s \in StopPoints(TextEvents(e - pos)) :
                 c' = Deliver(c, TextEvents(e - pos), s)
           \/ \E g \in pos .. have :
                 \E s \in StopPoints(TextEvents(g - pos)) :
                    c' = RaiseFatal(Deliver(c, TextEvents(g - pos), s))
  <2>1. \A e \in pos .. have : \A f \in pos .. e - 1 : \A g \in pos .. f :
           g \in pos .. have
    BY <1>1
  <2> QED
    BY <2>1 DEF CharData
<1>4. ASSUME NEW n \in Nat, NEW s \in StopPoints(TextEvents(n))
      PROVE  LogOK(Deliver(c, TextEvents(n), s), FALSE)
  <2>1. Batch(TextEvents(n))
    BY TextBatch
  <2> QED
    BY <1>1, <2>1, DeliverStep
<1>5. LogOK(c', FALSE)
  <2>1. CASE \E s \in StopPoints(TextEvents(e - pos)) :
                c' = Deliver(c, TextEvents(e - pos), s)
    <3>1. e - pos \in Nat
      BY <1>1
    <3> QED
      BY <1>4, <2>1, <3>1
  <2>2. ASSUME NEW g \in pos .. have, NEW s \in StopPoints(TextEvents(g - pos)),
               c' = RaiseFatal(Deliver(c, TextEvents(g - pos), s))
        PROVE  LogOK(c', FALSE)
    <3>1. g - pos \in Nat
      BY <1>1
    <3>2. LogOK(Deliver(c, TextEvents(g - pos), s), FALSE)
      BY <1>4, <3>1
    <3> QED
      BY <2>2, <3>2, FatalKeeps DEF LogOK
  <2> QED
    BY <1>3, <2>1, <2>2
<1>6. pos' \in 0 .. have
  BY <1>1, <1>3
<1>7. PhaseMatchesStack'
  BY <1>2 DEF IInv, PhaseMatchesStack
<1> QED
  BY <1>1, <1>2, <1>5, <1>6, <1>7, Assemble DEF IInv, TypeOK

----------------------------------------------------------------------------
(* How a terminating call ends.  Namespace errors are left out of the      *)
(* documents: one is recorded in errNo without stopping the parser, and    *)
(* check_eof then reports nothing.                                         *)

NoNamespaceFaults ==
  \A d \in Docs : \A n \in 1 .. Len(d) : d[n].con.bad # "ns"

\* A recorded error has silenced the context.
Clean(x) == x.errNo = "ok" \/ x.disableSAX # 0

Settling == /\ doc \in Docs
            /\ Clean(c)
            /\ fatal => c.disableSAX # 0
            /\ phase = "EOF" => endDoc
            /\ pc = "final" => term /\ c.disableSAX = 0
            /\ TerminateSettles

\* Two logs of different lengths are of different contexts.
LEMMA FatalIsClean ==
  ASSUME NEW x \in Context
  PROVE  /\ Clean(RaiseFatal(x)) /\ RaiseFatal(x).disableSAX = 1
         /\ RaiseFatal(x) # x
<1> DEFINE m == Append(x.log, Leaf("fatal"))
<1>1. RaiseFatal(x).disableSAX = 1 /\ RaiseFatal(x).log = m
  BY DEF RaiseFatal, Ctxt
<1>2. Len(m) = Len(x.log) + 1 /\ Len(x.log) \in Nat
  <2>1. x.log \in Seq(Entry) /\ "fatal" \in Event
    BY ContextFields DEF Event
  <2> QED
    BY <2>1, AppendLog
<1>3. m # x.log
  BY <1>2
<1> QED
  BY <1>1, <1>3 DEF Clean

LEMMA DeliverIsClean ==
  ASSUME NEW x \in Context, Clean(x), NEW evs, NEW s
  PROVE  /\ Clean(Deliver(x, evs, s))
         /\ x.disableSAX # 0 => Deliver(x, evs, s).disableSAX # 0
<1>1. CASE x.disableSAX # 0
  BY <1>1 DEF Deliver
<1>2. CASE x.disableSAX = 0 /\ s = 0
  BY <1>2 DEF Deliver, Clean, Ctxt
<1>3. CASE x.disableSAX = 0 /\ s # 0
  BY <1>3 DEF Deliver, Stopped, Clean, Ctxt
<1> QED
  BY <1>1, <1>2, <1>3

LEMMA FinishIsClean ==
  ASSUME NEW x \in Context
  PROVE  /\ Clean(x) => Clean(Finished(x))
         /\ Finished(x).disableSAX = x.disableSAX
BY DEF Finished, Clean, Ctxt

LEMMA EofCheckIsClean ==
  ASSUME c \in Context, Clean(c)
  PROVE  /\ Clean(EofCheck) /\ EofCheck \in Context
         /\ EofCheck # c => EofCheck.disableSAX # 0
         /\ EofCheck = c /\ c.disableSAX = 0 => ~(Avail > 0 \/ truncated)
<1>1. Clean(RaiseFatal(c)) /\ RaiseFatal(c).disableSAX = 1 /\ RaiseFatal(c) # c
  BY FatalIsClean
<1>2. RaiseFatal(c) \in Context
  <2>1. c.log \in Seq(Entry) /\ "fatal" \in Event /\ "fatal" \in ErrNo
    BY ContextFields DEF Event, ErrNo
  <2> DEFINE m == Append(c.log, Leaf("fatal"))
  <2>2. m \in Seq(Entry) /\ 1 \in 0 .. 2 /\ FALSE \in BOOLEAN
    BY <2>1, AppendLog
  <2> HIDE DEF m
  <2>3. Ctxt(1, "fatal", FALSE, m) \in Context
    BY <2>1, <2>2, CtxtType
  <2> QED
    BY <2>3 DEF RaiseFatal, m
<1>3. c.disableSAX = 0 => c.errNo = "ok"
  BY DEF Clean
<1> QED
  BY <1>1, <1>2, <1>3 DEF EofCheck

\* A step of the loop, put back together.
LEMMA StepSettles ==
  ASSUME Settling, Live, doc' = doc, term' = term, Clean(c'),
         Advance \/ (Fail /\ c'.disableSAX # 0), phase' = "EOF" => endDoc'
  PROVE  Settling'
<1>1. CASE Advance
  BY <1>1 DEF Settling, Live, Advance, TerminateSettles, Clean
<1>2. CASE Fail /\ c'.disableSAX # 0
  BY <1>2 DEF Settling, Live, Fail, Return, TerminateSettles, Clean
<1> QED
  BY <1>1, <1>2

LEMMA ReceiveSettles ==
  ASSUME IInv, Settling, Chunk \/ ChunkInvalid \/ Refuse
  PROVE  Settling'
<1>1. CASE Chunk
  BY <1>1 DEF Chunk, Settling, TerminateSettles, Clean
<1>2. CASE ChunkInvalid
  <2>1. Clean(c') /\ c'.disableSAX = 1
    BY <1>2, FatalIsClean DEF ChunkInvalid, IInv, TypeOK
  <2>2. phase' = "EOF" => endDoc'
    BY <1>2 DEF ChunkInvalid, Settling
  <2> QED
    BY <1>2, <2>1, <2>2
       DEF ChunkInvalid, Fail, Return, Settling, TerminateSettles, Clean
<1>3. CASE Refuse
  BY <1>3 DEF Refuse, Return, Settling, TerminateSettles, Clean
<1> QED
  BY <1>1, <1>2, <1>3

LEMMA LatchSettles == ASSUME Settling, Latch PROVE Settling'
<1>1. c' = c /\ c.disableSAX # 0
  BY DEF Latch, Settling
<1> QED
  BY <1>1 DEF Latch, Fail, Return, Input, Settling, TerminateSettles, Clean

LEMMA ParkSettles ==
  ASSUME Settling,
         \/ Exhausted \/ XmlDeclPark \/ MiscPark \/ SubsetPark
         \/ StartTagPark \/ ContentPark \/ EndTagPark
  PROVE  Settling'
<1>1. Leave /\ UNCHANGED Input /\ Live
  BY DEF Exhausted, XmlDeclPark, MiscPark, SubsetPark, StartTagPark,
         ContentPark, EndTagPark, InPhase
<1>2. CASE term
  BY <1>1, <1>2 DEF Leave, Live, Input, Settling, TerminateSettles, Clean
<1>3. CASE ~term
  BY <1>1, <1>3 DEF Leave, Return, Live, Input, Settling, TerminateSettles, Clean
<1> QED
  BY <1>2, <1>3

LEMMA QuietSettles ==
  ASSUME Settling, StepStart \/ MiscTail \/ ContentTag \/ SkipBlanks
  PROVE  Settling'
<1>1. /\ Live /\ UNCHANGED Input /\ UNCHANGED <<endDoc, c>> /\ Advance
  BY DEF StepStart, MiscTail, ContentTag, SkipBlanks, InPhase
<1>2. phase' = "EOF" => endDoc'
  BY DEF StepStart, MiscTail, ContentTag, SkipBlanks, Settling
<1>3. Clean(c')
  BY <1>1 DEF Settling
<1> QED
  BY <1>1, <1>2, <1>3, StepSettles DEF Input

\* What a step may hand to Deliver.
LEMMA Raised ==
  ASSUME IInv, Settling, NEW cond
  PROVE  LET x == IF cond THEN RaiseFatal(c) ELSE c
             y == IF cond THEN c ELSE RaiseFatal(c)
         IN  x \in Context /\ Clean(x) /\ y \in Context /\ Clean(y)
<1>1. c \in Context /\ Clean(c)
  BY DEF IInv, TypeOK, Settling
<1>2. Clean(RaiseFatal(c)) /\ RaiseFatal(c) \in Context
  <2>1. LogOK(RaiseFatal(c), endDoc)
    BY <1>1, FatalKeeps DEF IInv, TypeOK
  <2> QED
    BY <1>1, <2>1, FatalIsClean DEF LogOK
<1> QED
  BY <1>1, <1>2

LEMMA PrologSettles ==
  ASSUME IInv, Settling, StepXmlDecl \/ ScanInline \/ StepDoctype \/ StepDoctypeHead
  PROVE  Settling'
<1>1. Live /\ UNCHANGED Input /\ UNCHANGED endDoc
  BY DEF StepXmlDecl, ScanInline, StepDoctype, StepDoctypeHead, InPhase
<1>2. phase' = "EOF" => endDoc'
  BY DEF StepXmlDecl, ScanInline, StepDoctype, StepDoctypeHead, Settling
<1>3. \E x \in {c, RaiseFatal(c)} : \E evs : \E s : c' = Deliver(x, evs, s)
  BY DEF StepXmlDecl, ScanInline, StepDoctype, StepDoctypeHead
<1>4. Clean(c')
  <2>1. ASSUME NEW x \in {c, RaiseFatal(c)} PROVE x \in Context /\ Clean(x)
    BY Raised
  <2> QED
    BY <1>3, <2>1, DeliverIsClean
<1>5. Advance \/ (Fail /\ c'.disableSAX # 0)
  BY DEF StepXmlDecl, ScanInline, StepDoctype, StepDoctypeHead
<1> QED
  BY <1>1, <1>2, <1>4, <1>5, StepSettles DEF Input

LEMMA SubsetSettles ==
  ASSUME IInv, Settling, StepSubset \/ Reference
  PROVE  Settling'
<1>1. Live /\ UNCHANGED Input /\ UNCHANGED endDoc
  BY DEF StepSubset, Reference, InPhase
<1>2. phase' = "EOF" => endDoc'
  BY DEF StepSubset, Reference, Settling
<1>3. \/ Advance /\ \E evs : \E s : c' = Deliver(c, evs, s)
      \/ Fail /\ c' = RaiseFatal(c)
  BY DEF StepSubset, Reference
<1>4. c \in Context /\ Clean(c)
  BY DEF IInv, TypeOK, Settling
<1>5. Clean(c') /\ (Advance \/ (Fail /\ c'.disableSAX # 0))
  BY <1>3, <1>4, DeliverIsClean, FatalIsClean
<1> QED
  BY <1>1, <1>2, <1>5, StepSettles DEF Input

LEMMA TextSettles == ASSUME IInv, Settling, CharData PROVE Settling'
<1>1. /\ Live /\ UNCHANGED Input /\ UNCHANGED <<endDoc, phase>> /\ Advance
  BY DEF CharData, InPhase
<1>2. c \in Context /\ Clean(c) /\ LogOK(c, FALSE)
  BY LiveFacts DEF CharData, IInv, TypeOK, Settling
<1>3. PICK e \in pos .. have :
        \/ \E s \in StopPoints(TextEvents(e - pos)) :
              c' = Deliver(c, TextEvents(e - pos), s)
        \/ \E g \in pos .. have :
              \E s \in StopPoints(TextEvents(g - pos)) :
                 c' = RaiseFatal(Deliver(c, TextEvents(g - pos), s))
  <2>1. pos \in Nat /\ have \in Nat
    BY DEF IInv, TypeOK
  <2>2. \A e \in pos .. have : \A f \in pos .. e - 1 : \A g \in pos .. f :
           g \in pos .. have
    BY <2>1
  <2> QED
    BY <2>2 DEF CharData
<1>4. Clean(c')
  <2>1. ASSUME NEW g \in pos .. have, NEW s \in StopPoints(TextEvents(g - pos)),
               c' = RaiseFatal(Deliver(c, TextEvents(g - pos), s))
        PROVE  Clean(c')
    BY <2>1 DEF RaiseFatal, Ctxt, Clean
  <2> QED
    BY <1>2, <1>3, <2>1, DeliverIsClean
<1>5. phase' = "EOF" => endDoc'
  BY <1>1 DEF Settling
<1> QED
  BY <1>1, <1>4, <1>5, StepSettles DEF Input

\* The tag scanned has no namespace fault.
LEMMA ScannedIsClean ==
  ASSUME IInv, Settling, NoNamespaceFaults, TagReady
  PROVE  Scanned \in Context /\ Clean(Scanned)
<1>1. Cur.bad # "ns"
  <2>1. pos + 1 \in 1 .. Len(doc) /\ doc \in Docs
    BY DEF IInv, TypeOK, TagReady, InPhase, Avail, Settling
  <2> QED
    BY <2>1 DEF NoNamespaceFaults, Cur
<1>2. Scanned \in {c, RaiseFatal(c)}
  BY <1>1 DEF Scanned
<1>3. c \in Context /\ Clean(c) /\ Clean(RaiseFatal(c))
  BY FatalIsClean DEF IInv, TypeOK, Settling
<1>4. Scanned \in Context
  BY ScannedKeeps
<1> QED
  BY <1>2, <1>3, <1>4

LEMMA TagSettles ==
  ASSUME IInv, Settling, NoNamespaceFaults, CutTag \/ OpenTag \/ EmptyTag
  PROVE  Settling'
<1>1. TagReady /\ Live /\ UNCHANGED Input /\ UNCHANGED endDoc
  BY DEF CutTag, OpenTag, EmptyTag, TagReady, InPhase
<1>2. phase' # "EOF"
  BY DEF CutTag, OpenTag, EmptyTag, AfterTag
<1>3. Scanned \in Context /\ Clean(Scanned)
  BY <1>1, ScannedIsClean
<1>4. \/ Advance /\ \E evs : \E s : c' = Deliver(Scanned, evs, s)
      \/ Fail /\ \E y : c' = RaiseFatal(y)
  BY DEF CutTag, OpenTag, EmptyTag
<1>5. Clean(c') /\ (Advance \/ (Fail /\ c'.disableSAX # 0))
  <2>1. CASE Advance /\ \E evs : \E s : c' = Deliver(Scanned, evs, s)
    BY <1>3, <2>1, DeliverIsClean
  <2>2. CASE Fail /\ \E y : c' = RaiseFatal(y)
    BY <2>2 DEF RaiseFatal, Ctxt, Clean
  <2> QED
    BY <1>4, <2>1, <2>2
<1> QED
  BY <1>1, <1>2, <1>5, StepSettles DEF Input

\* Every step that ends the document.
LEMMA EndAtSettles ==
  ASSUME Settling, Live, UNCHANGED Input, NEW x \in Context, Clean(x), EndAt(x),
         Advance \/ (Fail /\ x.disableSAX # 0)
  PROVE  Settling'
<1>1. c' = Finished(x) /\ endDoc'
  BY DEF EndAt
<1>2. Clean(c') /\ c'.disableSAX = x.disableSAX
  BY <1>1, FinishIsClean
<1> QED
  BY <1>1, <1>2, StepSettles DEF Input

LEMMA EndTagSettles == ASSUME IInv, Settling, EndTag PROVE Settling'
<1>1. Live /\ UNCHANGED Input /\ open # <<>>
  BY DEF EndTag, InPhase, IInv, PhaseMatchesStack
<1> DEFINE x == IF Whole THEN c ELSE RaiseFatal(c)
           y == IF Cur.nm = open[Len(open)] THEN x ELSE RaiseFatal(x)
<1>2. /\ \E evs : \E s : c' = Deliver(y, evs, s)
      /\ phase' # "EOF" /\ Advance
  BY <1>1 DEF EndTag, AfterTag
<1>3. x \in Context /\ Clean(x) /\ LogOK(x, FALSE)
  <2>1. c \in Context /\ LogOK(c, FALSE)
    BY LiveFacts DEF EndTag
  <2>2. LogOK(RaiseFatal(c), FALSE)
    BY <2>1, FatalKeeps
  <2> QED
    BY <2>1, <2>2, Raised DEF LogOK
<1> HIDE DEF x
<1>4. y \in Context /\ Clean(y)
  <2>1. LogOK(RaiseFatal(x), FALSE) /\ Clean(RaiseFatal(x))
    BY <1>3, FatalKeeps, FatalIsClean
  <2> QED
    BY <1>3, <2>1 DEF LogOK
<1> HIDE DEF y
<1>5. Clean(c')
  BY <1>2, <1>4, DeliverIsClean
<1> QED
  BY <1>1, <1>2, <1>5, StepSettles DEF Input

LEMMA RejectSettles ==
  ASSUME IInv, Settling, NotATag \/ BadName \/ WrongToken
  PROVE  Settling'
<1>1. /\ Live /\ UNCHANGED Input /\ EndAt(RaiseFatal(c)) /\ Fail
  BY DEF NotATag, BadName, WrongToken, TagReady, InPhase
<1>2. RaiseFatal(c) \in Context /\ Clean(RaiseFatal(c))
  BY Raised
<1>3. RaiseFatal(c).disableSAX = 1
  BY FatalIsClean DEF IInv, TypeOK
<1> QED
  BY <1>1, <1>2, <1>3, EndAtSettles

\* The end of the document is found in the epilog, with or without a fatal.
LEMMA EpilogSettles == ASSUME IInv, Settling, EpilogTail PROVE Settling'
<1>1. /\ Live /\ EndAt(EofCheck) /\ fatal' = (EofCheck # c)
      /\ UNCHANGED <<Input, pc, ret>>
  BY DEF EpilogTail, InPhase
<1>2. c \in Context /\ Clean(c)
  BY DEF IInv, TypeOK, Settling
<1>3. /\ Clean(EofCheck) /\ EofCheck \in Context
      /\ EofCheck # c => EofCheck.disableSAX # 0
  BY <1>2, EofCheckIsClean
<1>4. Clean(c') /\ c'.disableSAX = EofCheck.disableSAX /\ endDoc'
  BY <1>1, <1>3, FinishIsClean DEF EndAt
<1> QED
  BY <1>1, <1>3, <1>4 DEF Input, Live, Settling, TerminateSettles, Clean

LEMMA TerminateSettlesIt == ASSUME IInv, Settling, Terminate PROVE Settling'
<1> DEFINE x == IF phase \in {"EOF", "EPILOG"} THEN EofCheck ELSE RaiseFatal(c)
<1>1. c \in Context /\ Clean(c) /\ c.disableSAX = 0 /\ term
  BY DEF IInv, TypeOK, Settling, Terminate
<1>2. /\ Clean(x) /\ x \in Context /\ (x # c => x.disableSAX # 0)
      /\ x = c => ~(Avail > 0)
  <2>1. RaiseFatal(c) \in Context /\ Clean(RaiseFatal(c))
    BY Raised
  <2>2. RaiseFatal(c).disableSAX = 1 /\ RaiseFatal(c) # c
    BY <1>1, FatalIsClean
  <2>3. /\ Clean(EofCheck) /\ EofCheck \in Context
        /\ EofCheck # c => EofCheck.disableSAX # 0
        /\ EofCheck = c => ~(Avail > 0)
    BY <1>1, EofCheckIsClean
  <2> QED
    BY <2>1, <2>2, <2>3
<1>3. Avail \in Nat
  BY DEF IInv, TypeOK, Avail
<1>4. /\ IF phase # "EOF" THEN EndAt(x) ELSE c' = x /\ UNCHANGED <<phase, endDoc>>
      /\ fatal' = (x # c) /\ pc' = "idle"
      /\ ret' = IF x # c THEN "fatal" ELSE IF Avail = 0 THEN "complete" ELSE "await"
      /\ UNCHANGED Input
  BY DEF Terminate, Return
<1> HIDE DEF x
<1>5. Clean(c') /\ c'.disableSAX = x.disableSAX /\ phase' = "EOF" /\ endDoc'
  BY <1>2, <1>4, FinishIsClean DEF EndAt, Settling
<1>6. ret' # "await"
  BY <1>2, <1>3, <1>4
<1> QED
  BY <1>2, <1>4, <1>5, <1>6 DEF Input, Settling, TerminateSettles, Clean

LEMMA InitSettling == Init => Settling
BY DEF Init, Settling, TerminateSettles, Clean, Ctxt

LEMMA NextSettles ==
  ASSUME NoNamespaceFaults, IInv, Settling, [Next]_vars
  PROVE  Settling'
<1>1. CASE Chunk \/ ChunkInvalid \/ Refuse
  BY <1>1, ReceiveSettles
<1>2. CASE Latch \/ Terminate
  BY <1>2, LatchSettles, TerminateSettlesIt
<1>3. CASE \/ Exhausted \/ XmlDeclPark \/ MiscPark \/ SubsetPark
           \/ StartTagPark \/ ContentPark \/ EndTagPark
  BY <1>3, ParkSettles
<1>4. CASE StepStart \/ MiscTail \/ ContentTag \/ SkipBlanks
  BY <1>4, QuietSettles
<1>5. CASE StepXmlDecl \/ ScanInline \/ StepDoctype \/ StepDoctypeHead
  BY <1>5, PrologSettles
<1>6. CASE StepSubset \/ Reference \/ CharData
  BY <1>6, SubsetSettles, TextSettles
<1>7. CASE CutTag \/ OpenTag \/ EmptyTag \/ EndTag
  BY <1>7, TagSettles, EndTagSettles
<1>8. CASE EpilogTail \/ NotATag \/ BadName \/ WrongToken
  BY <1>8, EpilogSettles, RejectSettles
<1>9. CASE UNCHANGED vars
  BY <1>9 DEF vars, Settling, TerminateSettles, Clean
<1> QED
  BY <1>1, <1>2, <1>3, <1>4, <1>5, <1>6, <1>7, <1>8, <1>9
     DEF Next, Drive, Step

----------------------------------------------------------------------------
(* The theorems.                                                           *)

LEMMA StutterKeeps == ASSUME IInv, UNCHANGED vars
                      PROVE  IInv'
BY DEF vars, IInv, TypeOK, PhaseMatchesStack

LEMMA NextKeeps ==
  ASSUME IInv, [Next]_vars
  PROVE  IInv'
<1>1. CASE Chunk \/ ChunkInvalid \/ Refuse
  BY <1>1, ReceiveKeeps
<1>2. CASE Latch \/ Exhausted \/ Terminate
  BY <1>2, LatchKeeps, ParkKeeps, TerminateKeeps
<1>3. CASE \/ XmlDeclPark \/ MiscPark \/ SubsetPark
           \/ StartTagPark \/ ContentPark \/ EndTagPark
  BY <1>3, ParkKeeps
<1>4. CASE StepStart \/ MiscTail \/ ContentTag \/ SkipBlanks
  BY <1>4, QuietKeeps
<1>5. CASE StepXmlDecl \/ ScanInline \/ StepDoctype \/ StepDoctypeHead \/ StepSubset
  BY <1>5, XmlDeclKeeps, InlineKeeps, DoctypeKeeps, DoctypeHeadKeeps, SubsetKeeps
<1>6. CASE EpilogTail \/ NotATag \/ BadName \/ WrongToken
  BY <1>6, EpilogKeeps, RejectKeeps
<1>7. CASE CutTag \/ OpenTag \/ EmptyTag \/ EndTag
  BY <1>7, CutTagKeeps, OpenTagKeeps, EmptyTagKeeps, EndTagKeeps
<1>8. CASE Reference \/ CharData
  BY <1>8, ReferenceKeeps, CharDataKeeps
<1>9. CASE UNCHANGED vars
  BY <1>9, StutterKeeps
<1> QED
  BY <1>1, <1>2, <1>3, <1>4, <1>5, <1>6, <1>7, <1>8, <1>9
     DEF Next, Drive, Step

(***************************************************************************)
(* The inductive invariant of the driver (push_persistent and              *)
(* drive_persistent) holds in every reachable state: the types, the        *)
(* agreement of the phase and the element stack, and the order of the SAX  *)
(* log against disableSAX and end_document_fired.                          *)
(***************************************************************************)
THEOREM Invariant == Spec => []IInv
<1>1. Init => IInv
  BY InitIInv
<1>2. IInv /\ [Next]_vars => IInv'
  BY NextKeeps
<1> QED
  BY <1>1, <1>2, PTL DEF Spec

\* The driver never leaves its types: in particular the cursor never passes
\* the cells materialized, nor these the cells received.
THEOREM TypeCorrect == Spec => []TypeOK
<1>1. IInv => TypeOK
  BY DEF IInv
<1> QED
  BY <1>1, Invariant, PTL

\* PushMachine.phase and PushMachine.open_elements agree after every step.
THEOREM StackFollowsPhase == Spec => []PhaseMatchesStack
<1>1. IInv => PhaseMatchesStack
  BY DEF IInv
<1> QED
  BY <1>1, Invariant, PTL

\* finish_document dispatches endDocument once, and only diagnostics follow.
THEOREM EndDocumentOnceAndLast == Spec => []EndDocumentIsLast
<1>1. IInv => EndDocumentIsLast
  BY DEF IInv, LogOK, EndDocumentIsLast, EventAt
<1> QED
  BY <1>1, Invariant, PTL

\* sax_blocked: after a fatal the application hears nothing but endDocument.
THEOREM FatalSilences == Spec => []SilentAfterFatal
<1>1. IInv => SilentAfterFatal
  BY DEF IInv, LogOK, SilentAfterFatal, EventAt
<1> QED
  BY <1>1, Invariant, PTL

\* What settles a document, for documents without namespace errors.
THEOREM SettlingHolds == ASSUME NoNamespaceFaults PROVE Spec => []Settling
<1>1. Init => Settling
  BY InitSettling
<1>2. IInv /\ Settling /\ [Next]_vars => Settling'
  BY NextSettles
<1> QED
  BY <1>1, <1>2, Invariant, PTL DEF Spec

\* When a terminating call of xmlParseChunk returns, the document is at its end
\* with endDocument dispatched, or the context refuses all further input.
THEOREM TerminateAlwaysSettles ==
  ASSUME NoNamespaceFaults PROVE Spec => []TerminateSettles
<1>1. Settling => TerminateSettles
  BY DEF Settling
<1> QED
  BY <1>1, SettlingHolds, PTL

\* finish_document is reached on a terminating call or with a fatal only.
THEOREM EndDocumentWaits ==
  ASSUME NoNamespaceFaults PROVE Spec => EndDocumentOnlyAtTheEnd
<1> DEFINE A == endDoc' /\ ~endDoc => term \/ fatal'
<1>1. IInv /\ Settling /\ [Next]_vars => [A]_vars
  <2> SUFFICES ASSUME IInv, Settling, Next PROVE A
    OBVIOUS
  <2>1. CASE UNCHANGED endDoc
    BY <2>1
  <2>2. CASE Terminate
    BY <2>2 DEF Terminate, Settling
  <2>3. CASE Fail
    BY <2>3 DEF Fail
  <2>4. CASE EpilogTail
    <3>1. c.errNo = "ok" /\ Avail > 0 /\ c \in Context
      BY <2>4 DEF EpilogTail, InPhase, Live, Settling, Clean, IInv, TypeOK
    <3>2. EofCheck # c
      BY <3>1, FatalIsClean DEF EofCheck
    <3> QED
      BY <2>4, <3>2 DEF EpilogTail
  <2>5. \/ UNCHANGED endDoc \/ Terminate \/ Fail \/ EpilogTail
    BY DEF Next, Drive, Step, Chunk, ChunkInvalid, Refuse, Latch, Exhausted, Leave,
           StepStart, XmlDeclPark, StepXmlDecl, SkipBlanks, MiscPark, ScanInline,
           StepDoctype, StepDoctypeHead, SubsetPark, StepSubset, MiscTail,
           StartTagPark, NotATag, BadName, WrongToken, CutTag, OpenTag, EmptyTag,
           ContentPark, ContentTag, Reference, CharData, EndTagPark, EndTag
  <2> QED
    BY <2>1, <2>2, <2>3, <2>4, <2>5
<1> QED
  BY <1>1, Invariant, SettlingHolds, PTL DEF Spec, EndDocumentOnlyAtTheEnd

----------------------------------------------------------------------------
(* The protocol after several events: its recursive function is a run.     *)

Less == {p \in Nat \X Nat : p[1] < p[2]}

LEMMA LessIsWellFounded == IsWellFoundedOn(Less, Nat)
<1>1. Less = OpToRel(<, Nat)
  BY Zenon DEF Less, OpToRel
<1> QED
  BY <1>1, NatLessThanWellFounded, Zenon

LEMMA LeastNumber ==
  ASSUME NEW T \in SUBSET Nat, T # {}
  PROVE  \E m \in T : \A k \in T : m <= k
<1>1. PICK m \in T : \A k \in T : <<k, m>> \notin Less
  BY LessIsWellFounded, WFMin, Zenon
<1>2. ASSUME NEW k \in T PROVE m <= k
  <2>1. k \in Nat /\ m \in Nat
    OBVIOUS
  <2>2. k < m => <<k, m>> \in Less
    BY <2>1 DEF Less
  <2> QED
    BY <1>1, <2>1, <2>2
<1> QED
  BY <1>2

IsRun(r, s, evs, n) ==
  r = [i \in 0 .. n |-> IF i = 0 THEN s ELSE Sax!Heard(r[i - 1], evs[i])]

LEMMA RunExists ==
  ASSUME NEW s, NEW evs, NEW n \in Nat
  PROVE  \E r : IsRun(r, s, evs, n)
<1> DEFINE T == {k \in Nat : ~\E r : IsRun(r, s, evs, k)}
<1>1. SUFFICES ASSUME T # {} PROVE FALSE
  BY Zenon
<1>2. PICK m \in T : \A k \in T : m <= k
  BY <1>1, LeastNumber
<1>3. m \in Nat /\ ~\E r : IsRun(r, s, evs, m)
  BY <1>2
<1>4. CASE m = 0
  <2>1. IsRun([i \in 0 .. 0 |-> s], s, evs, 0)
    BY DEF IsRun
  <2> QED
    BY <1>3, <1>4, <2>1
<1>5. CASE m # 0
  <2>1. m - 1 \in Nat /\ m - 1 \notin T
    BY <1>2, <1>3, <1>5
  <2>2. PICK p : IsRun(p, s, evs, m - 1)
    BY <2>1
  <2> DEFINE r == [i \in 0 .. m |-> IF i = m THEN Sax!Heard(p[m - 1], evs[m])
                                             ELSE p[i]]
  <2>3. ASSUME NEW i \in 0 .. m
        PROVE  r[i] = IF i = 0 THEN s ELSE Sax!Heard(r[i - 1], evs[i])
    <3>1. CASE i = m
      BY <1>3, <1>5, <3>1
    <3>2. CASE i # m
      <4>1. /\ i \in 0 .. m - 1 /\ r[i] = p[i]
            /\ i # 0 => i - 1 \in 0 .. m /\ i - 1 # m
        BY <1>3, <3>2
      <4>2. p[i] = IF i = 0 THEN s ELSE Sax!Heard(p[i - 1], evs[i])
        BY <2>2, <4>1, Zenon DEF IsRun
      <4> QED
        BY <4>1, <4>2
    <3> QED
      BY <3>1, <3>2
  <2>4. IsRun(r, s, evs, m)
    BY <2>3, Zenon DEF IsRun
  <2> QED
    BY <1>3, <2>4
<1> QED
  BY <1>4, <1>5

\* After is where a run ends.
LEMMA AfterIsRun ==
  ASSUME NEW s, NEW evs, Len(evs) \in Nat
  PROVE  \E r : /\ r[0] = s
                /\ \A i \in 1 .. Len(evs) : r[i] = Sax!Heard(r[i - 1], evs[i])
                /\ Sax!After(s, evs) = r[Len(evs)]
<1> DEFINE r == CHOOSE r : IsRun(r, s, evs, Len(evs))
<1>1. IsRun(r, s, evs, Len(evs))
  BY RunExists, Zenon
<1>2. Sax!After(s, evs) = r[Len(evs)]
  BY Zenon DEF Sax!After, IsRun
<1> HIDE DEF r
<1>3. ASSUME NEW i \in 0 .. Len(evs)
      PROVE  r[i] = IF i = 0 THEN s ELSE Sax!Heard(r[i - 1], evs[i])
  BY <1>1, Zenon DEF IsRun
<1>4. r[0] = s
  BY <1>3
<1>5. \A i \in 1 .. Len(evs) : r[i] = Sax!Heard(r[i - 1], evs[i])
  BY <1>3
<1> QED
  BY <1>2, <1>4, <1>5
LEMMA AfterNothing ==
  ASSUME NEW s
  PROVE  Sax!After(s, <<>>) = s
<1>1. PICK r : r[0] = s /\ Sax!After(s, <<>>) = r[Len(<<>>)]
  BY AfterIsRun
<1> QED
  BY <1>1

LEMMA AfterAppend ==
  ASSUME NEW s, NEW S, NEW evs \in Seq(S), NEW a \in S
  PROVE  Sax!After(s, Append(evs, a)) = Sax!Heard(Sax!After(s, evs), a)
<1> DEFINE n == Len(evs)
           f == Append(evs, a)
<1>1. /\ n \in Nat /\ Len(f) = n + 1 /\ f[n + 1] = a
      /\ \A i \in 1 .. n : f[i] = evs[i]
  OBVIOUS
<1> HIDE DEF n, f
<1>2. PICK r : /\ r[0] = s
               /\ \A i \in 1 .. n : r[i] = Sax!Heard(r[i - 1], evs[i])
               /\ Sax!After(s, evs) = r[n]
  BY <1>1, AfterIsRun DEF n
<1>3. PICK q : /\ q[0] = s
               /\ \A i \in 1 .. Len(f) : q[i] = Sax!Heard(q[i - 1], f[i])
               /\ Sax!After(s, f) = q[Len(f)]
  <2>1. Len(f) \in Nat
    BY <1>1
  <2> QED
    BY <2>1, AfterIsRun
<1> DEFINE T == {k \in 0 .. n : r[k] # q[k]}
<1>4. T = {}
  <2>1. SUFFICES ASSUME T # {} PROVE FALSE
    BY Zenon
  <2>2. PICK m \in T : \A k \in T : m <= k
    <3>1. T \in SUBSET Nat
      BY <1>1
    <3> QED
      BY <2>1, <3>1, LeastNumber, Zenon
  <2>3. m \in 0 .. n /\ r[m] # q[m] /\ m # 0
    BY <1>2, <1>3, <2>2
  <2>4. m - 1 \in 0 .. n /\ m - 1 \notin T
    BY <1>1, <2>2, <2>3
  <2>5. r[m - 1] = q[m - 1]
    BY <2>4
  <2>6. m \in 1 .. Len(f) /\ m \in 1 .. n
    BY <1>1, <2>3
  <2>7. r[m] = q[m]
    BY <1>1, <1>2, <1>3, <2>5, <2>6
  <2> QED
    BY <2>3, <2>7
<1>5. r[n] = q[n]
  BY <1>1, <1>4
<1>6. n + 1 \in 1 .. Len(f) /\ (n + 1) - 1 = n
  BY <1>1
<1>7. q[n + 1] = Sax!Heard(q[n], a)
  BY <1>1, <1>3, <1>6
<1> QED
  BY <1>1, <1>2, <1>3, <1>5, <1>7 DEF f

----------------------------------------------------------------------------
(* What the protocol says of one event.                                    *)

State(st, el, qu, en) ==
  [stage |-> st, elems |-> el, quiet |-> qu, ended |-> en, ok |-> TRUE]

LEMMA NowIsState == Sax!Now = State(Stage, open, Quiet, endDoc)
BY DEF Sax!Now, State

LEMMA HeardFatal ==
  ASSUME NEW st, NEW el, NEW qu, NEW en, NEW e, e.ev = "fatal"
  PROVE  Sax!Heard(State(st, el, qu, en), e) = State(st, el, TRUE, en)
BY DEF Sax!Heard, Sax!May, Sax!Moved, State

LEMMA HeardEndDocument ==
  ASSUME NEW st, NEW el, NEW qu, NEW e, e.ev = "endDocument", qu \/ st = "epilog"
  PROVE  Sax!Heard(State(st, el, qu, FALSE), e) = State(st, el, qu, TRUE)
BY DEF Sax!Heard, Sax!May, Sax!Moved, State

LEMMA HeardStartDocument ==
  ASSUME NEW el, NEW e, e.ev = "startDocument"
  PROVE  Sax!Heard(State("fresh", el, FALSE, FALSE), e)
           = State("prolog", el, FALSE, FALSE)
BY DEF Sax!Heard, Sax!May, Sax!Moved, State

LEMMA HeardStart ==
  ASSUME NEW st \in {"prolog", "content"}, NEW el, NEW e, e.ev = "start"
  PROVE  Sax!Heard(State(st, el, FALSE, FALSE), e)
           = State("content", Append(el, e.nm), FALSE, FALSE)
BY DEF Sax!Heard, Sax!May, Sax!Moved, State

LEMMA HeardEnd ==
  ASSUME NEW st, NEW el, NEW e, e.ev = "end", el # <<>>, el[Len(el)] = e.nm
  PROVE  Sax!Heard(State(st, el, FALSE, FALSE), e)
           = State(IF Len(el) = 1 THEN "epilog" ELSE st,
                   SubSeq(el, 1, Len(el) - 1), FALSE, FALSE)
BY DEF Sax!Heard, Sax!May, Sax!Moved, State

LEMMA HeardLeaf ==
  ASSUME NEW st, NEW el, NEW e,
         \/ e.ev \in {"text", "cdata", "ref"} /\ st = "content"
         \/ e.ev \in {"internalSubset", "externalSubset"} /\ st = "prolog"
         \/ e.ev \in {"pi", "comment", "error"} /\ st # "fresh"
  PROVE  Sax!Heard(State(st, el, FALSE, FALSE), e) = State(st, el, FALSE, FALSE)
<1> DEFINE s == State(st, el, FALSE, FALSE)
<1>1. /\ s.stage = st /\ s.elems = el /\ s.quiet = FALSE /\ s.ended = FALSE
      /\ s.ok = TRUE
  BY DEF State
<1> HIDE DEF s
<1>2. Sax!May(s, e)
  BY <1>1 DEF Sax!May
<1>3. Sax!Moved(s, e) = s
  BY DEF Sax!Moved
<1> QED
  BY <1>1, <1>2, <1>3 DEF Sax!Heard, s

----------------------------------------------------------------------------
(* From events to a step of the protocol.                                  *)

\* The callbacks between the logs l and m take the protocol from s to t.
Path(l, m, s, t) == \E evs \in Seq(Entry) : m = l \o evs /\ Sax!After(s, evs) = t

LEMMA PathStays ==
  ASSUME NEW l \in Seq(Entry), NEW s
  PROVE  Path(l, l, s, s)
<1>1. <<>> \in Seq(Entry) /\ l = l \o <<>>
  OBVIOUS
<1> QED
  BY <1>1, AfterNothing DEF Path

LEMMA PathAppend ==
  ASSUME NEW l \in Seq(Entry), NEW m, NEW s, NEW t, Path(l, m, s, t), NEW a \in Entry
  PROVE  Path(l, Append(m, a), s, Sax!Heard(t, a))
<1>1. PICK evs \in Seq(Entry) : m = l \o evs /\ Sax!After(s, evs) = t
  BY DEF Path
<1>2. Append(m, a) = l \o Append(evs, a) /\ Append(evs, a) \in Seq(Entry)
  BY <1>1
<1>3. Sax!After(s, Append(evs, a)) = Sax!Heard(t, a)
  BY <1>1, AfterAppend
<1> QED
  BY <1>2, <1>3 DEF Path

LEMMA PathIdle ==
  ASSUME NEW l \in Seq(Entry), NEW m \in Seq(Entry), NEW s, NEW t, Path(l, m, s, t),
         NEW evs \in Seq(Entry), \A i \in 1 .. Len(evs) : Sax!Heard(t, evs[i]) = t
  PROVE  Path(l, m \o evs, s, t)
<1> DEFINE f(k) == m \o SubSeq(evs, 1, k)
           T == {k \in 0 .. Len(evs) : ~Path(l, f(k), s, t)}
<1>1. Len(evs) \in Nat
  OBVIOUS
<1>2. T = {}
  <2>1. SUFFICES ASSUME T # {} PROVE FALSE
    BY Zenon
  <2>2. PICK k \in T : \A j \in T : k <= j
    <3>1. T \in SUBSET Nat
      BY <1>1
    <3> QED
      BY <2>1, <3>1, LeastNumber, Zenon
  <2>3. k \in 0 .. Len(evs) /\ ~Path(l, f(k), s, t)
    BY <2>2
  <2>4. k # 0
    <3>1. f(0) = m
      OBVIOUS
    <3> QED
      BY <2>3, <3>1
  <2>5. k - 1 \in 0 .. Len(evs) /\ k - 1 \notin T /\ k \in 1 .. Len(evs)
    BY <1>1, <2>2, <2>3, <2>4
  <2>6. Path(l, f(k - 1), s, t)
    BY <2>5
  <2>7. f(k) = Append(f(k - 1), evs[k]) /\ evs[k] \in Entry
    <3>1. /\ SubSeq(evs, 1, k) = Append(SubSeq(evs, 1, k - 1), evs[k])
          /\ SubSeq(evs, 1, k - 1) \in Seq(Entry) /\ evs[k] \in Entry
      BY <2>5
    <3> QED
      BY <3>1
  <2> HIDE DEF f
  <2>8. Path(l, f(k), s, Sax!Heard(t, evs[k]))
    BY <2>6, <2>7, PathAppend
  <2> QED
    BY <2>3, <2>5, <2>8
<1>3. f(Len(evs)) = m \o evs
  <2>1. SubSeq(evs, 1, Len(evs)) = evs
    BY <1>1
  <2> QED
    BY <2>1
<1>4. Len(evs) \in 0 .. Len(evs) /\ Len(evs) \notin T
  BY <1>1, <1>2
<1> HIDE DEF f
<1> QED
  BY <1>3, <1>4

\* From where the step found the protocol, the log of x takes it to a state.
Reached(x, st, el, qu, en) ==
  x \in Context /\ Path(c.log, x.log, Sax!Now, State(st, el, qu, en))

LEMMA ReachedDispatch ==
  ASSUME c \in Context, NEW st, NEW el, NEW qu, NEW en,
         Reached(c', st, el, qu, en),
         endDoc' = en, qu => Quiet', Quiet' \/ (Stage' = st /\ open' = el)
  PROVE  Sax!Dispatch
<1> DEFINE l == c.log
           m == c'.log
           n == Len(l)
<1>1. PICK evs \in Seq(Entry) :
           m = l \o evs /\ Sax!After(Sax!Now, evs) = State(st, el, qu, en)
  BY DEF Reached, Path
<1>2. l \in Seq(Entry)
  BY ContextFields
<1>3. n <= Len(m) /\ l = SubSeq(m, 1, n) /\ SubSeq(m, n + 1, Len(m)) = evs
  <2> HIDE DEF l, m
  <2> QED
    BY <1>1, <1>2
<1>4. Sax!After(Sax!Now, SubSeq(m, n + 1, Len(m))) = State(st, el, qu, en)
  BY <1>1, <1>3
<1> HIDE DEF l, m
<1>5. /\ State(st, el, qu, en).ok = TRUE /\ State(st, el, qu, en).stage = st
      /\ State(st, el, qu, en).elems = el /\ State(st, el, qu, en).quiet = qu
      /\ State(st, el, qu, en).ended = en
  BY DEF State
<1> QED
  BY <1>3, <1>4, <1>5 DEF Sax!Dispatch, l, m, n
LEMMA ReachedNow ==
  ASSUME c \in Context
  PROVE  Reached(c, Stage, open, Quiet, endDoc)
<1>1. c.log \in Seq(Entry)
  BY ContextFields
<1> QED
  BY <1>1, PathStays, NowIsState DEF Reached

LEMMA ReachedAppend ==
  ASSUME c \in Context, NEW x, NEW y \in Context, NEW st, NEW el, NEW qu, NEW en,
         Reached(x, st, el, qu, en),
         NEW a \in Entry, y.log = Append(x.log, a),
         NEW st2, NEW el2, NEW qu2, NEW en2,
         Sax!Heard(State(st, el, qu, en), a) = State(st2, el2, qu2, en2)
  PROVE  Reached(y, st2, el2, qu2, en2)
<1>1. c.log \in Seq(Entry)
  BY ContextFields
<1>2. Path(c.log, x.log, Sax!Now, State(st, el, qu, en))
  BY DEF Reached
<1>3. Path(c.log, y.log, Sax!Now, State(st2, el2, qu2, en2))
  BY <1>1, <1>2, PathAppend
<1> QED
  BY <1>3 DEF Reached

LEMMA ReachedFatal ==
  ASSUME c \in Context, NEW x, NEW st, NEW el, NEW qu, NEW en,
         Reached(x, st, el, qu, en)
  PROVE  /\ Reached(RaiseFatal(x), st, el, TRUE, en)
         /\ RaiseFatal(x).disableSAX = 1
<1> DEFINE m == Append(x.log, Leaf("fatal"))
<1>1. /\ x \in Context /\ x.log \in Seq(Entry) /\ "fatal" \in Event
      /\ "fatal" \in ErrNo /\ Leaf("fatal") \in Entry /\ Leaf("fatal").ev = "fatal"
  BY ContextFields, LeafType DEF Event, ErrNo, Reached
<1>2. m \in Seq(Entry) /\ 1 \in 0 .. 2 /\ FALSE \in BOOLEAN
  BY <1>1, AppendLog
<1> HIDE DEF m
<1>3. /\ Ctxt(1, "fatal", FALSE, m) \in Context
      /\ Ctxt(1, "fatal", FALSE, m).log = m
      /\ Ctxt(1, "fatal", FALSE, m).disableSAX = 1
  BY <1>1, <1>2 DEF Ctxt, Context, Entry
<1>4. /\ RaiseFatal(x) \in Context /\ RaiseFatal(x).disableSAX = 1
      /\ RaiseFatal(x).log = Append(x.log, Leaf("fatal"))
  BY <1>3, Zenon DEF RaiseFatal, m
<1>5. Sax!Heard(State(st, el, qu, en), Leaf("fatal")) = State(st, el, TRUE, en)
  BY <1>1, HeardFatal
<1> QED
  BY <1>1, <1>4, <1>5, ReachedAppend

LEMMA ReachedError ==
  ASSUME c \in Context, NEW x, NEW st, NEW el, Reached(x, st, el, FALSE, FALSE),
         st # "fresh"
  PROVE  /\ Reached(RaiseError(x), st, el, FALSE, FALSE)
         /\ RaiseError(x).disableSAX = x.disableSAX
<1> DEFINE m == Append(x.log, Leaf("error"))
           y == Ctxt(x.disableSAX, "ns", x.wellFormed, m)
<1>1. /\ x \in Context /\ x.log \in Seq(Entry) /\ "error" \in Event
      /\ x.disableSAX \in 0 .. 2 /\ x.wellFormed \in BOOLEAN
      /\ "ns" \in ErrNo /\ Leaf("error") \in Entry /\ Leaf("error").ev = "error"
  BY ContextFields, LeafType DEF Event, ErrNo, Reached
<1>2. m \in Seq(Entry)
  BY <1>1, AppendLog
<1> HIDE DEF m
<1>3. y \in Context /\ y.log = m /\ y.disableSAX = x.disableSAX
  BY <1>1, <1>2, CtxtType
<1>4. /\ RaiseError(x) \in Context /\ RaiseError(x).disableSAX = x.disableSAX
      /\ RaiseError(x).log = Append(x.log, Leaf("error"))
  BY <1>3, Zenon DEF RaiseError, m
<1>5. Sax!Heard(State(st, el, FALSE, FALSE), Leaf("error")) = State(st, el, FALSE, FALSE)
  BY <1>1, HeardLeaf
<1> QED
  BY <1>1, <1>4, <1>5, ReachedAppend

LEMMA ReachedFinish ==
  ASSUME c \in Context, NEW x, NEW st, NEW el, NEW qu, Reached(x, st, el, qu, FALSE),
         endDoc = FALSE, qu \/ st = "epilog"
  PROVE  /\ Reached(Finished(x), st, el, qu, TRUE)
         /\ Finished(x).disableSAX = x.disableSAX
<1> DEFINE m == Append(x.log, Leaf("endDocument"))
           y == Ctxt(x.disableSAX, x.errNo, x.wellFormed, m)
<1>1. /\ x \in Context /\ x.log \in Seq(Entry) /\ "endDocument" \in Event
      /\ x.disableSAX \in 0 .. 2 /\ x.wellFormed \in BOOLEAN
      /\ x.errNo \in ErrNo /\ Leaf("endDocument") \in Entry
      /\ Leaf("endDocument").ev = "endDocument"
  BY ContextFields, LeafType DEF Event, Reached
<1>2. m \in Seq(Entry)
  BY <1>1, AppendLog
<1> HIDE DEF m
<1>3. y \in Context /\ y.log = m /\ y.disableSAX = x.disableSAX
  BY <1>1, <1>2, CtxtType
<1>4. /\ Finished(x) \in Context /\ Finished(x).disableSAX = x.disableSAX
      /\ Finished(x).log = Append(x.log, Leaf("endDocument"))
  BY <1>3, Zenon DEF Finished, m
<1>5. Sax!Heard(State(st, el, qu, FALSE), Leaf("endDocument")) = State(st, el, qu, TRUE)
  BY <1>1, HeardEndDocument
<1> QED
  BY <1>1, <1>4, <1>5, ReachedAppend

\* The sequences of one and of two events, and their parts.
LEMMA OneSequence ==
  ASSUME NEW S, NEW a \in S
  PROVE  <<a>> \in Seq(S) /\ Len(<<a>>) = 1 /\ SubSeq(<<a>>, 1, 1) = <<a>>
<1> DEFINE q == <<a>>
<1>1. q \in Seq(S) /\ Len(q) = 1
  OBVIOUS
<1> HIDE DEF q
<1>2. SubSeq(q, 1, 1) = q
  BY <1>1, SubSeqFull
<1> QED
  BY <1>1, <1>2 DEF q

LEMMA TwoSequence ==
  ASSUME NEW S, NEW a \in S, NEW b \in S
  PROVE  /\ <<a, b>> \in Seq(S) /\ Len(<<a, b>>) = 2
         /\ SubSeq(<<a, b>>, 1, 1) = <<a>> /\ SubSeq(<<a, b>>, 1, 2) = <<a, b>>
<1> DEFINE q == <<a, b>>
           r == <<a>>
           t == SubSeq(q, 1, 1)
<1>1. q \in Seq(S) /\ Len(q) = 2 /\ q[1] = a /\ r \in Seq(S) /\ Len(r) = 1 /\ r[1] = a
  OBVIOUS
<1> HIDE DEF q, r
<1>2. SubSeq(q, 1, 2) = q
  BY <1>1, SubSeqFull
<1>3. t \in Seq(S) /\ Len(t) = 1 /\ t[1] = q[1]
  <2>1. \A i \in 1 .. 1 : q[i] \in S
    BY <1>1
  <2>2. /\ t \in Seq(S) /\ Len(t) = IF 1 <= 1 THEN 1 - 1 + 1 ELSE 0
        /\ \A i \in 1 .. 1-1+1 : t[i] = q[1+i-1]
    <3> HIDE DEF t
    <3> QED
      BY <2>1, SubSeqProperties DEF t
  <2> HIDE DEF t
  <2> QED
    BY <2>2
<1>4. t = r
  <2> HIDE DEF t
  <2>1. \A i \in 1 .. Len(t) : t[i] = r[i]
    BY <1>1, <1>3
  <2> QED
    BY <1>1, <1>3, <2>1, SeqEqual
<1> QED
  BY <1>1, <1>2, <1>4 DEF q, r

\* A stack without its top.
LEMMA FrontSequence ==
  ASSUME NEW S, NEW q \in Seq(S), q # <<>>
  PROVE  /\ q[Len(q)] \in S /\ SubSeq(q, 1, Len(q) - 1) \in Seq(S)
         /\ SubSeq(q, 1, Len(q) - 1) = <<>> <=> Len(q) = 1
<1> DEFINE n == Len(q) - 1
           t == SubSeq(q, 1, n)
<1>1. Len(q) \in Nat /\ Len(q) # 0
  OBVIOUS
<1>2. q[Len(q)] \in S /\ n \in Nat /\ \A i \in 1 .. n : q[i] \in S
  BY <1>1
<1>3. t \in Seq(S) /\ Len(t) = IF 1 <= n THEN n - 1 + 1 ELSE 0
  <2> HIDE DEF n
  <2> QED
    BY <1>2, SubSeqProperties
<1> HIDE DEF t
<1>4. Len(t) = n
  <2> HIDE DEF n
  <2> QED
    BY <1>2, <1>3
<1>5. t = <<>> <=> Len(t) = 0
  BY <1>3, EmptySeq
<1> QED
  BY <1>1, <1>2, <1>3, <1>4, <1>5 DEF t

\* What Deliver leaves: all of the events, or those up to the stop.
Outcome(x, evs, s, y) ==
  \/ y.log = x.log \o evs /\ y.disableSAX = 0
  \/ /\ s \in 1 .. Len(evs) /\ y.log = x.log \o SubSeq(evs, 1, s)
     /\ y.disableSAX # 0

LEMMA DeliverOutcome ==
  ASSUME NEW x \in Context, x.disableSAX = 0, NEW evs \in Seq(Entry),
         NEW s \in StopPoints(evs), NEW y, y = Deliver(x, evs, s)
  PROVE  y \in Context /\ Outcome(x, evs, s, y)
<1>1. /\ x.errNo \in ErrNo /\ x.wellFormed \in BOOLEAN /\ x.log \in Seq(Entry)
      /\ s \in 0 .. Len(evs)
  BY ContextFields DEF StopPoints
<1>2. CASE s = 0
  <2> DEFINE m == x.log \o evs
  <2>1. m \in Seq(Entry) /\ 0 \in 0 .. 2
    BY <1>1
  <2> HIDE DEF m
  <2>2. /\ Ctxt(0, x.errNo, x.wellFormed, m) \in Context
        /\ Ctxt(0, x.errNo, x.wellFormed, m).log = m
        /\ Ctxt(0, x.errNo, x.wellFormed, m).disableSAX = 0
    BY <1>1, <2>1, CtxtType
  <2>3. y = Ctxt(0, x.errNo, x.wellFormed, x.log \o evs)
    BY <1>2 DEF Deliver
  <2> QED
    BY <2>2, <2>3 DEF m, Outcome
<1>3. CASE s # 0
  <2> DEFINE m == x.log \o SubSeq(evs, 1, s)
  <2>1. m \in Seq(Entry) /\ 2 \in 0 .. 2 /\ s \in 1 .. Len(evs)
    BY <1>1, <1>3
  <2>2. y = Stopped(x, m)
    BY <1>3 DEF Deliver
  <2> HIDE DEF m
  <2>3. Stopped(x, m) \in Context /\ Stopped(x, m).log = m
        /\ Stopped(x, m).disableSAX = 2
    <3>1. CASE x.errNo = "ok"
      <4>1. "stop" \in ErrNo /\ FALSE \in BOOLEAN
        BY DEF ErrNo
      <4> QED
        BY <2>1, <3>1, <4>1 DEF Stopped, Ctxt, Context, Entry
    <3>2. CASE x.errNo # "ok"
      BY <1>1, <2>1, <3>2, CtxtType DEF Stopped
    <3> QED
      BY <3>1, <3>2
  <2> QED
    BY <2>1, <2>2, <2>3 DEF m, Outcome
<1> QED
  BY <1>2, <1>3
\* One callback, whether or not the application stops in it.
LEMMA DeliverOne ==
  ASSUME NEW x \in Context, x.disableSAX = 0, NEW a \in Entry,
         NEW s \in StopPoints(<<a>>), NEW y, y = Deliver(x, <<a>>, s)
  PROVE  y \in Context /\ y.log = Append(x.log, a)
<1> DEFINE evs == <<a>>
           l == x.log
<1>1. evs \in Seq(Entry) /\ Len(evs) = 1 /\ SubSeq(evs, 1, 1) = evs
  BY OneSequence
<1>2. l \in Seq(Entry)
  BY ContextFields
<1> HIDE DEF l
<1>3. l \o evs = Append(l, a)
  BY <1>2
<1>6. evs \in Seq(Entry) /\ s \in StopPoints(evs) /\ y = Deliver(x, evs, s)
  OBVIOUS
<1> HIDE DEF evs
<1>4. y \in Context /\ Outcome(x, evs, s, y)
  BY <1>6, DeliverOutcome
<1>5. s \in 1 .. Len(evs) => s = 1
  BY <1>1
<1> QED
  BY <1>1, <1>3, <1>4, <1>5 DEF l, Outcome

\* Two callbacks of one step, of which the application may let only the first
\* through.
LEMMA DeliverTwo ==
  ASSUME NEW x \in Context, x.disableSAX = 0, NEW a \in Entry, NEW b \in Entry,
         NEW s \in StopPoints(<<a, b>>), NEW y, y = Deliver(x, <<a, b>>, s)
  PROVE  /\ y \in Context
         /\ \/ y.log = Append(Append(x.log, a), b)
            \/ y.log = Append(x.log, a) /\ y.disableSAX # 0
<1> DEFINE evs == <<a, b>>
           l == x.log
<1>1. /\ evs \in Seq(Entry) /\ Len(evs) = 2
      /\ SubSeq(evs, 1, 1) = <<a>> /\ SubSeq(evs, 1, 2) = evs
  BY TwoSequence
<1>2. l \in Seq(Entry)
  BY ContextFields
<1> HIDE DEF l
<1>3. l \o evs = Append(Append(l, a), b) /\ l \o <<a>> = Append(l, a)
  BY <1>2
<1>6. evs \in Seq(Entry) /\ s \in StopPoints(evs) /\ y = Deliver(x, evs, s)
  OBVIOUS
<1> HIDE DEF evs
<1>4. y \in Context /\ Outcome(x, evs, s, y)
  BY <1>6, DeliverOutcome
<1>5. s \in 1 .. Len(evs) => s = 1 \/ s = 2
  BY <1>1
<1> QED
  BY <1>1, <1>3, <1>4, <1>5 DEF l, Outcome

LEMMA ReachedOne ==
  ASSUME c \in Context, NEW x, x.disableSAX = 0,
         NEW st, NEW el, Reached(x, st, el, FALSE, FALSE),
         NEW a \in Entry, NEW s \in StopPoints(<<a>>), NEW y, y = Deliver(x, <<a>>, s),
         NEW st2, NEW el2,
         Sax!Heard(State(st, el, FALSE, FALSE), a) = State(st2, el2, FALSE, FALSE)
  PROVE  Reached(y, st2, el2, FALSE, FALSE)
<1>1. x \in Context
  BY DEF Reached
<1>2. y \in Context /\ y.log = Append(x.log, a)
  BY <1>1, DeliverOne
<1> QED
  BY <1>2, ReachedAppend

LEMMA ReachedTwo ==
  ASSUME c \in Context, NEW x, x.disableSAX = 0,
         NEW st, NEW el, Reached(x, st, el, FALSE, FALSE),
         NEW a \in Entry, NEW b \in Entry, NEW s \in StopPoints(<<a, b>>),
         NEW y, y = Deliver(x, <<a, b>>, s),
         NEW st2, NEW el2, NEW st3, NEW el3,
         Sax!Heard(State(st, el, FALSE, FALSE), a) = State(st2, el2, FALSE, FALSE),
         Sax!Heard(State(st2, el2, FALSE, FALSE), b) = State(st3, el3, FALSE, FALSE)
  PROVE  \/ Reached(y, st3, el3, FALSE, FALSE)
         \/ Reached(y, st2, el2, FALSE, FALSE) /\ y.disableSAX # 0
<1>1. x \in Context
  BY DEF Reached
<1>2. /\ y \in Context
      /\ \/ y.log = Append(Append(x.log, a), b)
         \/ y.log = Append(x.log, a) /\ y.disableSAX # 0
  BY <1>1, DeliverTwo
<1>3. CASE y.log = Append(x.log, a) /\ y.disableSAX # 0
  BY <1>2, <1>3, ReachedAppend
<1>5. CASE y.log = Append(Append(x.log, a), b)
  <2>1. c.log \in Seq(Entry)
    BY ContextFields
  <2>2. Path(c.log, x.log, Sax!Now, State(st, el, FALSE, FALSE))
    BY DEF Reached
  <2>3. Path(c.log, Append(x.log, a), Sax!Now, State(st2, el2, FALSE, FALSE))
    BY <2>1, <2>2, PathAppend
  <2>4. Path(c.log, y.log, Sax!Now, State(st3, el3, FALSE, FALSE))
    BY <1>5, <2>1, <2>3, PathAppend
  <2> QED
    BY <1>2, <2>4 DEF Reached
<1> QED
  BY <1>2, <1>3, <1>5

\* A run of text, cut off anywhere.
LEMMA ReachedText ==
  ASSUME c \in Context, NEW x, x.disableSAX = 0,
         NEW el, Reached(x, "content", el, FALSE, FALSE),
         NEW n \in Nat, NEW s \in StopPoints(TextEvents(n)),
         NEW y, y = Deliver(x, TextEvents(n), s)
  PROVE  Reached(y, "content", el, FALSE, FALSE)
<1> DEFINE evs == TextEvents(n)
           t == State("content", el, FALSE, FALSE)
<1>1. x \in Context
  BY DEF Reached
<1>2. /\ evs \in Seq(Entry) /\ Len(evs) = n
      /\ \A i \in 1 .. n : evs[i].ev = "text"
  <2>1. Leaf("text") \in Entry /\ Leaf("text").ev = "text"
    BY LeafType DEF Event
  <2> QED
    BY <2>1, TextBatch DEF TextEvents, Batch
<1> HIDE DEF evs
<1>3. PICK m \in Seq(Entry) :
           /\ y \in Context /\ y.log = x.log \o m
           /\ \A i \in 1 .. Len(m) : m[i].ev = "text"
  <2>1. /\ y \in Context
        /\ \/ y.log = x.log \o evs
           \/ s \in 1 .. Len(evs) /\ y.log = x.log \o SubSeq(evs, 1, s)
    BY <1>1, <1>2, DeliverOutcome DEF evs, Outcome
  <2>2. CASE y.log = x.log \o evs
    BY <1>2, <2>1, <2>2
  <2>3. CASE s \in 1 .. Len(evs) /\ y.log = x.log \o SubSeq(evs, 1, s)
    <3>1. /\ SubSeq(evs, 1, s) \in Seq(Entry)
          /\ \A i \in 1 .. Len(SubSeq(evs, 1, s)) : SubSeq(evs, 1, s)[i].ev = "text"
      BY <1>2, <2>3
    <3> QED
      BY <2>1, <2>3, <3>1
  <2> QED
    BY <2>1, <2>2, <2>3
<1>4. \A i \in 1 .. Len(m) : Sax!Heard(t, m[i]) = t
  BY <1>3, HeardLeaf
<1>5. c.log \in Seq(Entry) /\ x.log \in Seq(Entry)
  BY <1>1, ContextFields
<1>6. Path(c.log, x.log, Sax!Now, t)
  BY DEF Reached
<1> HIDE DEF t
<1>7. Path(c.log, y.log, Sax!Now, t)
  BY <1>3, <1>4, <1>5, <1>6, PathIdle
<1> QED
  BY <1>3, <1>7 DEF Reached, t

----------------------------------------------------------------------------
(* What holds between steps: how far the document is, as startDoc, the     *)
(* phase and the stack tell it.                                            *)

Staged ==
  /\ fatal => c.disableSAX # 0
  /\ phase \in {"START", "XML_DECL"} => ~startDoc
  /\ phase \notin {"START", "XML_DECL"} => startDoc \/ c.disableSAX # 0
  /\ phase = "EOF" => open = <<>> \/ c.disableSAX # 0

LEMMA StageOfPhase ==
  ASSUME IInv, Staged, c.disableSAX = 0
  PROVE  /\ Quiet = FALSE
         /\ phase \in {"START", "XML_DECL"} => Stage = "fresh"
         /\ phase \in {"MISC", "PROLOG", "DTD"} => Stage = "prolog"
         /\ phase = "START_TAG" /\ open = <<>> => Stage = "prolog"
         /\ phase = "START_TAG" /\ open # <<>> => Stage = "content"
         /\ phase \in {"CONTENT", "END_TAG"} => Stage = "content"
         /\ phase \in {"EPILOG", "EOF"} => Stage = "epilog"
<1>1. Quiet = FALSE
  BY DEF Quiet, Staged
<1>2. startDoc \in BOOLEAN
  BY DEF IInv, TypeOK
<1>3. phase \in {"START", "XML_DECL"} => Stage = "fresh"
  BY <1>2 DEF Stage, Staged
<1>4. phase \notin {"START", "XML_DECL"} => startDoc
  BY <1>2 DEF Staged
<1>5. phase \notin {"START", "XML_DECL"} =>
        Stage = IF open # <<>> THEN "content"
                ELSE IF phase \in {"EPILOG", "EOF"} THEN "epilog" ELSE "prolog"
  BY <1>4 DEF Stage
<1> QED
  BY <1>1, <1>3, <1>5 DEF IInv, PhaseMatchesStack, Staged
LEMMA StageNext ==
  ASSUME startDoc' \in BOOLEAN
  PROVE  Stage' = IF ~startDoc' THEN "fresh"
                  ELSE IF open' # <<>> THEN "content"
                  ELSE IF phase' \in {"EPILOG", "EOF"} THEN "epilog" ELSE "prolog"
BY DEF Stage

----------------------------------------------------------------------------
(* The steps, one at a time.                                               *)

\* A step is told of by the protocol, and keeps what holds between steps.
Told == Sax!Dispatch /\ Staged'

\* Nothing is dispatched, and the document is where it was.
LEMMA SilentStep ==
  ASSUME IInv, Staged, UNCHANGED <<open, startDoc, endDoc, c>>,
         fatal' => fatal \/ c.disableSAX # 0,
         \/ phase' = phase
         \/ phase = "START" /\ phase' = "XML_DECL"
         \/ phase \in {"MISC", "PROLOG", "CONTENT"} /\ phase' \in {"START_TAG", "END_TAG"}
  PROVE  Told
<1>1. Staged'
  BY DEF Staged
<1>2. startDoc' \in BOOLEAN /\ startDoc \in BOOLEAN
  BY DEF IInv, TypeOK
<1>3. Stage' = Stage
  BY <1>2, StageNext DEF Stage
<1>4. Quiet => Quiet'
  BY DEF Quiet, Staged
<1>5. c \in Context
  BY DEF IInv, TypeOK
<1>6. Reached(c', Stage, open, Quiet, endDoc)
  BY <1>5, ReachedNow
<1>7. Sax!Dispatch
  BY <1>3, <1>4, <1>5, <1>6, ReachedDispatch
<1> QED
  BY <1>1, <1>7 DEF Told

LEMMA ParkTold ==
  ASSUME IInv, Staged,
         \/ Exhausted \/ XmlDeclPark \/ MiscPark \/ SubsetPark
         \/ StartTagPark \/ ContentPark \/ EndTagPark
  PROVE  Told
<1>1. Leave
  BY DEF Exhausted, XmlDeclPark, MiscPark, SubsetPark,
         StartTagPark, ContentPark, EndTagPark
<1> QED
  BY <1>1, SilentStep DEF Leave

LEMMA QuietTold ==
  ASSUME IInv, Staged,
         \/ Chunk \/ Refuse \/ Latch
         \/ StepStart \/ MiscTail \/ ContentTag \/ SkipBlanks
  PROVE  Told
<1>1. UNCHANGED <<open, startDoc, endDoc, c>>
  BY DEF Chunk, Refuse, Latch, StepStart, MiscTail, ContentTag, SkipBlanks
<1>2. fatal' => fatal \/ c.disableSAX # 0
  BY DEF Chunk, Refuse, Latch, Fail, Advance,
         StepStart, MiscTail, ContentTag, SkipBlanks
<1>3. \/ phase' = phase
      \/ phase = "START" /\ phase' = "XML_DECL"
      \/ phase \in {"MISC", "PROLOG", "CONTENT"} /\ phase' \in {"START_TAG", "END_TAG"}
  BY DEF Chunk, Refuse, Latch, StepStart, MiscTail, ContentTag, SkipBlanks, InPhase
<1> QED
  BY <1>1, <1>2, <1>3, SilentStep

\* A fatal is dispatched: the stage no longer matters.
LEMMA FatalStep ==
  ASSUME IInv, Staged, c' = RaiseFatal(c), endDoc' = endDoc, startDoc' \in BOOLEAN,
         phase' \in {"START", "XML_DECL"} => ~startDoc'
  PROVE  Told
<1>1. c \in Context
  BY DEF IInv, TypeOK
<1>2. Reached(c', Stage, open, TRUE, endDoc) /\ c'.disableSAX = 1
  BY <1>1, ReachedNow, ReachedFatal
<1>3. Quiet'
  BY <1>2 DEF Quiet
<1>4. Staged'
  BY <1>2 DEF Staged
<1>5. Sax!Dispatch
  BY <1>1, <1>2, <1>3, ReachedDispatch
<1> QED
  BY <1>4, <1>5 DEF Told

LEMMA InvalidTold ==
  ASSUME IInv, Staged, ChunkInvalid
  PROVE  Told
<1>1. c' = RaiseFatal(c) /\ endDoc' = endDoc /\ startDoc' \in BOOLEAN
  BY DEF ChunkInvalid, IInv, TypeOK
<1>2. phase' \in {"START", "XML_DECL"} => ~startDoc'
  BY DEF ChunkInvalid, Staged
<1> QED
  BY <1>1, <1>2, FatalStep

\* A step of the driver's loop that ends where the callbacks take the protocol.
LEMMA CallbackStep ==
  ASSUME IInv, Staged, Live, NEW st, NEW el, Reached(c', st, el, FALSE, FALSE),
         endDoc = FALSE, endDoc' = FALSE,
         Advance \/ (Fail /\ c'.disableSAX # 0),
         c'.disableSAX = 0 => Stage' = st /\ open' = el,
         startDoc' = TRUE,
         phase' \notin {"START", "XML_DECL", "EOF"}
  PROVE  Told
<1>1. c \in Context
  BY DEF IInv, TypeOK
<1>2. Quiet' \/ (Stage' = st /\ open' = el)
  BY DEF Quiet
<1>3. fatal' => c'.disableSAX # 0
  BY DEF Live, Advance, Fail
<1>4. Staged'
  BY <1>3 DEF Staged
<1>5. Sax!Dispatch
  BY <1>1, <1>2, ReachedDispatch
<1> QED
  BY <1>4, <1>5 DEF Told
LEMMA LiveStage ==
  ASSUME IInv, Staged, NEW ps, InPhase(ps), "EOF" \notin ps
  PROVE  /\ Live /\ phase \in ps /\ c \in Context /\ c.disableSAX = 0
         /\ endDoc = FALSE
         /\ Reached(c, Stage, open, FALSE, FALSE)
         /\ phase \notin {"START", "XML_DECL"} => startDoc = TRUE
         /\ startDoc \in BOOLEAN
<1>1. endDoc = FALSE /\ c \in Context
  BY LiveFacts
<1>2. Live /\ c.disableSAX = 0 /\ phase \in ps
  BY DEF InPhase, Live
<1>3. Quiet = FALSE
  BY <1>2, StageOfPhase
<1>4. Reached(c, Stage, open, FALSE, FALSE)
  BY <1>1, <1>3, ReachedNow
<1>5. startDoc \in BOOLEAN
  BY DEF IInv, TypeOK
<1> QED
  BY <1>1, <1>2, <1>4, <1>5 DEF Staged

LEMMA LiveIn ==
  ASSUME IInv, Staged, NEW p \in Phase \ {"EOF"}, InPhase({p})
  PROVE  /\ Live /\ phase = p /\ c \in Context /\ c.disableSAX = 0
         /\ endDoc = FALSE
         /\ Reached(c, Stage, open, FALSE, FALSE)
         /\ phase \notin {"START", "XML_DECL"} => startDoc = TRUE
         /\ startDoc \in BOOLEAN
<1>1. "EOF" \notin {p}
  OBVIOUS
<1>2. phase \in {p}
  BY DEF InPhase
<1> QED
  BY <1>1, <1>2, LiveStage

\* A context with a fatal takes no more callbacks.
LEMMA DeliverAfterFatal ==
  ASSUME NEW x, NEW evs, NEW s
  PROVE  Deliver(RaiseFatal(x), evs, s) = RaiseFatal(x)
BY DEF Deliver, RaiseFatal, Ctxt

LEMMA XmlDeclTold ==
  ASSUME IInv, Staged, StepXmlDecl
  PROVE  Told
<1>0. InPhase({"XML_DECL"}) /\ "XML_DECL" \in Phase \ {"EOF"}
  BY DEF StepXmlDecl, Phase
<1>1. /\ Live /\ phase \in {"XML_DECL"} /\ c \in Context /\ c.disableSAX = 0
      /\ endDoc = FALSE /\ Reached(c, Stage, open, FALSE, FALSE)
  BY <1>0, LiveIn
<1>2. open = <<>> /\ Stage = "fresh"
  BY <1>1, StageOfPhase DEF IInv, PhaseMatchesStack
<1> DEFINE e == Leaf("startDocument")
<1>3. e \in Entry /\ e.ev = "startDocument"
  BY LeafType DEF Event
<1>4. /\ startDoc' = TRUE /\ phase' = "MISC" /\ open' = open /\ endDoc' = endDoc
      /\ Advance \/ (Fail /\ c'.disableSAX # 0)
  BY DEF StepXmlDecl
<1>5. PICK x \in {c, RaiseFatal(c)}, s \in StopPoints(<<e>>) : c' = Deliver(x, <<e>>, s)
  <2> DEFINE b == (Cur.k = "decl" /\ Avail >= 2) /\ (~Whole \/ Cur.bad = "scan")
  <2>1. PICK s \in StopPoints(<<e>>) :
             c' = Deliver(IF b THEN RaiseFatal(c) ELSE c, <<e>>, s)
    BY DEF StepXmlDecl
  <2>2. (IF b THEN RaiseFatal(c) ELSE c) \in {c, RaiseFatal(c)}
    BY Zenon
  <2> QED
    BY <2>1, <2>2, Zenon
<1> HIDE DEF e
<1>6. CASE x = RaiseFatal(c)
  <2>1. c' = RaiseFatal(c)
    BY <1>5, <1>6, DeliverAfterFatal
  <2> QED
    BY <1>1, <1>4, <2>1, FatalStep
<1>7. CASE x = c
  <2>1. Sax!Heard(State("fresh", open, FALSE, FALSE), e) = State("prolog", open, FALSE, FALSE)
    BY <1>3, HeardStartDocument
  <2>2. Reached(c', "prolog", open, FALSE, FALSE)
    BY <1>1, <1>2, <1>3, <1>5, <1>7, <2>1, ReachedOne
  <2>3. Stage' = "prolog"
    BY <1>2, <1>4, StageNext
  <2> QED
    BY <1>1, <1>4, <2>2, <2>3, CallbackStep
<1> QED
  BY <1>5, <1>6, <1>7

\* The steps that report one construct and leave the stage as it is.
LEMMA LeafStep ==
  ASSUME IInv, Staged, NEW ps, InPhase(ps), "EOF" \notin ps,
         phase \notin {"START", "XML_DECL"},
         NEW k \in Event,
         \/ k \in {"cdata", "ref"} /\ Stage = "content"
         \/ k \in {"internalSubset", "externalSubset"} /\ Stage = "prolog"
         \/ k \in {"pi", "comment"},
         NEW x \in {c, RaiseFatal(c)}, NEW s \in StopPoints(<<Leaf(k)>>),
         c' = Deliver(x, <<Leaf(k)>>, s),
         Advance, UNCHANGED <<open, startDoc, endDoc>>, Stage' = Stage,
         phase' \notin {"START", "XML_DECL", "EOF"}
  PROVE  Told
<1>1. /\ Live /\ c \in Context /\ c.disableSAX = 0 /\ startDoc = TRUE
      /\ endDoc = FALSE /\ Reached(c, Stage, open, FALSE, FALSE)
  BY LiveStage
<1>2. Leaf(k) \in Entry /\ Leaf(k).ev = k
  BY LeafType
<1>3. CASE x = RaiseFatal(c)
  <2>1. c' = RaiseFatal(c)
    BY <1>3, DeliverAfterFatal
  <2> QED
    BY <1>1, <2>1, FatalStep
<1>4. CASE x = c
  <2>1. Stage # "fresh"
    BY <1>1 DEF Stage
  <2>2. Sax!Heard(State(Stage, open, FALSE, FALSE), Leaf(k))
          = State(Stage, open, FALSE, FALSE)
    BY <1>2, <2>1, HeardLeaf
  <2>3. Reached(c', Stage, open, FALSE, FALSE)
    BY <1>1, <1>2, <1>4, <2>2, ReachedOne
  <2> QED
    BY <1>1, <2>3, CallbackStep
<1> QED
  BY <1>3, <1>4

LEMMA InlineTold ==
  ASSUME IInv, Staged, ScanInline
  PROVE  Told
<1>1. /\ InPhase(Misc \cup {"CONTENT"}) /\ phase \in Misc \cup {"CONTENT"}
      /\ c.disableSAX = 0 /\ "EOF" \notin Misc \cup {"CONTENT"}
      /\ startDoc = TRUE
  BY LiveStage DEF ScanInline, Misc, InPhase
<1>2. phase \notin {"START", "XML_DECL", "EOF"}
  BY <1>1 DEF Misc
<1>3. UNCHANGED <<phase, open, startDoc, endDoc>> /\ Advance
  BY DEF ScanInline
<1> DEFINE k == IF Cur.k = "decl" THEN "pi" ELSE Cur.k
<1>4. k \in {"pi", "comment"} \/ (k = "cdata" /\ Stage = "content")
  BY <1>1, StageOfPhase DEF ScanInline, Inline
<1>5. k \in Event
  BY <1>4 DEF Event
<1>6. PICK x \in {c, RaiseFatal(c)}, s \in StopPoints(<<Leaf(k)>>) :
           c' = Deliver(x, <<Leaf(k)>>, s)
  <2> DEFINE b == ~Whole \/ Cur.bad = "scan" \/ Cur.k = "decl"
  <2>1. PICK s \in StopPoints(<<Leaf(k)>>) :
             c' = Deliver(IF b THEN RaiseFatal(c) ELSE c, <<Leaf(k)>>, s)
    BY DEF ScanInline, InlineEvent
  <2>2. (IF b THEN RaiseFatal(c) ELSE c) \in {c, RaiseFatal(c)}
    BY Zenon
  <2> QED
    BY <2>1, <2>2, Zenon
<1>7. Stage' = Stage
  BY <1>3 DEF Stage
<1> HIDE DEF k
<1> QED
  BY <1>1, <1>2, <1>3, <1>4, <1>5, <1>6, <1>7, LeafStep
LEMMA DoctypeTold ==
  ASSUME IInv, Staged, StepDoctype
  PROVE  Told
<1>0. InPhase({"MISC"}) /\ "MISC" \in Phase \ {"EOF"}
  BY DEF StepDoctype, Phase
<1>1. /\ Live /\ phase = "MISC" /\ c \in Context /\ c.disableSAX = 0
      /\ endDoc = FALSE /\ Reached(c, Stage, open, FALSE, FALSE) /\ startDoc = TRUE
  BY <1>0, LiveIn
<1>2. open = <<>> /\ Stage = "prolog"
  BY <1>1, StageOfPhase DEF IInv, PhaseMatchesStack
<1> DEFINE a == Leaf("internalSubset")
           b == Leaf("externalSubset")
<1>3. a \in Entry /\ a.ev = "internalSubset" /\ b \in Entry /\ b.ev = "externalSubset"
  BY LeafType DEF Event
<1>4. /\ phase' = "PROLOG" /\ Advance
      /\ open' = open /\ startDoc' = startDoc /\ endDoc' = endDoc
  BY DEF StepDoctype
<1>5. PICK x \in {c, RaiseFatal(c)}, s \in StopPoints(<<a, b>>) :
           c' = Deliver(x, <<a, b>>, s)
  <2>1. PICK s \in StopPoints(<<a, b>>) :
             c' = Deliver(IF Whole THEN c ELSE RaiseFatal(c), <<a, b>>, s)
    BY DEF StepDoctype
  <2>2. (IF Whole THEN c ELSE RaiseFatal(c)) \in {c, RaiseFatal(c)}
    BY Zenon
  <2> QED
    BY <2>1, <2>2, Zenon
<1> HIDE DEF a, b
<1>6. CASE x = RaiseFatal(c)
  <2>1. c' = RaiseFatal(c)
    BY <1>5, <1>6, DeliverAfterFatal
  <2> QED
    BY <1>1, <1>4, <2>1, FatalStep
<1>7. CASE x = c
  <2> DEFINE t == State("prolog", open, FALSE, FALSE)
  <2>1. Sax!Heard(t, a) = t /\ Sax!Heard(t, b) = t
    BY <1>3, HeardLeaf
  <2>2. Reached(c', "prolog", open, FALSE, FALSE)
    BY <1>1, <1>2, <1>3, <1>5, <1>7, <2>1, ReachedTwo
  <2>3. Stage' = "prolog"
    BY <1>1, <1>2, <1>4, StageNext
  <2> QED
    BY <1>1, <1>4, <2>2, <2>3, CallbackStep
<1> QED
  BY <1>5, <1>6, <1>7

LEMMA DoctypeHeadTold ==
  ASSUME IInv, Staged, StepDoctypeHead
  PROVE  Told
<1>0. InPhase({"MISC"}) /\ "MISC" \in Phase \ {"EOF"}
  BY DEF StepDoctypeHead, Phase
<1>1. InPhase({"MISC"}) /\ phase = "MISC" /\ startDoc = TRUE /\ c.disableSAX = 0
  BY <1>0, LiveIn
<1>2. open = <<>> /\ Stage = "prolog"
  BY <1>1, StageOfPhase DEF IInv, PhaseMatchesStack
<1>3. /\ Advance /\ UNCHANGED <<open, startDoc, endDoc>>
      /\ phase' \in {"DTD", "PROLOG"}
  BY DEF StepDoctypeHead
<1>4. PICK x \in {c, RaiseFatal(c)}, s \in StopPoints(<<Leaf("internalSubset")>>) :
           c' = Deliver(x, <<Leaf("internalSubset")>>, s)
  <2>1. PICK s \in StopPoints(<<Leaf("internalSubset")>>) :
             c' = Deliver(IF Avail >= 3 THEN c ELSE RaiseFatal(c),
                          <<Leaf("internalSubset")>>, s)
    BY DEF StepDoctypeHead
  <2>2. (IF Avail >= 3 THEN c ELSE RaiseFatal(c)) \in {c, RaiseFatal(c)}
    BY Zenon
  <2> QED
    BY <2>1, <2>2, Zenon
<1>5. Stage' = Stage
  BY <1>1, <1>2, <1>3, StageNext
<1>6. "internalSubset" \in Event
  BY DEF Event
<1> QED
  BY <1>1, <1>2, <1>3, <1>4, <1>5, <1>6, LeafStep

LEMMA SubsetTold ==
  ASSUME IInv, Staged, StepSubset
  PROVE  Told
<1>0. InPhase({"DTD"}) /\ "DTD" \in Phase \ {"EOF"}
  BY DEF StepSubset, Phase
<1>1. /\ InPhase({"DTD"}) /\ phase = "DTD" /\ startDoc = TRUE /\ c.disableSAX = 0
  BY <1>0, LiveIn
<1>2. open = <<>> /\ Stage = "prolog"
  BY <1>1, StageOfPhase DEF IInv, PhaseMatchesStack
<1>3. UNCHANGED <<open, startDoc, endDoc>> /\ phase' = "PROLOG"
  BY DEF StepSubset
<1>4. CASE c' = RaiseFatal(c)
  BY <1>1, <1>3, <1>4, FatalStep
<1>5. CASE /\ \E s \in StopPoints(<<Leaf("externalSubset")>>) :
                 c' = Deliver(c, <<Leaf("externalSubset")>>, s)
           /\ Advance
  <2>1. Stage' = Stage
    BY <1>1, <1>2, <1>3, StageNext
  <2>2. "externalSubset" \in Event
    BY DEF Event
  <2> QED
    BY <1>1, <1>2, <1>3, <1>5, <2>1, <2>2, LeafStep
<1> QED
  BY <1>4, <1>5 DEF StepSubset

LEMMA ReferenceTold ==
  ASSUME IInv, Staged, Reference
  PROVE  Told
<1>0. InPhase({"CONTENT"}) /\ "CONTENT" \in Phase \ {"EOF"}
  BY DEF Reference, Phase
<1>1. InPhase({"CONTENT"}) /\ phase = "CONTENT" /\ startDoc = TRUE /\ c.disableSAX = 0
  BY <1>0, LiveIn
<1>2. Stage = "content"
  BY <1>1, StageOfPhase
<1>3. UNCHANGED <<phase, open, startDoc, endDoc>>
  BY DEF Reference
<1>4. CASE c' = RaiseFatal(c)
  BY <1>1, <1>3, <1>4, FatalStep
<1>5. CASE /\ \E s \in StopPoints(<<Leaf("ref")>>) : c' = Deliver(c, <<Leaf("ref")>>, s)
           /\ Advance
  <2>1. Stage' = Stage
    BY <1>3 DEF Stage
  <2>2. "ref" \in Event
    BY DEF Event
  <2> QED
    BY <1>1, <1>2, <1>3, <1>5, <2>1, <2>2, LeafStep
<1> QED
  BY <1>4, <1>5 DEF Reference

LEMMA CharDataTold ==
  ASSUME IInv, Staged, CharData
  PROVE  Told
<1>0. InPhase({"CONTENT"}) /\ "CONTENT" \in Phase \ {"EOF"}
  BY DEF CharData, Phase
<1>1. /\ Live /\ phase = "CONTENT" /\ c \in Context /\ c.disableSAX = 0
      /\ endDoc = FALSE /\ Reached(c, Stage, open, FALSE, FALSE) /\ startDoc = TRUE
  BY <1>0, LiveIn
<1>2. Stage = "content" /\ pos \in Nat /\ have \in Nat
  <2>1. Stage = "content"
    BY <1>1, StageOfPhase
  <2> QED
    BY <2>1 DEF IInv, TypeOK
<1>3. UNCHANGED <<phase, open, startDoc, endDoc>> /\ Advance
  BY DEF CharData
<1>4. Stage' = "content"
  BY <1>2, <1>3 DEF Stage
<1>5. ASSUME NEW n \in Nat, NEW s \in StopPoints(TextEvents(n))
      PROVE  Reached(Deliver(c, TextEvents(n), s), "content", open, FALSE, FALSE)
  BY <1>1, <1>2, ReachedText
<1>6. CASE \E n \in Nat : \E s \in StopPoints(TextEvents(n)) :
              c' = Deliver(c, TextEvents(n), s)
  <2>1. Reached(c', "content", open, FALSE, FALSE)
    BY <1>5, <1>6
  <2> QED
    BY <1>1, <1>3, <1>4, <2>1, CallbackStep
<1>7. CASE \E n \in Nat : \E s \in StopPoints(TextEvents(n)) :
              c' = RaiseFatal(Deliver(c, TextEvents(n), s))
  <2>0. PICK n \in Nat : \E s \in StopPoints(TextEvents(n)) :
                           c' = RaiseFatal(Deliver(c, TextEvents(n), s))
    BY <1>7
  <2>1. PICK s \in StopPoints(TextEvents(n)) :
             c' = RaiseFatal(Deliver(c, TextEvents(n), s))
    BY <2>0
  <2>2. Reached(c', "content", open, TRUE, FALSE) /\ c'.disableSAX = 1
    BY <1>1, <1>5, <2>1, ReachedFatal
  <2>3. Quiet'
    BY <2>2 DEF Quiet
  <2>4. Staged'
    BY <1>1, <1>3, <2>2 DEF Staged
  <2>5. Sax!Dispatch
    BY <1>1, <1>3, <2>2, <2>3, ReachedDispatch
  <2> QED
    BY <2>4, <2>5 DEF Told
<1>8. \/ \E n \in Nat : \E s \in StopPoints(TextEvents(n)) :
            c' = Deliver(c, TextEvents(n), s)
      \/ \E n \in Nat : \E s \in StopPoints(TextEvents(n)) :
            c' = RaiseFatal(Deliver(c, TextEvents(n), s))
  <2>1. PICK e \in pos .. have :
           \/ \E s \in StopPoints(TextEvents(e - pos)) :
                 c' = Deliver(c, TextEvents(e - pos), s)
           \/ \E f \in pos .. e - 1 :
                 \E g \in pos .. f : \E s \in StopPoints(TextEvents(g - pos)) :
                    c' = RaiseFatal(Deliver(c, TextEvents(g - pos), s))
    BY DEF CharData
  <2>2. \A g \in pos .. have : g - pos \in Nat
    BY <1>2
  <2>3. \A f \in pos .. e - 1 : \A g \in pos .. f : g \in pos .. have
    BY <1>2
  <2> QED
    BY <2>1, <2>2, <2>3
<1> QED
  BY <1>6, <1>7, <1>8
\* A step that ends in silence.
LEMMA QuietStep ==
  ASSUME IInv, Staged, NEW st, NEW el, NEW en, Reached(c', st, el, TRUE, en),
         c'.disableSAX = 1, endDoc' = en,
         phase' \in {"START", "XML_DECL"} => ~startDoc'
  PROVE  Told
<1>1. c \in Context
  BY DEF IInv, TypeOK
<1>2. Quiet'
  BY DEF Quiet
<1>3. Staged'
  BY DEF Staged
<1>4. Sax!Dispatch
  BY <1>1, <1>2, ReachedDispatch
<1> QED
  BY <1>3, <1>4 DEF Told

LEMMA TagEvents ==
  ASSUME NEW nm \in Names
  PROVE  /\ E("start", nm) \in Entry /\ E("start", nm).ev = "start"
         /\ E("start", nm).nm = nm
         /\ E("end", nm) \in Entry /\ E("end", nm).ev = "end"
         /\ E("end", nm).nm = nm
BY DEF E, Entry, Event

\* Where a start tag may be read, and what its scan has reported by then.
LEMMA TagStage ==
  ASSUME IInv, Staged, TagReady
  PROVE  /\ Live /\ phase = "START_TAG" /\ c \in Context /\ c.disableSAX = 0
         /\ endDoc = FALSE /\ startDoc = TRUE /\ open \in Seq(Names)
         /\ Cur.nm \in Names
         /\ Stage = IF open = <<>> THEN "prolog" ELSE "content"
         /\ \/ Scanned = RaiseFatal(c)
            \/ Scanned.disableSAX = 0 /\ Reached(Scanned, Stage, open, FALSE, FALSE)
         /\ Reached(c, Stage, open, FALSE, FALSE)
<1>0. InPhase({"START_TAG"}) /\ "START_TAG" \in Phase \ {"EOF"}
  BY DEF TagReady, Phase
<1>1. /\ InPhase({"START_TAG"}) /\ Live /\ phase = "START_TAG" /\ c \in Context
      /\ c.disableSAX = 0 /\ endDoc = FALSE /\ startDoc = TRUE
      /\ Reached(c, Stage, open, FALSE, FALSE)
  BY <1>0, LiveIn
<1>2. Stage = IF open = <<>> THEN "prolog" ELSE "content"
  BY <1>1, StageOfPhase
<1>3. Cur.nm \in Names
  <2>1. Cur \in Construct
    BY <1>1, LiveFacts
  <2> QED
    BY <2>1 DEF Construct
<1>4. Reached(RaiseError(c), Stage, open, FALSE, FALSE) /\ RaiseError(c).disableSAX = 0
  BY <1>1, <1>2, ReachedError
<1>5. \/ Scanned = RaiseFatal(c)
      \/ Scanned.disableSAX = 0 /\ Reached(Scanned, Stage, open, FALSE, FALSE)
  BY <1>1, <1>4 DEF Scanned
<1>6. open \in Seq(Names)
  BY DEF IInv, TypeOK
<1> QED
  BY <1>1, <1>2, <1>3, <1>5, <1>6

LEMMA HeardStartTag ==
  ASSUME IInv, Staged, TagReady
  PROVE  Sax!Heard(State(Stage, open, FALSE, FALSE), E("start", Cur.nm))
           = State("content", Append(open, Cur.nm), FALSE, FALSE)
<1>1. Stage \in {"prolog", "content"}
  BY TagStage
<1> DEFINE e == E("start", Cur.nm)
<1>2. e.ev = "start" /\ e.nm = Cur.nm
  BY TagStage, TagEvents
<1> HIDE DEF e
<1> QED
  BY <1>1, <1>2, HeardStart DEF e

LEMMA OpenTagTold ==
  ASSUME IInv, Staged, OpenTag
  PROVE  Told
<1> DEFINE e == E("start", Cur.nm)
<1>1. TagReady
  BY DEF OpenTag
<1>2. /\ open' = Append(open, Cur.nm) /\ phase' = "CONTENT" /\ Advance
      /\ startDoc' = startDoc /\ endDoc' = endDoc
  BY DEF OpenTag
<1>3. PICK s \in StopPoints(<<e>>) : c' = Deliver(Scanned, <<e>>, s)
  BY DEF OpenTag
<1>4. e \in Entry
  BY <1>1, TagStage, TagEvents
<1>5. CASE Scanned = RaiseFatal(c)
  <2>1. c' = RaiseFatal(c)
    BY <1>3, <1>5, DeliverAfterFatal
  <2> QED
    BY <1>1, <1>2, <2>1, TagStage, FatalStep
<1>6. CASE Scanned.disableSAX = 0 /\ Reached(Scanned, Stage, open, FALSE, FALSE)
  <2>1. Sax!Heard(State(Stage, open, FALSE, FALSE), e)
          = State("content", Append(open, Cur.nm), FALSE, FALSE)
    BY <1>1, HeardStartTag
  <2> HIDE DEF e
  <2>2. Reached(c', "content", Append(open, Cur.nm), FALSE, FALSE)
    BY <1>1, <1>3, <1>4, <1>6, <2>1, TagStage, ReachedOne
  <2>3. Stage' = "content"
    <3>1. open' # <<>>
      BY <1>1, <1>2, TagStage
    <3> QED
      BY <1>1, <1>2, <3>1, TagStage, StageNext
  <2> QED
    BY <1>1, <1>2, <2>2, <2>3, TagStage, CallbackStep
<1> QED
  BY <1>1, <1>5, <1>6, TagStage

LEMMA EmptyTagTold ==
  ASSUME IInv, Staged, EmptyTag
  PROVE  Told
<1> DEFINE a == E("start", Cur.nm)
           b == E("end", Cur.nm)
           after == IF open = <<>> THEN "epilog" ELSE "content"
<1>1. TagReady
  BY DEF EmptyTag
<1>2. /\ phase' = AfterTag(open) /\ Advance
      /\ open' = open /\ startDoc' = startDoc /\ endDoc' = endDoc
  BY DEF EmptyTag
<1>3. PICK s \in StopPoints(<<a, b>>) : c' = Deliver(Scanned, <<a, b>>, s)
  BY DEF EmptyTag
<1>4. a \in Entry /\ b \in Entry
  BY <1>1, TagStage, TagEvents
<1>5. CASE Scanned = RaiseFatal(c)
  <2>1. c' = RaiseFatal(c)
    BY <1>3, <1>5, DeliverAfterFatal
  <2>2. phase' \notin {"START", "XML_DECL"}
    BY <1>2 DEF AfterTag
  <2> QED
    BY <1>1, <1>2, <2>1, <2>2, TagStage, FatalStep
<1>6. CASE Scanned.disableSAX = 0 /\ Reached(Scanned, Stage, open, FALSE, FALSE)
  <2> DEFINE el == Append(open, Cur.nm)
  <2>1. Sax!Heard(State(Stage, open, FALSE, FALSE), a) = State("content", el, FALSE, FALSE)
    BY <1>1, HeardStartTag
  <2>2. Sax!Heard(State("content", el, FALSE, FALSE), b) = State(after, open, FALSE, FALSE)
    <3>1. open \in Seq(Names) /\ Cur.nm \in Names
      BY <1>1, TagStage
    <3>2. /\ el # <<>> /\ el[Len(el)] = Cur.nm /\ SubSeq(el, 1, Len(el) - 1) = open
          /\ Len(el) = 1 <=> open = <<>>
      BY <3>1
    <3>3. b.ev = "end" /\ b.nm = Cur.nm
      BY <3>1, TagEvents
    <3> HIDE DEF el, b
    <3>4. Sax!Heard(State("content", el, FALSE, FALSE), b)
            = State(IF Len(el) = 1 THEN "epilog" ELSE "content",
                    SubSeq(el, 1, Len(el) - 1), FALSE, FALSE)
      BY <3>2, <3>3, HeardEnd
    <3> QED
      BY <3>2, <3>4
  <2> HIDE DEF a, b, el, after
  <2>3. \/ Reached(c', after, open, FALSE, FALSE)
        \/ Reached(c', "content", el, FALSE, FALSE) /\ c'.disableSAX # 0
    BY <1>1, <1>3, <1>4, <1>6, <2>1, <2>2, TagStage, ReachedTwo
  <2>4. Stage' = after /\ phase' \notin {"START", "XML_DECL", "EOF"}
    BY <1>1, <1>2, TagStage, StageNext DEF AfterTag, after
  <2> QED
    BY <1>1, <1>2, <2>3, <2>4, TagStage, CallbackStep
<1> QED
  BY <1>1, <1>5, <1>6, TagStage

LEMMA CutTagTold ==
  ASSUME IInv, Staged, CutTag
  PROVE  Told
<1> DEFINE e == E("start", Cur.nm)
<1>1. TagReady
  BY DEF CutTag
<1>2. /\ phase' = AfterTag(open) /\ startDoc' = startDoc /\ endDoc' = endDoc
  BY DEF CutTag
<1>3. PICK s \in StopPoints(<<e>>) : c' = RaiseFatal(Deliver(Scanned, <<e>>, s))
  BY DEF CutTag
<1>4. e \in Entry
  BY <1>1, TagStage, TagEvents
<1>5. phase' \notin {"START", "XML_DECL"}
  BY <1>2 DEF AfterTag
<1>6. CASE Scanned = RaiseFatal(c)
  <2>1. c' = RaiseFatal(RaiseFatal(c))
    BY <1>3, <1>6, DeliverAfterFatal
  <2>2. Reached(c', Stage, open, TRUE, FALSE) /\ c'.disableSAX = 1
    BY <1>1, <2>1, TagStage, ReachedFatal
  <2> QED
    BY <1>1, <1>2, <1>5, <2>2, TagStage, QuietStep, Zenon
<1>7. CASE Scanned.disableSAX = 0 /\ Reached(Scanned, Stage, open, FALSE, FALSE)
  <2>1. Sax!Heard(State(Stage, open, FALSE, FALSE), e)
          = State("content", Append(open, Cur.nm), FALSE, FALSE)
    BY <1>1, HeardStartTag
  <2> HIDE DEF e
  <2> DEFINE y == Deliver(Scanned, <<e>>, s)
  <2>2. Reached(y, "content", Append(open, Cur.nm), FALSE, FALSE)
    BY <1>1, <1>4, <1>7, <2>1, TagStage, ReachedOne
  <2>3. /\ Reached(c', "content", Append(open, Cur.nm), TRUE, FALSE)
        /\ c'.disableSAX = 1
    BY <1>1, <1>3, <2>2, TagStage, ReachedFatal
  <2> QED
    BY <1>1, <1>2, <1>5, <2>3, TagStage, QuietStep, Zenon
<1> QED
  BY <1>1, <1>6, <1>7, TagStage
LEMMA EndTagTold ==
  ASSUME IInv, Staged, EndTag
  PROVE  Told
<1>0. InPhase({"END_TAG"}) /\ "END_TAG" \in Phase \ {"EOF"}
  BY DEF EndTag, Phase
<1>1. /\ Live /\ phase = "END_TAG" /\ c \in Context /\ c.disableSAX = 0
      /\ endDoc = FALSE /\ startDoc = TRUE /\ Reached(c, Stage, open, FALSE, FALSE)
  BY <1>0, LiveIn
<1>2. open # <<>> /\ open \in Seq(Names) /\ Stage = "content"
  BY <1>1, StageOfPhase DEF IInv, PhaseMatchesStack, TypeOK
<1> DEFINE top == open[Len(open)]
           e == E("end", top)
           rest == SubSeq(open, 1, Len(open) - 1)
<1>3. top \in Names /\ rest \in Seq(Names) /\ (rest = <<>> <=> Len(open) = 1)
  BY <1>2, FrontSequence
<1>4. e \in Entry /\ e.ev = "end" /\ e.nm = top
  BY <1>3, TagEvents
<1>5. /\ open' = rest /\ phase' = AfterTag(rest) /\ Advance
      /\ startDoc' = startDoc /\ endDoc' = endDoc
  BY <1>2 DEF EndTag
<1>6. phase' \notin {"START", "XML_DECL", "EOF"}
  BY <1>5 DEF AfterTag
<1>7. PICK y \in {c, RaiseFatal(c), RaiseFatal(RaiseFatal(c))}, s \in StopPoints(<<e>>) :
           c' = Deliver(y, <<e>>, s)
  <2> DEFINE x == IF Whole THEN c ELSE RaiseFatal(c)
             z == IF Cur.nm = top THEN x ELSE RaiseFatal(x)
  <2>1. PICK s \in StopPoints(<<e>>) : c' = Deliver(z, <<e>>, s)
    BY <1>2 DEF EndTag
  <2>2. z \in {c, RaiseFatal(c), RaiseFatal(RaiseFatal(c))}
    BY Zenon
  <2> QED
    BY <2>1, <2>2
<1> HIDE DEF e
<1>8. CASE y = RaiseFatal(c)
  <2>1. c' = RaiseFatal(c)
    BY <1>7, <1>8, DeliverAfterFatal
  <2> QED
    BY <1>1, <1>5, <1>6, <2>1, FatalStep
<1>9. CASE y = RaiseFatal(RaiseFatal(c))
  <2>1. c' = RaiseFatal(RaiseFatal(c))
    BY <1>7, <1>9, DeliverAfterFatal
  <2>2. Reached(c', Stage, open, TRUE, FALSE) /\ c'.disableSAX = 1
    BY <1>1, <2>1, ReachedFatal
  <2> QED
    BY <1>1, <1>5, <1>6, <2>2, QuietStep, Zenon
<1>10. CASE y = c
  <2> DEFINE after == IF Len(open) = 1 THEN "epilog" ELSE "content"
  <2>1. Sax!Heard(State("content", open, FALSE, FALSE), e)
          = State(after, rest, FALSE, FALSE)
    BY <1>2, <1>4, HeardEnd
  <2>2. Stage' = after
    BY <1>1, <1>3, <1>5, StageNext DEF AfterTag
  <2> HIDE DEF after, rest
  <2>3. Reached(c', after, rest, FALSE, FALSE)
    BY <1>1, <1>2, <1>4, <1>7, <1>10, <2>1, ReachedOne
  <2> QED
    BY <1>1, <1>5, <1>6, <2>2, <2>3, CallbackStep
<1> QED
  BY <1>7, <1>8, <1>9, <1>10

----------------------------------------------------------------------------
(* The end of the document.                                                *)

\* finish_document behind a fatal.
LEMMA EndAfterFatal ==
  ASSUME IInv, Staged, endDoc = FALSE, EndAt(RaiseFatal(c))
  PROVE  Told
<1>1. c \in Context
  BY DEF IInv, TypeOK
<1>2. /\ Reached(RaiseFatal(c), Stage, open, TRUE, FALSE)
      /\ RaiseFatal(c).disableSAX = 1
  BY <1>1, ReachedNow, ReachedFatal
<1>3. /\ c' = Finished(RaiseFatal(c)) /\ endDoc' = TRUE /\ phase' = "EOF"
  BY DEF EndAt
<1>4. Reached(c', Stage, open, TRUE, TRUE) /\ c'.disableSAX = 1
  BY <1>1, <1>2, <1>3, ReachedFinish
<1> QED
  BY <1>3, <1>4, QuietStep, Zenon

\* finish_document behind the root, without a fatal.
LEMMA EndOfEpilog ==
  ASSUME IInv, Staged, phase = "EPILOG", EndAt(c), fatal' => fatal,
         UNCHANGED <<open, startDoc>>
  PROVE  Told
<1>1. c \in Context /\ open = <<>> /\ endDoc = FALSE /\ startDoc \in BOOLEAN
  BY DEF IInv, TypeOK, PhaseMatchesStack
<1>2. c' = Finished(c) /\ endDoc' = TRUE /\ phase' = "EOF"
  BY DEF EndAt
<1>3. Quiet \in BOOLEAN /\ (Quiet <=> c.disableSAX # 0)
  BY DEF Quiet, Staged
<1>4. Quiet \/ Stage = "epilog"
  BY <1>3, StageOfPhase
<1>5. Reached(c, Stage, open, Quiet, FALSE)
  BY <1>1, ReachedNow
<1>6. Reached(c', Stage, open, Quiet, TRUE) /\ c'.disableSAX = c.disableSAX
  BY <1>1, <1>2, <1>4, <1>5, ReachedFinish
<1>7. Quiet => Quiet'
  BY <1>3, <1>6 DEF Quiet
<1>8. Quiet' \/ (Stage' = Stage /\ open' = open)
  <2>1. CASE Quiet
    BY <1>7, <2>1
  <2>2. CASE ~Quiet
    <3>1. startDoc' = TRUE /\ Stage = "epilog"
      BY <1>1, <1>3, <1>4, <2>2 DEF Staged
    <3>2. Stage' = "epilog"
      BY <1>1, <1>2, <3>1, StageNext
    <3> QED
      BY <3>1, <3>2
  <2> QED
    BY <2>1, <2>2
<1>9. Sax!Dispatch
  <2>1. CASE Quiet
    <3>1. Quiet = TRUE
      BY <1>3, <2>1
    <3>2. Reached(c', Stage, open, TRUE, TRUE)
      BY <1>6, <3>1, Zenon
    <3>3. Quiet'
      BY <1>7, <2>1
    <3> QED
      BY <1>1, <1>2, <3>2, <3>3, ReachedDispatch
  <2>2. CASE ~Quiet
    <3>1. Quiet = FALSE
      BY <1>3, <2>2
    <3>2. Reached(c', Stage, open, FALSE, TRUE)
      BY <1>6, <3>1, Zenon
    <3> QED
      BY <1>1, <1>2, <1>8, <3>2, ReachedDispatch
  <2> QED
    BY <2>1, <2>2
<1>10. Staged'
  BY <1>1, <1>2, <1>6 DEF Staged
<1> QED
  BY <1>9, <1>10 DEF Told

LEMMA RejectTold ==
  ASSUME IInv, Staged, NotATag \/ BadName \/ WrongToken
  PROVE  Told
<1>1. TagReady /\ EndAt(RaiseFatal(c))
  BY DEF NotATag, BadName, WrongToken
<1> QED
  BY <1>1, TagStage, EndAfterFatal

LEMMA EpilogTold ==
  ASSUME IInv, Staged, EpilogTail
  PROVE  Told
<1>0. InPhase({"EPILOG"}) /\ "EPILOG" \in Phase \ {"EOF"}
  BY DEF EpilogTail, Phase
<1>1. phase = "EPILOG" /\ endDoc = FALSE
  BY <1>0, LiveIn
<1>2. EofCheck \in {c, RaiseFatal(c)}
  BY DEF EofCheck
<1>3. CASE EofCheck = RaiseFatal(c)
  BY <1>1, <1>3, EndAfterFatal DEF EpilogTail
<1>4. CASE EofCheck = c
  BY <1>1, <1>4, EndOfEpilog DEF EpilogTail
<1> QED
  BY <1>2, <1>3, <1>4

LEMMA TerminateTold ==
  ASSUME IInv, Staged, Terminate
  PROVE  Told
<1>1. PICK x \in {c, RaiseFatal(c)} :
           /\ phase \notin {"EOF", "EPILOG"} => x = RaiseFatal(c)
           /\ IF phase # "EOF" THEN EndAt(x) ELSE c' = x /\ UNCHANGED <<phase, endDoc>>
           /\ fatal' = (x # c)
  <2> DEFINE x == IF phase \in {"EOF", "EPILOG"} THEN EofCheck ELSE RaiseFatal(c)
  <2>1. x \in {c, RaiseFatal(c)}
    BY DEF EofCheck
  <2> QED
    BY <2>1 DEF Terminate
<1>2. UNCHANGED <<open, startDoc>> /\ startDoc \in BOOLEAN
  BY DEF Terminate, IInv, TypeOK
<1>3. CASE phase = "EOF" /\ x = c
  BY <1>1, <1>2, <1>3, SilentStep
<1>4. CASE phase = "EOF" /\ x = RaiseFatal(c)
  BY <1>1, <1>2, <1>4, FatalStep
<1>5. CASE phase # "EOF" /\ x = RaiseFatal(c)
  <2>1. endDoc = FALSE
    BY <1>5 DEF IInv, TypeOK
  <2> QED
    BY <1>1, <1>5, <2>1, EndAfterFatal
<1>6. CASE phase # "EOF" /\ x = c /\ x # RaiseFatal(c)
  BY <1>1, <1>2, <1>6, EndOfEpilog
<1> QED
  BY <1>1, <1>3, <1>4, <1>5, <1>6

----------------------------------------------------------------------------
(* The theorem.                                                            *)

LEMMA NextTold ==
  ASSUME IInv, Staged, Next
  PROVE  Told
<1>1. CASE Chunk \/ Refuse \/ Latch \/ StepStart \/ MiscTail \/ ContentTag \/ SkipBlanks
  BY <1>1, QuietTold
<1>2. CASE \/ Exhausted \/ XmlDeclPark \/ MiscPark \/ SubsetPark
           \/ StartTagPark \/ ContentPark \/ EndTagPark
  BY <1>2, ParkTold
<1>3. CASE ChunkInvalid \/ Terminate
  BY <1>3, InvalidTold, TerminateTold
<1>4. CASE StepXmlDecl \/ ScanInline \/ StepDoctype \/ StepDoctypeHead \/ StepSubset
  BY <1>4, XmlDeclTold, InlineTold, DoctypeTold, DoctypeHeadTold, SubsetTold
<1>5. CASE EpilogTail \/ NotATag \/ BadName \/ WrongToken
  BY <1>5, EpilogTold, RejectTold
<1>6. CASE CutTag \/ OpenTag \/ EmptyTag \/ EndTag
  BY <1>6, CutTagTold, OpenTagTold, EmptyTagTold, EndTagTold
<1>7. CASE Reference \/ CharData
  BY <1>7, ReferenceTold, CharDataTold
<1> QED
  BY <1>1, <1>2, <1>3, <1>4, <1>5, <1>6, <1>7 DEF Next, Drive, Step

LEMMA InitStaged == Init => Staged /\ Sax!Init
<1> SUFFICES ASSUME Init PROVE Staged /\ Sax!Init
  OBVIOUS
<1>1. c.log = <<>> /\ c.disableSAX = 0
  BY DEF Init, Ctxt
<1>2. Staged
  BY <1>1 DEF Init, Staged
<1>3. Stage = "fresh"
  BY DEF Init, Stage
<1>4. Quiet = FALSE
  BY <1>1 DEF Init, Quiet
<1> QED
  BY <1>1, <1>2, <1>3, <1>4 DEF Sax!Init, Init

(***************************************************************************)
(* Every behaviour of the driver (push_persistent and drive_persistent) is *)
(* one of the SAX protocol: what the application is told nests as the      *)
(* open-element stack says, in every chunking and whatever it stops.       *)
(***************************************************************************)
THEOREM DriverImplementsSax == Spec => ImplementsSax
<1>1. Init => Staged /\ Sax!Init
  BY InitStaged
<1>2. IInv /\ Staged /\ [Next]_vars => Staged' /\ [Sax!Dispatch]_(Sax!saxVars)
  <2> SUFFICES ASSUME IInv, Staged, [Next]_vars
               PROVE  Staged' /\ [Sax!Dispatch]_(Sax!saxVars)
    OBVIOUS
  <2>1. CASE Next
    BY <2>1, NextTold DEF Told
  <2>2. CASE UNCHANGED vars
    BY <2>2 DEF vars, Staged, Sax!saxVars, Stage, Quiet
  <2> QED
    BY <2>1, <2>2
<1> QED
  BY <1>1, <1>2, Invariant, PTL DEF Spec, ImplementsSax, Sax!Spec

----------------------------------------------------------------------------
(***************************************************************************)
(* Independence of the chunks.  The reader below reads the first n cells   *)
(* of a stream d from a given place without ever being suspended, one      *)
(* construct, one cell of text or one change of phase at a time: what      *)
(* drive_step does when the whole stream is there and the call is the last *)
(* one.  It is a function of d and n alone.  Every action of the driver    *)
(* is some number of its turns, or leaves it where it is; so the driver,   *)
(* in whatever chunks its stream came, is always at a place the reader     *)
(* passes, and at the end of a terminating call at the one where it stops. *)
(***************************************************************************)

\* What a terminating call can decode of n cells, and whether it leaves a
\* unit cut off at the end.
Usable(d, n) ==
  IF n > 0 /\ d[n].con.k \in {"half", "badunit"} THEN n - 1 ELSE n
CutShort(d, n) == n > 0 /\ d[n].con.k = "half"

\* Where a reading stands: the cursor, the phase, the latches, the context.
Place(p, ph, o, sd, ed, f, x) ==
  [pos |-> p, phase |-> ph, open |-> o, startDoc |-> sd, endDoc |-> ed,
   fatal |-> f, c |-> x]
Start == Place(0, "START", <<>>, FALSE, FALSE, FALSE, Ctxt(0, "ok", TRUE, <<>>))
At == Place(pos, phase, open, startDoc, endDoc, fatal, c)

\* What is left to read, the construct at the cursor, whether all of it is
\* there, and the place past it or past what there is of it.
Left(d, n, z) == Usable(d, n) - z.pos
Here(d, z) == d[z.pos + 1].con
All(d, n, z) == Left(d, n, z) >= Size(Here(d, z).k)
Past(d, n, z) == IF All(d, n, z) THEN z.pos + Size(Here(d, z).k) ELSE Usable(d, n)

\* How a turn ends: on, with a fatal, or at the end of the document.
To(z, p, ph, x) == Place(p, ph, z.open, z.startDoc, z.endDoc, z.fatal, x)
Fails(z, p, ph, x) == Place(p, ph, z.open, z.startDoc, z.endDoc, TRUE, x)
Over(z, p, f, x) ==
  Place(p, "EOF", z.open, z.startDoc, TRUE, f,
        IF z.endDoc THEN x
        ELSE Ctxt(x.disableSAX, x.errNo, x.wellFormed,
                  Append(x.log, Leaf("endDocument"))))

\* The check for input left over (check_eof), and the end of a terminating call.
Unread(d, n, z) == IF z.c.errNo # "ok" THEN z.c
                   ELSE IF Left(d, n, z) > 0 \/ CutShort(d, n)
                        THEN RaiseFatal(z.c) ELSE z.c
Ending(d, n, z) ==
  LET x == IF z.phase \in {"EOF", "EPILOG"} THEN Unread(d, n, z)
                                            ELSE RaiseFatal(z.c)
  IN  IF z.phase = "EOF"
      THEN Place(z.pos, z.phase, z.open, z.startDoc, z.endDoc, x # z.c, x)
      ELSE Over(z, z.pos, x # z.c, x)

\* A turn in each phase.
TurnDecl(d, n, z) ==
  LET isDecl == Here(d, z).k = "decl" /\ Left(d, n, z) >= 2
      x == IF isDecl /\ (~All(d, n, z) \/ Here(d, z).bad = "scan")
           THEN RaiseFatal(z.c) ELSE z.c
      y == Deliver(x, <<Leaf("startDocument")>>, 0)
  IN  Place(IF isDecl THEN Past(d, n, z) ELSE z.pos, "MISC", z.open, TRUE,
            z.endDoc, y.disableSAX # 0, y)

TurnInline(d, n, z) ==
  To(z, Past(d, n, z), z.phase,
     Deliver(IF ~All(d, n, z) \/ Here(d, z).bad = "scan" \/ Here(d, z).k = "decl"
             THEN RaiseFatal(z.c) ELSE z.c, <<InlineEvent(Here(d, z).k)>>, 0))

TurnDoctype(d, n, z) ==
  LET x == IF Left(d, n, z) >= 3 THEN z.c ELSE RaiseFatal(z.c)
  IN  IF Here(d, z).k = "doctype"
      THEN To(z, Past(d, n, z), "PROLOG",
              Deliver(x, <<Leaf("internalSubset"), Leaf("externalSubset")>>, 0))
      ELSE To(z, z.pos + Size("dtdhead"),
              IF Left(d, n, z) >= 3 THEN "DTD" ELSE "PROLOG",
              Deliver(x, <<Leaf("internalSubset")>>, 0))

TurnMisc(d, n, z) ==
  IF Here(d, z).k = "ws" THEN To(z, z.pos + 1, z.phase, z.c)
  ELSE IF Here(d, z).k \in Inline(z.phase) /\ Left(d, n, z) >= 2
  THEN TurnInline(d, n, z)
  ELSE IF z.phase = "MISC" /\ Here(d, z).k \in {"doctype", "dtdhead"} /\ Left(d, n, z) >= 2
  THEN TurnDoctype(d, n, z)
  ELSE IF z.phase = "EPILOG"
  THEN Over(z, z.pos, Unread(d, n, z) # z.c, Unread(d, n, z))
  ELSE To(z, z.pos, "START_TAG", z.c)

TurnSubset(d, n, z) ==
  IF All(d, n, z) /\ Here(d, z).bad = "no"
  THEN To(z, Past(d, n, z), "PROLOG", Deliver(z.c, <<Leaf("externalSubset")>>, 0))
  ELSE Fails(z, Past(d, n, z), "PROLOG", RaiseFatal(z.c))

\* What scanning the tag's inside reports before the start event.
Inside(d, z) == CASE Here(d, z).bad = "scan" -> RaiseFatal(z.c)
                  [] Here(d, z).bad = "ns"   -> RaiseError(z.c)
                  [] OTHER                   -> z.c

TurnTag(d, n, z) ==
  LET k == Here(d, z).k
      nm == Here(d, z).nm
  IN  IF ~IsMarkup(k) THEN Over(z, z.pos, TRUE, RaiseFatal(z.c))
      ELSE IF \/ Left(d, n, z) < 2
              \/ k \in {"doctype", "dtdhead"}
              \/ k \in {"open", "empty"} /\ Here(d, z).bad = "name"
      THEN Over(z, z.pos + 1, TRUE, RaiseFatal(z.c))
      ELSE IF k \notin {"open", "empty"}
      THEN Over(z, Past(d, n, z), TRUE, RaiseFatal(z.c))
      ELSE IF ~All(d, n, z)
      THEN Fails(z, Past(d, n, z), AfterTag(z.open),
                 RaiseFatal(Deliver(Inside(d, z), <<E("start", nm)>>, 0)))
      ELSE IF k = "open"
      THEN Place(Past(d, n, z), "CONTENT", Append(z.open, nm), z.startDoc, z.endDoc,
                 z.fatal, Deliver(Inside(d, z), <<E("start", nm)>>, 0))
      ELSE To(z, Past(d, n, z), AfterTag(z.open),
              Deliver(Inside(d, z), <<E("start", nm), E("end", nm)>>, 0))

TurnContent(d, n, z) ==
  LET k == Here(d, z).k
  IN  IF IsText(k) THEN To(z, z.pos + 1, z.phase, Deliver(z.c, <<Leaf("text")>>, 0))
      ELSE IF k = "ref"
      THEN IF All(d, n, z) /\ Here(d, z).bad = "no"
           THEN To(z, Past(d, n, z), z.phase, Deliver(z.c, <<Leaf("ref")>>, 0))
           ELSE Fails(z, Past(d, n, z), z.phase, RaiseFatal(z.c))
      ELSE IF k \in Inline(z.phase) /\ Left(d, n, z) >= 2 THEN TurnInline(d, n, z)
      ELSE To(z, z.pos, IF k = "close" /\ Left(d, n, z) >= 2 THEN "END_TAG"
                        ELSE "START_TAG", z.c)

TurnEnd(d, n, z) ==
  IF z.open = <<>> THEN Over(z, Past(d, n, z), TRUE, RaiseFatal(z.c))
  ELSE LET top == z.open[Len(z.open)]
           rest == SubSeq(z.open, 1, Len(z.open) - 1)
           x == IF All(d, n, z) THEN z.c ELSE RaiseFatal(z.c)
           y == IF Here(d, z).nm = top THEN x ELSE RaiseFatal(x)
       IN  Place(Past(d, n, z), AfterTag(rest), rest, z.startDoc, z.endDoc, z.fatal,
                 Deliver(y, <<E("end", top)>>, 0))

InTurn(d, n, z) ==
  IF z.phase = "START" THEN To(z, z.pos, "XML_DECL", z.c)
  ELSE IF z.phase = "XML_DECL"  THEN TurnDecl(d, n, z)
  ELSE IF z.phase \in Misc      THEN TurnMisc(d, n, z)
  ELSE IF z.phase = "DTD"       THEN TurnSubset(d, n, z)
  ELSE IF z.phase = "START_TAG" THEN TurnTag(d, n, z)
  ELSE IF z.phase = "CONTENT"   THEN TurnContent(d, n, z)
  ELSE TurnEnd(d, n, z)

\* A failed reading is latched, one with nothing left ends, another goes on.
Turn(d, n, z) ==
  IF z.fatal \/ z.c.disableSAX # 0 THEN Fails(z, z.pos, z.phase, z.c)
  ELSE IF z.phase = "EOF" \/ Left(d, n, z) = 0 THEN Ending(d, n, z)
  ELSE InTurn(d, n, z)

\* The reading is over.
Fixed(d, n, z) == Turn(d, n, z) = z

\* From y the reader gets to z: z is in every set of states that holds y and
\* that no turn leaves.
Reads(d, n, y, z) ==
  \A T : y \in T /\ (\A v \in T : Turn(d, n, v) \in T) => z \in T

States(d, n) ==
  [pos : 0 .. Usable(d, n), phase : Phase, open : Seq(Names), startDoc : BOOLEAN,
   endDoc : BOOLEAN, fatal : BOOLEAN, c : Context]

\* What was dispatched stays dispatched.
Grows(x, y) == /\ y \in Context
               /\ Len(x.log) <= Len(y.log)
               /\ \A i \in 1 .. Len(x.log) : y.log[i] = x.log[i]

----------------------------------------------------------------------------
(* Reaching.                                                               *)

LEMMA ReadsSelf == ASSUME NEW d, NEW n, NEW y PROVE Reads(d, n, y, y)
BY Zenon DEF Reads

LEMMA ReadsTurn ==
  ASSUME NEW d, NEW n, NEW y, NEW z, Reads(d, n, y, z)
  PROVE  Reads(d, n, y, Turn(d, n, z))
BY Zenon DEF Reads

LEMMA ReadsOn ==
  ASSUME NEW d, NEW n, NEW x, NEW y, NEW z, Reads(d, n, x, y), Reads(d, n, y, z)
  PROVE  Reads(d, n, x, z)
BY Zenon DEF Reads

\* What is reached is the state itself, or reached from the next one.
LEMMA ReadsFirst ==
  ASSUME NEW d, NEW n, NEW y, NEW z, Reads(d, n, y, z)
  PROVE  z = y \/ Reads(d, n, Turn(d, n, y), z)
<1>1. SUFFICES ASSUME z # y, ~Reads(d, n, Turn(d, n, y), z)
               PROVE  FALSE
  OBVIOUS
<1>2. PICK T : /\ Turn(d, n, y) \in T
               /\ \A v \in T : Turn(d, n, v) \in T
               /\ z \notin T
  BY <1>1, Zenon DEF Reads
<1> DEFINE U == T \cup {y}
<1>3. y \in U /\ \A v \in U : Turn(d, n, v) \in U
  BY <1>2
<1>4. z \notin U
  BY <1>1, <1>2
<1> QED
  BY <1>3, <1>4, Zenon DEF Reads

\* Where the reader has stopped, everything it reached leads.

----------------------------------------------------------------------------
(* A turn keeps the types, and adds to the log.                            *)

LEMMA GrowsOn ==
  ASSUME NEW x \in Context, NEW y, NEW z, Grows(x, y), Grows(y, z)
  PROVE  Grows(x, z)
<1>1. /\ x.log \in Seq(Entry) /\ y.log \in Seq(Entry) /\ z.log \in Seq(Entry)
      /\ Len(x.log) \in Nat /\ Len(y.log) \in Nat /\ Len(z.log) \in Nat
  BY ContextFields, LenProperties DEF Grows
<1>2. Len(x.log) <= Len(y.log) /\ Len(y.log) <= Len(z.log)
  BY DEF Grows
<1>3. ASSUME NEW i \in 1 .. Len(x.log)
      PROVE  z.log[i] = x.log[i]
  <2>1. i \in 1 .. Len(y.log)
    BY <1>1, <1>2
  <2> QED
    BY <2>1, Zenon DEF Grows
<1> QED
  BY <1>1, <1>2, <1>3 DEF Grows

LEMMA GrowsSelf == ASSUME NEW x \in Context PROVE Grows(x, x)
<1>1. Len(x.log) \in Nat
  BY ContextFields, LenProperties
<1> QED
  BY <1>1 DEF Grows

LEMMA GrowsBy ==
  ASSUME NEW x \in Context, NEW evs \in Seq(Entry), NEW a \in 0 .. 2,
         NEW e \in ErrNo, NEW w \in BOOLEAN
  PROVE  Grows(x, Ctxt(a, e, w, x.log \o evs))
<1>1. x.log \in Seq(Entry)
  BY ContextFields
<1> DEFINE m == x.log \o evs
<1>2. /\ m \in Seq(Entry)
      /\ Len(x.log) \in Nat /\ Len(evs) \in Nat
      /\ Len(m) = Len(x.log) + Len(evs)
      /\ \A i \in 1 .. Len(x.log) : m[i] = x.log[i]
  BY <1>1, ConcatProperties, LenProperties
<1> HIDE DEF m
<1>3. Grows(x, Ctxt(a, e, w, m))
  BY <1>2, CtxtType DEF Grows
<1> QED
  BY <1>3 DEF m

LEMMA GrowsByOne ==
  ASSUME NEW x \in Context, NEW ev \in Event, NEW a \in 0 .. 2,
         NEW e \in ErrNo, NEW w \in BOOLEAN
  PROVE  Grows(x, Ctxt(a, e, w, Append(x.log, Leaf(ev))))
<1>1. x.log \in Seq(Entry)
  BY ContextFields
<1> DEFINE m == Append(x.log, Leaf(ev))
<1>2. /\ m \in Seq(Entry) /\ Len(m) = Len(x.log) + 1 /\ Len(x.log) \in Nat
      /\ \A i \in 1 .. Len(x.log) : m[i] = x.log[i]
  BY <1>1, AppendLog
<1> HIDE DEF m
<1>3. Grows(x, Ctxt(a, e, w, m))
  BY <1>2, CtxtType DEF Grows
<1> QED
  BY <1>3 DEF m

LEMMA FatalGrows == ASSUME NEW x \in Context PROVE Grows(x, RaiseFatal(x))
<1>1. 1 \in 0 .. 2 /\ "fatal" \in ErrNo /\ FALSE \in BOOLEAN /\ "fatal" \in Event
  BY DEF Event, ErrNo
<1>2. Grows(x, Ctxt(1, "fatal", FALSE, Append(x.log, Leaf("fatal"))))
  BY <1>1, GrowsByOne, Zenon
<1> QED
  BY <1>2, Zenon DEF RaiseFatal

LEMMA ErrorGrows == ASSUME NEW x \in Context PROVE Grows(x, RaiseError(x))
BY GrowsByOne, ContextFields DEF RaiseError, Event, ErrNo

LEMMA DeliverGrows ==
  ASSUME NEW x \in Context, NEW evs \in Seq(Entry)
  PROVE  Grows(x, Deliver(x, evs, 0))
BY GrowsBy, GrowsSelf, ContextFields DEF Deliver

LEMMA FinishGrows ==
  ASSUME NEW x \in Context, NEW b \in BOOLEAN
  PROVE  Grows(x, IF b THEN x
                  ELSE Ctxt(x.disableSAX, x.errNo, x.wellFormed,
                            Append(x.log, Leaf("endDocument"))))
BY GrowsByOne, GrowsSelf, ContextFields DEF Event

\* The events of a step, in sequences of one and two.
LEMMA LeafSequence ==
  ASSUME NEW e \in Event
  PROVE  <<Leaf(e)>> \in Seq(Entry)
BY LeafType

LEMMA TagSequence ==
  ASSUME NEW nm \in Names
  PROVE  /\ <<E("start", nm)>> \in Seq(Entry)
         /\ <<E("end", nm)>> \in Seq(Entry)
         /\ <<E("start", nm), E("end", nm)>> \in Seq(Entry)
<1>1. E("start", nm) \in Entry /\ E("end", nm) \in Entry
  BY DEF E, Entry, Event
<1> QED
  BY <1>1

\* A state with a context that grew.
Onward(d, n, z, w) == w \in States(d, n) /\ Grows(z.c, w.c)

LEMMA PlaceType ==
  ASSUME NEW d, NEW n, NEW z \in States(d, n),
         NEW p \in 0 .. Usable(d, n), NEW ph \in Phase, NEW o \in Seq(Names),
         NEW sd \in BOOLEAN, NEW ed \in BOOLEAN, NEW f \in BOOLEAN,
         NEW x, Grows(z.c, x)
  PROVE  Onward(d, n, z, Place(p, ph, o, sd, ed, f, x))
<1>1. x \in Context
  BY DEF Grows
<1> QED
  BY <1>1 DEF Place, States, Onward

LEMMA StateFields ==
  ASSUME NEW d, NEW n, NEW z \in States(d, n)
  PROVE  /\ z.pos \in 0 .. Usable(d, n) /\ z.phase \in Phase
         /\ z.open \in Seq(Names) /\ z.startDoc \in BOOLEAN
         /\ z.endDoc \in BOOLEAN /\ z.fatal \in BOOLEAN /\ z.c \in Context
BY DEF States

LEMMA PlaceFields ==
  ASSUME NEW p, NEW ph, NEW o, NEW sd, NEW ed, NEW f, NEW x
  PROVE  LET z == Place(p, ph, o, sd, ed, f, x) IN
         /\ z.pos = p /\ z.phase = ph /\ z.open = o /\ z.startDoc = sd
         /\ z.endDoc = ed /\ z.fatal = f /\ z.c = x
BY DEF Place

LEMMA StateIsPlace ==
  ASSUME NEW d, NEW n, NEW z \in States(d, n)
  PROVE  z = Place(z.pos, z.phase, z.open, z.startDoc, z.endDoc, z.fatal, z.c)
BY DEF States, Place

LEMMA UsableType ==
  ASSUME NEW d, NEW n \in Nat
  PROVE  Usable(d, n) \in Nat /\ Usable(d, n) <= n /\ n <= Usable(d, n) + 1
BY DEF Usable

\* The construct at the cursor, and the places where a turn can leave it.
LEMMA HereFacts ==
  ASSUME NEW d \in Seq(Cell), NEW n \in 0 .. Len(d), NEW z \in States(d, n),
         Left(d, n, z) # 0
  PROVE  /\ Here(d, z) \in Construct
         /\ z.pos + 1 \in 0 .. Usable(d, n) /\ z.pos + 1 \in 1 .. Len(d)
         /\ Past(d, n, z) \in 0 .. Usable(d, n)
         /\ Left(d, n, z) >= 2 => z.pos + 2 \in 0 .. Usable(d, n)
         /\ Left(d, n, z) \in Nat \ {0}
<1>1. n \in Nat /\ Len(d) \in Nat /\ n <= Len(d)
  BY LenProperties
<1>2. Usable(d, n) \in Nat /\ Usable(d, n) <= n
  BY <1>1, UsableType
<1>3. z.pos \in 0 .. Usable(d, n)
  BY StateFields
<1>4. Left(d, n, z) = Usable(d, n) - z.pos
  BY DEF Left
<1> HIDE DEF Left
<1>5. /\ Left(d, n, z) \in Nat \ {0} /\ z.pos + 1 \in 0 .. Usable(d, n)
      /\ z.pos + 1 \in 1 .. Len(d)
      /\ Left(d, n, z) >= 2 => z.pos + 2 \in 0 .. Usable(d, n)
  BY <1>1, <1>2, <1>3, <1>4
<1>6. Here(d, z) \in Construct
  <2>1. d[z.pos + 1] \in Cell
    BY <1>5
  <2> QED
    BY <2>1 DEF Cell, Here
<1>7. Past(d, n, z) \in 0 .. Usable(d, n)
  <2> DEFINE m == Size(Here(d, z).k)
  <2>1. m \in 1 .. 3
    BY DEF Size
  <2>2. Past(d, n, z) = IF Left(d, n, z) >= m THEN z.pos + m ELSE Usable(d, n)
    BY DEF Past, All
  <2> HIDE DEF m
  <2> QED
    BY <1>2, <1>3, <1>4, <2>1, <2>2
<1> QED
  BY <1>5, <1>6, <1>7

LEMMA TurnEndings ==
  ASSUME NEW d, NEW n, NEW z \in States(d, n), NEW p \in 0 .. Usable(d, n),
         NEW x, Grows(z.c, x)
  PROVE  /\ \A ph \in Phase : /\ Onward(d, n, z, To(z, p, ph, x))
                              /\ Onward(d, n, z, Fails(z, p, ph, x))
         /\ \A f \in BOOLEAN : Onward(d, n, z, Over(z, p, f, x))
<1>1. /\ z.open \in Seq(Names) /\ z.startDoc \in BOOLEAN
      /\ z.endDoc \in BOOLEAN /\ z.fatal \in BOOLEAN /\ z.c \in Context
  BY StateFields
<1>2. ASSUME NEW ph \in Phase
      PROVE  /\ Onward(d, n, z, To(z, p, ph, x))
             /\ Onward(d, n, z, Fails(z, p, ph, x))
  BY <1>1, PlaceType, Zenon DEF To, Fails
<1>3. ASSUME NEW f \in BOOLEAN
      PROVE  Onward(d, n, z, Over(z, p, f, x))
  <2> DEFINE y == IF z.endDoc THEN x
                  ELSE Ctxt(x.disableSAX, x.errNo, x.wellFormed,
                            Append(x.log, Leaf("endDocument")))
  <2>1. x \in Context
    BY DEF Grows
  <2>2. Grows(x, y)
    BY <1>1, <2>1, FinishGrows, Zenon
  <2>3. Grows(z.c, y)
    BY <1>1, <2>2, GrowsOn, Zenon
  <2>4. "EOF" \in Phase /\ TRUE \in BOOLEAN
    BY DEF Phase
  <2>5. Over(z, p, f, x) = Place(p, "EOF", z.open, z.startDoc, TRUE, f, y)
    BY Zenon DEF Over
  <2> HIDE DEF y
  <2>6. Onward(d, n, z, Place(p, "EOF", z.open, z.startDoc, TRUE, f, y))
    BY <1>1, <2>3, <2>4, PlaceType, Zenon
  <2> QED
    BY <2>5, <2>6, Zenon
<1> QED
  BY <1>2, <1>3

LEMMA UnreadGrows ==
  ASSUME NEW d, NEW n, NEW z, z.c \in Context
  PROVE  Grows(z.c, Unread(d, n, z))
BY GrowsSelf, FatalGrows DEF Unread

LEMMA EndingType ==
  ASSUME NEW d, NEW n, NEW z \in States(d, n)
  PROVE  Onward(d, n, z, Ending(d, n, z))
<1> DEFINE x == IF z.phase \in {"EOF", "EPILOG"} THEN Unread(d, n, z)
                                                 ELSE RaiseFatal(z.c)
<1>1. /\ z.pos \in 0 .. Usable(d, n) /\ z.phase \in Phase
      /\ z.open \in Seq(Names) /\ z.startDoc \in BOOLEAN
      /\ z.endDoc \in BOOLEAN /\ z.c \in Context
  BY StateFields
<1>2. Grows(z.c, x)
  BY <1>1, UnreadGrows, FatalGrows
<1>3. Ending(d, n, z) =
        IF z.phase = "EOF"
        THEN Place(z.pos, z.phase, z.open, z.startDoc, z.endDoc, x # z.c, x)
        ELSE Over(z, z.pos, x # z.c, x)
  BY Zenon DEF Ending
<1>4. (x # z.c) \in BOOLEAN
  OBVIOUS
<1> HIDE DEF x
<1>5. Onward(d, n, z, Place(z.pos, z.phase, z.open, z.startDoc, z.endDoc, x # z.c, x))
  BY <1>1, <1>2, <1>4, PlaceType, Zenon
<1>6. Onward(d, n, z, Over(z, z.pos, x # z.c, x))
  BY <1>1, <1>2, <1>4, TurnEndings, Zenon
<1> QED
  BY <1>3, <1>5, <1>6, Zenon

LEMMA FaultGrows ==
  ASSUME NEW x \in Context, NEW b, NEW evs \in Seq(Entry)
  PROVE  Grows(x, Deliver(IF b THEN RaiseFatal(x) ELSE x, evs, 0))
<1> DEFINE y == IF b THEN RaiseFatal(x) ELSE x
<1>1. Grows(x, y)
  BY FatalGrows, GrowsSelf
<1> HIDE DEF y
<1>2. y \in Context
  BY <1>1 DEF Grows
<1>3. Grows(y, Deliver(y, evs, 0))
  BY <1>2, DeliverGrows, Zenon
<1>4. Grows(x, Deliver(y, evs, 0))
  BY <1>1, <1>3, GrowsOn, Zenon
<1> QED
  BY <1>4 DEF y

LEMMA DeclType ==
  ASSUME NEW d \in Seq(Cell), NEW n \in 0 .. Len(d), NEW z \in States(d, n),
         Left(d, n, z) # 0
  PROVE  Onward(d, n, z, TurnDecl(d, n, z))
<1> DEFINE isDecl == Here(d, z).k = "decl" /\ Left(d, n, z) >= 2
           cut == isDecl /\ (~All(d, n, z) \/ Here(d, z).bad = "scan")
           y == Deliver(IF cut THEN RaiseFatal(z.c) ELSE z.c,
                        <<Leaf("startDocument")>>, 0)
           p == IF isDecl THEN Past(d, n, z) ELSE z.pos
<1>1. TurnDecl(d, n, z) =
        Place(p, "MISC", z.open, TRUE, z.endDoc, y.disableSAX # 0, y)
  BY Zenon DEF TurnDecl
<1>2. /\ z.pos \in 0 .. Usable(d, n) /\ z.open \in Seq(Names)
      /\ z.endDoc \in BOOLEAN /\ z.c \in Context
  BY StateFields
<1>3. p \in 0 .. Usable(d, n)
  BY <1>2, HereFacts
<1>4. Grows(z.c, y)
  BY <1>2, FaultGrows, LeafSequence DEF Event
<1>5. "MISC" \in Phase /\ TRUE \in BOOLEAN /\ (y.disableSAX # 0) \in BOOLEAN
  BY DEF Phase
<1> HIDE DEF y, p, cut, isDecl
<1>6. Onward(d, n, z, Place(p, "MISC", z.open, TRUE, z.endDoc, y.disableSAX # 0, y))
  BY <1>2, <1>3, <1>4, <1>5, PlaceType, Zenon
<1> QED
  BY <1>1, <1>6, Zenon

LEMMA InlineType ==
  ASSUME NEW d \in Seq(Cell), NEW n \in 0 .. Len(d), NEW z \in States(d, n),
         Left(d, n, z) # 0, Here(d, z).k \in {"decl", "pi", "comment", "cdata"}
  PROVE  Onward(d, n, z, TurnInline(d, n, z))
<1>1. z.phase \in Phase /\ z.c \in Context /\ Past(d, n, z) \in 0 .. Usable(d, n)
  BY StateFields, HereFacts
<1>2. <<InlineEvent(Here(d, z).k)>> \in Seq(Entry)
  <2> DEFINE k == IF Here(d, z).k = "decl" THEN "pi" ELSE Here(d, z).k
  <2>1. k \in Event
    BY DEF Event
  <2> HIDE DEF k
  <2>2. <<Leaf(k)>> \in Seq(Entry)
    BY <2>1, LeafSequence
  <2> QED
    BY <2>2 DEF InlineEvent, k
<1>3. Grows(z.c, Deliver(IF ~All(d, n, z) \/ Here(d, z).bad = "scan"
                              \/ Here(d, z).k = "decl"
                         THEN RaiseFatal(z.c) ELSE z.c,
                         <<InlineEvent(Here(d, z).k)>>, 0))
  BY <1>1, <1>2, FaultGrows, Zenon
<1> QED
  BY <1>1, <1>3, TurnEndings, Zenon DEF TurnInline

LEMMA DoctypeType ==
  ASSUME NEW d \in Seq(Cell), NEW n \in 0 .. Len(d), NEW z \in States(d, n),
         Left(d, n, z) >= 2
  PROVE  Onward(d, n, z, TurnDoctype(d, n, z))
<1> DEFINE x == IF Left(d, n, z) >= 3 THEN z.c ELSE RaiseFatal(z.c)
           ph == IF Left(d, n, z) >= 3 THEN "DTD" ELSE "PROLOG"
           y == Deliver(x, <<Leaf("internalSubset"), Leaf("externalSubset")>>, 0)
           w == Deliver(x, <<Leaf("internalSubset")>>, 0)
<1>1. Left(d, n, z) # 0
  OBVIOUS
<1>2. /\ z.pos \in Nat /\ z.c \in Context /\ Past(d, n, z) \in 0 .. Usable(d, n)
      /\ z.pos + 2 \in 0 .. Usable(d, n)
  BY <1>1, StateFields, HereFacts
<1>3. Grows(z.c, x) /\ x \in Context
  BY <1>2, FatalGrows, GrowsSelf DEF Grows
<1>4. /\ <<Leaf("internalSubset")>> \in Seq(Entry)
      /\ <<Leaf("internalSubset"), Leaf("externalSubset")>> \in Seq(Entry)
  <2>1. Leaf("internalSubset") \in Entry /\ Leaf("externalSubset") \in Entry
    BY LeafType DEF Event
  <2> QED
    BY <2>1
<1>5. ph \in Phase /\ "PROLOG" \in Phase
  BY DEF Phase
<1>6. TurnDoctype(d, n, z) = IF Here(d, z).k = "doctype"
                             THEN To(z, Past(d, n, z), "PROLOG", y)
                             ELSE To(z, z.pos + 2, ph, w)
  BY Zenon DEF TurnDoctype, Size
<1> HIDE DEF x, ph
<1>7. Grows(z.c, y) /\ Grows(z.c, w)
  BY <1>2, <1>3, <1>4, DeliverGrows, GrowsOn, Zenon
<1> HIDE DEF y, w
<1>8. Onward(d, n, z, To(z, Past(d, n, z), "PROLOG", y))
  BY <1>2, <1>5, <1>7, TurnEndings, Zenon
<1>9. Onward(d, n, z, To(z, z.pos + 2, ph, w))
  BY <1>2, <1>5, <1>7, TurnEndings, Zenon
<1> QED
  BY <1>6, <1>8, <1>9, Zenon

LEMMA MiscType ==
  ASSUME NEW d \in Seq(Cell), NEW n \in 0 .. Len(d), NEW z \in States(d, n),
         Left(d, n, z) # 0
  PROVE  Onward(d, n, z, TurnMisc(d, n, z))
<1>1. /\ z.pos \in 0 .. Usable(d, n) /\ z.c \in Context /\ z.phase \in Phase
      /\ z.pos + 1 \in 0 .. Usable(d, n) /\ "START_TAG" \in Phase
  BY StateFields, HereFacts DEF Phase
<1>2. Grows(z.c, z.c) /\ Grows(z.c, Unread(d, n, z))
  BY <1>1, GrowsSelf, UnreadGrows
<1>3. Onward(d, n, z, To(z, z.pos + 1, z.phase, z.c))
  BY <1>1, <1>2, TurnEndings, Zenon
<1>4. Onward(d, n, z, To(z, z.pos, "START_TAG", z.c))
  BY <1>1, <1>2, TurnEndings, Zenon
<1>5. (Unread(d, n, z) # z.c) \in BOOLEAN
  OBVIOUS
<1>6. Onward(d, n, z, Over(z, z.pos, Unread(d, n, z) # z.c, Unread(d, n, z)))
  BY <1>1, <1>2, <1>5, TurnEndings, Zenon
<1>7. Here(d, z).k \in Inline(z.phase) => Onward(d, n, z, TurnInline(d, n, z))
  BY InlineType DEF Inline
<1>8. Left(d, n, z) >= 2 => Onward(d, n, z, TurnDoctype(d, n, z))
  BY DoctypeType
<1> QED
  BY <1>3, <1>4, <1>6, <1>7, <1>8, Zenon DEF TurnMisc

LEMMA SubsetType ==
  ASSUME NEW d \in Seq(Cell), NEW n \in 0 .. Len(d), NEW z \in States(d, n),
         Left(d, n, z) # 0
  PROVE  Onward(d, n, z, TurnSubset(d, n, z))
<1>1. /\ z.c \in Context /\ "PROLOG" \in Phase
      /\ Past(d, n, z) \in 0 .. Usable(d, n)
      /\ <<Leaf("externalSubset")>> \in Seq(Entry)
  BY StateFields, HereFacts, LeafSequence DEF Phase, Event
<1>2. /\ Grows(z.c, Deliver(z.c, <<Leaf("externalSubset")>>, 0))
      /\ Grows(z.c, RaiseFatal(z.c))
  BY <1>1, DeliverGrows, FatalGrows
<1>3. Onward(d, n, z, To(z, Past(d, n, z), "PROLOG",
                        Deliver(z.c, <<Leaf("externalSubset")>>, 0)))
  BY <1>1, <1>2, TurnEndings, Zenon
<1>4. Onward(d, n, z, Fails(z, Past(d, n, z), "PROLOG", RaiseFatal(z.c)))
  BY <1>1, <1>2, TurnEndings, Zenon
<1> QED
  BY <1>3, <1>4, Zenon DEF TurnSubset

LEMMA InsideGrows ==
  ASSUME NEW d, NEW z, z.c \in Context
  PROVE  Grows(z.c, Inside(d, z)) /\ Inside(d, z) \in Context
<1>1. Grows(z.c, Inside(d, z))
  BY GrowsSelf, FatalGrows, ErrorGrows DEF Inside
<1> QED
  BY <1>1 DEF Grows

LEMMA TagType ==
  ASSUME NEW d \in Seq(Cell), NEW n \in 0 .. Len(d), NEW z \in States(d, n),
         Left(d, n, z) # 0
  PROVE  Onward(d, n, z, TurnTag(d, n, z))
<1> DEFINE nm == Here(d, z).nm
           x == Inside(d, z)
           y == Deliver(x, <<E("start", nm)>>, 0)
           w == Deliver(x, <<E("start", nm), E("end", nm)>>, 0)
           p == Past(d, n, z)
<1>1. /\ z.pos \in 0 .. Usable(d, n) /\ z.c \in Context
      /\ z.pos + 1 \in 0 .. Usable(d, n) /\ p \in 0 .. Usable(d, n)
      /\ nm \in Names /\ z.open \in Seq(Names) /\ z.startDoc \in BOOLEAN
      /\ z.endDoc \in BOOLEAN /\ z.fatal \in BOOLEAN
  BY StateFields, HereFacts DEF Construct
<1>2. Grows(z.c, x) /\ x \in Context
  BY <1>1, InsideGrows
<1>3. /\ <<E("start", nm)>> \in Seq(Entry)
      /\ <<E("start", nm), E("end", nm)>> \in Seq(Entry)
      /\ Append(z.open, nm) \in Seq(Names)
  BY <1>1, TagSequence
<1>4. /\ AfterTag(z.open) \in Phase /\ "CONTENT" \in Phase /\ TRUE \in BOOLEAN
  BY DEF AfterTag, Phase
<1> HIDE DEF x, p, nm
<1>5. Grows(x, y) /\ Grows(x, w)
  BY <1>2, <1>3, DeliverGrows, Zenon
<1>6. Grows(z.c, y) /\ Grows(z.c, w)
  BY <1>1, <1>2, <1>5, GrowsOn, Zenon
<1>7. Grows(y, RaiseFatal(y))
  BY <1>6, FatalGrows, Zenon DEF Grows
<1>8. Grows(z.c, RaiseFatal(y)) /\ Grows(z.c, RaiseFatal(z.c))
  BY <1>1, <1>6, <1>7, GrowsOn, FatalGrows, Zenon
<1> HIDE DEF y, w
<1>9. /\ Onward(d, n, z, Over(z, z.pos, TRUE, RaiseFatal(z.c)))
      /\ Onward(d, n, z, Over(z, z.pos + 1, TRUE, RaiseFatal(z.c)))
      /\ Onward(d, n, z, Over(z, p, TRUE, RaiseFatal(z.c)))
  BY <1>1, <1>4, <1>8, TurnEndings, Zenon
<1>10. /\ Onward(d, n, z, Fails(z, p, AfterTag(z.open), RaiseFatal(y)))
       /\ Onward(d, n, z, To(z, p, AfterTag(z.open), w))
  BY <1>1, <1>4, <1>6, <1>8, TurnEndings, Zenon
<1>11. Onward(d, n, z, Place(p, "CONTENT", Append(z.open, nm), z.startDoc,
                            z.endDoc, z.fatal, y))
  BY <1>1, <1>3, <1>4, <1>6, PlaceType, Zenon
<1> QED
  BY <1>9, <1>10, <1>11, Zenon DEF TurnTag, x, y, w, p, nm

LEMMA ContentType ==
  ASSUME NEW d \in Seq(Cell), NEW n \in 0 .. Len(d), NEW z \in States(d, n),
         Left(d, n, z) # 0
  PROVE  Onward(d, n, z, TurnContent(d, n, z))
<1>1. /\ z.pos \in 0 .. Usable(d, n) /\ z.c \in Context /\ z.phase \in Phase
      /\ z.pos + 1 \in 0 .. Usable(d, n) /\ Past(d, n, z) \in 0 .. Usable(d, n)
  BY StateFields, HereFacts
<1>2. /\ <<Leaf("text")>> \in Seq(Entry) /\ <<Leaf("ref")>> \in Seq(Entry)
      /\ "END_TAG" \in Phase /\ "START_TAG" \in Phase
  BY LeafSequence DEF Event, Phase
<1>3. /\ Grows(z.c, z.c) /\ Grows(z.c, RaiseFatal(z.c))
      /\ Grows(z.c, Deliver(z.c, <<Leaf("text")>>, 0))
      /\ Grows(z.c, Deliver(z.c, <<Leaf("ref")>>, 0))
  BY <1>1, <1>2, GrowsSelf, FatalGrows, DeliverGrows
<1>4. Onward(d, n, z, To(z, z.pos + 1, z.phase, Deliver(z.c, <<Leaf("text")>>, 0)))
  BY <1>1, <1>3, TurnEndings, Zenon
<1>5. /\ Onward(d, n, z, To(z, Past(d, n, z), z.phase,
                           Deliver(z.c, <<Leaf("ref")>>, 0)))
      /\ Onward(d, n, z, Fails(z, Past(d, n, z), z.phase, RaiseFatal(z.c)))
  BY <1>1, <1>3, TurnEndings, Zenon
<1>6. /\ Onward(d, n, z, To(z, z.pos, "END_TAG", z.c))
      /\ Onward(d, n, z, To(z, z.pos, "START_TAG", z.c))
  BY <1>1, <1>2, <1>3, TurnEndings, Zenon
<1>7. Here(d, z).k \in Inline(z.phase) => Onward(d, n, z, TurnInline(d, n, z))
  BY InlineType DEF Inline
<1> QED
  BY <1>4, <1>5, <1>6, <1>7, Zenon DEF TurnContent

LEMMA EndTagType ==
  ASSUME NEW d \in Seq(Cell), NEW n \in 0 .. Len(d), NEW z \in States(d, n),
         Left(d, n, z) # 0
  PROVE  Onward(d, n, z, TurnEnd(d, n, z))
<1>1. /\ z.c \in Context /\ Past(d, n, z) \in 0 .. Usable(d, n)
      /\ z.open \in Seq(Names) /\ z.startDoc \in BOOLEAN
      /\ z.endDoc \in BOOLEAN /\ z.fatal \in BOOLEAN /\ TRUE \in BOOLEAN
  BY StateFields, HereFacts
<1>2. CASE z.open = <<>>
  <2>1. Grows(z.c, RaiseFatal(z.c))
    BY <1>1, FatalGrows
  <2>2. Onward(d, n, z, Over(z, Past(d, n, z), TRUE, RaiseFatal(z.c)))
    BY <1>1, <2>1, TurnEndings, Zenon
  <2> QED
    BY <1>2, <2>2, Zenon DEF TurnEnd
<1>3. CASE z.open # <<>>
  <2> DEFINE top == z.open[Len(z.open)]
             rest == SubSeq(z.open, 1, Len(z.open) - 1)
             x == IF All(d, n, z) THEN z.c ELSE RaiseFatal(z.c)
             y == IF Here(d, z).nm = top THEN x ELSE RaiseFatal(x)
             w == Deliver(y, <<E("end", top)>>, 0)
  <2>1. TurnEnd(d, n, z) = Place(Past(d, n, z), AfterTag(rest), rest,
                                 z.startDoc, z.endDoc, z.fatal, w)
    BY <1>3, Zenon DEF TurnEnd
  <2>2. Len(z.open) \in Nat /\ Len(z.open) >= 1 /\ top \in Names
    BY <1>1, <1>3, EmptySeq, LenProperties
  <2>3. rest \in Seq(Names)
    BY <1>1, <2>2, SubSeqProperties
  <2>4. AfterTag(rest) \in Phase
    BY DEF AfterTag, Phase
  <2>5. <<E("end", top)>> \in Seq(Entry)
    BY <2>2, TagSequence
  <2>6. Grows(z.c, x) /\ x \in Context
    BY <1>1, FatalGrows, GrowsSelf DEF Grows
  <2> HIDE DEF top, rest, x
  <2>7. Grows(x, y) /\ y \in Context
    BY <2>6, FatalGrows, GrowsSelf DEF Grows
  <2> HIDE DEF y
  <2>8. Grows(y, w)
    BY <2>5, <2>7, DeliverGrows, Zenon
  <2> HIDE DEF w
  <2>9. Grows(z.c, w)
    BY <1>1, <2>6, <2>7, <2>8, GrowsOn, Zenon
  <2>10. Onward(d, n, z, Place(Past(d, n, z), AfterTag(rest), rest, z.startDoc,
                              z.endDoc, z.fatal, w))
    BY <1>1, <2>3, <2>4, <2>9, PlaceType, Zenon
  <2> QED
    BY <2>1, <2>10, Zenon
<1> QED
  BY <1>2, <1>3

LEMMA TurnType ==
  ASSUME NEW d \in Seq(Cell), NEW n \in 0 .. Len(d), NEW z \in States(d, n)
  PROVE  Onward(d, n, z, Turn(d, n, z))
<1>1. CASE z.fatal \/ z.c.disableSAX # 0
  <2>1. z.pos \in 0 .. Usable(d, n) /\ z.phase \in Phase /\ Grows(z.c, z.c)
    BY StateFields, GrowsSelf
  <2>2. Onward(d, n, z, Fails(z, z.pos, z.phase, z.c))
    BY <2>1, TurnEndings, Zenon
  <2> QED
    BY <1>1, <2>2, Zenon DEF Turn
<1>2. CASE ~(z.fatal \/ z.c.disableSAX # 0) /\ (z.phase = "EOF" \/ Left(d, n, z) = 0)
  BY <1>2, EndingType, Zenon DEF Turn
<1>3. CASE ~(z.fatal \/ z.c.disableSAX # 0) /\ ~(z.phase = "EOF" \/ Left(d, n, z) = 0)
  <2>1. Left(d, n, z) # 0 /\ z.phase # "EOF"
    BY <1>3
  <2>2. Turn(d, n, z) = InTurn(d, n, z)
    BY <1>3, Zenon DEF Turn
  <2>3. Onward(d, n, z, To(z, z.pos, "XML_DECL", z.c))
    <3>1. /\ z.pos \in 0 .. Usable(d, n) /\ "XML_DECL" \in Phase
          /\ Grows(z.c, z.c)
      BY StateFields, GrowsSelf DEF Phase
    <3> QED
      BY <3>1, TurnEndings, Zenon
  <2>4. z.phase \in Phase
    BY StateFields
  <2>5. Onward(d, n, z, InTurn(d, n, z))
    BY <2>1, <2>3, <2>4, DeclType, MiscType, SubsetType, TagType, ContentType,
       EndTagType DEF InTurn, Phase, Misc
  <2> QED
    BY <2>2, <2>5, Zenon
<1> QED
  BY <1>1, <1>2, <1>3, Zenon

----------------------------------------------------------------------------
(* One reader: whatever it passes leads to where it stops.                 *)

LEMMA ReadsType ==
  ASSUME NEW d \in Seq(Cell), NEW n \in 0 .. Len(d), NEW y \in States(d, n),
         NEW z, Reads(d, n, y, z)
  PROVE  z \in States(d, n) /\ Grows(y.c, z.c)
<1> DEFINE T == {v \in States(d, n) : Grows(y.c, v.c)}
<1>1. y.c \in Context
  BY StateFields
<1>2. y \in T
  BY <1>1, GrowsSelf
<1>3. ASSUME NEW v \in T
      PROVE  Turn(d, n, v) \in T
  <2>1. v \in States(d, n) /\ Grows(y.c, v.c)
    OBVIOUS
  <2>2. Turn(d, n, v) \in States(d, n) /\ Grows(v.c, Turn(d, n, v).c)
    BY <2>1, TurnType, Zenon DEF Onward
  <2>3. Grows(y.c, Turn(d, n, v).c)
    BY <1>1, <2>1, <2>2, GrowsOn, Zenon
  <2> QED
    BY <2>2, <2>3
<1> HIDE DEF T
<1>4. z \in T
  BY <1>2, <1>3, Zenon DEF Reads
<1> QED
  BY <1>4 DEF T

LEMMA ReadsToTheEnd ==
  ASSUME NEW d \in Seq(Cell), NEW n \in 0 .. Len(d), NEW x \in States(d, n),
         NEW y, NEW z, Reads(d, n, x, y), Reads(d, n, x, z), Fixed(d, n, z)
  PROVE  Reads(d, n, y, z)
<1> DEFINE T == {v \in States(d, n) : Reads(d, n, v, z)}
<1>1. x \in T
  OBVIOUS
<1>2. ASSUME NEW v \in T
      PROVE  Turn(d, n, v) \in T
  <2>1. v \in States(d, n) /\ Reads(d, n, v, z)
    OBVIOUS
  <2>2. Turn(d, n, v) \in States(d, n)
    BY <2>1, TurnType, Zenon DEF Onward
  <2>3. Reads(d, n, Turn(d, n, v), z)
    <3>1. CASE z = v
      BY <3>1, ReadsSelf, Zenon DEF Fixed
    <3>2. CASE z # v
      BY <2>1, <3>2, ReadsFirst, Zenon
    <3> QED
      BY <3>1, <3>2
  <2> QED
    BY <2>2, <2>3
<1> HIDE DEF T
<1>3. y \in T
  BY <1>1, <1>2, Zenon DEF Reads
<1> QED
  BY <1>3 DEF T

LEMMA EndIsUnique ==
  ASSUME NEW d \in Seq(Cell), NEW n \in 0 .. Len(d), NEW x \in States(d, n),
         NEW y, NEW z,
         Reads(d, n, x, y), Fixed(d, n, y), Reads(d, n, x, z), Fixed(d, n, z)
  PROVE  y = z
<1>1. Reads(d, n, y, z)
  BY ReadsToTheEnd, Zenon
<1>2. y \in {y} /\ \A v \in {y} : Turn(d, n, v) \in {y}
  BY Zenon DEF Fixed
<1>3. z \in {y}
  BY <1>1, <1>2, Zenon DEF Reads
<1> QED
  BY <1>3

----------------------------------------------------------------------------
(* A step of the driver, as the reader takes it.                           *)

\* The driver at a point of the stream that the reader of n cells may have
\* reached; the terminating call has what the reader has.
Ready(n) ==
  /\ IInv /\ Even /\ n \in recv .. Len(doc) /\ have <= Usable(doc, n)
  /\ term => n = recv /\ have = Usable(doc, n) /\ truncated = CutShort(doc, n)

LEMMA AtFields ==
  /\ At.pos = pos /\ At.phase = phase /\ At.open = open
  /\ At.startDoc = startDoc /\ At.endDoc = endDoc /\ At.fatal = fatal /\ At.c = c
BY DEF At, Place

LEMMA AtNext ==
  At' = Place(pos', phase', open', startDoc', endDoc', fatal', c')
BY DEF At

LEMMA AtType ==
  ASSUME NEW n, Ready(n)
  PROVE  /\ At \in States(doc, n)
         /\ doc \in Seq(Cell) /\ n \in 0 .. Len(doc)
<1>1. /\ doc \in Seq(Cell) /\ Len(doc) \in Nat /\ recv \in Nat /\ n \in 0 .. Len(doc)
      /\ have \in Nat /\ pos \in 0 .. have /\ have <= Usable(doc, n)
  BY LenProperties DEF Ready, IInv, TypeOK
<1>2. Usable(doc, n) \in Nat
  BY <1>1, UsableType
<1>3. pos \in 0 .. Usable(doc, n)
  BY <1>1, <1>2
<1> QED
  BY <1>1, <1>3 DEF Ready, IInv, TypeOK, At, Place, States

\* What the driver and the reader see at the same place.
Sees(n) ==
  /\ Here(doc, At) = Cur /\ Cur \in Construct
  /\ Avail \in Nat \ {0} /\ Left(doc, n, At) \in Nat \ {0}
  /\ Avail <= Left(doc, n, At)
  /\ term => Left(doc, n, At) = Avail
  /\ Whole => All(doc, n, At) /\ Past(doc, n, At) = pos + Size(Cur.k)
  /\ term => (All(doc, n, At) <=> Whole) /\ (~Whole => Past(doc, n, At) = have)
  /\ fatal = FALSE /\ c.disableSAX = 0 /\ c \in Context /\ endDoc = FALSE
  /\ Turn(doc, n, At) = InTurn(doc, n, At)

LEMMA Looking ==
  ASSUME NEW n, Ready(n), NEW ps, InPhase(ps), "EOF" \notin ps
  PROVE  Sees(n)
<1>1. /\ fatal = FALSE /\ c.disableSAX = 0 /\ c \in Context /\ endDoc = FALSE
      /\ pos \in Nat /\ have \in Nat /\ pos < have /\ Cur \in Construct
      /\ phase # "EOF"
  BY LiveFacts DEF Ready, InPhase, Live, IInv, TypeOK
<1>2. Here(doc, At) = Cur
  BY AtFields DEF Here, Cur
<1>3. Usable(doc, n) \in Nat /\ have <= Usable(doc, n)
  <2>1. n \in Nat
    BY AtType, LenProperties
  <2> QED
    BY <2>1, UsableType DEF Ready
<1>4. Left(doc, n, At) = Usable(doc, n) - pos /\ Avail = have - pos
  BY AtFields DEF Left, Avail
<1>5. term => have = Usable(doc, n)
  BY DEF Ready
<1>6. Avail \in Nat \ {0} /\ Left(doc, n, At) \in Nat \ {0}
  BY <1>1, <1>3, <1>4
<1>7. Avail <= Left(doc, n, At) /\ (term => Left(doc, n, At) = Avail)
  BY <1>1, <1>3, <1>4, <1>5
<1>8. Size(Cur.k) \in Nat
  BY DEF Size
<1>9. /\ All(doc, n, At) <=> Left(doc, n, At) >= Size(Cur.k)
      /\ Whole <=> Avail >= Size(Cur.k)
      /\ Past(doc, n, At) = IF All(doc, n, At) THEN pos + Size(Cur.k) ELSE Usable(doc, n)
  BY <1>2, AtFields, Zenon DEF All, Whole, Past
<1> HIDE DEF Left, Avail, Usable, All, Whole, Past
<1>10. Whole => All(doc, n, At) /\ Past(doc, n, At) = pos + Size(Cur.k)
  BY <1>6, <1>7, <1>8, <1>9
<1>11. term => (All(doc, n, At) <=> Whole) /\ (~Whole => Past(doc, n, At) = have)
  BY <1>5, <1>6, <1>7, <1>8, <1>9
<1>12. Turn(doc, n, At) = InTurn(doc, n, At)
  <2>1. ~(At.fatal \/ At.c.disableSAX # 0) /\ ~(At.phase = "EOF" \/ Left(doc, n, At) = 0)
    BY <1>1, <1>6, AtFields
  <2> QED
    BY <2>1, Zenon DEF Turn
<1> QED
  BY <1>1, <1>2, <1>6, <1>7, <1>10, <1>11, <1>12 DEF Sees

\* No callback stops the parser.
LEMMA NoStop ==
  ASSUME Stops = FALSE, NEW evs
  PROVE  StopPoints(evs) = {0}
BY DEF StopPoints

\* The phases, as the reader has them.
LEMMA TurnOfPhase ==
  ASSUME NEW n, Sees(n)
  PROVE  /\ phase = "START" => Turn(doc, n, At) = To(At, At.pos, "XML_DECL", At.c)
         /\ phase = "XML_DECL" => Turn(doc, n, At) = TurnDecl(doc, n, At)
         /\ phase \in Misc => Turn(doc, n, At) = TurnMisc(doc, n, At)
         /\ phase = "DTD" => Turn(doc, n, At) = TurnSubset(doc, n, At)
         /\ phase = "START_TAG" => Turn(doc, n, At) = TurnTag(doc, n, At)
         /\ phase = "CONTENT" => Turn(doc, n, At) = TurnContent(doc, n, At)
         /\ phase = "END_TAG" => Turn(doc, n, At) = TurnEnd(doc, n, At)
<1>1. Turn(doc, n, At) = InTurn(doc, n, At) /\ At.phase = phase
  BY AtFields DEF Sees
<1> QED
  BY <1>1 DEF InTurn, Misc

LEMMA StartTurns ==
  ASSUME NEW n, Ready(n), StepStart
  PROVE  At' = Turn(doc, n, At)
<1>1. Sees(n)
  BY Looking DEF StepStart
<1>2. Turn(doc, n, At) = To(At, At.pos, "XML_DECL", At.c)
  BY <1>1, TurnOfPhase DEF StepStart, InPhase
<1> QED
  BY <1>2, AtFields, AtNext DEF StepStart, Advance, To

LEMMA XmlDeclTurns ==
  ASSUME Stops = FALSE, NEW n, Ready(n), StepXmlDecl
  PROVE  At' = Turn(doc, n, At)
<1>1. Sees(n)
  BY Looking DEF StepXmlDecl
<1>2. Turn(doc, n, At) = TurnDecl(doc, n, At)
  BY <1>1, TurnOfPhase DEF StepXmlDecl, InPhase
<1> DEFINE isDecl == Cur.k = "decl" /\ Avail >= 2
           x == IF isDecl /\ (~Whole \/ Cur.bad = "scan") THEN RaiseFatal(c) ELSE c
           y == Deliver(x, <<Leaf("startDocument")>>, 0)
           p == IF ~isDecl THEN pos
                ELSE IF Whole THEN pos + Size("decl") ELSE have
<1>3. c' = y /\ pos' = p
  <2>1. StopPoints(<<Leaf("startDocument")>>) = {0}
    BY NoStop
  <2>2. \E s \in StopPoints(<<Leaf("startDocument")>>) :
           c' = Deliver(x, <<Leaf("startDocument")>>, s)
    BY Zenon DEF StepXmlDecl
  <2>3. c' = y
    BY <2>1, <2>2
  <2>4. pos' = p
    BY Zenon DEF StepXmlDecl
  <2> QED
    BY <2>3, <2>4
<1>4. (Here(doc, At).k = "decl" /\ Left(doc, n, At) >= 2) <=> isDecl
  BY <1>1 DEF Sees, StepXmlDecl
<1>5. isDecl => (All(doc, n, At) <=> Whole) /\ Past(doc, n, At) = p
  BY <1>1 DEF Sees, StepXmlDecl
<1>6. TurnDecl(doc, n, At) = Place(p, "MISC", open, TRUE, endDoc, y.disableSAX # 0, y)
  <2>1. (IF isDecl THEN Past(doc, n, At) ELSE At.pos) = p
    BY <1>5, AtFields
  <2>2. Here(doc, At).bad = Cur.bad
    BY <1>1 DEF Sees
  <2> HIDE DEF p
  <2> QED
    BY <1>4, <1>5, <2>1, <2>2, AtFields DEF TurnDecl
<1>7. fatal' = (y.disableSAX # 0)
  BY <1>1, <1>3 DEF StepXmlDecl, Fail, Advance, Sees
<1> HIDE DEF y, p, isDecl
<1> QED
  BY <1>2, <1>3, <1>6, <1>7, AtNext DEF StepXmlDecl

\* A construct that is whole, or that the terminating call finds cut, is the
\* same to the reader.
LEMMA SameView ==
  ASSUME NEW n, Sees(n), term \/ Whole
  PROVE  /\ All(doc, n, At) <=> Whole
         /\ Past(doc, n, At) = IF Whole THEN pos + Size(Cur.k) ELSE have
BY DEF Sees

LEMMA ToIs ==
  ASSUME NEW p, NEW ph, NEW x
  PROVE  /\ To(At, p, ph, x) = Place(p, ph, open, startDoc, endDoc, fatal, x)
         /\ Fails(At, p, ph, x) = Place(p, ph, open, startDoc, endDoc, TRUE, x)
         /\ \A f : Over(At, p, f, x)
                     = Place(p, "EOF", open, startDoc, TRUE, f, Finished(x))
BY AtFields DEF To, Fails, Over, Finished

LEMMA InlineTurns ==
  ASSUME Stops = FALSE, NEW n, Ready(n), ScanInline
  PROVE  At' = Turn(doc, n, At)
<1>1. Sees(n)
  BY Looking DEF ScanInline, Misc
<1>2. term \/ Whole
  BY DEF ScanInline
<1>3. /\ All(doc, n, At) <=> Whole
      /\ Past(doc, n, At) = IF Whole THEN pos + Size(Cur.k) ELSE have
  BY <1>1, <1>2, SameView
<1>4. Left(doc, n, At) >= 2
  <2>1. Whole => Avail >= 2
    BY <1>1 DEF Whole, Size, ScanInline, Inline, Sees
  <2> QED
    BY <1>1, <2>1 DEF ScanInline, Sees
<1>5. Turn(doc, n, At) = TurnInline(doc, n, At)
  <2>1. Here(doc, At).k \in Inline(At.phase) /\ phase \in Misc \cup {"CONTENT"}
    BY <1>1, AtFields DEF Sees, ScanInline, InPhase
  <2>2. Here(doc, At).k \notin {"ws", "text", "ref"}
    BY <2>1 DEF Inline
  <2>3. /\ phase \in Misc => Turn(doc, n, At) = TurnMisc(doc, n, At)
        /\ phase = "CONTENT" => Turn(doc, n, At) = TurnContent(doc, n, At)
    BY <1>1, TurnOfPhase
  <2> QED
    BY <1>4, <2>1, <2>2, <2>3 DEF TurnMisc, TurnContent, IsText
<1> DEFINE x == IF ~Whole \/ Cur.bad = "scan" \/ Cur.k = "decl"
                THEN RaiseFatal(c) ELSE c
           evs == <<InlineEvent(Cur.k)>>
<1>6. c' = Deliver(x, evs, 0)
  <2>1. \E s \in StopPoints(evs) : c' = Deliver(x, evs, s)
    BY Zenon DEF ScanInline
  <2> QED
    BY <2>1, NoStop
<1>7. TurnInline(doc, n, At) = To(At, Past(doc, n, At), phase, Deliver(x, evs, 0))
  BY <1>1, <1>3, AtFields DEF TurnInline, Sees
<1>8. pos' = Past(doc, n, At) /\ UNCHANGED <<phase, open, startDoc, endDoc, fatal>>
  BY <1>3, Zenon DEF ScanInline, Advance
<1> HIDE DEF x, evs
<1> QED
  BY <1>5, <1>6, <1>7, <1>8, ToIs, AtNext

LEMMA DoctypeTurns ==
  ASSUME Stops = FALSE, NEW n, Ready(n), StepDoctype
  PROVE  At' = Turn(doc, n, At)
<1>1. Sees(n)
  BY Looking DEF StepDoctype
<1>2. Cur.k = "doctype" /\ phase = "MISC" /\ Size(Cur.k) = 3
  BY DEF StepDoctype, InPhase, Size
<1>3. /\ Whole <=> Avail >= 3
      /\ term \/ Whole
  BY <1>2 DEF StepDoctype, DoctypeReady, Whole
<1>4. /\ Past(doc, n, At) = IF Whole THEN pos + Size(Cur.k) ELSE have
      /\ Left(doc, n, At) >= 2
      /\ Left(doc, n, At) >= 3 <=> Whole
  <2>1. Past(doc, n, At) = IF Whole THEN pos + Size(Cur.k) ELSE have
    BY <1>1, <1>3, SameView
  <2>2. Avail >= 2
    BY <1>1 DEF StepDoctype, DoctypeReady, Sees
  <2> QED
    BY <1>1, <1>3, <2>1, <2>2 DEF Sees
<1>5. Turn(doc, n, At) = TurnDoctype(doc, n, At)
  <2>1. Turn(doc, n, At) = TurnMisc(doc, n, At)
    BY <1>1, <1>2, TurnOfPhase DEF Misc
  <2> QED
    BY <1>1, <1>2, <1>4, <2>1, AtFields DEF TurnMisc, Sees, Inline
<1> DEFINE x == IF Whole THEN c ELSE RaiseFatal(c)
           evs == <<Leaf("internalSubset"), Leaf("externalSubset")>>
<1>6. c' = Deliver(x, evs, 0)
  <2>1. \E s \in StopPoints(evs) : c' = Deliver(x, evs, s)
    BY Zenon DEF StepDoctype
  <2> QED
    BY <2>1, NoStop
<1>7. TurnDoctype(doc, n, At) = To(At, Past(doc, n, At), "PROLOG", Deliver(x, evs, 0))
  BY <1>1, <1>2, <1>4, AtFields DEF TurnDoctype, Sees
<1>8. /\ pos' = Past(doc, n, At) /\ phase' = "PROLOG"
      /\ UNCHANGED <<open, startDoc, endDoc, fatal>>
  BY <1>4, Zenon DEF StepDoctype, Advance
<1> HIDE DEF x, evs
<1> QED
  BY <1>5, <1>6, <1>7, <1>8, ToIs, AtNext

LEMMA DoctypeHeadTurns ==
  ASSUME Stops = FALSE, NEW n, Ready(n), StepDoctypeHead
  PROVE  At' = Turn(doc, n, At)
<1>1. Sees(n)
  BY Looking DEF StepDoctypeHead
<1>2. Cur.k = "dtdhead" /\ phase = "MISC"
  BY DEF StepDoctypeHead, InPhase
<1>3. /\ Left(doc, n, At) >= 2
      /\ Left(doc, n, At) >= 3 <=> Avail >= 3
  BY <1>1 DEF Sees, StepDoctypeHead, DoctypeReady
<1>5. Turn(doc, n, At) = TurnDoctype(doc, n, At)
  <2>1. Turn(doc, n, At) = TurnMisc(doc, n, At)
    BY <1>1, <1>2, TurnOfPhase DEF Misc
  <2> QED
    BY <1>1, <1>2, <1>3, <2>1, AtFields DEF TurnMisc, Sees, Inline
<1> DEFINE x == IF Avail >= 3 THEN c ELSE RaiseFatal(c)
           evs == <<Leaf("internalSubset")>>
           ph == IF Avail >= 3 THEN "DTD" ELSE "PROLOG"
           p == pos + Size("dtdhead")
<1>6. c' = Deliver(x, evs, 0)
  <2>1. \E s \in StopPoints(evs) : c' = Deliver(x, evs, s)
    BY Zenon DEF StepDoctypeHead
  <2> QED
    BY <2>1, NoStop
<1>7. TurnDoctype(doc, n, At) = To(At, p, ph, Deliver(x, evs, 0))
  BY <1>1, <1>2, <1>3, AtFields DEF TurnDoctype, Sees
<1>8. pos' = p /\ phase' = ph /\ UNCHANGED <<open, startDoc, endDoc, fatal>>
  BY <1>2, Zenon DEF StepDoctypeHead, Advance
<1> HIDE DEF x, evs, p, ph
<1> QED
  BY <1>5, <1>6, <1>7, <1>8, ToIs, AtNext

LEMMA SubsetTurns ==
  ASSUME Stops = FALSE, NEW n, Ready(n), StepSubset
  PROVE  At' = Turn(doc, n, At)
<1>1. Sees(n)
  BY Looking DEF StepSubset
<1>2. term \/ Whole
  BY DEF StepSubset
<1>3. /\ All(doc, n, At) <=> Whole
      /\ Past(doc, n, At) = IF Whole THEN pos + Size(Cur.k) ELSE have
  BY <1>1, <1>2, SameView
<1>4. Turn(doc, n, At) = TurnSubset(doc, n, At)
  BY <1>1, TurnOfPhase DEF StepSubset, InPhase
<1> DEFINE evs == <<Leaf("externalSubset")>>
<1>5. StopPoints(evs) = {0}
  BY NoStop
<1>0. /\ pos' = Past(doc, n, At) /\ phase' = "PROLOG"
      /\ UNCHANGED <<open, startDoc, endDoc>>
  BY <1>3, Zenon DEF StepSubset
<1>6. CASE Whole /\ Cur.bad = "no"
  <2>1. /\ \E s \in StopPoints(evs) : c' = Deliver(c, evs, s)
        /\ fatal' = fatal
    BY <1>6, Zenon DEF StepSubset, Advance
  <2>2. c' = Deliver(c, evs, 0)
    BY <1>5, <2>1
  <2>3. TurnSubset(doc, n, At) = To(At, Past(doc, n, At), "PROLOG", Deliver(c, evs, 0))
    BY <1>1, <1>3, <1>6, AtFields DEF TurnSubset, Sees
  <2> HIDE DEF evs
  <2> QED
    BY <1>0, <1>4, <2>1, <2>2, <2>3, ToIs, AtNext
<1>7. CASE ~(Whole /\ Cur.bad = "no")
  <2>1. TurnSubset(doc, n, At) = Fails(At, Past(doc, n, At), "PROLOG", RaiseFatal(c))
    BY <1>1, <1>3, <1>7, AtFields DEF TurnSubset, Sees
  <2>2. c' = RaiseFatal(c) /\ fatal' = TRUE
    BY <1>7, Zenon DEF StepSubset, Fail
  <2> QED
    BY <1>0, <1>4, <2>1, <2>2, ToIs, AtNext
<1> QED
  BY <1>6, <1>7

\* A construct that the driver does not take up in a prolog or an epilog is
\* one the reader does not take up either.
LEMMA NotTakenUp ==
  ASSUME NEW n, Sees(n), Unrecognized
  PROVE  /\ Here(doc, At).k # "ws"
         /\ ~(Here(doc, At).k \in Inline(phase) /\ Left(doc, n, At) >= 2)
         /\ ~(phase = "MISC" /\ Here(doc, At).k \in {"doctype", "dtdhead"}
                /\ Left(doc, n, At) >= 2)
<1>1. /\ Here(doc, At) = Cur /\ Avail \in Nat /\ Left(doc, n, At) \in Nat
      /\ term => Left(doc, n, At) = Avail
  BY DEF Sees
<1>2. /\ Cur.k # "ws"
      /\ term \/ ~IsMarkup(Cur.k) \/ Avail >= 2
      /\ Cur.k \in Inline(phase) => Avail < 2
      /\ phase = "MISC" /\ Cur.k \in {"doctype", "dtdhead"} => Avail < 2
  BY <1>1 DEF Unrecognized, Undecided, Doctype
<1>3. Cur.k \in Inline(phase) \cup {"doctype", "dtdhead"} => IsMarkup(Cur.k)
  BY DEF Inline, IsMarkup
<1> QED
  BY <1>1, <1>2, <1>3

LEMMA MiscTailTurns ==
  ASSUME NEW n, Ready(n), MiscTail
  PROVE  At' = Turn(doc, n, At)
<1>1. Sees(n) /\ Unrecognized /\ phase \in {"MISC", "PROLOG"}
  BY Looking DEF MiscTail, InPhase
<1>2. Turn(doc, n, At) = TurnMisc(doc, n, At)
  BY <1>1, TurnOfPhase DEF Misc
<1>3. TurnMisc(doc, n, At) = To(At, pos, "START_TAG", c)
  BY <1>1, NotTakenUp, AtFields DEF TurnMisc
<1> QED
  BY <1>2, <1>3, ToIs, AtNext DEF MiscTail, Advance

LEMMA EpilogTurns ==
  ASSUME NEW n, Ready(n), EpilogTail
  PROVE  At' = Turn(doc, n, At)
<1>1. Sees(n) /\ Unrecognized /\ phase = "EPILOG"
  BY Looking DEF EpilogTail, InPhase
<1>2. Turn(doc, n, At) = TurnMisc(doc, n, At)
  BY <1>1, TurnOfPhase DEF Misc
<1>3. TurnMisc(doc, n, At)
        = Over(At, pos, Unread(doc, n, At) # c, Unread(doc, n, At))
  BY <1>1, NotTakenUp, AtFields DEF TurnMisc
<1>4. Unread(doc, n, At) = EofCheck
  BY <1>1, AtFields DEF Sees, Unread, EofCheck
<1>5. /\ phase' = "EOF" /\ c' = Finished(EofCheck) /\ endDoc' = TRUE
      /\ fatal' = (EofCheck # c) /\ UNCHANGED <<pos, open, startDoc>>
  BY Zenon DEF EpilogTail, EndAt
<1> QED
  BY <1>2, <1>3, <1>4, <1>5, ToIs, AtNext

\* The gate of the start tags lets a `<' through that is whole, or at the end
\* of the document.
LEMMA TagGate ==
  ASSUME NEW n, Sees(n), TagReady, IsMarkup(Cur.k)
  PROVE  /\ term \/ Whole
         /\ Left(doc, n, At) < 2 <=> Avail < 2
<1>1. term \/ Avail >= 3
  BY DEF TagReady
<1>2. Size(Cur.k) \in 1 .. 3
  BY DEF Size
<1>3. term \/ Whole
  BY <1>1, <1>2 DEF Whole, Sees
<1>4. Left(doc, n, At) < 2 <=> Avail < 2
  BY <1>1 DEF Sees
<1> QED
  BY <1>3, <1>4

LEMMA LookingAtTag ==
  ASSUME NEW n, Ready(n), TagReady
  PROVE  Sees(n) /\ Turn(doc, n, At) = TurnTag(doc, n, At)
<1>1. Sees(n)
  BY Looking DEF TagReady
<1>2. Turn(doc, n, At) = TurnTag(doc, n, At)
  BY <1>1, TurnOfPhase DEF TagReady, InPhase
<1> QED
  BY <1>1, <1>2

LEMMA NotATagTurns ==
  ASSUME NEW n, Ready(n), NotATag
  PROVE  At' = Turn(doc, n, At)
<1>1. /\ Sees(n) /\ Turn(doc, n, At) = TurnTag(doc, n, At)
      /\ ~IsMarkup(Cur.k)
  BY LookingAtTag DEF NotATag
<1>2. TurnTag(doc, n, At) = Over(At, pos, TRUE, RaiseFatal(c))
  BY <1>1, AtFields DEF TurnTag, Sees
<1>3. /\ phase' = "EOF" /\ c' = Finished(RaiseFatal(c)) /\ endDoc' = TRUE
      /\ fatal' = TRUE /\ UNCHANGED <<pos, open, startDoc>>
  BY Zenon DEF NotATag, EndAt, Fail
<1> QED
  BY <1>1, <1>2, <1>3, ToIs, AtNext

LEMMA BadNameTurns ==
  ASSUME NEW n, Ready(n), BadName
  PROVE  At' = Turn(doc, n, At)
<1>1. /\ Sees(n) /\ Turn(doc, n, At) = TurnTag(doc, n, At)
      /\ IsMarkup(Cur.k) /\ NotAName /\ TagReady
  BY LookingAtTag DEF BadName
<1>2. Left(doc, n, At) < 2 <=> Avail < 2
  BY <1>1, TagGate
<1>3. TurnTag(doc, n, At) = Over(At, pos + 1, TRUE, RaiseFatal(c))
  BY <1>1, <1>2, AtFields DEF TurnTag, Sees, NotAName
<1>4. /\ phase' = "EOF" /\ c' = Finished(RaiseFatal(c)) /\ endDoc' = TRUE
      /\ fatal' = TRUE /\ pos' = pos + 1 /\ UNCHANGED <<open, startDoc>>
  BY Zenon DEF BadName, EndAt, Fail
<1> QED
  BY <1>1, <1>3, <1>4, ToIs, AtNext

LEMMA WrongTokenTurns ==
  ASSUME NEW n, Ready(n), WrongToken
  PROVE  At' = Turn(doc, n, At)
<1>1. /\ Sees(n) /\ Turn(doc, n, At) = TurnTag(doc, n, At)
      /\ IsMarkup(Cur.k) /\ ~NotAName /\ TagReady /\ Cur.k \notin {"open", "empty"}
  BY LookingAtTag DEF WrongToken
<1>2. /\ Left(doc, n, At) < 2 <=> Avail < 2
      /\ Past(doc, n, At) = IF Whole THEN pos + Size(Cur.k) ELSE have
  BY <1>1, TagGate, SameView
<1>3. TurnTag(doc, n, At) = Over(At, Past(doc, n, At), TRUE, RaiseFatal(c))
  BY <1>1, <1>2, AtFields DEF TurnTag, Sees, NotAName
<1>4. /\ phase' = "EOF" /\ c' = Finished(RaiseFatal(c)) /\ endDoc' = TRUE
      /\ fatal' = TRUE /\ UNCHANGED <<open, startDoc>>
      /\ pos' = IF Whole THEN pos + Size(Cur.k) ELSE have
  BY Zenon DEF WrongToken, EndAt, Fail
<1> QED
  BY <1>1, <1>2, <1>3, <1>4, ToIs, AtNext

\* A start tag that has a name.
LEMMA LookingAtName ==
  ASSUME NEW n, Sees(n), TagReady, Cur.k \in {"open", "empty"}, ~NotAName
  PROVE  /\ All(doc, n, At) <=> Whole
         /\ Past(doc, n, At) = IF Whole THEN pos + Size(Cur.k) ELSE have
         /\ Inside(doc, At) = Scanned
         /\ TurnTag(doc, n, At) =
              IF ~Whole
              THEN Fails(At, Past(doc, n, At), AfterTag(open),
                         RaiseFatal(Deliver(Scanned, <<E("start", Cur.nm)>>, 0)))
              ELSE IF Cur.k = "open"
              THEN Place(Past(doc, n, At), "CONTENT", Append(open, Cur.nm), startDoc,
                         endDoc, fatal, Deliver(Scanned, <<E("start", Cur.nm)>>, 0))
              ELSE To(At, Past(doc, n, At), AfterTag(open),
                      Deliver(Scanned, <<E("start", Cur.nm), E("end", Cur.nm)>>, 0))
<1>1. IsMarkup(Cur.k)
  BY DEF IsMarkup
<1>2. /\ Left(doc, n, At) < 2 <=> Avail < 2
      /\ All(doc, n, At) <=> Whole
      /\ Past(doc, n, At) = IF Whole THEN pos + Size(Cur.k) ELSE have
  BY <1>1, TagGate, SameView
<1>3. Here(doc, At) = Cur
  BY DEF Sees
<1>4. Inside(doc, At) = Scanned
  BY <1>3, AtFields DEF Inside, Scanned
<1> QED
  BY <1>1, <1>2, <1>3, <1>4, AtFields DEF TurnTag, NotAName

LEMMA CutTagTurns ==
  ASSUME Stops = FALSE, NEW n, Ready(n), CutTag
  PROVE  At' = Turn(doc, n, At)
<1>1. /\ Sees(n) /\ Turn(doc, n, At) = TurnTag(doc, n, At)
      /\ TagReady /\ Cur.k \in {"open", "empty"} /\ ~NotAName /\ ~Whole
  BY LookingAtTag DEF CutTag
<1> DEFINE evs == <<E("start", Cur.nm)>>
           y == RaiseFatal(Deliver(Scanned, evs, 0))
<1>2. c' = y
  <2>1. \E s \in StopPoints(evs) : c' = RaiseFatal(Deliver(Scanned, evs, s))
    BY Zenon DEF CutTag
  <2>2. StopPoints(evs) = {0}
    BY NoStop
  <2> QED
    BY <2>1, <2>2
<1>3. /\ TurnTag(doc, n, At) = Fails(At, Past(doc, n, At), AfterTag(open), y)
      /\ Past(doc, n, At) = have
  BY <1>1, LookingAtName
<1> HIDE DEF y
<1>4. /\ pos' = have /\ phase' = AfterTag(open) /\ fatal' = TRUE
      /\ UNCHANGED <<open, startDoc, endDoc>>
  BY Zenon DEF CutTag, Fail
<1> QED
  BY <1>1, <1>2, <1>3, <1>4, ToIs, AtNext

LEMMA OpenTagTurns ==
  ASSUME Stops = FALSE, NEW n, Ready(n), OpenTag
  PROVE  At' = Turn(doc, n, At)
<1>1. /\ Sees(n) /\ Turn(doc, n, At) = TurnTag(doc, n, At)
      /\ TagReady /\ Cur.k = "open" /\ ~NotAName /\ Whole
  BY LookingAtTag DEF OpenTag
<1> DEFINE evs == <<E("start", Cur.nm)>>
           y == Deliver(Scanned, evs, 0)
<1>2. c' = y
  <2>1. \E s \in StopPoints(evs) : c' = Deliver(Scanned, evs, s)
    BY Zenon DEF OpenTag
  <2>2. StopPoints(evs) = {0}
    BY NoStop
  <2> QED
    BY <2>1, <2>2
<1>3. /\ TurnTag(doc, n, At) = Place(Past(doc, n, At), "CONTENT", Append(open, Cur.nm),
                                    startDoc, endDoc, fatal, y)
      /\ Past(doc, n, At) = pos + Size(Cur.k)
  BY <1>1, LookingAtName
<1> HIDE DEF y
<1>4. /\ pos' = pos + Size(Cur.k) /\ phase' = "CONTENT"
      /\ open' = Append(open, Cur.nm) /\ UNCHANGED <<startDoc, endDoc, fatal>>
  BY DEF OpenTag, Advance
<1> QED
  BY <1>1, <1>2, <1>3, <1>4, AtNext

LEMMA EmptyTagTurns ==
  ASSUME Stops = FALSE, NEW n, Ready(n), EmptyTag
  PROVE  At' = Turn(doc, n, At)
<1>1. /\ Sees(n) /\ Turn(doc, n, At) = TurnTag(doc, n, At)
      /\ TagReady /\ Cur.k = "empty" /\ ~NotAName /\ Whole
  BY LookingAtTag DEF EmptyTag
<1> DEFINE evs == <<E("start", Cur.nm), E("end", Cur.nm)>>
           y == Deliver(Scanned, evs, 0)
<1>2. c' = y
  <2>1. \E s \in StopPoints(evs) : c' = Deliver(Scanned, evs, s)
    BY Zenon DEF EmptyTag
  <2>2. StopPoints(evs) = {0}
    BY NoStop
  <2> QED
    BY <2>1, <2>2
<1>3. /\ TurnTag(doc, n, At) = To(At, Past(doc, n, At), AfterTag(open), y)
      /\ Past(doc, n, At) = pos + Size(Cur.k)
  BY <1>1, LookingAtName
<1> HIDE DEF y
<1>4. /\ pos' = pos + Size(Cur.k) /\ phase' = AfterTag(open)
      /\ UNCHANGED <<open, startDoc, endDoc, fatal>>
  BY DEF EmptyTag, Advance
<1> QED
  BY <1>1, <1>2, <1>3, <1>4, ToIs, AtNext

LEMMA ContentTagTurns ==
  ASSUME NEW n, Ready(n), ContentTag
  PROVE  At' = Turn(doc, n, At)
<1>1. Sees(n) /\ phase = "CONTENT" /\ IsMarkup(Cur.k)
  BY Looking DEF ContentTag, InPhase
<1>2. Turn(doc, n, At) = TurnContent(doc, n, At)
  BY <1>1, TurnOfPhase
<1> DEFINE ph == IF Cur.k = "close" /\ Avail >= 2 THEN "END_TAG" ELSE "START_TAG"
<1>3. /\ Here(doc, At) = Cur /\ Avail \in Nat /\ Left(doc, n, At) \in Nat
      /\ Avail <= Left(doc, n, At) /\ (term => Left(doc, n, At) = Avail)
      /\ term \/ Avail >= 2
      /\ Cur.k \in Inline(phase) => Avail < 2
  BY <1>1, Zenon DEF Sees, ContentTag
<1>4. /\ ~(Cur.k \in Inline(phase) /\ Left(doc, n, At) >= 2)
      /\ Left(doc, n, At) >= 2 <=> Avail >= 2
  BY <1>3
<1>5. Cur.k # "ref" /\ ~IsText(Cur.k)
  BY <1>1 DEF IsMarkup, IsText
<1>6. TurnContent(doc, n, At) = To(At, pos, ph, c)
  BY <1>3, <1>4, <1>5, AtFields DEF TurnContent
<1>7. phase' = ph /\ UNCHANGED <<pos, open, startDoc, endDoc, fatal, c>>
  BY Zenon DEF ContentTag, Advance
<1> HIDE DEF ph
<1> QED
  BY <1>2, <1>6, <1>7, ToIs, AtNext

LEMMA ReferenceTurns ==
  ASSUME Stops = FALSE, NEW n, Ready(n), Reference
  PROVE  At' = Turn(doc, n, At)
<1>1. Sees(n) /\ phase = "CONTENT" /\ Cur.k = "ref" /\ (term \/ Whole)
  BY Looking DEF Reference, InPhase
<1>2. Turn(doc, n, At) = TurnContent(doc, n, At)
  BY <1>1, TurnOfPhase
<1>3. /\ All(doc, n, At) <=> Whole
      /\ Past(doc, n, At) = IF Whole THEN pos + Size(Cur.k) ELSE have
      /\ Here(doc, At) = Cur
  BY <1>1, SameView DEF Sees
<1>4. pos' = Past(doc, n, At) /\ UNCHANGED <<phase, open, startDoc, endDoc>>
  BY <1>1, <1>3, Zenon DEF Reference
<1> DEFINE evs == <<Leaf("ref")>>
<1>5. StopPoints(evs) = {0}
  BY NoStop
<1>6. CASE Whole /\ Cur.bad = "no"
  <2>1. \E s \in StopPoints(evs) : c' = Deliver(c, evs, s)
    BY <1>6, Zenon DEF Reference
  <2>2. c' = Deliver(c, evs, 0)
    BY <1>5, <2>1
  <2>3. fatal' = fatal
    BY <1>6 DEF Reference, Advance
  <2>4. TurnContent(doc, n, At) = To(At, Past(doc, n, At), phase, Deliver(c, evs, 0))
    BY <1>1, <1>3, <1>6, AtFields DEF TurnContent, IsText
  <2> HIDE DEF evs
  <2> QED
    BY <1>2, <1>4, <2>2, <2>3, <2>4, ToIs, AtNext
<1>7. CASE ~(Whole /\ Cur.bad = "no")
  <2>1. TurnContent(doc, n, At) = Fails(At, Past(doc, n, At), phase, RaiseFatal(c))
    BY <1>1, <1>3, <1>7, AtFields DEF TurnContent, IsText
  <2>2. c' = RaiseFatal(c) /\ fatal' = TRUE
    BY <1>7, Zenon DEF Reference, Fail
  <2> QED
    BY <1>2, <1>4, <2>1, <2>2, ToIs, AtNext
<1> QED
  BY <1>6, <1>7

LEMMA EndTagTurns ==
  ASSUME Stops = FALSE, NEW n, Ready(n), EndTag
  PROVE  At' = Turn(doc, n, At)
<1>1. Sees(n) /\ phase = "END_TAG" /\ (term \/ Whole)
  BY Looking DEF EndTag, InPhase
<1>2. Turn(doc, n, At) = TurnEnd(doc, n, At)
  BY <1>1, TurnOfPhase
<1>3. /\ All(doc, n, At) <=> Whole
      /\ Past(doc, n, At) = IF Whole THEN pos + Size(Cur.k) ELSE have
      /\ Here(doc, At) = Cur
  BY <1>1, SameView DEF Sees
<1>4. pos' = Past(doc, n, At) /\ UNCHANGED startDoc
  BY <1>3, Zenon DEF EndTag
<1>5. CASE open = <<>>
  <2>1. TurnEnd(doc, n, At) = Over(At, Past(doc, n, At), TRUE, RaiseFatal(c))
    BY <1>5, AtFields DEF TurnEnd
  <2>2. /\ phase' = "EOF" /\ c' = Finished(RaiseFatal(c)) /\ endDoc' = TRUE
        /\ fatal' = TRUE /\ UNCHANGED open
    BY <1>5, Zenon DEF EndTag, EndAt, Fail
  <2> QED
    BY <1>2, <1>4, <2>1, <2>2, ToIs, AtNext
<1>6. CASE open # <<>>
  <2> DEFINE top == open[Len(open)]
             rest == SubSeq(open, 1, Len(open) - 1)
             x == IF Whole THEN c ELSE RaiseFatal(c)
             y == IF Cur.nm = top THEN x ELSE RaiseFatal(x)
             evs == <<E("end", top)>>
  <2>1. TurnEnd(doc, n, At) = Place(Past(doc, n, At), AfterTag(rest), rest,
                                    startDoc, endDoc, fatal, Deliver(y, evs, 0))
    BY <1>3, <1>6, AtFields DEF TurnEnd
  <2>2. /\ \E s \in StopPoints(evs) : c' = Deliver(y, evs, s)
        /\ open' = rest
        /\ phase' = AfterTag(open')
        /\ UNCHANGED <<endDoc, fatal>>
    BY <1>6, Zenon DEF EndTag, Advance
  <2>3. StopPoints(evs) = {0}
    BY NoStop
  <2> HIDE DEF top, rest, x, y, evs
  <2>4. c' = Deliver(y, evs, 0)
    BY <2>2, <2>3
  <2> QED
    BY <1>2, <1>4, <2>1, <2>2, <2>4, AtNext
<1> QED
  BY <1>5, <1>6

----------------------------------------------------------------------------
(* The steps that are many turns, and the end of a call.                   *)

LEMMA RunReads ==
  ASSUME NEW d, NEW n, NEW a \in Nat, NEW b \in Nat, a <= b, NEW F,
         \A i \in a .. b - 1 : Turn(d, n, F[i]) = F[i + 1]
  PROVE  Reads(d, n, F[a], F[b])
<1> DEFINE T == {k \in Nat : a + k <= b /\ ~Reads(d, n, F[a], F[a + k])}
<1>1. ASSUME T # {} PROVE FALSE
  <2>1. T \in SUBSET Nat
    OBVIOUS
  <2>2. PICK m \in T : \A k \in T : m <= k
    BY <1>1, <2>1, LeastNumber
  <2>3. m \in Nat /\ a + m <= b /\ ~Reads(d, n, F[a], F[a + m])
    BY <2>2
  <2>4. m # 0
    BY <2>3, ReadsSelf
  <2>5. m - 1 \in Nat /\ a + (m - 1) <= b /\ m - 1 \notin T
    BY <2>2, <2>3, <2>4
  <2>6. Reads(d, n, F[a], F[a + (m - 1)])
    BY <2>5
  <2>7. a + (m - 1) \in a .. b - 1 /\ (a + (m - 1)) + 1 = a + m
    BY <2>3, <2>4
  <2>8. Turn(d, n, F[a + (m - 1)]) = F[a + m]
    BY <2>7
  <2>9. Reads(d, n, F[a], Turn(d, n, F[a + (m - 1)]))
    BY <2>6, ReadsTurn, Zenon
  <2> QED
    BY <2>3, <2>8, <2>9
<1>2. b - a \in Nat /\ a + (b - a) = b
  OBVIOUS
<1>3. b - a \notin T
  BY <1>1
<1>4. Reads(d, n, F[a], F[a + (b - a)])
  BY <1>2, <1>3
<1> QED
  BY <1>2, <1>4

\* One cell of a run, as the reader takes it.
LEMMA CellTurn ==
  ASSUME NEW d, NEW n, NEW z, z.fatal = FALSE, z.c.disableSAX = 0,
         Usable(d, n) - z.pos # 0
  PROVE  /\ z.phase \in Misc /\ d[z.pos + 1].con.k = "ws"
              => Turn(d, n, z) = To(z, z.pos + 1, z.phase, z.c)
         /\ z.phase = "CONTENT" /\ IsText(d[z.pos + 1].con.k)
              => Turn(d, n, z)
                   = To(z, z.pos + 1, z.phase, Deliver(z.c, <<Leaf("text")>>, 0))
<1>1. ~(z.fatal \/ z.c.disableSAX # 0)
  OBVIOUS
<1>2. Left(d, n, z) # 0 /\ Here(d, z) = d[z.pos + 1].con
  BY DEF Left, Here
<1>3. z.phase # "EOF" => Turn(d, n, z) = InTurn(d, n, z)
  BY <1>1, <1>2, Zenon DEF Turn
<1>4. ASSUME z.phase \in Misc, d[z.pos + 1].con.k = "ws"
      PROVE  Turn(d, n, z) = To(z, z.pos + 1, z.phase, z.c)
  <2>1. z.phase \notin {"START", "XML_DECL", "EOF"}
    BY <1>4 DEF Misc
  <2>2. Turn(d, n, z) = TurnMisc(d, n, z)
    BY <1>3, <1>4, <2>1 DEF InTurn
  <2> QED
    BY <1>2, <1>4, <2>2 DEF TurnMisc
<1>5. ASSUME z.phase = "CONTENT", IsText(d[z.pos + 1].con.k)
      PROVE  Turn(d, n, z)
               = To(z, z.pos + 1, z.phase, Deliver(z.c, <<Leaf("text")>>, 0))
  <2>1. Turn(d, n, z) = TurnContent(d, n, z)
    BY <1>3, <1>5 DEF InTurn, Misc
  <2> QED
    BY <1>2, <1>5, <2>1 DEF TurnContent
<1> QED
  BY <1>4, <1>5

\* What is between the cursor and the end of input.
LEMMA Between ==
  ASSUME NEW n, Ready(n), NEW e \in pos .. have, NEW i \in pos .. e - 1
  PROVE  /\ Usable(doc, n) - i # 0 /\ i + 1 \in pos + 1 .. e
         /\ i + 1 \in 1 .. Len(doc) /\ i \in Nat
<1>1. /\ doc \in Seq(Cell) /\ Len(doc) \in Nat /\ recv \in 0 .. Len(doc)
      /\ have \in 0 .. recv /\ pos \in 0 .. have /\ have <= Usable(doc, n)
  BY LenProperties DEF Ready, IInv, TypeOK
<1>2. n \in Nat
  BY <1>1 DEF Ready
<1>3. Usable(doc, n) \in Nat
  BY <1>2, UsableType
<1> QED
  BY <1>1, <1>3

LEMMA BlanksRead ==
  ASSUME NEW n, Ready(n), SkipBlanks
  PROVE  Reads(doc, n, At, At')
<1>1. Sees(n) /\ phase \in Misc
  BY Looking DEF SkipBlanks, InPhase, Misc
<1>2. PICK e \in pos .. have : RunEnds(e, {"ws"}) /\ pos' = e
  BY Zenon DEF SkipBlanks
<1>3. pos \in Nat /\ e \in Nat /\ pos <= e
  BY DEF Ready, IInv, TypeOK
<1> DEFINE F == [i \in pos .. e |-> Place(i, phase, open, startDoc, endDoc, fatal, c)]
<1>4. ASSUME NEW i \in pos .. e - 1
      PROVE  Turn(doc, n, F[i]) = F[i + 1]
  <2> DEFINE z == Place(i, phase, open, startDoc, endDoc, fatal, c)
  <2>1. /\ Usable(doc, n) - i # 0 /\ i + 1 \in pos + 1 .. e
    BY Between
  <2>2. /\ F[i] = z
        /\ F[i + 1] = Place(i + 1, phase, open, startDoc, endDoc, fatal, c)
    BY <1>3, <2>1
  <2>3. doc[i + 1].con.k = "ws"
    BY <1>2, <2>1 DEF RunEnds
  <2>4. /\ z.pos = i /\ z.phase = phase /\ z.open = open /\ z.startDoc = startDoc
        /\ z.endDoc = endDoc /\ z.fatal = fatal /\ z.c = c
    BY PlaceFields
  <2>5. fatal = FALSE /\ c.disableSAX = 0
    BY <1>1 DEF Sees
  <2> HIDE DEF z, F
  <2>6. Turn(doc, n, z) = To(z, i + 1, phase, c)
    BY <1>1, <2>1, <2>3, <2>4, <2>5, CellTurn
  <2>7. To(z, i + 1, phase, c) = Place(i + 1, phase, open, startDoc, endDoc, fatal, c)
    BY <2>4, Zenon DEF To
  <2> QED
    BY <2>2, <2>6, <2>7, Zenon
<1>5. F[pos] = At /\ F[e] = Place(e, phase, open, startDoc, endDoc, fatal, c)
  BY <1>3 DEF At
<1> HIDE DEF F
<1>6. Reads(doc, n, F[pos], F[e])
  BY ONLY <1>3, <1>4, RunReads, Zenon
<1>7. pos' = e /\ UNCHANGED <<phase, open, startDoc, endDoc, fatal, c>>
  BY <1>2, Zenon DEF SkipBlanks, Advance
<1> QED
  BY <1>5, <1>6, <1>7, AtNext

\* n callbacks, and one more.
LEMMA TextAppend ==
  ASSUME NEW l \in Seq(Entry), NEW n \in Nat
  PROVE  /\ l \o TextEvents(n) \in Seq(Entry)
         /\ (l \o TextEvents(n)) \o <<Leaf("text")>> = l \o TextEvents(n + 1)
<1>1. Leaf("text") \in Entry
  BY LeafType DEF Event
<1> DEFINE s == TextEvents(n)
           t == TextEvents(n + 1)
           u == <<Leaf("text")>>
<1>2. /\ s \in Seq(Entry) /\ Len(s) = n
      /\ \A i \in 1 .. n : s[i] = Leaf("text")
  BY <1>1 DEF TextEvents
<1>3. /\ t \in Seq(Entry) /\ Len(t) = n + 1
      /\ \A i \in 1 .. n + 1 : t[i] = Leaf("text")
  <2>1. n + 1 \in Nat
    OBVIOUS
  <2> QED
    BY <1>1, <2>1 DEF TextEvents
<1>4. /\ u \in Seq(Entry) /\ Len(u) = 1 /\ u[1] = Leaf("text")
  BY <1>1
<1> HIDE DEF s, t, u
<1>5. s \o u = t
  <2> DEFINE p == s \o u
  <2>1. /\ p \in Seq(Entry) /\ Len(p) = n + 1
        /\ \A i \in 1 .. n + 1 : p[i] = IF i <= n THEN s[i] ELSE u[i - n]
    <3>1. /\ p \in Seq(Entry) /\ Len(p) = Len(s) + Len(u)
          /\ \A i \in 1 .. Len(s) + Len(u) :
                p[i] = IF i <= Len(s) THEN s[i] ELSE u[i - Len(s)]
      BY <1>2, <1>4, ConcatProperties, Zenon
    <3> HIDE DEF p
    <3> QED
      BY <1>2, <1>4, <3>1
  <2>2. ASSUME NEW i \in 1 .. n + 1
        PROVE  p[i] = t[i]
    <3>1. CASE i <= n
      BY <1>2, <1>3, <2>1, <3>1
    <3>2. CASE ~(i <= n)
      <4>1. i - n = 1 /\ i = n + 1
        BY <3>2
      <4> QED
        BY <1>3, <1>4, <2>1, <4>1
    <3> QED
      BY <3>1, <3>2
  <2> HIDE DEF p
  <2>3. p = t
    BY <1>3, <2>1, <2>2, SeqEqual
  <2> QED
    BY <2>3 DEF p
<1>6. (l \o s) \o u = l \o (s \o u)
  BY <1>2, <1>4, ConcatAssociative
<1>7. l \o s \in Seq(Entry)
  BY <1>2, ConcatProperties
<1> QED
  BY <1>5, <1>6, <1>7 DEF s, t, u

LEMMA TextRead ==
  ASSUME Stops = FALSE, NEW n, Ready(n), CharData
  PROVE  Reads(doc, n, At, At')
<1>1. Sees(n) /\ phase = "CONTENT"
  BY Looking DEF CharData, InPhase
<1>2. PICK e \in pos .. have :
        /\ RunEnds(e, {"text", "ws"})
        /\ pos' = e
        /\ \/ /\ Sound(pos, e)
              /\ \E s \in StopPoints(TextEvents(e - pos)) :
                    c' = Deliver(c, TextEvents(e - pos), s)
           \/ \E f \in pos .. e - 1 :
                 /\ Sound(pos, f) /\ ~Sound(pos, f + 1)
                 /\ \E g \in pos .. f : \E s \in StopPoints(TextEvents(g - pos)) :
                       c' = RaiseFatal(Deliver(c, TextEvents(g - pos), s))
  BY Zenon DEF CharData
<1>3. pos \in Nat /\ e \in Nat /\ pos <= e
  BY DEF Ready, IInv, TypeOK
<1>4. ASSUME NEW i \in pos .. e - 1
      PROVE  IsText(doc[i + 1].con.k) /\ doc[i + 1].con.bad = "no"
  <2>1. i + 1 \in pos + 1 .. e /\ i + 1 \in 1 .. Len(doc)
    BY Between
  <2>2. IsText(doc[i + 1].con.k)
    BY <1>2, <2>1 DEF RunEnds, IsText
  <2>3. i + 1 \in DOMAIN doc
    BY <2>1 DEF Ready, IInv, TypeOK
  <2> QED
    BY <2>2, <2>3, Zenon DEF Ready, Even
<1>5. ASSUME NEW f \in pos .. e - 1
      PROVE  Sound(pos, f + 1)
  <2>1. SUFFICES ASSUME NEW i \in pos + 1 .. f + 1
                 PROVE  doc[i].con.bad = "no"
    BY DEF Sound
  <2>2. i - 1 \in pos .. e - 1 /\ (i - 1) + 1 = i
    BY <1>3
  <2> QED
    BY <1>4, <2>2
<1>6. c' = Deliver(c, TextEvents(e - pos), 0)
  <2>1. StopPoints(TextEvents(e - pos)) = {0}
    BY NoStop
  <2> QED
    BY <1>2, <1>5, <2>1
<1>7. /\ c.disableSAX = 0 /\ c.log \in Seq(Entry) /\ fatal = FALSE
      /\ c = Ctxt(0, c.errNo, c.wellFormed, c.log)
  BY <1>1 DEF Sees, Context, Ctxt, Entry
<1> DEFINE G(k) == Ctxt(0, c.errNo, c.wellFormed, c.log \o TextEvents(k))
           F == [i \in pos .. e |->
                   Place(i, phase, open, startDoc, endDoc, fatal, G(i - pos))]
<1>8. ASSUME NEW i \in pos .. e - 1
      PROVE  Turn(doc, n, F[i]) = F[i + 1]
  <2> DEFINE z == Place(i, phase, open, startDoc, endDoc, fatal, G(i - pos))
  <2>1. Usable(doc, n) - i # 0
    BY Between
  <2>2. i - pos \in Nat /\ (i - pos) + 1 = (i + 1) - pos /\ i + 1 \in pos .. e
    BY <1>3
  <2>3. F[i] = z
    BY <1>3
  <2>4. F[i + 1] = Place(i + 1, phase, open, startDoc, endDoc, fatal, G((i + 1) - pos))
    BY <2>2
  <2>5. /\ z.pos = i /\ z.phase = phase /\ z.open = open /\ z.startDoc = startDoc
        /\ z.endDoc = endDoc /\ z.fatal = fatal /\ z.c = G(i - pos)
    BY PlaceFields
  <2>6. Deliver(G(i - pos), <<Leaf("text")>>, 0) = G((i + 1) - pos)
    <3>1. (c.log \o TextEvents(i - pos)) \o <<Leaf("text")>>
             = c.log \o TextEvents((i + 1) - pos)
      BY <1>7, <2>2, TextAppend
    <3> DEFINE l == c.log \o TextEvents(i - pos)
               m == c.log \o TextEvents((i + 1) - pos)
    <3> HIDE DEF l, m
    <3>2. Deliver(Ctxt(0, c.errNo, c.wellFormed, l), <<Leaf("text")>>, 0)
            = Ctxt(0, c.errNo, c.wellFormed, l \o <<Leaf("text")>>)
      BY DEF Deliver, Ctxt
    <3>3. l \o <<Leaf("text")>> = m
      BY <3>1 DEF l, m
    <3> QED
      BY <3>2, <3>3 DEF l, m
  <2>7. z.c.disableSAX = 0
    BY <2>5 DEF Ctxt
  <2> HIDE DEF z, F, G
  <2>8. Turn(doc, n, z) = To(z, i + 1, phase, G((i + 1) - pos))
    <3>1. IsText(doc[i + 1].con.k)
      BY <1>4
    <3> QED
      BY <1>1, <1>7, <2>1, <2>5, <2>6, <2>7, <3>1, CellTurn
  <2>9. To(z, i + 1, phase, G((i + 1) - pos))
          = Place(i + 1, phase, open, startDoc, endDoc, fatal, G((i + 1) - pos))
    BY <2>5, Zenon DEF To
  <2> QED
    BY <2>3, <2>4, <2>8, <2>9, Zenon
<1>9. F[e] = Place(e, phase, open, startDoc, endDoc, fatal, G(e - pos))
  BY <1>3
<1>10. F[pos] = At
  <2>1. F[pos] = Place(pos, phase, open, startDoc, endDoc, fatal, G(0))
    BY <1>3
  <2>2. TextEvents(0) = <<>>
    BY DEF TextEvents
  <2>3. c.log \o <<>> = c.log
    BY <1>7, ConcatEmptySeq
  <2>4. G(0) = c
    BY <1>7, <2>2, <2>3
  <2> QED
    BY <2>1, <2>4 DEF At
<1>11. c' = G(e - pos)
  BY <1>6, <1>7 DEF Deliver
<1> HIDE DEF F, G
<1>12. Reads(doc, n, F[pos], F[e])
  BY ONLY <1>3, <1>8, RunReads, Zenon
<1>13. pos' = e /\ UNCHANGED <<phase, open, startDoc, endDoc, fatal>>
  BY <1>2, Zenon DEF CharData, Advance
<1> QED
  BY <1>9, <1>10, <1>11, <1>12, <1>13, AtNext

LEMMA LatchTurns ==
  ASSUME NEW n, Latch
  PROVE  At' = Turn(doc, n, At)
<1>1. At.fatal \/ At.c.disableSAX # 0
  BY AtFields DEF Latch
<1>2. Turn(doc, n, At) = Fails(At, pos, phase, c)
  BY <1>1, AtFields DEF Turn
<1>3. fatal' = TRUE /\ UNCHANGED <<pos, phase, open, startDoc, endDoc, c>>
  BY Zenon DEF Latch, Fail
<1> QED
  BY <1>2, <1>3, ToIs, AtNext

\* Where the terminate block runs.
Closing == /\ term /\ fatal = FALSE /\ c.disableSAX = 0
           /\ phase = "EOF" \/ Avail = 0

LEMMA TerminateTurns ==
  ASSUME NEW n, Ready(n), Closing, Terminate
  PROVE  At' = Ending(doc, n, At) /\ Turn(doc, n, At) = Ending(doc, n, At)
<1>1. Left(doc, n, At) = Avail /\ truncated = CutShort(doc, n)
  BY AtFields DEF Ready, Closing, Left, Avail
<1>2. Turn(doc, n, At) = Ending(doc, n, At)
  BY <1>1, AtFields DEF Turn, Closing
<1>3. Unread(doc, n, At) = EofCheck
  BY <1>1, AtFields DEF Unread, EofCheck
<1> DEFINE x == IF phase \in {"EOF", "EPILOG"} THEN EofCheck ELSE RaiseFatal(c)
<1>4. Ending(doc, n, At) = IF phase = "EOF"
                           THEN Place(pos, phase, open, startDoc, endDoc, x # c, x)
                           ELSE Over(At, pos, x # c, x)
  BY <1>3, AtFields DEF Ending
<1>5. /\ phase # "EOF" => /\ phase' = "EOF" /\ c' = Finished(x)
                          /\ endDoc' = TRUE
      /\ phase = "EOF" => c' = x /\ UNCHANGED <<phase, endDoc>>
      /\ fatal' = (x # c)
      /\ UNCHANGED <<pos, open, startDoc>>
  BY Zenon DEF Terminate, EndAt
<1> HIDE DEF x
<1>6. CASE phase = "EOF"
  BY <1>2, <1>4, <1>5, <1>6, AtNext
<1>7. CASE phase # "EOF"
  BY <1>2, <1>4, <1>5, <1>7, ToIs, AtNext
<1> QED
  BY <1>6, <1>7

\* After a fatal the reader stands still, and after its end as well.
LEMMA FatalIsFixed ==
  ASSUME NEW d, NEW n, NEW z \in States(d, n), z.fatal = TRUE
  PROVE  Fixed(d, n, z)
<1>1. Turn(d, n, z) = Fails(z, z.pos, z.phase, z.c)
  BY DEF Turn
<1>2. z = Place(z.pos, z.phase, z.open, z.startDoc, z.endDoc, z.fatal, z.c)
  BY StateIsPlace
<1> QED
  BY <1>1, <1>2 DEF Fails, Fixed

LEMMA EndingIsFixed ==
  ASSUME NEW d, NEW n, NEW z \in States(d, n), z.fatal = FALSE,
         z.c.disableSAX = 0, z.phase = "EOF" \/ Left(d, n, z) = 0
  PROVE  Fixed(d, n, Ending(d, n, z))
<1> DEFINE w == Ending(d, n, z)
           x == IF z.phase \in {"EOF", "EPILOG"} THEN Unread(d, n, z)
                                                 ELSE RaiseFatal(z.c)
           y == IF z.phase = "EOF" \/ z.endDoc THEN x
                ELSE Ctxt(x.disableSAX, x.errNo, x.wellFormed,
                          Append(x.log, Leaf("endDocument")))
           ed == IF z.phase = "EOF" THEN z.endDoc ELSE TRUE
<1>1. w \in States(d, n)
  BY EndingType DEF Onward
<1>2. w = Place(z.pos, "EOF", z.open, z.startDoc, ed, x # z.c, y)
  BY Zenon DEF Ending, Over
<1>3. y.disableSAX = x.disableSAX /\ y.errNo = x.errNo
  BY DEF Ctxt
<1>4. RaiseFatal(z.c) # z.c
  BY DEF RaiseFatal, Ctxt
<1> HIDE DEF w, y, ed
<1>5. /\ w.pos = z.pos /\ w.phase = "EOF" /\ w.open = z.open
      /\ w.startDoc = z.startDoc /\ w.endDoc = ed /\ w.fatal = (x # z.c) /\ w.c = y
  BY <1>2, PlaceFields
<1>6. CASE x # z.c
  <2>1. Fixed(d, n, w)
    BY <1>1, <1>5, <1>6, FatalIsFixed
  <2> QED
    BY <2>1 DEF w
<1>7. CASE x = z.c
  <2>1. Unread(d, n, z) = z.c
    BY <1>4, <1>7
  <2>2. z.c.errNo = "ok" => ~(Left(d, n, z) > 0 \/ CutShort(d, n))
    BY <1>4, <2>1 DEF Unread
  <2>3. Left(d, n, w) = Left(d, n, z)
    BY <1>5 DEF Left
  <2>4. w.c.errNo = z.c.errNo /\ w.c.disableSAX = 0 /\ w.fatal = FALSE
    BY <1>3, <1>5, <1>7
  <2>5. Unread(d, n, w) = w.c
    BY <2>2, <2>3, <2>4 DEF Unread
  <2>6. Turn(d, n, w) = Ending(d, n, w)
    BY <1>5, <2>4 DEF Turn
  <2>7. Ending(d, n, w) = Place(w.pos, w.phase, w.open, w.startDoc, w.endDoc, FALSE, w.c)
    BY <1>5, <2>5 DEF Ending
  <2>8. w = Place(w.pos, w.phase, w.open, w.startDoc, w.endDoc, w.fatal, w.c)
    BY <1>1, StateIsPlace
  <2>9. Fixed(d, n, w)
    BY <2>4, <2>6, <2>7, <2>8 DEF Fixed
  <2> QED
    BY <2>9 DEF w
<1> QED
  BY <1>6, <1>7 DEF w

----------------------------------------------------------------------------
(* Every step of a call.                                                   *)

\* The step goes on where the reader goes, and when the terminating call
\* returns, the reader has stopped as well.
Follows(n) ==
  /\ Reads(doc, n, At, At')
  /\ pc' = "final" => Closing'
  /\ pc' = "idle" /\ term => Fixed(doc, n, At')

LEMMA StepFollows ==
  ASSUME NEW n, Ready(n), pc = "loop", Reads(doc, n, At, At'),
         pc' = pc \/ (fatal' = TRUE /\ pc' = "idle")
  PROVE  Follows(n)
<1>1. At' \in States(doc, n)
  BY AtType, ReadsType
<1>2. At'.fatal = fatal'
  BY AtNext, PlaceFields
<1>3. fatal' = TRUE => Fixed(doc, n, At')
  BY <1>1, <1>2, FatalIsFixed
<1> QED
  BY <1>3 DEF Follows

LEMMA TurnFollows ==
  ASSUME NEW n, Ready(n), pc = "loop", At' = Turn(doc, n, At),
         pc' = pc \/ (fatal' = TRUE /\ pc' = "idle")
  PROVE  Follows(n)
<1>1. Reads(doc, n, At, At')
  BY ReadsSelf, ReadsTurn
<1> QED
  BY <1>1, StepFollows

LEMMA ParkFollows ==
  ASSUME NEW n, Ready(n),
         \/ Exhausted \/ XmlDeclPark \/ MiscPark \/ SubsetPark
         \/ StartTagPark \/ ContentPark \/ EndTagPark
  PROVE  Follows(n)
<1>1. Leave /\ UNCHANGED Input
  BY DEF Exhausted, XmlDeclPark, MiscPark, SubsetPark, StartTagPark,
         ContentPark, EndTagPark
<1>2. UNCHANGED <<pos, phase, open, startDoc, endDoc, fatal, c>>
  BY <1>1 DEF Leave
<1>3. Reads(doc, n, At, At')
  <2>1. At' = At
    BY <1>2 DEF At
  <2> QED
    BY <2>1, ReadsSelf
<1>4. term => Live /\ (phase = "EOF" \/ Avail = 0)
  BY DEF Exhausted, XmlDeclPark, MiscPark, SubsetPark, StartTagPark,
         ContentPark, EndTagPark
<1>5. IF term THEN pc' = "final" ELSE pc' = "idle"
  BY <1>1 DEF Leave, Return
<1>6. Avail' = Avail /\ term' = term
  BY <1>1, <1>2 DEF Avail, Input
<1>7. fatal \in BOOLEAN
  BY DEF Ready, IInv, TypeOK
<1>8. term => Closing'
  BY <1>2, <1>4, <1>6, <1>7 DEF Closing, Live
<1> QED
  BY <1>3, <1>5, <1>8 DEF Follows

LEMMA DriveFollows ==
  ASSUME Stops = FALSE, NEW n, Ready(n), pc = "final" => Closing, Drive
  PROVE  Follows(n)
<1>1. CASE Latch
  <2>1. At' = Turn(doc, n, At)
    BY <1>1, LatchTurns
  <2>2. pc = "loop" /\ fatal' = TRUE /\ pc' = "idle"
    BY <1>1 DEF Latch, Fail, Return
  <2> QED
    BY <2>1, <2>2, TurnFollows
<1>2. CASE \/ Exhausted \/ XmlDeclPark \/ MiscPark \/ SubsetPark
           \/ StartTagPark \/ ContentPark \/ EndTagPark
  BY <1>2, ParkFollows
<1>3. CASE Terminate
  <2>1. Closing
    BY <1>3 DEF Terminate
  <2>2. At' = Ending(doc, n, At) /\ Turn(doc, n, At) = Ending(doc, n, At)
    BY <1>3, <2>1, TerminateTurns
  <2>3. Reads(doc, n, At, At')
    BY <2>2, ReadsSelf, ReadsTurn
  <2>4. Fixed(doc, n, Ending(doc, n, At))
    <3>1. Left(doc, n, At) = Avail
      BY <2>1, AtFields DEF Ready, Closing, Left, Avail
    <3> QED
      BY <2>1, <3>1, AtType, AtFields, EndingIsFixed DEF Closing
  <2>5. pc' = "idle"
    BY <1>3 DEF Terminate, Return
  <2> QED
    BY <2>2, <2>3, <2>4, <2>5 DEF Follows
<1>4. CASE SkipBlanks
  <2>1. Reads(doc, n, At, At')
    BY <1>4, BlanksRead
  <2>2. pc = "loop" /\ pc' = pc
    BY <1>4 DEF SkipBlanks, InPhase, Live, Advance
  <2> QED
    BY <2>1, <2>2, StepFollows
<1>5. CASE CharData
  <2>1. Reads(doc, n, At, At')
    BY <1>5, TextRead
  <2>2. pc = "loop" /\ pc' = pc
    BY <1>5 DEF CharData, InPhase, Live, Advance
  <2> QED
    BY <2>1, <2>2, StepFollows
<1>6. CASE StepStart \/ MiscTail \/ ContentTag
  <2>1. At' = Turn(doc, n, At)
    BY <1>6, StartTurns, MiscTailTurns, ContentTagTurns
  <2>2. pc = "loop" /\ pc' = pc
    BY <1>6 DEF StepStart, MiscTail, ContentTag, InPhase, Live, Advance
  <2> QED
    BY <2>1, <2>2, TurnFollows
<1>7. CASE StepXmlDecl
  <2>1. At' = Turn(doc, n, At)
    BY <1>7, XmlDeclTurns
  <2>2. pc = "loop" /\ (pc' = pc \/ (fatal' = TRUE /\ pc' = "idle"))
    BY <1>7, Zenon DEF StepXmlDecl, InPhase, Live, Advance, Fail, Return
  <2> QED
    BY <2>1, <2>2, TurnFollows
<1>8. CASE ScanInline \/ StepDoctype \/ StepDoctypeHead
  <2>1. At' = Turn(doc, n, At)
    BY <1>8, InlineTurns, DoctypeTurns, DoctypeHeadTurns
  <2>2. pc = "loop" /\ pc' = pc
    BY <1>8, Zenon DEF ScanInline, StepDoctype, StepDoctypeHead, InPhase, Live, Advance
  <2> QED
    BY <2>1, <2>2, TurnFollows
<1>9. CASE StepSubset
  <2>1. At' = Turn(doc, n, At)
    BY <1>9, SubsetTurns
  <2>2. pc = "loop" /\ (pc' = pc \/ (fatal' = TRUE /\ pc' = "idle"))
    BY <1>9, Zenon DEF StepSubset, InPhase, Live, Advance, Fail, Return
  <2> QED
    BY <2>1, <2>2, TurnFollows
<1>10. CASE EpilogTail
  <2>1. At' = Turn(doc, n, At)
    BY <1>10, EpilogTurns
  <2>2. pc = "loop" /\ pc' = pc
    BY <1>10, Zenon DEF EpilogTail, InPhase, Live
  <2> QED
    BY <2>1, <2>2, TurnFollows
<1>11. CASE NotATag \/ BadName \/ WrongToken \/ CutTag
  <2>1. At' = Turn(doc, n, At)
    BY <1>11, NotATagTurns, BadNameTurns, WrongTokenTurns, CutTagTurns
  <2>2. pc = "loop" /\ fatal' = TRUE /\ pc' = "idle"
    BY <1>11, Zenon DEF NotATag, BadName, WrongToken, CutTag, TagReady, InPhase,
                        Live, Fail, Return
  <2> QED
    BY <2>1, <2>2, TurnFollows
<1>12. CASE OpenTag \/ EmptyTag
  <2>1. At' = Turn(doc, n, At)
    BY <1>12, OpenTagTurns, EmptyTagTurns
  <2>2. pc = "loop" /\ pc' = pc
    BY <1>12, Zenon DEF OpenTag, EmptyTag, TagReady, InPhase, Live, Advance
  <2> QED
    BY <2>1, <2>2, TurnFollows
<1>13. CASE Reference
  <2>1. At' = Turn(doc, n, At)
    BY <1>13, ReferenceTurns
  <2>2. pc = "loop" /\ (pc' = pc \/ (fatal' = TRUE /\ pc' = "idle"))
    BY <1>13, Zenon DEF Reference, InPhase, Live, Advance, Fail, Return
  <2> QED
    BY <2>1, <2>2, TurnFollows
<1>14. CASE EndTag
  <2>1. At' = Turn(doc, n, At)
    BY <1>14, EndTagTurns
  <2>2. pc = "loop" /\ (pc' = pc \/ (fatal' = TRUE /\ pc' = "idle"))
    BY <1>14, Zenon DEF EndTag, InPhase, Live, Advance, Fail, Return
  <2> QED
    BY <2>1, <2>2, TurnFollows
<1> QED
  BY <1>1, <1>2, <1>3, <1>4, <1>5, <1>6, <1>7, <1>8, <1>9, <1>10, <1>11, <1>12,
     <1>13, <1>14 DEF Drive, Step

----------------------------------------------------------------------------
(* The two runs.                                                           *)

\* What the driver has done so far is what the reader does of any stream that
\* the caller may still hand over.
Followed ==
  /\ pc # "idle" /\ term => /\ have = Usable(doc, recv)
                            /\ truncated = CutShort(doc, recv)
  /\ \A n \in recv .. Len(doc) : (term => n = recv) =>
        have <= Usable(doc, n) /\ Reads(doc, n, Start, At)
  /\ pc = "final" => Closing
  /\ pc = "idle" /\ term => Fixed(doc, recv, At)

\* The first run stopped at a place that the reader of the second run's stream
\* passes, and if it was told the end, where that reader stops.
Remembered ==
  /\ first.all \in 0 .. Len(doc)
  /\ \E w : /\ Reads(doc, first.all, Start, w)
            /\ w.c.log = first.log
            /\ first.ended => Fixed(doc, first.all, w)
  /\ IF pc = "idle" /\ ret = "none" THEN ~term
     ELSE term /\ recv = first.all

PInv == /\ IInv
        /\ round \in {1, 2}
        /\ Even => Followed /\ (round = 2 => Remembered)

\* A fresh context.
Fresh ==
  /\ doc \in Seq(Cell)
  /\ recv = 0 /\ have = 0 /\ truncated = FALSE /\ pos = 0
  /\ phase = "START" /\ open = <<>>
  /\ startDoc = FALSE /\ endDoc = FALSE /\ fatal = FALSE
  /\ c = Ctxt(0, "ok", TRUE, <<>>)
  /\ pc = "idle" /\ term = FALSE /\ ret = "none"

LEMMA FreshKeeps == Fresh => IInv
<1> SUFFICES ASSUME Fresh
             PROVE  IInv
  OBVIOUS
<1>1. c \in Context /\ c.log = <<>>
  BY DEF Fresh, Ctxt, Context, ErrNo
<1>2. doc \in Seq(Cell)
  BY DEF Fresh
<1>3. TypeOK
  <2>1. 0 \in 0 .. Len(doc) /\ 0 \in 0 .. 0 /\ <<>> \in Seq(Names)
    BY <1>2
  <2>2. "START" \in Phase
    BY DEF Phase
  <2> QED
    BY <1>1, <1>2, <2>1, <2>2 DEF Fresh, TypeOK
<1>4. LogOK(c, endDoc)
  BY <1>1 DEF LogOK
<1> QED
  BY <1>3, <1>4 DEF Fresh, IInv, PhaseMatchesStack

LEMMA FreshFollowed == Fresh => Followed
<1> SUFFICES ASSUME Fresh
             PROVE  Followed
  OBVIOUS
<1>1. At = Start
  BY DEF Fresh, At, Start
<1>2. ASSUME NEW n \in recv .. Len(doc)
      PROVE  have <= Usable(doc, n) /\ Reads(doc, n, Start, At)
  <2>1. n \in Nat
    BY LenProperties DEF Fresh
  <2>2. Usable(doc, n) \in Nat
    BY <2>1, UsableType
  <2> QED
    BY <1>1, <2>2, ReadsSelf DEF Fresh
<1> QED
  BY <1>2 DEF Followed, Fresh

LEMMA StartType ==
  ASSUME NEW d, NEW n \in Nat
  PROVE  Start \in States(d, n)
<1>1. Usable(d, n) \in Nat
  BY UsableType
<1>2. Ctxt(0, "ok", TRUE, <<>>) \in Context
  BY DEF Ctxt, Context, ErrNo
<1>3. 0 \in 0 .. Usable(d, n) /\ "START" \in Phase /\ <<>> \in Seq(Names)
  BY <1>1 DEF Phase
<1> QED
  BY <1>2, <1>3 DEF Start, Place, States

LEMMA DriveInput ==
  ASSUME Drive
  PROVE  /\ UNCHANGED Input /\ pc # "idle"
         /\ pc' = "idle" => ret' # "none"
<1>1. UNCHANGED Input
  BY DEF Drive, Step, Latch, Exhausted, Terminate, StepStart, XmlDeclPark,
     StepXmlDecl, SkipBlanks, MiscPark, ScanInline, StepDoctype, StepDoctypeHead,
     SubsetPark, StepSubset, MiscTail, EpilogTail, StartTagPark, NotATag, BadName,
     WrongToken, CutTag, OpenTag, EmptyTag, ContentPark, ContentTag, Reference,
     CharData, EndTagPark, EndTag
<1>2. pc # "idle"
  BY Zenon DEF Drive, Step, Latch, Exhausted, Terminate, StepStart, XmlDeclPark,
     StepXmlDecl, SkipBlanks, MiscPark, ScanInline, StepDoctype, StepDoctypeHead,
     SubsetPark, StepSubset, MiscTail, EpilogTail, StartTagPark, NotATag, BadName,
     WrongToken, CutTag, OpenTag, EmptyTag, ContentPark, ContentTag, Reference,
     CharData, EndTagPark, EndTag, InPhase, Live, TagReady
<1>3. Progress # "none"
  BY DEF Progress
<1>4. \/ Leave \/ Advance \/ Fail \/ UNCHANGED pc
      \/ \E r \in {"fatal", "complete", "await"} : Return(r)
  BY Zenon DEF Drive, Step, Latch, Exhausted, Terminate, StepStart, XmlDeclPark,
     StepXmlDecl, SkipBlanks, MiscPark, ScanInline, StepDoctype, StepDoctypeHead,
     SubsetPark, StepSubset, MiscTail, EpilogTail, StartTagPark, NotATag, BadName,
     WrongToken, CutTag, OpenTag, EmptyTag, ContentPark, ContentTag, Reference,
     CharData, EndTagPark, EndTag
<1>5. pc' = "idle" => ret' # "none"
  BY <1>2, <1>3, <1>4 DEF Leave, Advance, Fail, Return
<1> QED
  BY <1>1, <1>2, <1>5

LEMMA UsableGrows ==
  ASSUME NEW d, NEW m \in Nat, NEW n \in Nat, m <= n
  PROVE  Usable(d, m) <= Usable(d, n)
<1>1. CASE m = n
  BY <1>1, UsableType
<1>2. CASE m < n
  <2>1. Usable(d, m) <= m /\ n <= Usable(d, n) + 1
        /\ Usable(d, m) \in Nat /\ Usable(d, n) \in Nat
    BY UsableType
  <2> QED
    BY <1>2, <2>1
<1> QED
  BY <1>1, <1>2

LEMMA ChunkFollowed ==
  ASSUME IInv, Followed, ~term, Chunk
  PROVE  Followed'
<1>1. PICK m \in recv .. Len(doc), t \in BOOLEAN :
         /\ recv' = m /\ term' = t
         /\ have' = Decoded(m, t)
         /\ truncated' = (t /\ m > 0 /\ doc[m].con.k = "half")
  BY Zenon DEF Chunk
<1>2. /\ doc' = doc /\ pc' = "loop"
      /\ UNCHANGED <<pos, phase, open, startDoc, endDoc, fatal, c>>
  BY Zenon DEF Chunk
<1>3. At' = At
  BY <1>2 DEF At
<1>4. m \in Nat /\ recv \in Nat /\ recv <= m /\ Len(doc) \in Nat
  BY LenProperties DEF IInv, TypeOK
<1>5. /\ have' = 0 \/ have' = Usable(doc, m)
      /\ t => have' = Usable(doc, m)
  BY <1>1 DEF Decoded, Usable
<1>6. t => truncated' = CutShort(doc, m)
  BY <1>1 DEF CutShort
<1>7. ASSUME NEW n \in m .. Len(doc)
      PROVE  have' <= Usable(doc, n) /\ Reads(doc, n, Start, At)
  <2>1. n \in recv .. Len(doc) /\ n \in Nat /\ m <= n
    BY <1>4
  <2>2. Usable(doc, m) <= Usable(doc, n) /\ Usable(doc, n) \in Nat
    BY <1>4, <2>1, UsableGrows, UsableType
  <2>3. Reads(doc, n, Start, At)
    BY <2>1, Zenon DEF Followed
  <2> QED
    BY <1>5, <2>2, <2>3
<1>8. \A n \in recv' .. Len(doc') : (term' => n = recv') =>
         have' <= Usable(doc', n) /\ Reads(doc', n, Start, At')
  BY <1>1, <1>2, <1>3, <1>7
<1>9. term' => /\ have' = Usable(doc', recv')
               /\ truncated' = CutShort(doc', recv')
  BY <1>1, <1>2, <1>5, <1>6
<1> QED
  BY <1>2, <1>8, <1>9 DEF Followed

LEMMA DriveFollowed ==
  ASSUME Stops = FALSE, IInv, Even, Followed, Drive
  PROVE  Followed'
<1>1. UNCHANGED Input /\ pc # "idle"
  BY DriveInput
<1>2. doc' = doc /\ recv' = recv /\ have' = have /\ truncated' = truncated /\ term' = term
  BY <1>1 DEF Input
<1>3. ASSUME NEW n \in recv .. Len(doc), term => n = recv
      PROVE  Follows(n) /\ have <= Usable(doc, n) /\ Reads(doc, n, Start, At')
  <2>1. have <= Usable(doc, n) /\ Reads(doc, n, Start, At)
    BY <1>3, Zenon DEF Followed
  <2>2. Ready(n)
    BY <1>1, <1>3, <2>1 DEF Ready, Followed
  <2>3. Follows(n)
    BY <2>2, DriveFollows DEF Followed
  <2>4. Reads(doc, n, Start, At')
    BY <2>1, <2>3, ReadsOn, Zenon DEF Follows
  <2> QED
    BY <2>1, <2>3, <2>4
<1>4. recv \in recv .. Len(doc)
  BY LenProperties DEF IInv, TypeOK
<1>5. Follows(recv)
  BY <1>3, <1>4, Zenon
<1>6. \A n \in recv' .. Len(doc') : (term' => n = recv') =>
         have' <= Usable(doc', n) /\ Reads(doc', n, Start, At')
  BY <1>2, <1>3, Zenon
<1>7. pc' = "idle" /\ term' => Fixed(doc', recv', At')
  BY <1>2, <1>5, Zenon DEF Follows
<1>8. pc' = "final" => Closing'
  BY <1>5, Zenon DEF Follows
<1>9. term' => /\ have' = Usable(doc', recv')
               /\ truncated' = CutShort(doc', recv')
  BY <1>1, <1>2, Zenon DEF Followed
<1> QED
  BY <1>6, <1>7, <1>8, <1>9 DEF Followed

\* With the terms of Even, a chunk never brings a unit that is invalid.
LEMMA NothingInvalid ==
  ASSUME IInv, Even, ChunkInvalid
  PROVE  FALSE
<1>1. PICK m \in recv .. Len(doc), t \in BOOLEAN : Invalid(m, t)
  BY Zenon DEF ChunkInvalid
<1>2. m \in Nat /\ m > 0 /\ doc[m].con.k = "badunit" /\ Len(doc) \in Nat
  BY <1>1, LenProperties DEF Invalid, IInv, TypeOK
<1>3. m \in DOMAIN doc
  BY <1>1, <1>2 DEF IInv, TypeOK
<1> QED
  BY <1>2, <1>3 DEF Even

LEMMA InitPInv == PInit => PInv
<1> SUFFICES ASSUME PInit
             PROVE  PInv
  OBVIOUS
<1>1. Fresh /\ round = 1
  BY DriverAssumption DEF PInit, Init, Fresh
<1> QED
  BY <1>1, FreshKeeps, FreshFollowed DEF PInv

LEMMA FirstRunKeeps ==
  ASSUME Stops = FALSE, PInv, FirstRun
  PROVE  PInv'
<1>1. /\ round = 1 /\ round' = round
      /\ pc = "idle" => ~term
      /\ Chunk \/ ChunkInvalid \/ Drive
  BY Zenon DEF FirstRun
<1>2. IInv' /\ doc' = doc
  <2>1. IInv'
    BY <1>1, NextKeeps DEF PInv, Next
  <2>2. doc' = doc
    BY <1>1, DriveInput DEF Chunk, ChunkInvalid, Input
  <2> QED
    BY <2>1, <2>2
<1>3. ASSUME Even
      PROVE  Followed'
  <2>1. IInv /\ Followed
    BY <1>3 DEF PInv
  <2>2. CASE Chunk
    <3>1. ~term
      BY <1>1, <2>2 DEF Chunk
    <3> QED
      BY <2>1, <2>2, <3>1, ChunkFollowed
  <2>3. CASE ChunkInvalid
    BY <1>3, <2>1, <2>3, NothingInvalid
  <2>4. CASE Drive
    BY <1>3, <2>1, <2>4, DriveFollowed
  <2> QED
    BY <1>1, <2>2, <2>3, <2>4
<1>4. Even' = Even
  BY <1>2 DEF Even
<1>5. round' = 1
  BY <1>1
<1> QED
  BY <1>2, <1>3, <1>4, <1>5 DEF PInv

LEMMA FreshAgain == Fresh' => IInv' /\ Followed'
<1>1. Fresh => IInv /\ Followed
  BY FreshKeeps, FreshFollowed
<1> QED
  BY <1>1, PTL

LEMMA RestartKeeps ==
  ASSUME PInv, Restart
  PROVE  PInv'
<1>1. PICK n \in recv .. Len(doc) :
         /\ term => n = recv
         /\ first' = [log |-> c.log, ended |-> term,
                      failed |-> c.disableSAX # 0, all |-> n]
  BY Zenon DEF Restart
<1>2. doc \in Seq(Cell) /\ pc = "idle" /\ round' = 2 /\ doc' = doc
  BY DEF Restart, PInv, IInv, TypeOK
<1>3. Fresh'
  BY <1>2 DEF Restart, Fresh
<1>4. IInv' /\ Followed'
  BY <1>3, FreshAgain
<1>5. ASSUME Even
      PROVE  Remembered'
  <2>1. Followed
    BY <1>5 DEF PInv
  <2>2. n \in 0 .. Len(doc)
    BY LenProperties DEF PInv, IInv, TypeOK
  <2>3. first'.all = n /\ first'.log = c.log /\ first'.ended = term
    BY <1>1
  <2>4. Reads(doc, n, Start, At) /\ (term => Fixed(doc, n, At))
    BY <1>1, <1>2, <2>1 DEF Followed
  <2>5. At.c.log = c.log
    BY AtFields
  <2>6. pc' = "idle" /\ ret' = "none" /\ ~term'
    BY <1>3 DEF Fresh
  <2> QED
    BY <1>2, <2>2, <2>3, <2>4, <2>5, <2>6 DEF Remembered
<1>6. Even' = Even
  BY <1>2 DEF Even
<1> QED
  BY <1>2, <1>4, <1>5, <1>6 DEF PInv

LEMMA WholeAtOnceKeeps ==
  ASSUME Stops = FALSE, PInv, WholeAtOnce
  PROVE  PInv'
<1>1. /\ round = 2 /\ round' = round /\ first' = first
      /\ \/ /\ ret = "none" /\ pc = "idle"
            /\ Chunk \/ ChunkInvalid
            /\ recv' = first.all /\ term'
         \/ Drive
  BY Zenon DEF WholeAtOnce
<1>2. IInv' /\ doc' = doc
  <2>1. IInv'
    BY <1>1, NextKeeps DEF PInv, Next
  <2>2. doc' = doc
    BY <1>1, DriveInput DEF Chunk, ChunkInvalid, Input
  <2> QED
    BY <2>1, <2>2
<1>3. ASSUME Even
      PROVE  Followed' /\ Remembered'
  <2>1. IInv /\ Followed /\ Remembered
    BY <1>1, <1>3 DEF PInv
  <2>2. /\ first'.all \in 0 .. Len(doc')
        /\ \E w : /\ Reads(doc', first'.all, Start, w)
                  /\ w.c.log = first'.log
                  /\ first'.ended => Fixed(doc', first'.all, w)
    BY <1>1, <1>2, <2>1, Zenon DEF Remembered
  <2>3. CASE ret = "none" /\ pc = "idle" /\ Chunk /\ recv' = first.all /\ term'
    <3>1. ~term
      BY <2>1, <2>3 DEF Remembered
    <3>2. Followed'
      BY <2>1, <2>3, <3>1, ChunkFollowed
    <3>3. pc' = "loop"
      BY <2>3 DEF Chunk
    <3> QED
      BY <1>1, <2>2, <2>3, <3>2, <3>3 DEF Remembered
  <2>4. CASE ChunkInvalid
    BY <1>3, <2>1, <2>4, NothingInvalid
  <2>5. CASE Drive
    <3>1. Followed'
      BY <1>3, <2>1, <2>5, DriveFollowed
    <3>2. /\ term' = term /\ recv' = recv /\ pc # "idle"
          /\ pc' = "idle" => ret' # "none"
      BY <2>5, DriveInput DEF Input
    <3>3. term /\ recv = first.all
      BY <2>1, <3>2 DEF Remembered
    <3> QED
      BY <1>1, <2>2, <3>1, <3>2, <3>3 DEF Remembered
  <2> QED
    BY <1>1, <2>3, <2>4, <2>5
<1>4. Even' = Even
  BY <1>2 DEF Even
<1> QED
  BY <1>1, <1>2, <1>3, <1>4 DEF PInv

LEMMA PStutterKeeps ==
  ASSUME PInv, UNCHANGED pvars
  PROVE  PInv'
<1>1. UNCHANGED vars /\ round' = round /\ first' = first
  BY DEF pvars
<1>2. IInv'
  BY <1>1, StutterKeeps DEF PInv
<1>3. Even' = Even /\ Followed' = Followed /\ Remembered' = Remembered
  BY <1>1 DEF vars, Even, Followed, Remembered, At, Closing, Avail
<1> QED
  BY <1>1, <1>2, <1>3 DEF PInv

(***************************************************************************)
(* However a document is cut into chunks, drive_persistent has at every    *)
(* moment done what one uninterrupted reading of it does up to there, of   *)
(* the bytes received and of any longer stream that may still come; and    *)
(* when a terminating call has returned, that reading is at its end.       *)
(***************************************************************************)
THEOREM PartitionInvariant ==
  ASSUME Stops = FALSE
  PROVE  PSpec => []PInv
<1>1. PInit => PInv
  BY InitPInv
<1>2. PInv /\ [PNext]_pvars => PInv'
  BY FirstRunKeeps, RestartKeeps, WholeAtOnceKeeps, PStutterKeeps DEF PNext
<1> QED
  BY <1>1, <1>2, PTL DEF PSpec

\* When the two runs are compared, the second stands where the reader stops.
LEMMA SecondRunEnds ==
  ASSUME PInv, Compared, Even
  PROVE  /\ doc \in Seq(Cell) /\ first.all \in 0 .. Len(doc)
         /\ Start \in States(doc, first.all)
         /\ Reads(doc, first.all, Start, At) /\ Fixed(doc, first.all, At)
         /\ \E w : /\ Reads(doc, first.all, Start, w)
                   /\ w.c.log = first.log
                   /\ first.ended => Fixed(doc, first.all, w)
<1>1. Followed /\ Remembered /\ doc \in Seq(Cell) /\ pc = "idle" /\ ret # "none"
  BY DEF PInv, Compared, IInv, TypeOK
<1>2. /\ first.all \in 0 .. Len(doc) /\ term /\ recv = first.all
      /\ \E w : /\ Reads(doc, first.all, Start, w)
                /\ w.c.log = first.log
                /\ first.ended => Fixed(doc, first.all, w)
  BY <1>1 DEF Remembered
<1>3. recv \in recv .. Len(doc) /\ first.all \in Nat
  BY <1>1, <1>2, LenProperties
<1>4. Reads(doc, first.all, Start, At) /\ Fixed(doc, first.all, At)
  BY <1>1, <1>2, <1>3, Zenon DEF Followed
<1>5. Start \in States(doc, first.all)
  BY <1>3, StartType
<1> QED
  BY <1>1, <1>2, <1>4, <1>5

LEMMA SameEventsHolds == PInv => SameEvents
<1> SUFFICES ASSUME PInv, Compared, first.ended, Even
             PROVE  first.log = c.log
  BY DEF SameEvents
<1>1. PICK w : /\ Reads(doc, first.all, Start, w)
               /\ w.c.log = first.log
               /\ Fixed(doc, first.all, w)
  BY SecondRunEnds, Zenon
<1>2. w = At
  BY <1>1, SecondRunEnds, EndIsUnique
<1> QED
  BY <1>1, <1>2, AtFields

LEMMA PrefixHolds == PInv => PrefixOfEveryContinuation
<1> SUFFICES ASSUME PInv, Compared, Even
             PROVE  IsPrefix(first.log, c.log)
  BY DEF PrefixOfEveryContinuation
<1>1. PICK w : /\ Reads(doc, first.all, Start, w)
               /\ w.c.log = first.log
  BY SecondRunEnds, Zenon
<1>2. Reads(doc, first.all, w, At)
  BY <1>1, SecondRunEnds, ReadsToTheEnd
<1>3. w \in States(doc, first.all)
  BY <1>1, SecondRunEnds, ReadsType
<1>4. Grows(w.c, At.c)
  BY <1>2, <1>3, SecondRunEnds, ReadsType
<1>5. /\ first.log \in Seq(Entry) /\ c.log \in Seq(Entry)
      /\ Len(first.log) <= Len(c.log)
      /\ \A i \in 1 .. Len(first.log) : c.log[i] = first.log[i]
  BY <1>1, <1>3, <1>4, AtFields, ContextFields, StateFields DEF Grows
<1> DEFINE k == Len(first.log)
<1>6. k \in Nat /\ k \in 0 .. Len(c.log) /\ Len(c.log) \in Nat
  BY <1>5, LenProperties
<1>7. SubSeq(first.log, 1, k) = SubSeq(c.log, 1, k)
  <2> DEFINE s == SubSeq(first.log, 1, k)
             t == SubSeq(c.log, 1, k)
  <2>1. /\ s \in Seq(Entry) /\ Len(s) = k /\ \A i \in 1 .. k : s[i] = first.log[i]
        /\ t \in Seq(Entry) /\ Len(t) = k /\ \A i \in 1 .. k : t[i] = c.log[i]
    BY <1>5, <1>6
  <2> HIDE DEF s, t
  <2>2. s = t
    BY <1>5, <2>1, SeqEqual
  <2> QED
    BY <2>2 DEF s, t
<1> QED
  BY <1>5, <1>7 DEF IsPrefix

(***************************************************************************)
(* A document that the application terminates gives the same events, the   *)
(* same diagnostics and the same order, however it was cut into chunks     *)
(* (persistent_driver_matches_the_recursive_parser_under_every_partition), *)
(* for every set of streams and every buffer bound.  The callbacks do not  *)
(* stop the parser: an application that stops it decides by what it saw.   *)
(***************************************************************************)
THEOREM EventsAreTheSame ==
  ASSUME Stops = FALSE
  PROVE  PSpec => []SameEvents
BY PartitionInvariant, SameEventsHolds, PTL

(***************************************************************************)
(* What drive_persistent has dispatched when a call that is not the last   *)
(* returns is a prefix of what every continuation of the stream            *)
(* dispatches: no event and no fatal is delivered on suspicion.            *)
(***************************************************************************)
THEOREM NothingOnSuspicion ==
  ASSUME Stops = FALSE
  PROVE  PSpec => []PrefixOfEveryContinuation
BY PartitionInvariant, PrefixHolds, PTL
=============================================================================
