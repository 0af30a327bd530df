-------------------------- MODULE PushReplay_proofs --------------------------
(* What an engine holds between the calls and what it has told the handlers, *)
(* for every set of documents, every size of the chunks and any number of    *)
(* uses of the context, as long as no consumer sets wellFormed itself.  What *)
(* is told assumes Ordinary documents: the model's deviations on the others  *)
(* are real ones of the code.                                                *)
(*                                                                           *)
(* IInv is about the input.  The rest goes from the numbers of a set in      *)
(* order (InOrder) by the items of a document (Passed, Report) to one token  *)
(* of the parser (Going), all of them (ParseSays), and the calls (Spoken).   *)
EXTENDS PushReplay, SequenceTheorems, FiniteSetTheorems, WellFoundedInduction,
        TLAPS

\* What is kept for the context is made of bytes.
Kept ==
  /\ doc \in Seq(Byte) /\ fed \in 0..Len(doc)
  /\ push = [delivered |-> push.delivered, pending |-> push.pending,
             pushContext |-> push.pushContext]
  /\ push.pending \in Nat
  /\ stash = NoInput \/ stash \in Seq(Byte)
  /\ session = NoSession \/ session \in Seq(Byte)

\* A session stays with the persistent engine, and no `\r' is counted for it.
OneEngine ==
  /\ context \in {"plain", "option"}
  /\ ctxt.disableSAX <=> ~ctxt.wellFormed
  /\ ctxt.instate = "EOF" => closed
  /\ session # NoSession => push.pushContext /\ context = "plain"
  /\ push.pushContext /\ context = "plain" => push.pending = 0

IInv == Kept /\ OneEngine /\ InputInOrder

LEMMA CRsAreBytes ==
  ASSUME NEW n \in Nat
  PROVE  /\ CRs(n) \in Seq(Byte) /\ Len(CRs(n)) = n
         /\ \A i \in 1..n : CRs(n)[i] = CR
<1>1. CR \in Byte
  BY DEF CR, Byte, Markup, Text
<1> QED
  BY <1>1 DEF CRs

LEMMA NoCRs == CRs(0) = <<>>
<1>1. /\ CRs(0) \in Seq(Byte)
      /\ Len(CRs(0)) = 0
  BY CRsAreBytes
<1> QED
  BY <1>1, EmptySeq

\* Runs of `\r's add up.
LEMMA CRsAdd ==
  ASSUME NEW m \in Nat, NEW n \in Nat
  PROVE  CRs(m) \o CRs(n) = CRs(m + n)
<1>1. /\ CRs(m) \in Seq(Byte) /\ Len(CRs(m)) = m
      /\ \A i \in 1..m : CRs(m)[i] = CR
  BY CRsAreBytes
<1>2. /\ CRs(n) \in Seq(Byte) /\ Len(CRs(n)) = n
      /\ \A i \in 1..n : CRs(n)[i] = CR
  BY CRsAreBytes
<1>3. /\ CRs(m + n) \in Seq(Byte) /\ Len(CRs(m + n)) = m + n
      /\ \A i \in 1..(m + n) : CRs(m + n)[i] = CR
  <2>1. m + n \in Nat
    OBVIOUS
  <2> QED
    BY <2>1, CRsAreBytes
<1>4. /\ CRs(m) \o CRs(n) \in Seq(Byte)
      /\ Len(CRs(m) \o CRs(n)) = m + n
      /\ \A i \in 1..(m + n) :
           (CRs(m) \o CRs(n))[i] = IF i <= m THEN CRs(m)[i] ELSE CRs(n)[i - m]
  <2>1. CRs(m) \in Seq(Byte) /\ CRs(n) \in Seq(Byte)
    BY <1>1, <1>2
  <2>2. /\ CRs(m) \o CRs(n) \in Seq(Byte)
        /\ Len(CRs(m) \o CRs(n)) = Len(CRs(m)) + Len(CRs(n))
        /\ \A i \in 1..(Len(CRs(m)) + Len(CRs(n))) :
             (CRs(m) \o CRs(n))[i]
               = IF i <= Len(CRs(m)) THEN CRs(m)[i] ELSE CRs(n)[i - Len(CRs(m))]
    BY <2>1, ConcatProperties, Zenon
  <2>3. Len(CRs(m)) = m /\ Len(CRs(n)) = n
    BY <1>1, <1>2
  <2> QED
    BY <2>2, <2>3
<1>5. \A i \in 1..(m + n) : (CRs(m) \o CRs(n))[i] = CRs(m + n)[i]
  <2> SUFFICES ASSUME NEW i \in 1..(m + n)
               PROVE  (CRs(m) \o CRs(n))[i] = CRs(m + n)[i]
    OBVIOUS
  <2>1. CASE i <= m
    BY <2>1, <1>1, <1>3, <1>4
  <2>2. CASE ~(i <= m)
    <3>1. i - m \in 1..n
      BY <2>2
    <3> QED
      BY <2>2, <3>1, <1>2, <1>3, <1>4
  <2> QED
    BY <2>1, <2>2
<1> QED
  BY <1>3, <1>4, <1>5, SeqEqual

\* A chunk is what is passed on of it and what is kept back.
LEMMA SliceSplits ==
  ASSUME Kept, NEW k \in Nat, fed + k <= Len(doc), NEW terminate \in BOOLEAN
  PROVE  /\ Deferred(k, terminate) \in 0..1
         /\ terminate => Deferred(k, terminate) = 0
         /\ Slice(k, terminate) \in Seq(Byte)
         /\ Slice(k, terminate) \o CRs(Deferred(k, terminate))
              = SubSeq(doc, fed + 1, fed + k)
         /\ SubSeq(doc, 1, fed) \in Seq(Byte)
         /\ SubSeq(doc, 1, fed) \o SubSeq(doc, fed + 1, fed + k)
              = SubSeq(doc, 1, fed + k)
<1>1. /\ doc \in Seq(Byte) /\ fed \in 0..Len(doc) /\ Len(doc) \in Nat
      /\ \A i \in 1..Len(doc) : doc[i] \in Byte
  BY DEF Kept
<1>2. /\ Deferred(k, terminate) \in 0..1
      /\ terminate => Deferred(k, terminate) = 0
      /\ Deferred(k, terminate) = 1 => k > 0 /\ doc[fed + k] = CR
  BY DEF Deferred
<1>3. ASSUME NEW n \in Nat, fed + n <= Len(doc)
      PROVE  SubSeq(doc, fed + 1, fed + n) \in Seq(Byte)
  <2>1. \A i \in (fed + 1)..(fed + n) : doc[i] \in Byte
    BY <1>1, <1>3
  <2> QED
    BY <2>1, <1>1, SubSeqProperties, Z3
<1>4. Slice(k, terminate) \in Seq(Byte)
  <2>1. /\ k - Deferred(k, terminate) \in Nat
        /\ fed + (k - Deferred(k, terminate)) <= Len(doc)
        /\ fed + (k - Deferred(k, terminate)) = fed + k - Deferred(k, terminate)
    BY <1>1, <1>2
  <2> QED
    BY <2>1, <1>3 DEF Slice
<1>5. SubSeq(doc, 1, fed) \in Seq(Byte)
  <2>1. \A i \in 1..fed : doc[i] \in Byte
    BY <1>1
  <2> QED
    BY <2>1, <1>1, SubSeqProperties
<1>6. Slice(k, terminate) \o CRs(Deferred(k, terminate))
        = SubSeq(doc, fed + 1, fed + k)
  <2>1. CASE Deferred(k, terminate) = 0
    <3>1. Slice(k, terminate) = SubSeq(doc, fed + 1, fed + k)
      BY <2>1, <1>1 DEF Slice
    <3> QED
      BY <2>1, <3>1, <1>4, NoCRs, ConcatEmptySeq
  <2>2. CASE Deferred(k, terminate) = 1
    <3>1. /\ fed + 1 \in 1..Len(doc)
          /\ fed + k \in (fed + 1)..Len(doc)
          /\ doc[fed + k] = CR
      BY <2>2, <1>1, <1>2
    <3>2. SubSeq(doc, fed + 1, fed + k)
            = SubSeq(doc, fed + 1, fed + k - 1) \o << doc[fed + k] >>
      BY <3>1, <1>1, SubSeqRecursiveSecond
    <3>3. CRs(1) = << CR >>
      <4>1. /\ CRs(1) \in Seq(Byte) /\ Len(CRs(1)) = 1
            /\ \A i \in 1..1 : CRs(1)[i] = CR
        <5>1. 1 \in Nat
          OBVIOUS
        <5> QED
          BY <5>1, CRsAreBytes
      <4> QED
        BY <4>1
    <3>4. Slice(k, terminate) = SubSeq(doc, fed + 1, fed + k - 1)
      BY <2>2 DEF Slice
    <3>5. SubSeq(doc, fed + 1, fed + k)
            = SubSeq(doc, fed + 1, fed + k - 1) \o << CR >>
      BY <3>1, <3>2
    <3> QED
      BY <2>2, <3>3, <3>4, <3>5
  <2>3. Deferred(k, terminate) = 0 \/ Deferred(k, terminate) = 1
    BY <1>2
  <2> QED
    BY <2>1, <2>2, <2>3, Zenon
<1>7. SubSeq(doc, 1, fed) \o SubSeq(doc, fed + 1, fed + k)
        = SubSeq(doc, 1, fed + k)
  <2>1. /\ 1 \in 1..(Len(doc) + 1) /\ fed \in (1 - 1)..Len(doc)
        /\ fed + k \in fed..Len(doc)
    BY <1>1
  <2> QED
    BY <2>1, <1>1, ConcatAdjacentSubSeq
<1> QED
  BY <1>2, <1>4, <1>5, <1>6, <1>7

LEMMA Associates ==
  \A s, t, u \in Seq(Byte) : (s \o t) \o u = s \o (t \o u)
BY ConcatAssociative

LEMMA Concatenates ==
  \A s, t \in Seq(Byte) : s \o t \in Seq(Byte)
BY ConcatProperties

\* What is held grows by the chunk when its bytes are put after it.
LEMMA Appended ==
  ASSUME Kept, NEW k \in Nat, fed + k <= Len(doc), NEW terminate \in BOOLEAN,
         NEW held, held = SubSeq(doc, 1, fed)
  PROVE  /\ held \o (Slice(k, terminate) \o CRs(Deferred(k, terminate)))
              = SubSeq(doc, 1, fed + k)
         /\ (held \o Slice(k, terminate)) \o CRs(Deferred(k, terminate))
              = SubSeq(doc, 1, fed + k)
<1>1. held \o (Slice(k, terminate) \o CRs(Deferred(k, terminate)))
        = SubSeq(doc, 1, fed + k)
  BY SliceSplits, Zenon
<1>2. /\ held \in Seq(Byte) /\ Slice(k, terminate) \in Seq(Byte)
      /\ Deferred(k, terminate) \in Nat
  <2>1. /\ held \in Seq(Byte) /\ Slice(k, terminate) \in Seq(Byte)
        /\ Deferred(k, terminate) \in 0..1
    BY SliceSplits, Zenon
  <2> QED
    BY <2>1
<1>3. CRs(Deferred(k, terminate)) \in Seq(Byte)
  BY <1>2, CRsAreBytes
<1>4. (held \o Slice(k, terminate)) \o CRs(Deferred(k, terminate))
        = held \o (Slice(k, terminate) \o CRs(Deferred(k, terminate)))
  BY <1>2, <1>3, Associates, Zenon
<1> QED
  BY <1>1, <1>4

\* The replay engine puts the chunk after what it holds, whether the `\r's
\* that were kept back come before it now or later.
LEMMA BaseHeld ==
  ASSUME Kept, NEW k \in Nat, fed + k <= Len(doc)
  PROVE  /\ Base(k, FALSE) \in Seq(Byte)
         /\ Pending(k, FALSE) \in Nat
         /\ Base(k, FALSE) \o CRs(Pending(k, FALSE))
              = (Stashed \o CRs(push.pending))
                  \o (Slice(k, FALSE) \o CRs(Deferred(k, FALSE)))
<1> DEFINE slice == Slice(k, FALSE)
           last == Deferred(k, FALSE)
<1>1. slice \in Seq(Byte) /\ last \in 0..1
  <2>1. FALSE \in BOOLEAN
    OBVIOUS
  <2> QED
    BY <2>1, SliceSplits, Zenon
<1> HIDE DEF slice, last
<1>2. /\ Stashed \in Seq(Byte) /\ push.pending \in Nat
      /\ slice \in Seq(Byte) /\ last \in Nat
  <2>1. Stashed \in Seq(Byte) /\ push.pending \in Nat
    <3>1. <<>> \in Seq(Byte)
      OBVIOUS
    <3> QED
      BY <3>1 DEF Kept, Stashed
  <2> QED
    BY <1>1, <2>1
<1>3. CRs(push.pending) \in Seq(Byte) /\ CRs(last) \in Seq(Byte)
  BY <1>2, CRsAreBytes
<1>4. CASE Restores(k, FALSE)
  <2>1. /\ Base(k, FALSE) = (Stashed \o CRs(push.pending)) \o slice
        /\ Pending(k, FALSE) = last + 0
    BY <1>4, Zenon DEF Base, Pending, slice, last
  <2>2. Stashed \o CRs(push.pending) \in Seq(Byte)
    BY <1>2, <1>3, Concatenates
  <2>3. (Stashed \o CRs(push.pending)) \o slice \in Seq(Byte)
    BY <1>2, <2>2, Concatenates
  <2>4. ((Stashed \o CRs(push.pending)) \o slice) \o CRs(last)
          = (Stashed \o CRs(push.pending)) \o (slice \o CRs(last))
    BY <1>2, <1>3, <2>2, Associates, Zenon
  <2>5. last + 0 = last
    BY <1>2
  <2>6. Pending(k, FALSE) = last /\ last \in Nat
    BY <1>2, <2>1, <2>5, Zenon
  <2> QED
    BY <2>1, <2>3, <2>4, <2>6, Zenon DEF slice, last
<1>5. CASE ~Restores(k, FALSE)
  <2>1. /\ Base(k, FALSE) = (Stashed \o <<>>) \o slice
        /\ Pending(k, FALSE) = last + push.pending
    BY <1>5, Zenon DEF Base, Pending, slice, last
  <2>2. push.pending = 0 \/ slice = <<>>
    <3>1. ~(push.pending > 0) \/ slice = <<>>
      BY <1>5, Zenon DEF Restores, slice
    <3> QED
      BY <3>1, <1>2
  <2>3. Base(k, FALSE) = Stashed \o slice
    BY <2>1, <1>2, ConcatEmptySeq
  <2>4. Base(k, FALSE) \in Seq(Byte) /\ Pending(k, FALSE) \in Nat
    <3>1. Base(k, FALSE) \in Seq(Byte)
      BY <2>3, <1>2, Concatenates, Zenon
    <3>2. last + push.pending \in Nat
      BY <1>2
    <3> QED
      BY <2>1, <3>1, <3>2, Zenon
  <2>5. (Stashed \o slice) \o CRs(last + push.pending)
          = (Stashed \o CRs(push.pending)) \o (slice \o CRs(last))
    <3>1. CASE push.pending = 0
      <4>1. Stashed \o CRs(push.pending) = Stashed
        BY <3>1, <1>2, NoCRs, ConcatEmptySeq
      <4>2. last + push.pending = last
        BY <3>1, <1>2
      <4>3. (Stashed \o slice) \o CRs(last) = Stashed \o (slice \o CRs(last))
        BY <1>2, <1>3, Associates, Zenon
      <4> QED
        BY <4>1, <4>2, <4>3, Zenon
    <3>2. CASE slice = <<>>
      <4>1. Stashed \o slice = Stashed /\ slice \o CRs(last) = CRs(last)
        BY <3>2, <1>2, <1>3, ConcatEmptySeq
      <4>2. CRs(last + push.pending) = CRs(push.pending) \o CRs(last)
        <5>1. last + push.pending = push.pending + last
          BY <1>2
        <5>2. CRs(push.pending) \o CRs(last) = CRs(push.pending + last)
          BY <1>2, CRsAdd
        <5> QED
          BY <5>1, <5>2, Zenon
      <4>3. (Stashed \o CRs(push.pending)) \o CRs(last)
              = Stashed \o (CRs(push.pending) \o CRs(last))
        BY <1>2, <1>3, Associates, Zenon
      <4> QED
        BY <4>1, <4>2, <4>3, Zenon
    <3> QED
      BY <2>2, <3>1, <3>2, Zenon
  <2> QED
    BY <2>1, <2>3, <2>4, <2>5, Zenon DEF slice, last
<1> QED
  BY <1>4, <1>5

\* The context after a parse: stopped iff the document is not well-formed.
LEMMA AfterStops ==
  ASSUME NEW s, NEW i
  PROVE  /\ After(s, i).disableSAX <=> ~After(s, i).wellFormed
         /\ After(s, i).instate = i
BY DEF After

\* A chunk for the persistent engine.
LEMMA PersistentStep ==
  ASSUME IInv, NEW k \in Nat, NEW terminate \in BOOLEAN, fed + k <= Len(doc),
         PersistentChunk(k, terminate),
         fed' = fed + k, closed' = (closed \/ terminate), doc' = doc,
         context' = context
  PROVE  IInv'
<1> DEFINE held == IF session = NoSession THEN Stashed ELSE session
           rest == CRs(Deferred(k, terminate))
<1>1. Kept /\ OneEngine /\ InputInOrder
  BY DEF IInv
<1>2. /\ push.pushContext /\ context = "plain" /\ push.pending = 0
      /\ ~ctxt.disableSAX
  BY <1>1 DEF OneEngine, PersistentChunk, Eligible
<1>3. /\ session' = (held \o Slice(k, terminate)) \o rest
      /\ stash' = NoInput /\ push' = push
  BY Zenon DEF PersistentChunk
<1>4. held \in Seq(Byte)
  <2>1. <<>> \in Seq(Byte)
    OBVIOUS
  <2> QED
    BY <1>1, <2>1 DEF Kept, Stashed
<1>5. session' \in Seq(Byte)
  <2>1. /\ Slice(k, terminate) \in Seq(Byte)
        /\ Deferred(k, terminate) \in 0..1
    BY <1>1, SliceSplits, Zenon
  <2>2. Deferred(k, terminate) \in Nat
    BY <2>1
  <2>3. rest \in Seq(Byte)
    BY <2>2, CRsAreBytes, Zenon
  <2> HIDE DEF held, rest
  <2>4. held \o Slice(k, terminate) \in Seq(Byte)
    BY <1>4, <2>1, Concatenates, Zenon
  <2> QED
    BY <1>3, <2>3, <2>4, Concatenates, Zenon
<1>6. Kept'
  <2>1. fed' \in 0..Len(doc')
    BY <1>1 DEF Kept
  <2> QED
    BY <1>1, <1>3, <1>5, <2>1 DEF Kept
<1>7. /\ ctxt'.disableSAX <=> ~ctxt'.wellFormed
      /\ ctxt'.instate = "EOF" => closed'
  <2>1. \/ \E s : ctxt' = After(s, "other")
        \/ ctxt' = Fresh
        \/ ctxt' = ctxt
    BY Zenon DEF PersistentChunk
  <2>2. CASE \E s : ctxt' = After(s, "other")
    <3>1. PICK s : ctxt' = After(s, "other")
      BY <2>2
    <3> QED
      BY <3>1, AfterStops
  <2>3. CASE ctxt' = Fresh
    BY <2>3 DEF Fresh
  <2>4. CASE ctxt' = ctxt
    BY <2>4, <1>1 DEF OneEngine
  <2> QED
    BY <2>1, <2>2, <2>3, <2>4, Zenon
<1>8. OneEngine'
  BY <1>1, <1>2, <1>3, <1>7 DEF OneEngine
<1>9. InputInOrder'
  <2> SUFFICES ASSUME ~closed'
               PROVE  Held' = SubSeq(doc, 1, fed + k)
    BY DEF InputInOrder
  <2>1. Held = SubSeq(doc, 1, fed)
    BY <1>1, <1>2 DEF InputInOrder
  <2>2. Held = held
    <3>1. CASE session = NoSession
      <4>1. Stashed \o CRs(push.pending) = Stashed
        BY <1>2, <1>4, <3>1, NoCRs, ConcatEmptySeq
      <4> QED
        BY <3>1, <4>1 DEF Held
    <3>2. CASE session # NoSession
      BY <3>2 DEF Held
    <3> QED
      BY <3>1, <3>2
  <2>3. (held \o Slice(k, terminate)) \o rest = SubSeq(doc, 1, fed + k)
    <3> HIDE DEF held
    <3> QED
      BY <1>1, <2>1, <2>2, Appended, Zenon
  <2>4. Held' = session'
    BY <1>5, ReplayConstants DEF Held
  <2> QED
    BY <1>3, <2>3, <2>4, Zenon
<1> QED
  BY <1>6, <1>8, <1>9 DEF IInv

\* The replay engine is asked for another session only when there is none.
LEMMA NoSessionInReplay ==
  ASSUME IInv, ReplayGuard
  PROVE  session = NoSession /\ ~ctxt.disableSAX
BY DEF IInv, OneEngine, ReplayGuard, Eligible

\* A chunk that the replay engine keeps, parsed or not.
LEMMA KeepingStep ==
  ASSUME IInv, ReplayGuard, NEW k \in Nat, fed + k <= Len(doc),
         stash' = Base(k, FALSE),
         NEW d, push' = [delivered |-> d, pending |-> Pending(k, FALSE),
                         pushContext |-> push.pushContext],
         ctxt'.disableSAX <=> ~ctxt'.wellFormed,
         ctxt'.instate = "EOF" => closed',
         session' = session,
         fed' = fed + k, doc' = doc, context' = context, closed => closed'
  PROVE  IInv'
<1>1. /\ Kept /\ OneEngine /\ InputInOrder
      /\ session = NoSession /\ ~ctxt.disableSAX
  BY NoSessionInReplay DEF IInv
<1>2. /\ Base(k, FALSE) \in Seq(Byte) /\ Pending(k, FALSE) \in Nat
      /\ Base(k, FALSE) \o CRs(Pending(k, FALSE))
           = (Stashed \o CRs(push.pending))
               \o (Slice(k, FALSE) \o CRs(Deferred(k, FALSE)))
  BY <1>1, BaseHeld, Zenon
<1>3. Kept'
  <2>1. fed' \in 0..Len(doc') /\ doc' \in Seq(Byte)
    BY <1>1 DEF Kept
  <2>2. stash' \in Seq(Byte)
    BY <1>2, Zenon
  <2>3. session' = NoSession
    BY <1>1, Zenon
  <2>4. /\ push'.delivered = d /\ push'.pending = Pending(k, FALSE)
        /\ push'.pushContext = push.pushContext
    OBVIOUS
  <2>5. push'.pending \in Nat
    BY <1>2, <2>4, Zenon
  <2>6. push' = [delivered |-> push'.delivered, pending |-> push'.pending,
                 pushContext |-> push'.pushContext]
    BY <2>4, Zenon
  <2> QED
    BY <2>1, <2>2, <2>3, <2>5, <2>6, Zenon DEF Kept
<1>4. OneEngine'
  <2>1. ~(push.pushContext /\ context = "plain")
    BY <1>1 DEF IInv, OneEngine, ReplayGuard, Eligible
  <2>2. push'.pushContext = push.pushContext
    OBVIOUS
  <2>3. session' = NoSession /\ context \in {"plain", "option"}
    BY <1>1, Zenon DEF OneEngine
  <2> QED
    BY <2>1, <2>2, <2>3, Zenon DEF OneEngine
<1>5. InputInOrder'
  <2> SUFFICES ASSUME ~closed
               PROVE  Held' = SubSeq(doc, 1, fed + k)
    BY Zenon DEF InputInOrder
  <2>1. Held = SubSeq(doc, 1, fed) /\ Held = Stashed \o CRs(push.pending)
    BY <1>1, Zenon DEF InputInOrder, Held
  <2>2. Held \o (Slice(k, FALSE) \o CRs(Deferred(k, FALSE)))
          = SubSeq(doc, 1, fed + k)
    <3>1. FALSE \in BOOLEAN
      OBVIOUS
    <3> QED
      BY <1>1, <2>1, <3>1, Appended, Zenon
  <2>3. Held' = stash' \o CRs(push'.pending)
    <3>1. stash' # NoInput
      BY <1>2, ReplayConstants, Zenon
    <3> QED
      BY <1>1, <3>1, Zenon DEF Held, Stashed
  <2>4. push'.pending = Pending(k, FALSE)
    OBVIOUS
  <2> QED
    BY <1>2, <2>1, <2>2, <2>3, <2>4, Zenon
<1> QED
  BY <1>3, <1>4, <1>5 DEF IInv

\* Any call of xmlParseChunk.
LEMMA ParseChunkStep ==
  ASSUME IInv, NEW k \in Nat, NEW terminate \in BOOLEAN,
         ParseChunk(k, terminate)
  PROVE  IInv'
<1>1. /\ fed + k <= Len(doc)
      /\ fed' = fed + k /\ closed' = (closed \/ terminate)
      /\ doc' = doc /\ context' = context
  BY DEF ParseChunk
<1>2. Kept /\ OneEngine /\ InputInOrder
  BY DEF IInv
<1>3. fed' \in 0..Len(doc')
  BY <1>1, <1>2 DEF Kept
<1>4. CASE Refuse(k, terminate)
  <2>1. /\ ctxt' = ctxt /\ push' = push /\ stash' = stash
        /\ session' = session /\ ctxt.disableSAX
    BY <1>4 DEF Refuse
  <2>2. Kept'
    BY <1>1, <1>2, <1>3, <2>1 DEF Kept
  <2>3. OneEngine'
    BY <1>1, <1>2, <2>1 DEF OneEngine
  <2>4. InputInOrder'
    BY <2>1 DEF InputInOrder
  <2> QED
    BY <2>2, <2>3, <2>4 DEF IInv
<1>5. CASE PersistentChunk(k, terminate)
  BY <1>1, <1>5, PersistentStep, Zenon
<1>6. CASE AtEof(k, terminate)
  <2>1. /\ ctxt' = ctxt /\ push' = push /\ stash' = stash
        /\ session' = session /\ ctxt.instate = "EOF"
    BY <1>6 DEF AtEof
  <2>2. closed'
    BY <1>1, <1>2, <2>1 DEF OneEngine
  <2>3. Kept'
    BY <1>1, <1>2, <1>3, <2>1 DEF Kept
  <2>4. OneEngine'
    BY <1>1, <1>2, <2>1 DEF OneEngine
  <2>5. InputInOrder'
    BY <2>2 DEF InputInOrder
  <2> QED
    BY <2>3, <2>4, <2>5 DEF IInv
<1>7. CASE terminate /\ ReplayFinal(k)
  <2>1. /\ stash' = NoInput /\ push' = NoPush /\ session' = NoSession
        /\ closed'
    BY <1>1, <1>7 DEF ReplayFinal
  <2>2. PICK s, i : ctxt' = After(s, i)
    BY <1>7, Zenon DEF ReplayFinal
  <2>3. Kept'
    BY <1>1, <1>2, <1>3, <2>1 DEF Kept, NoPush
  <2>4. OneEngine'
    BY <1>1, <1>2, <2>1, <2>2, AfterStops DEF OneEngine, NoPush
  <2>5. InputInOrder'
    BY <2>1 DEF InputInOrder
  <2> QED
    BY <2>3, <2>4, <2>5 DEF IInv
<1>8. CASE ~terminate /\ ReplayParked(k)
  <2>1. /\ ReplayGuard /\ stash' = Base(k, FALSE)
        /\ push' = [push EXCEPT !.pending = Pending(k, FALSE)]
        /\ ctxt' = ctxt /\ session' = session /\ (closed => closed')
    BY <1>1, <1>8, Zenon DEF ReplayParked
  <2>2. push' = [delivered |-> push.delivered, pending |-> Pending(k, FALSE),
                 pushContext |-> push.pushContext]
    BY <1>2, <2>1 DEF Kept
  <2>3. /\ ctxt'.disableSAX <=> ~ctxt'.wellFormed
        /\ ctxt'.instate = "EOF" => closed'
    BY <1>2, <2>1 DEF OneEngine
  <2> QED
    BY <1>1, <2>1, <2>2, <2>3, KeepingStep, Zenon
<1>9. CASE ~terminate /\ ReplayNonFinal(k)
  <2>1. /\ ReplayGuard /\ stash' = Base(k, FALSE)
        /\ session' = session /\ (closed => closed')
    BY <1>1, <1>9, Zenon DEF ReplayNonFinal
  <2>2. PICK s, d :
          /\ ctxt' = After(s, "other")
          /\ push' = [delivered |-> d, pending |-> Pending(k, FALSE),
                      pushContext |-> push.pushContext]
    BY <1>9, Zenon DEF ReplayNonFinal
  <2>3. /\ ctxt'.disableSAX <=> ~ctxt'.wellFormed
        /\ ctxt'.instate = "EOF" => closed'
    BY <2>2, AfterStops
  <2> QED
    BY <1>1, <2>1, <2>2, <2>3, KeepingStep, Zenon
<1> QED
  BY <1>4, <1>5, <1>6, <1>7, <1>8, <1>9, Zenon DEF ParseChunk, ReplayChunk

\* A context that starts with the first k bytes of d holds them.
LEMMA Starts ==
  ASSUME NEW d \in Seq(Byte), NEW k \in Nat, k <= Len(d)
  PROVE  /\ SubSeq(d, 1, k) \in Seq(Byte) /\ k \in 0..Len(d)
         /\ SubSeq(d, 1, k) \o CRs(0) = SubSeq(d, 1, k)
<1>1. SubSeq(d, 1, k) \in Seq(Byte)
  <2>1. \A i \in 1..k : d[i] \in Byte
    OBVIOUS
  <2> QED
    BY <2>1, SubSeqProperties
<1>2. k \in 0..Len(d)
  OBVIOUS
<1> QED
  BY <1>1, <1>2, NoCRs, ConcatEmptySeq

LEMMA Initially ==
  ASSUME "zeroed" \notin Contexts, Init
  PROVE  IInv
<1>1. /\ doc \in Seq(Byte) /\ fed \in Nat /\ fed <= Len(doc)
      /\ stash = SubSeq(doc, 1, fed) /\ session = NoSession
  BY ReplayConstants DEF Init, Initial
<1>2. /\ stash \in Seq(Byte) /\ fed \in 0..Len(doc)
      /\ stash \o CRs(0) = SubSeq(doc, 1, fed)
  BY <1>1, Starts, Zenon
<1>3. /\ push = [delivered |-> 0, pending |-> 0, pushContext |-> TRUE]
      /\ context \in {"plain", "option"}
      /\ ctxt = [wellFormed |-> TRUE, disableSAX |-> FALSE, instate |-> "other"]
  BY ReplayConstants DEF Init, NoPush, Fresh
<1>4. Kept
  BY <1>1, <1>2, <1>3 DEF Kept
<1>5. OneEngine
  BY <1>1, <1>3 DEF OneEngine
<1>6. InputInOrder
  <2>1. stash # NoInput
    BY <1>2, ReplayConstants, Zenon
  <2>2. Held = stash \o CRs(push.pending)
    BY <1>1, <2>1, Zenon DEF Held, Stashed
  <2>3. push.pending = 0
    BY <1>3
  <2> QED
    BY <1>2, <2>2, <2>3, Zenon DEF InputInOrder
<1> QED
  BY <1>4, <1>5, <1>6 DEF IInv

\* The context is used again, by any of the three ways.
LEMMA ReuseStep ==
  ASSUME NEW d \in Seq(Byte), NEW k \in Nat, k <= Len(d), NEW p \in BOOLEAN,
         doc' = d, fed' = k, session' = NoSession,
         \/ stash' = SubSeq(d, 1, k)
         \/ stash' = NoInput /\ k = 0,
         push' = [delivered |-> 0, pending |-> 0, pushContext |-> p],
         ctxt' = [wellFormed |-> TRUE, disableSAX |-> FALSE, instate |-> "other"],
         context' \in {"plain", "option"}
  PROVE  IInv'
<1>1. /\ SubSeq(d, 1, k) \in Seq(Byte) /\ k \in 0..Len(d)
      /\ SubSeq(d, 1, k) \o CRs(0) = SubSeq(d, 1, k)
  BY Starts
<1>2. Kept'
  BY <1>1 DEF Kept
<1>3. OneEngine'
  BY DEF OneEngine
<1>4. Held' = SubSeq(d, 1, k)
  <2>1. push'.pending = 0
    OBVIOUS
  <2>2. Held' = Stashed' \o CRs(0)
    BY <2>1, Zenon DEF Held
  <2>3. CASE stash' = SubSeq(d, 1, k)
    <3>1. stash' # NoInput
      BY <1>1, <2>3, ReplayConstants, Zenon
    <3> QED
      BY <1>1, <2>2, <2>3, <3>1, Zenon DEF Stashed
  <2>4. CASE stash' = NoInput /\ k = 0
    <3>1. SubSeq(d, 1, k) = <<>>
      BY <2>4, SubSeqEmpty
    <3> QED
      BY <1>1, <2>2, <2>4, <3>1, Zenon DEF Stashed
  <2> QED
    BY <2>3, <2>4
<1> QED
  BY <1>2, <1>3, <1>4, Zenon DEF IInv, InputInOrder

LEMMA NextStep ==
  ASSUME "zeroed" \notin Contexts, IInv, [Next]_vars
  PROVE  IInv'
<1> USE ReplayConstants
<1>1. ASSUME NEW k \in 0..MaxChunk, NEW terminate \in BOOLEAN,
             ParseChunk(k, terminate)
      PROVE  IInv'
  BY <1>1, ParseChunkStep
<1>2. context \in {"plain", "option"}
  BY DEF IInv, OneEngine
<1>3. ASSUME NEW d \in Again, NEW k \in InitialSizes, ResetPush(d, k)
      PROVE  IInv'
  <2>1. /\ d \in Seq(Byte) /\ k \in Nat /\ k <= Len(d)
        /\ doc' = d /\ fed' = k /\ session' = NoSession
        /\ stash' = SubSeq(d, 1, k) /\ context' = context
    BY <1>3 DEF ResetPush, NewDocument, Initial
  <2>2. /\ push' = [delivered |-> 0, pending |-> 0, pushContext |-> TRUE]
        /\ ctxt' = [wellFormed |-> TRUE, disableSAX |-> FALSE, instate |-> "other"]
    BY <1>3 DEF ResetPush, NoPush, Fresh
  <2> QED
    BY <1>2, <2>1, <2>2, ReuseStep, Zenon
<1>4. ASSUME NEW d \in Again, NEW k \in InitialSizes, NEW c \in Contexts,
             Recreate(d, k, c)
      PROVE  IInv'
  <2>1. /\ d \in Seq(Byte) /\ k \in Nat /\ k <= Len(d)
        /\ doc' = d /\ fed' = k /\ session' = NoSession
        /\ stash' = SubSeq(d, 1, k) /\ context' \in {"plain", "option"}
        /\ c # "zeroed"
    BY <1>4 DEF Recreate, NewDocument, Initial
  <2>2. /\ push' = [delivered |-> 0, pending |-> 0, pushContext |-> TRUE]
        /\ ctxt' = [wellFormed |-> TRUE, disableSAX |-> FALSE, instate |-> "other"]
    BY <1>4, <2>1 DEF Recreate, NoPush, Fresh
  <2> QED
    BY <2>1, <2>2, ReuseStep, Zenon
<1>5. ASSUME NEW d \in Again, Reset(d)
      PROVE  IInv'
  <2>1. /\ d \in Seq(Byte) /\ 0 \in Nat /\ 0 <= Len(d)
        /\ doc' = d /\ fed' = 0 /\ session' = NoSession
        /\ stash' = NoInput /\ context' = context
    BY <1>5 DEF Reset, NewDocument
  <2>2. /\ push' = [delivered |-> 0, pending |-> 0, pushContext |-> FALSE]
        /\ ctxt' = [wellFormed |-> TRUE, disableSAX |-> FALSE, instate |-> "other"]
    BY <1>5 DEF Reset, NoPush, Fresh
  <2> QED
    BY <1>2, <2>1, <2>2, ReuseStep, Zenon
<1>6. ASSUME UNCHANGED vars
      PROVE  IInv'
  BY <1>6 DEF vars, IInv, Kept, OneEngine, InputInOrder, Held, Stashed, CRs
<1> QED
  BY <1>1, <1>3, <1>4, <1>5, <1>6 DEF Next

\* helpers.rs:1107-1112: as long as no consumer sets wellFormed itself, a
\* context stays with one engine: a persistent session is never left for the
\* replay engine, and no `\r' is counted where the session would miss it.
THEOREM EngineIsConstant ==
  ASSUME "zeroed" \notin Contexts
  PROVE  Spec => []OneEngine
<1>1. Init => IInv
  BY Initially
<1>2. IInv /\ [Next]_vars => IInv'
  BY NextStep
<1>3. IInv => OneEngine
  BY DEF IInv
<1> QED
  BY <1>1, <1>2, <1>3, PTL DEF Spec

\* helpers.rs:1179-1205: what the engine of a context holds, with the `\r's
\* kept back, is what the consumer gave it, whatever the document, the sizes
\* of the chunks and the documents the context was used for before.
THEOREM InputIsKept ==
  ASSUME "zeroed" \notin Contexts
  PROVE  Spec => []InputInOrder
<1>1. Init => IInv
  BY Initially
<1>2. IInv /\ [Next]_vars => IInv'
  BY NextStep
<1>3. IInv => InputInOrder
  BY DEF IInv
<1> QED
  BY <1>1, <1>2, <1>3, PTL DEF Spec

-----------------------------------------------------------------------------
(* Numbers in order *)

LEMMA Upward ==
  ASSUME NEW n \in Nat, NEW A, 0 \in A,
         \A k \in 0..(n - 1) : k \in A => k + 1 \in A
  PROVE  \A k \in 0..n : k \in A
<1> DEFINE T == {k \in 0..n : k \notin A}
<1>1. SUFFICES ASSUME T # {}  PROVE FALSE
  OBVIOUS
<1>2. T \in SUBSET Nat
  OBVIOUS
<1>3. PICK m \in T : \A k \in T : ~(k < m)
  <2>1. \E m \in T : \A k \in T : ~(<<k, m>> \in OpToRel(<, Nat))
    BY <1>1, <1>2, NatLessThanWellFounded, WFMin, Zenon
  <2> QED  BY <2>1, <1>2 DEF OpToRel
<1>4. m \in 1..n
  BY <1>3
<1>5. m - 1 \in 0..(n - 1) /\ m - 1 \notin T
  <2>1. m - 1 < m /\ m - 1 \in 0..(n - 1)
    BY <1>4
  <2> HIDE DEF T
  <2> QED  BY <1>3, <2>1
<1>6. m - 1 \in A
  BY <1>5
<1>7. (m - 1) + 1 = m
  BY <1>4
<1> QED  BY <1>3, <1>5, <1>6, <1>7

IsUpto(f, S, n) ==
  f = [i \in 0..n |-> IF i = 0 THEN <<>>
                      ELSE IF i \in S THEN Append(f[i - 1], i) ELSE f[i - 1]]

LEMMA UptoExists == ASSUME NEW S, NEW n \in Nat  PROVE \E f : IsUpto(f, S, n)
<1> DEFINE A == {k \in 0..n : \E f : IsUpto(f, S, k)}
<1>1. 0 \in A
  <2>1. IsUpto([i \in 0..0 |-> <<>>], S, 0)
    BY DEF IsUpto
  <2> QED  BY <2>1
<1>2. ASSUME NEW k \in 0..(n - 1), k \in A  PROVE k + 1 \in A
  <2>1. PICK g : IsUpto(g, S, k)
    BY <1>2
  <2> DEFINE Body(f, i) == IF i = 0 THEN <<>>
                           ELSE IF i \in S THEN Append(f[i - 1], i) ELSE f[i - 1]
             h == [i \in 0..(k + 1) |-> IF i = k + 1 THEN Body(g, i) ELSE g[i]]
  <2>2. ASSUME NEW i \in 0..(k + 1)  PROVE h[i] = Body(h, i)
    <3>1. i # 0 => h[i - 1] = g[i - 1]
      OBVIOUS
    <3>2. Body(h, i) = Body(g, i)
      <4> HIDE DEF h
      <4> QED  BY <3>1
    <3>3. h[i] = Body(g, i)
      <4>1. CASE i = k + 1
        <5> HIDE DEF Body
        <5> QED  BY <4>1
      <4>2. CASE i # k + 1
        <5>1. i \in 0..k /\ h[i] = g[i]
          BY <4>2
        <5>2. g[i] = Body(g, i)
          BY <2>1, <5>1, Zenon DEF IsUpto
        <5> QED  BY <5>1, <5>2
      <4> QED  BY <4>1, <4>2
    <3> QED  BY <3>2, <3>3
  <2>3. h = [i \in 0..(k + 1) |-> h[i]]
    <3> HIDE DEF Body
    <3> QED  OBVIOUS
  <2> HIDE DEF h
  <2>4. IsUpto(h, S, k + 1)
    BY <2>2, <2>3, Zenon DEF IsUpto
  <2>5. k + 1 \in 0..n
    BY <1>2
  <2> QED  BY <2>4, <2>5
<1> HIDE DEF A
<1>3. n \in A
  BY <1>1, <1>2, Upward
<1> QED  BY <1>3 DEF A

\* f is the function by which InOrder is defined.
Orders(f, S, n) ==
  /\ f = [i \in 0..n |-> f[i]]
  /\ InOrder(S, n) = f[n] /\ f[0] = <<>>
  /\ \A i \in 1..n : f[i] = IF i \in S THEN Append(f[i - 1], i) ELSE f[i - 1]

LEMMA InOrderIs ==
  ASSUME NEW S, NEW n \in Nat
  PROVE  \E f : Orders(f, S, n)
<1> DEFINE f == CHOOSE f : IsUpto(f, S, n)
<1>1. IsUpto(f, S, n)
  BY UptoExists
<1>2. InOrder(S, n) = f[n]
  BY Zenon DEF InOrder, IsUpto
<1> HIDE DEF f
<1>3. f = [i \in 0..n |-> IF i = 0 THEN <<>>
                      ELSE IF i \in S THEN Append(f[i - 1], i) ELSE f[i - 1]]
  BY <1>1, Zenon DEF IsUpto
<1>4. \A i \in 0..n : f[i] = IF i = 0 THEN <<>>
                      ELSE IF i \in S THEN Append(f[i - 1], i) ELSE f[i - 1]
  BY <1>3, Zenon
<1>5. f[0] = <<>>
  BY <1>4
<1>6. \A i \in 1..n : f[i] = IF i \in S THEN Append(f[i - 1], i) ELSE f[i - 1]
  <2> TAKE i \in 1..n
  <2>1. i \in 0..n /\ i # 0
    OBVIOUS
  <2> QED  BY <1>4, <2>1, Zenon
<1>7. f = [i \in 0..n |-> f[i]]
  BY <1>3, Zenon
<1>8. Orders(f, S, n)
  BY <1>2, <1>5, <1>6, <1>7, Zenon DEF Orders
<1> QED  BY <1>8, Zenon

\* The recursion itself, without its function
LEMMA InOrderStep ==
  ASSUME NEW S
  PROVE  /\ InOrder(S, 0) = <<>>
         /\ \A n \in Nat : InOrder(S, n + 1) =
              IF n + 1 \in S THEN Append(InOrder(S, n), n + 1) ELSE InOrder(S, n)
<1>1. InOrder(S, 0) = <<>>
  <2>1. 0 \in Nat
    OBVIOUS
  <2>2. PICK f : Orders(f, S, 0)
    BY <2>1, InOrderIs, Zenon
  <2> QED  BY <2>2, Zenon DEF Orders
<1>2. ASSUME NEW n \in Nat
      PROVE  InOrder(S, n + 1) =
               IF n + 1 \in S THEN Append(InOrder(S, n), n + 1) ELSE InOrder(S, n)
  <2>a. PICK f : Orders(f, S, n + 1)
    <3>1. n + 1 \in Nat
      OBVIOUS
    <3> QED  BY <3>1, InOrderIs, Zenon
  <2>b. PICK g : Orders(g, S, n)
    BY InOrderIs, Zenon
  <2>1. /\ InOrder(S, n + 1) = f[n + 1] /\ f[0] = <<>>
        /\ \A i \in 1..(n + 1) :
             f[i] = IF i \in S THEN Append(f[i - 1], i) ELSE f[i - 1]
    BY <2>a, Zenon DEF Orders
  <2>2. /\ InOrder(S, n) = g[n] /\ g[0] = <<>>
        /\ \A i \in 1..n :
             g[i] = IF i \in S THEN Append(g[i - 1], i) ELSE g[i - 1]
    BY <2>b, Zenon DEF Orders
  <2>3. \A k \in 0..n : f[k] = g[k]
    <3> DEFINE A == {k \in 0..n : f[k] = g[k]}
    <3>1. 0 \in A
      BY <2>1, <2>2
    <3>2. ASSUME NEW k \in 0..(n - 1), k \in A  PROVE k + 1 \in A
      <4>1. /\ k + 1 \in 1..n /\ k + 1 \in 1..(n + 1) /\ (k + 1) - 1 = k
            /\ k + 1 \in 0..n
        BY <3>2
      <4>2. f[k] = g[k]
        BY <3>2
      <4>3. f[k + 1] = g[k + 1]
        <5>1. f[k + 1] = IF k + 1 \in S THEN Append(f[k], k + 1) ELSE f[k]
          BY <2>1, <4>1
        <5>2. g[k + 1] = IF k + 1 \in S THEN Append(g[k], k + 1) ELSE g[k]
          BY <2>2, <4>1
        <5> QED  BY <4>2, <5>1, <5>2
      <4> QED  BY <4>1, <4>3
    <3> HIDE DEF A
    <3>3. \A k \in 0..n : k \in A
      BY <3>1, <3>2, Upward
    <3> QED  BY <3>3 DEF A
  <2>4. f[n] = g[n] /\ n + 1 \in 1..(n + 1) /\ (n + 1) - 1 = n
    BY <2>3
  <2>5. f[n + 1] = IF n + 1 \in S THEN Append(f[n], n + 1) ELSE f[n]
    BY <2>1, <2>4
  <2> QED  BY <2>1, <2>2, <2>4, <2>5
<1> QED  BY <1>1, <1>2

LEMMA InOrderType ==
  ASSUME NEW S, NEW n \in Nat
  PROVE  InOrder(S, n) \in Seq(1..n) /\ InOrder(S, n) \in Seq(Nat)
<1> DEFINE A == {k \in 0..n : InOrder(S, k) \in Seq(1..n) /\ InOrder(S, k) \in Seq(Nat)}
<1>1. 0 \in A
  <2>1. 0 \in 0..n /\ <<>> \in Seq(1..n) /\ <<>> \in Seq(Nat)
    BY EmptySeq
  <2> QED  BY <2>1, InOrderStep
<1>2. ASSUME NEW k \in 0..(n - 1), k \in A  PROVE k + 1 \in A
  <2>1. /\ k \in Nat /\ k + 1 \in 1..n /\ k + 1 \in 0..n /\ k + 1 \in Nat
        /\ InOrder(S, k) \in Seq(1..n) /\ InOrder(S, k) \in Seq(Nat)
    BY <1>2
  <2>2. InOrder(S, k + 1) = IF k + 1 \in S THEN Append(InOrder(S, k), k + 1)
                            ELSE InOrder(S, k)
    BY <2>1, InOrderStep
  <2>3. /\ Append(InOrder(S, k), k + 1) \in Seq(1..n)
        /\ Append(InOrder(S, k), k + 1) \in Seq(Nat)
    BY <2>1, AppendProperties
  <2> QED  BY <2>1, <2>2, <2>3
<1> HIDE DEF A
<1>3. n \in A
  BY <1>1, <1>2, Upward
<1> QED  BY <1>3 DEF A

\* Sets that agree up to n
LEMMA InOrderSame ==
  ASSUME NEW S, NEW T, NEW n \in Nat, \A i \in 1..n : i \in S <=> i \in T
  PROVE  InOrder(S, n) = InOrder(T, n)
<1> DEFINE A == {k \in 0..n : InOrder(S, k) = InOrder(T, k)}
<1>1. 0 \in A
  BY InOrderStep
<1>2. ASSUME NEW k \in 0..(n - 1), k \in A  PROVE k + 1 \in A
  <2>1. /\ k \in Nat /\ k + 1 \in 1..n /\ k + 1 \in 0..n
        /\ InOrder(S, k) = InOrder(T, k)
    BY <1>2
  <2>2. InOrder(S, k + 1) = IF k + 1 \in S THEN Append(InOrder(S, k), k + 1)
                            ELSE InOrder(S, k)
    BY <2>1, InOrderStep
  <2>3. InOrder(T, k + 1) = IF k + 1 \in T THEN Append(InOrder(T, k), k + 1)
                            ELSE InOrder(T, k)
    BY <2>1, InOrderStep
  <2> QED  BY <2>1, <2>2, <2>3
<1> HIDE DEF A
<1>3. n \in A
  BY <1>1, <1>2, Upward
<1> QED  BY <1>3 DEF A

\* Numbers past the last one in the set
LEMMA InOrderLonger ==
  ASSUME NEW S, NEW m \in Nat, NEW n \in Nat, m <= n,
         \A i \in (m + 1)..n : i \notin S
  PROVE  InOrder(S, n) = InOrder(S, m)
<1> DEFINE A == {k \in 0..(n - m) : InOrder(S, m + k) = InOrder(S, m)}
<1>0. n - m \in Nat /\ m + 0 = m /\ m + (n - m) = n
  OBVIOUS
<1>1. 0 \in A
  BY <1>0
<1>2. ASSUME NEW k \in 0..((n - m) - 1), k \in A  PROVE k + 1 \in A
  <2>1. /\ m + k \in Nat /\ (m + k) + 1 \in (m + 1)..n /\ k + 1 \in 0..(n - m)
        /\ InOrder(S, m + k) = InOrder(S, m) /\ m + (k + 1) = (m + k) + 1
    BY <1>2
  <2>2. InOrder(S, (m + k) + 1) = IF (m + k) + 1 \in S
                                  THEN Append(InOrder(S, m + k), (m + k) + 1)
                                  ELSE InOrder(S, m + k)
    BY <2>1, InOrderStep
  <2>3. InOrder(S, m + (k + 1)) = InOrder(S, m)
    BY <2>1, <2>2
  <2> QED  BY <2>1, <2>3
<1> HIDE DEF A
<1>3. n - m \in A
  BY <1>0, <1>1, <1>2, Upward
<1> QED  BY <1>0, <1>3 DEF A

LEMMA InOrderNone ==
  ASSUME NEW S, NEW n \in Nat, \A i \in 1..n : i \notin S
  PROVE  InOrder(S, n) = <<>>
<1>1. InOrder(S, n) = InOrder(S, 0)
  <2>1. 0 \in Nat /\ 0 <= n /\ \A i \in (0 + 1)..n : i \notin S
    OBVIOUS
  <2> QED  BY <2>1, InOrderLonger, Zenon
<1> QED  BY <1>1, InOrderStep

LEMMA NumbersAssociate ==
  \A s, t, u \in Seq(Nat) : (s \o t) \o u = s \o (t \o u)
<1> TAKE s, t, u \in Seq(Nat)
<1>1. s \in Seq(Nat) /\ t \in Seq(Nat) /\ u \in Seq(Nat)
  OBVIOUS
<1> QED  BY ONLY <1>1, ConcatAssociative, SMTT(60)

\* Up to n, U is S and then T.
Follows(U, S, T, n) ==
  /\ \A i \in 1..n : i \in U <=> (i \in S \/ i \in T)
  /\ \A i \in 1..n, j \in 1..n : i \in S /\ j \in T => i < j

\* First those of one set, then those of another
LEMMA InOrderJoin ==
  ASSUME NEW U, NEW S, NEW T, NEW n \in Nat, Follows(U, S, T, n)
  PROVE  InOrder(U, n) = InOrder(S, n) \o InOrder(T, n)
<1>0. /\ \A i \in 1..n : i \in U <=> (i \in S \/ i \in T)
      /\ \A i \in 1..n, j \in 1..n : i \in S /\ j \in T => i < j
  BY DEF Follows
<1> DEFINE A == {k \in 0..n : InOrder(U, k) = InOrder(S, k) \o InOrder(T, k)}
<1>1. 0 \in A
  <2>1. /\ InOrder(U, 0) = <<>> /\ InOrder(S, 0) = <<>> /\ InOrder(T, 0) = <<>>
    BY InOrderStep
  <2>2. <<>> \o <<>> = <<>>
    BY EmptySeq, ConcatEmptySeq
  <2>3. InOrder(U, 0) = InOrder(S, 0) \o InOrder(T, 0)
    BY <2>1, <2>2, Zenon
  <2>4. 0 \in 0..n
    OBVIOUS
  <2> QED  BY <2>3, <2>4
<1>2. ASSUME NEW k \in 0..(n - 1), k \in A  PROVE k + 1 \in A
  <2>1. /\ k \in Nat /\ k + 1 \in 1..n /\ k + 1 \in 0..n /\ k + 1 \in Nat
        /\ InOrder(U, k) = InOrder(S, k) \o InOrder(T, k)
    BY <1>2
  <2>2. /\ InOrder(U, k + 1) = (IF k + 1 \in U THEN Append(InOrder(U, k), k + 1)
                                               ELSE InOrder(U, k))
        /\ InOrder(S, k + 1) = (IF k + 1 \in S THEN Append(InOrder(S, k), k + 1)
                                               ELSE InOrder(S, k))
        /\ InOrder(T, k + 1) = (IF k + 1 \in T THEN Append(InOrder(T, k), k + 1)
                                               ELSE InOrder(T, k))
    BY <2>1, InOrderStep
  <2>3. /\ InOrder(S, k) \in Seq(Nat) /\ InOrder(T, k) \in Seq(Nat)
    BY <2>1, InOrderType
  <2>4. CASE k + 1 \in T
    <3>1. k + 1 \in U /\ k + 1 \notin S
      <4>1. ~(k + 1 < k + 1)
        BY <2>1
      <4> QED  BY <1>0, <2>1, <2>4, <4>1
    <3>2. Append(InOrder(S, k) \o InOrder(T, k), k + 1)
            = InOrder(S, k) \o Append(InOrder(T, k), k + 1)
      <4>1. /\ InOrder(S, k) \o InOrder(T, k) \in Seq(Nat)
            /\ <<k + 1>> \in Seq(Nat)
        BY <2>1, <2>3, ConcatProperties
      <4>2. /\ Append(InOrder(S, k) \o InOrder(T, k), k + 1)
                 = (InOrder(S, k) \o InOrder(T, k)) \o <<k + 1>>
            /\ Append(InOrder(T, k), k + 1) = InOrder(T, k) \o <<k + 1>>
        BY <2>1, <2>3, <4>1, AppendIsConcat
      <4>3. (InOrder(S, k) \o InOrder(T, k)) \o <<k + 1>>
              = InOrder(S, k) \o (InOrder(T, k) \o <<k + 1>>)
        BY <2>3, <4>1, NumbersAssociate
      <4> QED  BY <4>2, <4>3
    <3> QED  BY <2>1, <2>2, <2>4, <3>1, <3>2
  <2>5. CASE k + 1 \in S
    <3>1. \A i \in 1..k : i \notin T
      <4> SUFFICES ASSUME NEW i \in 1..k, i \in T  PROVE FALSE
        OBVIOUS
      <4>1. i \in 1..n /\ ~(k + 1 < i)
        BY <2>1
      <4> QED  BY <1>0, <2>1, <2>5, <4>1
    <3>2. InOrder(T, k) = <<>>
      BY <2>1, <3>1, InOrderNone
    <3>3. k + 1 \in U /\ k + 1 \notin T
      <4>1. ~(k + 1 < k + 1)
        BY <2>1
      <4> QED  BY <1>0, <2>1, <2>5, <4>1
    <3>4. /\ InOrder(S, k) \o <<>> = InOrder(S, k)
          /\ Append(InOrder(S, k), k + 1) \o <<>> = Append(InOrder(S, k), k + 1)
      BY <2>1, <2>3
    <3>5. /\ InOrder(U, k + 1) = Append(InOrder(S, k), k + 1)
          /\ InOrder(S, k + 1) = Append(InOrder(S, k), k + 1)
          /\ InOrder(T, k + 1) = <<>>
      BY <2>1, <2>2, <2>5, <3>2, <3>3, <3>4
    <3>6. InOrder(U, k + 1) = InOrder(S, k + 1) \o InOrder(T, k + 1)
      BY <3>4, <3>5, Zenon
    <3> QED  BY <2>1, <3>6
  <2>6. CASE k + 1 \notin S /\ k + 1 \notin T
    BY <1>0, <2>1, <2>2, <2>6
  <2> QED  BY <2>4, <2>5, <2>6
<1> HIDE DEF A
<1>3. n \in A
  BY <1>1, <1>2, Upward
<1> QED  BY <1>3 DEF A

-----------------------------------------------------------------------------
(* The items of a document *)

Fine == doc \in Seq(Byte) /\ Ordinary(doc)

\* A line break of two bytes begins at i.
Pair(i) == i < Len(doc) /\ doc[i].kind = "cr" /\ doc[i + 1].kind = "lf"

LEMMA Kinds ==
  ASSUME Fine, NEW i \in 1..Len(doc)
  PROVE  /\ doc[i].kind \in Markup \cup Text /\ doc[i].kind # "wide"
         /\ doc[i].last \in BOOLEAN
         /\ doc[i].kind \in Text => doc[i].last
         /\ doc[i].kind \in Markup /\ doc[i].last =>
              /\ i > 1 /\ doc[i - 1].kind = doc[i].kind /\ ~doc[i - 1].last
         /\ doc[i].kind \in Markup /\ ~doc[i].last /\ i < Len(doc) =>
              doc[i + 1].kind = doc[i].kind /\ doc[i + 1].last
         /\ doc[i].kind = "pi" =>
              Before(doc, i, {"open", "empty"}) = {} \/ Depth(doc, i) # 0
<1>1. doc[i] \in Byte /\ Len(doc) \in Nat
  BY DEF Fine
<1>2. doc[i].kind \in Markup \cup Text /\ doc[i].last \in BOOLEAN
  BY <1>1 DEF Byte
<1>3. /\ doc[i].kind # "wide"
      /\ doc[i].kind \in Text => doc[i].last
      /\ doc[i].kind \in Markup => IF doc[i].last
           THEN i > 1 /\ doc[i - 1] = [kind |-> doc[i].kind, last |-> FALSE]
           ELSE i < Len(doc) => doc[i + 1] = [kind |-> doc[i].kind, last |-> TRUE]
      /\ doc[i].kind = "pi" =>
           Before(doc, i, {"open", "empty"}) = {} \/ Depth(doc, i) # 0
  BY DEF Fine, Ordinary
<1>4. doc[i].kind \in Markup /\ doc[i].last =>
        /\ i > 1 /\ doc[i - 1].kind = doc[i].kind /\ ~doc[i - 1].last
  BY <1>3
<1>5. doc[i].kind \in Markup /\ ~doc[i].last /\ i < Len(doc) =>
        doc[i + 1].kind = doc[i].kind /\ doc[i + 1].last
  BY <1>3
<1> QED  BY <1>2, <1>3, <1>4, <1>5

LEMMA Disjoint == Markup \cap Text = {}
  BY DEF Markup, Text

\* Where items begin and end
LEMMA Items ==
  ASSUME Fine, NEW p \in 1..Len(doc)
  PROVE  /\ doc[p].kind \in Markup => /\ IsItem(p) <=> ~doc[p].last
                                      /\ ItemEnd(p) = p + 1
         /\ doc[p].kind \in Text => /\ IsItem(p) <=> ~(p > 1 /\ Pair(p - 1))
                                    /\ ItemEnd(p) = IF Pair(p) THEN p + 1 ELSE p
<1>0. p \in Nat /\ Len(doc) \in Nat
  BY DEF Fine
<1>1. ItemEnd(p) = IF doc[p].kind \in Markup \/ Pair(p) THEN p + 1 ELSE p
  BY Kinds DEF ItemEnd, Pair
<1>2. doc[p].kind \in Markup => ~Pair(p)
  BY DEF Pair, Markup
<1>3. CASE p = 1
  <2>1. IsItem(p)
    BY <1>3 DEF IsItem, Begins
  <2>2. doc[p].kind \in Markup => ~doc[p].last
    BY <1>3, Kinds
  <2> QED  BY <1>0, <1>1, <1>2, <1>3, <2>1, <2>2, Disjoint
<1>4. CASE p # 1
  <2>1. p - 1 \in 1..Len(doc) /\ p - 1 < Len(doc) /\ (p - 1) + 1 = p
    BY <1>0, <1>4
  <2>2. IsItem(p) <=> doc[p - 1].last /\ ~Pair(p - 1)
    BY <1>4, <2>1 DEF IsItem, Begins, GoesOn, Pair
  <2>3. ~doc[p - 1].last => doc[p].kind \in Markup /\ doc[p].last
    <3>1. ~doc[p - 1].last => doc[p - 1].kind \in Markup
      BY <2>1, Kinds
    <3>2. /\ doc[p - 1].kind \in Markup /\ ~doc[p - 1].last =>
               doc[p].kind = doc[p - 1].kind /\ doc[p].last
      BY <2>1, Kinds
    <3> QED  BY <3>1, <3>2
  <2>4. Pair(p - 1) => doc[p].kind = "lf"
    BY <2>1 DEF Pair
  <2>5. doc[p].kind \in Markup /\ doc[p].last => ~doc[p - 1].last
    BY Kinds
  <2>6. "lf" \in Text
    BY DEF Text
  <2>7. doc[p].kind \in Markup => (IsItem(p) <=> ~doc[p].last)
    BY <2>2, <2>3, <2>4, <2>5, <2>6, Disjoint
  <2>8. doc[p].kind \in Text => (IsItem(p) <=> ~(p > 1 /\ Pair(p - 1)))
    <3>1. p > 1
      BY <1>0, <1>4
    <3> QED  BY <2>2, <2>3, <3>1, Disjoint
  <2> QED  BY <1>1, <1>2, <2>7, <2>8, Disjoint
<1> QED  BY <1>3, <1>4

LEMMA BeforeStep ==
  ASSUME NEW p \in Nat \ {0}, NEW kinds
  PROVE  /\ IsFiniteSet(Before(doc, p, kinds))
         /\ Cardinality(Before(doc, p, kinds)) \in Nat
         /\ Before(doc, p + 1, kinds) =
              IF IsItem(p) /\ doc[p].kind \in kinds
              THEN Before(doc, p, kinds) \cup {p} ELSE Before(doc, p, kinds)
         /\ Cardinality(Before(doc, p + 1, kinds)) =
              IF IsItem(p) /\ doc[p].kind \in kinds
              THEN Cardinality(Before(doc, p, kinds)) + 1
              ELSE Cardinality(Before(doc, p, kinds))
<1>1. IsFiniteSet(Before(doc, p, kinds)) /\ p \notin Before(doc, p, kinds)
  <2>1. IsFiniteSet(1..(p - 1))
    BY FS_Interval
  <2>2. Before(doc, p, kinds) \in SUBSET (1..(p - 1))
    BY DEF Before
  <2>3. p \notin 1..(p - 1)
    OBVIOUS
  <2> QED  BY <2>1, <2>2, <2>3, FS_Subset
<1>2. Before(doc, p + 1, kinds) =
        IF IsItem(p) /\ doc[p].kind \in kinds
        THEN Before(doc, p, kinds) \cup {p} ELSE Before(doc, p, kinds)
  <2>1. \A q : q \in 1..((p + 1) - 1) <=> (q \in 1..(p - 1) \/ q = p)
    OBVIOUS
  <2>2. \A q : q \in Before(doc, p + 1, kinds) <=>
                 \/ q \in Before(doc, p, kinds)
                 \/ q = p /\ IsItem(p) /\ doc[p].kind \in kinds
    BY <2>1, Zenon DEF Before, IsItem
  <2> QED  BY <2>2
<1>3. Cardinality(Before(doc, p, kinds)) \in Nat
  BY <1>1, FS_CardinalityType
<1>4. Cardinality(Before(doc, p, kinds) \cup {p}) = Cardinality(Before(doc, p, kinds)) + 1
  BY <1>1, FS_AddElement
<1> QED  BY <1>1, <1>2, <1>3, <1>4

\* How markup changes the depth
Change(kind) ==
  IF kind = "open" THEN 1 ELSE IF kind \in {"close", "stray"} THEN 0 - 1 ELSE 0

LEMMA AtFirst == DepthAt(1) = 0 /\ ~RootBegun(1)
<1>1. \A kinds : Before(doc, 1, kinds) = {}
  BY DEF Before
<1> QED  BY <1>1, FS_EmptySet DEF DepthAt, Depth, RootBegun

LEMMA DepthStep ==
  ASSUME NEW p \in Nat \ {0}
  PROVE  /\ DepthAt(p) \in Int
         /\ DepthAt(p + 1) = DepthAt(p) + (IF IsItem(p) THEN Change(doc[p].kind) ELSE 0)
         /\ RootBegun(p + 1) <=>
              RootBegun(p) \/ (IsItem(p) /\ doc[p].kind \in {"open", "empty"})
<1> DEFINE a == Cardinality(Before(doc, p, {"open"}))
           b == Cardinality(Before(doc, p, {"close", "stray"}))
           c == Cardinality(Before(doc, p + 1, {"open"}))
           d == Cardinality(Before(doc, p + 1, {"close", "stray"}))
<1>1. /\ a \in Nat /\ b \in Nat
      /\ c = (IF IsItem(p) /\ doc[p].kind \in {"open"} THEN a + 1 ELSE a)
      /\ d = (IF IsItem(p) /\ doc[p].kind \in {"close", "stray"} THEN b + 1 ELSE b)
  BY BeforeStep
<1>2. DepthAt(p) = a - b /\ DepthAt(p + 1) = c - d
  BY DEF DepthAt, Depth
<1>3. DepthAt(p) \in Int
  BY <1>1, <1>2
<1> HIDE DEF a, b, c, d
<1>4. DepthAt(p + 1) = DepthAt(p) + (IF IsItem(p) THEN Change(doc[p].kind) ELSE 0)
  BY <1>1, <1>2 DEF Change
<1>5. RootBegun(p + 1) <=>
              RootBegun(p) \/ (IsItem(p) /\ doc[p].kind \in {"open", "empty"})
  <2>1. Before(doc, p + 1, {"open", "empty"}) =
              IF IsItem(p) /\ doc[p].kind \in {"open", "empty"}
              THEN Before(doc, p, {"open", "empty"}) \cup {p}
              ELSE Before(doc, p, {"open", "empty"})
    BY BeforeStep
  <2> QED  BY <2>1 DEF RootBegun
<1> QED  BY <1>3, <1>4, <1>5

LEMMA MarkupStep ==
  ASSUME Fine, NEW p \in 1..Len(doc), p < Len(doc), IsItem(p), doc[p].kind \in Markup
  PROVE  /\ ~IsItem(p + 1) /\ (p + 2 <= Len(doc) => IsItem(p + 2))
         /\ doc[p + 1].last
         /\ DepthAt(p + 2) = DepthAt(p) + Change(doc[p].kind)
         /\ RootBegun(p + 2) <=> RootBegun(p) \/ doc[p].kind \in {"open", "empty"}
<1>0. p \in Nat /\ Len(doc) \in Nat /\ (p + 1) + 1 = p + 2 /\ (p + 2) - 1 = p + 1
  BY DEF Fine
<1>1. ~doc[p].last
  BY Items
<1>2. doc[p + 1].kind = doc[p].kind /\ doc[p + 1].last
  BY <1>1, Kinds
<1>3. ~IsItem(p + 1)
  <2>1. p + 1 \in 1..Len(doc)
    BY <1>0
  <2> QED  BY <1>2, <2>1, Items
<1>4. p + 2 <= Len(doc) => IsItem(p + 2)
  <2> SUFFICES ASSUME p + 2 <= Len(doc)  PROVE IsItem(p + 2)
    OBVIOUS
  <2>1. p + 2 \in 1..Len(doc) /\ p + 2 # 1
    BY <1>0
  <2>2. doc[p + 1].kind # "cr"
    BY <1>2 DEF Markup
  <2> QED  BY <1>0, <1>2, <2>1, <2>2 DEF IsItem, Begins, GoesOn
<1>5. /\ DepthAt(p) \in Int
      /\ DepthAt(p + 1) = DepthAt(p) + Change(doc[p].kind)
      /\ RootBegun(p + 1) <=> RootBegun(p) \/ doc[p].kind \in {"open", "empty"}
  <2>1. p \in Nat \ {0}
    BY <1>0
  <2> QED  BY <2>1, DepthStep
<1>6. /\ DepthAt((p + 1) + 1) = DepthAt(p + 1) + 0 /\ DepthAt(p + 1) \in Int
      /\ RootBegun((p + 1) + 1) <=> RootBegun(p + 1)
  <2>1. p + 1 \in Nat \ {0}
    BY <1>0
  <2> QED  BY <1>3, <2>1, DepthStep
<1>7. DepthAt(p + 2) = DepthAt(p + 1) /\ (RootBegun(p + 2) <=> RootBegun(p + 1))
  BY <1>0, <1>6
<1> QED  BY <1>2, <1>3, <1>4, <1>5, <1>7

\* Text changes nothing.
LEMMA TextRun ==
  ASSUME Fine, NEW p \in Nat \ {0}, NEW e \in Nat, p <= e, e <= Len(doc),
         \A i \in p..e : doc[i].kind \in Text
  PROVE  \A q \in p..(e + 1) :
           DepthAt(q) = DepthAt(p) /\ (RootBegun(q) <=> RootBegun(p))
<1> DEFINE Same(q) == DepthAt(q) = DepthAt(p) /\ (RootBegun(q) <=> RootBegun(p))
           A == {k \in Nat : Same(p + k)}
           n == (e + 1) - p
<1>0. n \in Nat
  OBVIOUS
<1>1. 0 \in A
  <2>1. p + 0 = p /\ 0 \in Nat
    OBVIOUS
  <2> QED  BY <2>1
<1>2. ASSUME NEW k \in 0..(n - 1), k \in A  PROVE k + 1 \in A
  <2>1. /\ p + k \in Nat \ {0} /\ p + (k + 1) = (p + k) + 1 /\ k + 1 \in Nat
        /\ p + k \in p..e
    BY <1>0
  <2>2. Same(p + k)
    BY <1>2
  <2>3. doc[p + k].kind \in Text
    BY <2>1
  <2>4. /\ Change(doc[p + k].kind) = 0
        /\ doc[p + k].kind \notin {"open", "empty"}
    BY <2>3 DEF Change, Text
  <2>5. /\ DepthAt((p + k) + 1) = DepthAt(p + k) + 0 /\ DepthAt(p + k) \in Int
        /\ RootBegun((p + k) + 1) <=> RootBegun(p + k)
    BY <2>1, <2>4, DepthStep
  <2>6. DepthAt((p + k) + 1) = DepthAt(p + k)
    BY <2>5
  <2>7. Same(p + (k + 1))
    BY <2>1, <2>2, <2>5, <2>6
  <2> HIDE DEF Same
  <2> QED  BY <2>1, <2>7
<1> HIDE DEF A, Same
<1>3. \A k \in 0..n : k \in A
  BY <1>0, <1>1, <1>2, Upward, Zenon
<1>4. ASSUME NEW q \in p..(e + 1)  PROVE Same(q)
  <2>1. q - p \in 0..n /\ p + (q - p) = q
    OBVIOUS
  <2> QED  BY <1>3, <2>1 DEF A
<1> QED  BY <1>4 DEF Same

-----------------------------------------------------------------------------
(* What is told of a document *)

\* The items told of up to m whose end lies beyond b
ToldPast(m, b) == {p \in 1..m : Told(p, m) /\ ItemEnd(p) > b}
Report(m, b) == InOrder(ToldPast(m, b), m)

LEMMA ItemEnds ==
  ASSUME Fine, NEW p \in 1..Len(doc)
  PROVE  /\ ItemEnd(p) \in {p, p + 1}
         /\ IsItem(p) /\ ItemEnd(p) = p + 1 /\ p < Len(doc) => ~IsItem(p + 1)
<1>0. p \in Nat /\ Len(doc) \in Nat
  BY DEF Fine
<1>1. ItemEnd(p) \in {p, p + 1}
  BY DEF ItemEnd
<1>2. ASSUME IsItem(p), ItemEnd(p) = p + 1, p < Len(doc)  PROVE ~IsItem(p + 1)
  <2>1. CASE doc[p].kind \in Markup
    BY <1>2, <2>1, MarkupStep
  <2>2. CASE doc[p].kind \notin Markup
    <3>1. Pair(p)
      BY <1>0, <1>2, <2>2, Kinds, Items
    <3>2. p + 1 \in 1..Len(doc) /\ (p + 1) - 1 = p /\ p + 1 > 1
      BY <1>0, <1>2
    <3>3. doc[p + 1].kind \in Text
      BY <3>1 DEF Pair, Text
    <3> QED  BY <3>1, <3>2, <3>3, Items
  <2> QED  BY <2>1, <2>2
<1> QED  BY <1>1, <1>2

LEMMA Ordered ==
  ASSUME Fine, NEW p \in 1..Len(doc), NEW q \in 1..Len(doc), IsItem(p), IsItem(q)
  PROVE  /\ p < q => ItemEnd(p) < q
         /\ p <= q => ItemEnd(p) <= ItemEnd(q)
<1>0. p \in Nat /\ q \in Nat /\ Len(doc) \in Nat
  BY DEF Fine
<1>1. /\ ItemEnd(p) \in {p, p + 1} /\ ItemEnd(q) \in {q, q + 1}
      /\ ItemEnd(p) = p + 1 /\ p < Len(doc) => ~IsItem(p + 1)
  BY ItemEnds
<1>2. ASSUME p < q  PROVE ItemEnd(p) < q
  <2>1. ItemEnd(p) = p + 1 => q # p + 1
    BY <1>0, <1>1, <1>2
  <2> QED  BY <1>0, <1>1, <1>2, <2>1
<1>3. p = q => ItemEnd(p) = ItemEnd(q)
  OBVIOUS
<1> QED  BY <1>0, <1>1, <1>2, <1>3

LEMMA ToldWithin ==
  ASSUME Fine, NEW m \in Nat, m <= Len(doc), NEW p \in 1..Len(doc), Told(p, m)
  PROVE  /\ p <= m /\ IsItem(p) /\ ItemEnd(p) \in Nat
         /\ \A n \in Nat : m <= n => Told(p, n)
         /\ \A b \in Nat : Told(p, b) <=> ItemEnd(p) <= b
<1>1. IsItem(p) /\ ItemEnd(p) <= m
  BY DEF Told
<1>2. ItemEnd(p) \in {p, p + 1} /\ p \in Nat
  BY ItemEnds
<1>3. \A b \in Nat : Told(p, b) <=> ItemEnd(p) <= b
  BY DEF Told
<1> QED  BY <1>1, <1>2, <1>3

\* Two bounds with the same items before them
LEMMA SameReport ==
  ASSUME Fine, NEW m \in Nat, NEW n \in Nat, m <= n, n <= Len(doc), NEW b,
         \A p \in 1..n : Told(p, n) => Told(p, m)
  PROVE  Report(m, b) = Report(n, b)
<1>1. \A p \in 1..n : p \in ToldPast(n, b) <=> p \in ToldPast(m, b)
  <2> TAKE p \in 1..n
  <2>0. p \in 1..Len(doc) /\ p \in Nat
    BY DEF Fine
  <2>1. Told(p, m) => p <= m /\ Told(p, n)
    BY <2>0, ToldWithin
  <2>2. Told(p, m) => p \in 1..m
    BY <2>0, <2>1
  <2> QED  BY <2>1, <2>2 DEF ToldPast
<1>2. Report(n, b) = InOrder(ToldPast(m, b), n)
  BY <1>1, InOrderSame DEF Report
<1>3. InOrder(ToldPast(m, b), n) = InOrder(ToldPast(m, b), m)
  <2>1. \A i \in (m + 1)..n : i \notin ToldPast(m, b)
    BY DEF ToldPast
  <2> QED  BY <2>1, InOrderLonger
<1> QED  BY <1>2, <1>3 DEF Report

LEMMA ExpectedIsReport ==
  ASSUME Fine, NEW n \in Nat, n <= Len(doc)
  PROVE  Expected(n) = Report(n, 0)
<1>1. \A p \in 1..n : ItemEnd(p) > 0
  <2> TAKE p \in 1..n
  <2>1. p \in 1..Len(doc)
    BY DEF Fine
  <2> QED  BY <2>1, ItemEnds
<1>2. {p \in 1..n : Told(p, n)} = ToldPast(n, 0)
  BY <1>1 DEF ToldPast
<1> QED  BY <1>2 DEF Expected, Report

LEMMA SameExpected ==
  ASSUME Fine, NEW m \in Nat, NEW n \in Nat, m <= n, n <= Len(doc),
         \A p \in 1..n : Told(p, n) => Told(p, m)
  PROVE  Expected(m) = Expected(n)
<1>1. m <= Len(doc)
  BY DEF Fine
<1> QED  BY <1>1, SameReport, ExpectedIsReport

\* What was told before, and then the rest
LEMMA Joined ==
  ASSUME Fine, NEW b \in Nat, NEW n \in Nat, b <= n, n <= Len(doc)
  PROVE  Expected(b) \o Report(n, b) = Expected(n)
<1> DEFINE U == {p \in 1..n : Told(p, n)}
           S == {p \in 1..b : Told(p, b)}
           T == ToldPast(n, b)
<1>0. Len(doc) \in Nat /\ b <= Len(doc)
  BY DEF Fine
<1>1. \A p \in 1..n : p \in U <=> (p \in S \/ p \in T)
  <2> TAKE p \in 1..n
  <2>0. p \in 1..Len(doc) /\ p \in Nat
    BY <1>0
  <2>1. Told(p, n) => ItemEnd(p) \in Nat /\ (Told(p, b) <=> ItemEnd(p) <= b)
    BY <2>0, ToldWithin
  <2>2. Told(p, b) => Told(p, n) /\ p \in 1..b
    BY <1>0, <2>0, ToldWithin
  <2>3. Told(p, n) => (Told(p, b) \/ ItemEnd(p) > b)
    BY <2>1
  <2> QED  BY <2>2, <2>3 DEF ToldPast
<1>2. \A i \in 1..n, j \in 1..n : i \in S /\ j \in T => i < j
  <2> SUFFICES ASSUME NEW i \in 1..n, NEW j \in 1..n, i \in S, j \in T  PROVE i < j
    OBVIOUS
  <2>0. i \in 1..Len(doc) /\ j \in 1..Len(doc)
    BY <1>0
  <2>1. IsItem(i) /\ ItemEnd(i) <= b /\ IsItem(j) /\ ItemEnd(j) > b
    BY DEF Told, ToldPast
  <2>2. j <= i => ItemEnd(j) <= ItemEnd(i)
    BY <2>0, <2>1, Ordered
  <2>3. ItemEnd(i) \in Nat /\ ItemEnd(j) \in Nat
    BY <2>0, ItemEnds
  <2> QED  BY <2>0, <2>1, <2>2, <2>3
<1>3. InOrder(U, n) = InOrder(S, n) \o InOrder(T, n)
  <2> HIDE DEF U, S, T
  <2>1. Follows(U, S, T, n)
    BY <1>1, <1>2 DEF Follows
  <2> QED  BY <2>1, InOrderJoin
<1>4. InOrder(S, n) = InOrder(S, b)
  <2>1. \A i \in (b + 1)..n : i \notin S
    OBVIOUS
  <2> HIDE DEF S
  <2> QED  BY <2>1, InOrderLonger
<1>5. /\ Expected(n) = InOrder(U, n) /\ Expected(b) = InOrder(S, b)
      /\ Report(n, b) = InOrder(T, n)
  BY Zenon DEF Expected, Report
<1> HIDE DEF U, S, T
<1> QED  BY <1>3, <1>4, <1>5

LEMMA ExpectedType ==
  ASSUME NEW n \in Nat, NEW b
  PROVE  Expected(n) \in Seq(Nat) /\ Report(n, b) \in Seq(Nat)
BY InOrderType DEF Expected, Report

LEMMA ExpectedGrows ==
  ASSUME Fine, NEW m \in Nat, NEW n \in Nat, m <= n, n <= Len(doc)
  PROVE  IsPrefix(Expected(m), Expected(n))
<1> DEFINE s == Expected(m)
           t == Report(n, m)
<1>1. Expected(n) = s \o t
  BY Joined
<1>2. s \in Seq(Nat) /\ t \in Seq(Nat)
  BY ExpectedType
<1> HIDE DEF s, t
<1>3. IsPrefix(s, s \o t)
  <2>1. /\ Len(s) \in Nat /\ Len(t) \in Nat
        /\ s \o t \in Seq(Nat) /\ Len(s \o t) = Len(s) + Len(t)
        /\ \A i \in 1..(Len(s) + Len(t)) :
             (s \o t)[i] = IF i <= Len(s) THEN s[i] ELSE t[i - Len(s)]
    BY <1>2, ConcatProperties, LenProperties
  <2>2. \A i \in 1..Len(s) : i \in 1..(Len(s) + Len(t)) /\ (s \o t)[i] = s[i]
    BY <2>1
  <2>3. SubSeq(s \o t, 1, Len(s)) = SubSeq(s, 1, Len(s))
    <3>1. \A i \in 1..Len(s) : s[i] \in Nat /\ (s \o t)[i] \in Nat
      BY <1>2, <2>2
    <3>2. /\ SubSeq(s, 1, Len(s)) \in Seq(Nat) /\ SubSeq(s \o t, 1, Len(s)) \in Seq(Nat)
          /\ Len(SubSeq(s, 1, Len(s))) = Len(SubSeq(s \o t, 1, Len(s)))
          /\ Len(SubSeq(s, 1, Len(s))) = Len(s)
          /\ \A i \in 1..Len(s) : SubSeq(s, 1, Len(s))[i] = SubSeq(s \o t, 1, Len(s))[i]
      BY <2>1, <2>2, <3>1, SubSeqProperties
    <3> QED  BY <3>2, SeqEqual
  <2> QED  BY <2>1, <2>3 DEF IsPrefix
<1> QED  BY <1>1, <1>3 DEF s

\* Nothing is told after what is wrong.
LEMMA WrongStops ==
  ASSUME Fine, NEW m \in Nat, NEW n \in Nat, m <= n, n <= Len(doc), WrongWithin(m)
  PROVE  WrongWithin(n) /\ Expected(m) = Expected(n)
<1>0. Len(doc) \in Nat
  BY DEF Fine
<1>1. PICK q \in 1..m : IsItem(q) /\ ItemEnd(q) <= m /\ Wrong(q)
  BY DEF WrongWithin
<1>2. q \in 1..Len(doc) /\ q \in 1..n /\ q \in Nat /\ ItemEnd(q) \in Nat
  BY <1>0, ItemEnds
<1>3. WrongWithin(n)
  BY <1>1, <1>2 DEF WrongWithin
<1>4. ASSUME NEW p \in 1..n, Told(p, n)  PROVE Told(p, m)
  <2>0. p \in 1..Len(doc) /\ p \in Nat
    BY <1>0
  <2>1. ~(q \in 1..p)
    BY <1>1, <1>4 DEF Told
  <2>2. p < q
    BY <1>2, <2>0, <2>1
  <2>3. IsItem(p) /\ ItemEnd(p) < q /\ ItemEnd(p) \in Nat
    <3>1. IsItem(p)
      BY <1>4 DEF Told
    <3> QED  BY <1>1, <1>2, <2>0, <2>2, <3>1, Ordered, ItemEnds
  <2>4. ItemEnd(p) <= m
    BY <1>2, <2>3
  <2> QED  BY <1>4, <2>0, <2>4, ToldWithin
<1>5. Expected(m) = Expected(n)
  BY <1>4, SameExpected
<1> QED  BY <1>3, <1>5

\* The first byte of markup, alone, says nothing.
LEMMA CutSaysNothing ==
  ASSUME Fine, NEW n \in 1..Len(doc), doc[n].kind \in Markup, IsItem(n)
  PROVE  \A p \in 1..n : Told(p, n) => Told(p, n - 1)
<1>0. n \in Nat /\ n - 1 \in Nat /\ Len(doc) \in Nat
  BY DEF Fine
<1> SUFFICES ASSUME NEW p \in 1..n, Told(p, n)  PROVE Told(p, n - 1)
  OBVIOUS
<1>1. p \in 1..Len(doc) /\ IsItem(p) /\ ItemEnd(p) <= n /\ ItemEnd(p) \in Nat
  <2>1. p \in 1..Len(doc)
    BY <1>0
  <2> QED  BY <1>0, <2>1, ToldWithin, ItemEnds DEF Told
<1>2. ItemEnd(n) = n + 1
  BY Items
<1>3. p # n
  BY <1>0, <1>1, <1>2
<1>4. ItemEnd(p) < n
  BY <1>0, <1>1, <1>3, Ordered
<1> QED  BY <1>0, <1>1, <1>4, ToldWithin

-----------------------------------------------------------------------------
(* What has been read of a document without an error *)

Inside(p) == DepthAt(p) > 0
Seen(p) == IsItem(p) /\ (doc[p].kind \in Text => Inside(p))

\* The next item begins at q: what precedes is right, and whole as far as it
\* is told.
Passed(q) ==
  /\ \A r \in 1..(q - 1) : IsItem(r) => ~Wrong(r)
  /\ \A r \in 1..(q - 1) : Seen(r) => ItemEnd(r) <= q - 1
  /\ DepthAt(q) >= 0
  /\ ~RootBegun(q) => DepthAt(q) = 0
  /\ q > 1 => doc[q - 1].last

LEMMA ReportAdds ==
  ASSUME Fine, NEW a \in Nat, NEW e \in Nat, a <= e, NEW b, NEW X,
         \A r \in 1..e : r \in ToldPast(e, b) <=> (r \in ToldPast(a, b) \/ r \in X),
         \A r \in 1..e : r \in X => r > a
  PROVE  Report(e, b) = Report(a, b) \o InOrder(X, e)
<1>1. \A i \in 1..e, j \in 1..e : i \in ToldPast(a, b) /\ j \in X => i < j
  <2> SUFFICES ASSUME NEW i \in 1..e, NEW j \in 1..e, i \in ToldPast(a, b), j \in X
               PROVE  i < j
    OBVIOUS
  <2>1. i <= a /\ j > a
    BY DEF ToldPast
  <2> QED  BY <2>1
<1>2. InOrder(ToldPast(e, b), e) = InOrder(ToldPast(a, b), e) \o InOrder(X, e)
  <2> DEFINE U == ToldPast(e, b)
             S == ToldPast(a, b)
  <2>1. \A i \in 1..e : i \in U <=> (i \in S \/ i \in X)
    OBVIOUS
  <2>2. \A i \in 1..e, j \in 1..e : i \in S /\ j \in X => i < j
    BY <1>1
  <2> HIDE DEF U, S
  <2>3. Follows(U, S, X, e)
    BY <2>1, <2>2 DEF Follows
  <2>4. InOrder(U, e) = InOrder(S, e) \o InOrder(X, e)
    BY <2>3, InOrderJoin
  <2> QED  BY <2>4 DEF U, S
<1>3. InOrder(ToldPast(a, b), e) = InOrder(ToldPast(a, b), a)
  <2>1. \A i \in (a + 1)..e : i \notin ToldPast(a, b)
    BY DEF ToldPast
  <2> QED  BY <2>1, InOrderLonger
<1> QED  BY <1>2, <1>3 DEF Report

\* What was told before p is what can be told of it.
LEMMA PassedIsTold ==
  ASSUME Fine, NEW p \in Nat \ {0}, Passed(p), NEW m \in Nat, p - 1 <= m, m <= Len(doc),
         NEW r \in 1..m
  PROVE  /\ r < p => (Told(r, m) <=> Told(r, p - 1))
         /\ Told(r, p - 1) => r < p
<1>0. Len(doc) \in Nat /\ r \in Nat /\ p - 1 \in Nat /\ p - 1 <= Len(doc) /\ r \in 1..Len(doc)
  BY DEF Fine
<1>1. ASSUME r < p, Told(r, m)  PROVE Told(r, p - 1)
  <2>1. r \in 1..(p - 1)
    BY <1>0, <1>1
  <2>2. Seen(r)
    BY <1>1 DEF Told, Seen, Inside
  <2>3. ItemEnd(r) <= p - 1
    BY <2>1, <2>2 DEF Passed
  <2> QED  BY <1>0, <1>1, <2>3, ToldWithin
<1>2. Told(r, p - 1) => Told(r, m) /\ r <= p - 1
  BY <1>0, ToldWithin
<1> QED  BY <1>0, <1>1, <1>2

\* White space around the root
LEMMA SpacePasses ==
  ASSUME Fine, NEW p \in Nat \ {0}, NEW e \in Nat, p <= e, e <= Len(doc), Passed(p),
         \A i \in p..e : doc[i].kind \in {"blank", "cr", "lf"}, DepthAt(p) = 0, NEW b
  PROVE  Passed(e + 1) /\ Report(p - 1, b) = Report(e, b)
<1>0. Len(doc) \in Nat /\ p - 1 \in Nat /\ (e + 1) - 1 = e /\ p - 1 <= e
  BY DEF Fine
<1>1. \A i \in p..e : doc[i].kind \in Text
  BY DEF Text
<1>2. \A q \in p..(e + 1) : DepthAt(q) = 0 /\ (RootBegun(q) <=> RootBegun(p))
  BY <1>1, TextRun
<1>3. \A r \in p..e : ~Wrong(r) /\ ~Seen(r)
  BY <1>0, <1>1, <1>2 DEF Wrong, Seen, Inside
<1>4. Passed(e + 1)
  <2>1. \A r \in 1..e : IsItem(r) => ~Wrong(r)
    BY <1>0, <1>3 DEF Passed
  <2>2. \A r \in 1..e : Seen(r) => ItemEnd(r) <= e
    <3> SUFFICES ASSUME NEW r \in 1..e, Seen(r)  PROVE ItemEnd(r) <= e
      OBVIOUS
    <3>1. r \in 1..(p - 1)
      BY <1>0, <1>3
    <3>2. ItemEnd(r) <= p - 1 /\ ItemEnd(r) \in Nat
      <4>1. r \in 1..Len(doc)
        BY <1>0
      <4> QED  BY <3>1, <4>1, ItemEnds DEF Passed
    <3> QED  BY <1>0, <3>2
  <2>3. DepthAt(e + 1) = 0
    BY <1>0, <1>2
  <2>4. doc[e].last
    <3>1. e \in 1..Len(doc) /\ e \in p..e
      BY <1>0
    <3> QED  BY <1>1, <3>1, Kinds
  <2> QED  BY <1>0, <2>1, <2>2, <2>3, <2>4 DEF Passed
<1>5. \A r \in 1..e : Told(r, e) => Told(r, p - 1)
  <2> SUFFICES ASSUME NEW r \in 1..e, Told(r, e)  PROVE Told(r, p - 1)
    OBVIOUS
  <2>1. r < p
    <3>1. Seen(r)
      BY DEF Told, Seen, Inside
    <3> QED  BY <1>0, <1>3, <3>1
  <2> QED  BY <1>0, <2>1, PassedIsTold
<1> QED  BY <1>0, <1>4, <1>5, SameReport

\* Nothing is told from p to the first thing that is wrong, nor after it.
LEMMA WrongFound ==
  ASSUME Fine, NEW p \in Nat \ {0}, NEW n \in Nat, n <= Len(doc), Passed(p),
         NEW i \in p..n, IsItem(i), Wrong(i), ItemEnd(i) <= n,
         \A r \in p..i : doc[r].kind \in Text => DepthAt(r) = 0,
         \A r \in p..(i - 1) : doc[r].kind \in Text, NEW b
  PROVE  WrongWithin(n) /\ Report(p - 1, b) = Report(n, b)
<1>0. Len(doc) \in Nat /\ p - 1 \in Nat /\ p - 1 <= n
  BY DEF Fine
<1>1. WrongWithin(n)
  BY DEF WrongWithin
<1>2. \A r \in 1..n : Told(r, n) => Told(r, p - 1)
  <2> SUFFICES ASSUME NEW r \in 1..n, Told(r, n)  PROVE Told(r, p - 1)
    OBVIOUS
  <2>1. r < i
    <3>1. ~(i \in 1..r)
      BY DEF Told
    <3> QED  BY <3>1
  <2>2. r < p
    <3>1. ~(r \in p..(i - 1))
      <4> SUFFICES ASSUME r \in p..(i - 1)  PROVE FALSE
        OBVIOUS
      <4>1. doc[r].kind \in Text /\ DepthAt(r) = 0
        OBVIOUS
      <4> QED  BY <4>1 DEF Told
    <3> QED  BY <2>1, <3>1
  <2> QED  BY <1>0, <2>2, PassedIsTold
<1> QED  BY <1>0, <1>1, <1>2, SameReport

\* Characters around the root are wrong.
LEMMA TextOutside ==
  ASSUME Fine, NEW p \in Nat \ {0}, NEW e \in Nat, NEW n \in Nat, p <= e, e <= n,
         n <= Len(doc), Passed(p), DepthAt(p) = 0,
         \A i \in p..e : doc[i].kind \in Text,
         \E i \in p..e : doc[i].kind \notin {"blank", "cr", "lf"}, NEW b
  PROVE  WrongWithin(n) /\ Report(p - 1, b) = Report(n, b)
<1>0. Len(doc) \in Nat
  BY DEF Fine
<1>1. PICK i \in p..e : doc[i].kind \notin {"blank", "cr", "lf"}
  OBVIOUS
<1>2. i \in 1..Len(doc) /\ i \in p..n /\ i \in Nat
  BY <1>0
<1>3. doc[i].kind = "char"
  BY <1>1, <1>2, Kinds DEF Text
<1>4. \A q \in p..(e + 1) : DepthAt(q) = 0 /\ (RootBegun(q) <=> RootBegun(p))
  <2>1. /\ Fine /\ p \in Nat \ {0} /\ e \in Nat /\ p <= e /\ e <= Len(doc)
        /\ \A r \in p..e : doc[r].kind \in Text
    BY <1>0
  <2>2. \A q \in p..(e + 1) : DepthAt(q) = DepthAt(p) /\ (RootBegun(q) <=> RootBegun(p))
    BY ONLY <2>1, TextRun, Z3
  <2> QED  BY <2>2, Zenon
<1>5. Wrong(i)
  BY <1>2, <1>3, <1>4 DEF Wrong
<1>6. IsItem(i) /\ ItemEnd(i) <= n
  <2>1. ~Pair(i)
    BY <1>3 DEF Pair
  <2>2. i > 1 => ~Pair(i - 1)
    BY <1>2, <1>3 DEF Pair
  <2> QED  BY <1>1, <1>2, <2>1, <2>2, Items
<1>7. /\ \A r \in p..i : doc[r].kind \in Text => DepthAt(r) = 0
      /\ \A r \in p..(i - 1) : doc[r].kind \in Text
  BY <1>2, <1>4
<1>8. Fine /\ p \in Nat \ {0} /\ n \in Nat /\ n <= Len(doc) /\ Passed(p)
  OBVIOUS
<1> QED  BY ONLY <1>2, <1>5, <1>6, <1>7, <1>8, WrongFound, Z3

\* Text of the root's content
LEMMA TextPasses ==
  ASSUME Fine, NEW p \in Nat \ {0}, NEW e \in Nat, p <= e, e <= Len(doc), Passed(p),
         \A i \in p..e : doc[i].kind \in Text, Inside(p), ~Pair(e),
         NEW b \in Nat, e <= b \/ b < p
  PROVE  /\ Passed(e + 1)
         /\ Report(e, b) = IF e <= b THEN Report(p - 1, b)
                           ELSE Report(p - 1, b) \o InOrder({i \in p..e : IsItem(i)}, e)
<1>0. Len(doc) \in Nat /\ p - 1 \in Nat /\ (e + 1) - 1 = e /\ p - 1 <= e
  BY DEF Fine
<1>1. \A q \in p..(e + 1) : DepthAt(q) = DepthAt(p) /\ (RootBegun(q) <=> RootBegun(p))
  <2>1. /\ Fine /\ p \in Nat \ {0} /\ e \in Nat /\ p <= e /\ e <= Len(doc)
        /\ \A i \in p..e : doc[i].kind \in Text
    BY <1>0
  <2> QED  BY ONLY <2>1, TextRun, Z3
<1>2. DepthAt(p) > 0 /\ DepthAt(p) \in Int /\ RootBegun(p)
  BY DepthStep DEF Inside, Passed
<1>3. \A r \in p..e : ~Wrong(r)
  <2> TAKE r \in p..e
  <2>1. DepthAt(r) # 0 /\ RootBegun(r)
    BY <1>1, <1>2
  <2> QED  BY <2>1 DEF Wrong, Text
<1>4. \A r \in p..e : IsItem(r) => ItemEnd(r) \in r..e
  <2> SUFFICES ASSUME NEW r \in p..e, IsItem(r)  PROVE ItemEnd(r) \in r..e
    OBVIOUS
  <2>1. r \in 1..Len(doc) /\ doc[r].kind \in Text
    BY <1>0
  <2>2. ItemEnd(r) = IF Pair(r) THEN r + 1 ELSE r
    BY <2>1, Items
  <2> QED  BY <2>2
<1>5. Passed(e + 1)
  <2>1. \A r \in 1..e : IsItem(r) => ~Wrong(r)
    BY <1>0, <1>3 DEF Passed
  <2>2. \A r \in 1..e : Seen(r) => ItemEnd(r) <= e
    <3> SUFFICES ASSUME NEW r \in 1..e, Seen(r)  PROVE ItemEnd(r) <= e
      OBVIOUS
    <3>1. CASE r \in p..e
      BY <1>4, <3>1 DEF Seen
    <3>2. CASE r \in 1..(p - 1)
      <4>1. r \in 1..Len(doc)
        BY <1>0
      <4>2. ItemEnd(r) <= p - 1 /\ ItemEnd(r) \in Nat
        BY <3>2, <4>1, ItemEnds DEF Passed
      <4> QED  BY <1>0, <4>2
    <3> QED  BY <1>0, <3>1, <3>2
  <2>3. DepthAt(e + 1) = DepthAt(p) /\ RootBegun(e + 1)
    BY <1>0, <1>1, <1>2
  <2>4. doc[e].last
    <3>1. e \in 1..Len(doc) /\ e \in p..e
      BY <1>0
    <3> QED  BY <3>1, Kinds
  <2>5. DepthAt(e + 1) >= 0
    BY <1>2, <2>3
  <2> QED  BY <1>0, <2>1, <2>2, <2>3, <2>4, <2>5 DEF Passed
<1>6. \A r \in 1..e : r < p => (Told(r, e) <=> Told(r, p - 1))
  BY <1>0, PassedIsTold
<1>7. \A r \in 1..e : Told(r, p - 1) => r < p
  BY <1>0, PassedIsTold
<1>8. \A r \in p..e : Told(r, e) <=> IsItem(r)
  <2> TAKE r \in p..e
  <2>1. \A q \in 1..r : IsItem(q) => ~Wrong(q)
    BY <1>0, <1>3 DEF Passed
  <2>2. doc[r].kind \in Text => DepthAt(r) > 0
    BY <1>1, <1>2
  <2> QED  BY <1>4, <2>1, <2>2 DEF Told
<1>9. CASE e <= b
  <2>1. \A r \in 1..e : r \in ToldPast(e, b) <=> (r \in ToldPast(p - 1, b) \/ r \in {})
    <3> TAKE r \in 1..e
    <3>1. CASE r \in p..e
      <4>1. r \notin ToldPast(e, b)
        <5>1. IsItem(r) => ~(ItemEnd(r) > b)
          BY <1>4, <1>9, <3>1
        <5> QED  BY <5>1 DEF ToldPast, Told
      <4>2. r \notin ToldPast(p - 1, b)
        BY <3>1 DEF ToldPast
      <4> QED  BY <4>1, <4>2
    <3>2. CASE r < p
      <4>1. r \in 1..(p - 1)
        BY <1>0, <3>2
      <4> QED  BY <1>6, <3>2, <4>1 DEF ToldPast
    <3> QED  BY <1>0, <3>1, <3>2
  <2>2. Report(e, b) = Report(p - 1, b) \o InOrder({}, e)
    <3> DEFINE X == {}
               a == p - 1
    <3>1. \A r \in 1..e : r \in ToldPast(e, b) <=> (r \in ToldPast(a, b) \/ r \in X)
      BY <2>1
    <3>2. \A r \in 1..e : r \in X => r > a
      OBVIOUS
    <3>3. a \in Nat /\ a <= e
      BY <1>0
    <3> HIDE DEF X, a
    <3>4. Report(e, b) = Report(a, b) \o InOrder(X, e)
      BY ONLY Fine, <3>1, <3>2, <3>3, e \in Nat, ReportAdds, Z3
    <3> QED  BY <3>4 DEF X, a
  <2>3. InOrder({}, e) = <<>> /\ Report(p - 1, b) \in Seq(Nat)
    BY <1>0, InOrderNone, ExpectedType
  <2> QED  BY <1>5, <1>9, <2>2, <2>3, ConcatEmptySeq
<1>10. CASE b < p /\ ~(e <= b)
  <2> DEFINE X == {i \in p..e : IsItem(i)}
  <2>1. \A r \in 1..e : r \in ToldPast(e, b) <=> (r \in ToldPast(p - 1, b) \/ r \in X)
    <3> TAKE r \in 1..e
    <3>1. CASE r \in p..e
      <4>1. r \in ToldPast(e, b) <=> IsItem(r)
        <5>1. IsItem(r) => ItemEnd(r) > b
          BY <1>4, <1>10, <3>1
        <5> QED  BY <1>8, <3>1, <5>1 DEF ToldPast, Told
      <4>2. r \notin ToldPast(p - 1, b)
        BY <3>1 DEF ToldPast
      <4> QED  BY <3>1, <4>1, <4>2
    <3>2. CASE r < p
      <4>1. r \in 1..(p - 1) /\ r \notin X
        BY <1>0, <3>2
      <4> QED  BY <1>6, <3>2, <4>1 DEF ToldPast
    <3> QED  BY <1>0, <3>1, <3>2
  <2>2. \A r \in 1..e : r \in X => r > p - 1
    BY <1>0
  <2> HIDE DEF X
  <2>3. Report(e, b) = Report(p - 1, b) \o InOrder(X, e)
    <3> DEFINE a == p - 1
    <3>1. \A r \in 1..e : r \in ToldPast(e, b) <=> (r \in ToldPast(a, b) \/ r \in X)
      BY <2>1
    <3>2. \A r \in 1..e : r \in X => r > a
      BY <2>2
    <3>3. a \in Nat /\ a <= e
      BY <1>0
    <3> HIDE DEF a
    <3>4. Report(e, b) = Report(a, b) \o InOrder(X, e)
      BY ONLY Fine, <3>1, <3>2, <3>3, e \in Nat, ReportAdds, Z3
    <3> QED  BY <3>4 DEF a
  <2> QED  BY <1>5, <1>10, <2>3 DEF X
<1> QED  BY <1>9, <1>10

\* Markup that is whole
LEMMA MarkupPasses ==
  ASSUME Fine, NEW p \in 1..Len(doc), p < Len(doc), Passed(p), IsItem(p),
         doc[p].kind \in Markup, ~Wrong(p), NEW b \in Nat
  PROVE  /\ Passed(p + 2)
         /\ Report(p + 1, b) = IF p + 1 <= b THEN Report(p - 1, b)
                               ELSE Report(p - 1, b) \o <<p>>
<1>0. /\ Len(doc) \in Nat /\ p - 1 \in Nat /\ (p + 2) - 1 = p + 1 /\ p - 1 <= p + 1
      /\ p \in Nat \ {0}
  BY DEF Fine
<1>1. /\ ~IsItem(p + 1) /\ doc[p + 1].last
      /\ DepthAt(p + 2) = DepthAt(p) + Change(doc[p].kind)
      /\ RootBegun(p + 2) <=> RootBegun(p) \/ doc[p].kind \in {"open", "empty"}
  BY MarkupStep
<1>2. ItemEnd(p) = p + 1
  BY Items
<1>3. Passed(p + 2)
  <2>1. \A r \in 1..(p + 1) : IsItem(r) => ~Wrong(r)
    <3> TAKE r \in 1..(p + 1)
    <3>1. r \in 1..(p - 1) \/ r = p \/ r = p + 1
      BY <1>0
    <3> QED  BY <1>1, <3>1 DEF Passed
  <2>2. \A r \in 1..(p + 1) : Seen(r) => ItemEnd(r) <= p + 1
    <3> SUFFICES ASSUME NEW r \in 1..(p + 1), Seen(r)  PROVE ItemEnd(r) <= p + 1
      OBVIOUS
    <3>1. r # p + 1
      BY <1>1 DEF Seen
    <3>2. CASE r = p
      BY <1>2, <3>2
    <3>3. CASE r \in 1..(p - 1)
      <4>1. ItemEnd(r) <= p - 1 /\ ItemEnd(r) \in Nat
        <5>1. r \in 1..Len(doc)
          BY <1>0, <3>3
        <5> QED  BY <3>3, <5>1, ItemEnds DEF Passed
      <4> QED  BY <1>0, <4>1
    <3> QED  BY <1>0, <3>1, <3>2, <3>3
  <2>3. DepthAt(p) \in Int /\ DepthAt(p) >= 0 /\ (~RootBegun(p) => DepthAt(p) = 0)
    BY <1>0, DepthStep DEF Passed
  <2>4. doc[p].kind = "close" => RootBegun(p) /\ DepthAt(p) # 0
    BY DEF Wrong
  <2>5. doc[p].kind # "stray"
    BY DEF Wrong
  <2>6. DepthAt(p + 2) >= 0
    <3>1. CASE doc[p].kind = "close"
      BY <1>1, <2>3, <2>4, <3>1 DEF Change
    <3>2. CASE doc[p].kind # "close"
      BY <1>1, <2>3, <2>5, <3>2 DEF Change
    <3> QED  BY <3>1, <3>2
  <2>7. ~RootBegun(p + 2) => DepthAt(p + 2) = 0
    <3> SUFFICES ASSUME ~RootBegun(p + 2)  PROVE DepthAt(p + 2) = 0
      OBVIOUS
    <3>1. ~RootBegun(p) /\ doc[p].kind \notin {"open", "close", "stray"}
      BY <1>1, <2>4, <2>5
    <3> QED  BY <1>1, <2>3, <3>1 DEF Change
  <2> QED  BY <1>0, <1>1, <2>1, <2>2, <2>6, <2>7 DEF Passed
<1>4. p + 1 <= Len(doc) /\ p + 1 \in Nat
  BY <1>0
<1>5. \A r \in 1..(p + 1) : r < p => (Told(r, p + 1) <=> Told(r, p - 1))
  BY <1>0, <1>4, PassedIsTold
<1>6. Told(p, p + 1)
  <2>1. \A q \in 1..p : IsItem(q) => ~Wrong(q)
    <3> TAKE q \in 1..p
    <3>1. q \in 1..(p - 1) \/ q = p
      BY <1>0
    <3> QED  BY <3>1 DEF Passed
  <2> QED  BY <1>0, <1>2, <2>1, Disjoint DEF Told
<1>7. ~Told(p + 1, p + 1)
  BY <1>1 DEF Told
<1> DEFINE X == IF p + 1 <= b THEN {} ELSE {p}
<1>8. \A r \in 1..(p + 1) :
        r \in ToldPast(p + 1, b) <=> (r \in ToldPast(p - 1, b) \/ r \in X)
  <2> TAKE r \in 1..(p + 1)
  <2>1. CASE r < p
    <3>1. r \in 1..(p - 1) /\ r \notin X
      BY <1>0, <2>1
    <3> QED  BY <1>5, <2>1, <3>1 DEF ToldPast
  <2>2. CASE r = p
    <3>1. r \notin ToldPast(p - 1, b)
      BY <1>0, <2>2 DEF ToldPast
    <3>2. r \in ToldPast(p + 1, b) <=> p + 1 > b
      BY <1>0, <1>2, <1>6, <2>2 DEF ToldPast
    <3> QED  BY <1>0, <2>2, <3>1, <3>2
  <2>3. CASE r = p + 1
    <3>1. r \notin ToldPast(p - 1, b) /\ r \notin X
      BY <1>0, <2>3 DEF ToldPast
    <3> QED  BY <1>7, <2>3, <3>1 DEF ToldPast
  <2> QED  BY <1>0, <2>1, <2>2, <2>3
<1>9. \A r \in 1..(p + 1) : r \in X => r > p - 1
  BY <1>0
<1>10. Report(p + 1, b) = Report(p - 1, b) \o InOrder(X, p + 1)
  <2> DEFINE a == p - 1
             e == p + 1
  <2>1. \A r \in 1..e : r \in ToldPast(e, b) <=> (r \in ToldPast(a, b) \/ r \in X)
    BY <1>8
  <2>2. \A r \in 1..e : r \in X => r > a
    BY <1>9
  <2>3. a \in Nat /\ e \in Nat /\ a <= e
    BY <1>0, <1>4
  <2> HIDE DEF X, a, e
  <2>4. Report(e, b) = Report(a, b) \o InOrder(X, e)
    BY ONLY Fine, <2>1, <2>2, <2>3, ReportAdds, Z3
  <2> QED  BY <2>4 DEF a, e
<1>11. CASE p + 1 <= b
  <2>1. X = {}
    BY <1>11
  <2>2. InOrder({}, p + 1) = <<>> /\ Report(p - 1, b) \in Seq(Nat)
    BY <1>0, <1>4, InOrderNone, ExpectedType
  <2> HIDE DEF X
  <2> QED  BY <1>3, <1>10, <1>11, <2>1, <2>2, ConcatEmptySeq
<1>12. CASE ~(p + 1 <= b)
  <2>1. X = {p}
    BY <1>12
  <2>2. InOrder({p}, p + 1) = <<p>>
    <3>1. InOrder({p}, p + 1) = InOrder({p}, p)
      <4>1. \A i \in (p + 1)..(p + 1) : i \notin {p}
        BY <1>0
      <4> QED  BY <1>0, <1>4, <4>1, InOrderLonger
    <3>2. InOrder({p}, p - 1) = <<>>
      <4>1. \A i \in 1..(p - 1) : i \notin {p}
        BY <1>0
      <4> QED  BY <1>0, <4>1, InOrderNone
    <3>3. InOrder({p}, (p - 1) + 1) = Append(InOrder({p}, p - 1), (p - 1) + 1)
      <4>1. (p - 1) + 1 \in {p}
        BY <1>0
      <4> QED  BY <1>0, <4>1, InOrderStep
    <3>4. (p - 1) + 1 = p /\ Append(<<>>, p) = <<p>>
      BY <1>0
    <3> QED  BY <3>1, <3>2, <3>3, <3>4
  <2> HIDE DEF X
  <2> QED  BY <1>3, <1>10, <1>12, <2>1, <2>2
<1> QED  BY <1>11, <1>12

\* Markup that is wrong
LEMMA MarkupWrong ==
  ASSUME Fine, NEW n \in Nat, n <= Len(doc), NEW p \in 1..n, p < n, Passed(p), IsItem(p),
         doc[p].kind \in Markup, Wrong(p), NEW b
  PROVE  WrongWithin(n) /\ Report(p - 1, b) = Report(n, b)
<1>0. Len(doc) \in Nat /\ p \in Nat \ {0} /\ p \in 1..Len(doc) /\ p \in p..n
  BY DEF Fine
<1>1. ItemEnd(p) <= n
  BY <1>0, Items
<1>2. /\ \A r \in p..p : doc[r].kind \in Text => DepthAt(r) = 0
      /\ \A r \in p..(p - 1) : doc[r].kind \in Text
  BY <1>0, Disjoint
<1> QED  BY <1>0, <1>1, <1>2, WrongFound

-----------------------------------------------------------------------------
(* The parser over the first n bytes of the document *)

IsRun(f, in, b, mode, n) ==
  f = [p \in 0..n |-> IF p = 0 THEN Start ELSE Token(f[p - 1], in, p, mode, b)]

LEMMA RunExists ==
  ASSUME NEW in, NEW b, NEW mode, NEW n \in Nat  PROVE \E f : IsRun(f, in, b, mode, n)
<1> DEFINE A == {k \in 0..n : \E f : IsRun(f, in, b, mode, k)}
<1>1. 0 \in A
  <2>1. IsRun([p \in 0..0 |-> Start], in, b, mode, 0)
    BY DEF IsRun
  <2> QED  BY <2>1
<1>2. ASSUME NEW k \in 0..(n - 1), k \in A  PROVE k + 1 \in A
  <2>1. PICK g : IsRun(g, in, b, mode, k)
    BY <1>2
  <2> DEFINE Body(f, p) == IF p = 0 THEN Start ELSE Token(f[p - 1], in, p, mode, b)
             h == [p \in 0..(k + 1) |-> IF p = k + 1 THEN Body(g, p) ELSE g[p]]
  <2>2. ASSUME NEW p \in 0..(k + 1)  PROVE h[p] = Body(h, p)
    <3>1. p # 0 => h[p - 1] = g[p - 1]
      OBVIOUS
    <3>2. Body(h, p) = Body(g, p)
      <4> HIDE DEF h
      <4> QED  BY <3>1
    <3>3. h[p] = Body(g, p)
      <4>1. CASE p = k + 1
        <5> HIDE DEF Body
        <5> QED  BY <4>1
      <4>2. CASE p # k + 1
        <5>1. p \in 0..k /\ h[p] = g[p]
          BY <4>2
        <5>2. g[p] = Body(g, p)
          <6>1. g = [q \in 0..k |-> Body(g, q)]
            BY <2>1 DEF IsRun
          <6> HIDE DEF Body, h
          <6> QED  BY <5>1, <6>1
        <5> HIDE DEF Body, h
        <5> QED  BY <5>1, <5>2
      <4> QED  BY <4>1, <4>2
    <3> HIDE DEF Body, h
    <3> QED  BY <3>2, <3>3
  <2>3. h = [p \in 0..(k + 1) |-> h[p]]
    OBVIOUS
  <2>4. h = [p \in 0..(k + 1) |-> Body(h, p)]
    <3> HIDE DEF Body, h
    <3> QED  BY <2>2, <2>3
  <2>5. IsRun(h, in, b, mode, k + 1)
    <3> HIDE DEF h
    <3> QED  BY <2>4 DEF IsRun
  <2> HIDE DEF h
  <2> QED  BY <2>5
<1>3. \A k \in 0..n : k \in A
  <2> HIDE DEF A
  <2> QED  BY <1>1, <1>2, Upward
<1> QED  BY <1>3

\* Tokens is the last of the states of a run.
LEMMA TokensRun ==
  ASSUME NEW in, Len(in) \in Nat, NEW b, NEW mode
  PROVE  \E f : /\ Tokens(in, b, mode) = f[Len(in)] /\ f[0] = Start
                /\ \A p \in 1..Len(in) : f[p] = Token(f[p - 1], in, p, mode, b)
<1> DEFINE n == Len(in)
           f == CHOOSE g : IsRun(g, in, b, mode, n)
<1>1. IsRun(f, in, b, mode, n)
  BY RunExists, Zenon
<1>2. Tokens(in, b, mode) = f[n]
  BY Zenon DEF Tokens, IsRun
<1> HIDE DEF f
<1>3. f[0] = Start
  BY <1>1 DEF IsRun
<1>4. \A p \in 1..n : f[p] = Token(f[p - 1], in, p, mode, b)
  <2> TAKE p \in 1..n
  <2>1. p \in 0..n /\ p # 0
    OBVIOUS
  <2> QED  BY <1>1, <2>1 DEF IsRun
<1> QED  BY <1>2, <1>3, <1>4

LEMMA Greatest ==
  ASSUME NEW n \in Nat, NEW S, S # {}, \A x \in S : x \in 0..n
  PROVE  Max(S) \in S /\ \A x \in S : x <= Max(S)
<1> DEFINE A == {k \in 0..n : \/ \A x \in S : x > k
                              \/ \E x \in S : x <= k /\ \A y \in S : y <= k => y <= x}
<1>1. 0 \in A
  <2>1. CASE 0 \in S
    BY <2>1
  <2>2. CASE 0 \notin S
    BY <2>2
  <2> QED  BY <2>1, <2>2
<1>2. ASSUME NEW k \in 0..(n - 1), k \in A  PROVE k + 1 \in A
  <2>1. CASE k + 1 \in S
    <3>1. k + 1 <= k + 1 /\ \A y \in S : y <= k + 1 => y <= k + 1
      OBVIOUS
    <3> QED  BY <2>1, <3>1
  <2>2. CASE k + 1 \notin S
    <3>1. \A x \in S : x <= k + 1 <=> x <= k
      BY <2>2
    <3>2. CASE \A x \in S : x > k
      BY <3>1, <3>2
    <3>3. CASE \E x \in S : x <= k /\ \A y \in S : y <= k => y <= x
      BY <3>1, <3>3
    <3> QED  BY <1>2, <3>2, <3>3
  <2> QED  BY <2>1, <2>2
<1>3. n \in A
  <2>1. \A k \in 0..n : k \in A
    <3> HIDE DEF A
    <3> QED  BY <1>1, <1>2, Upward
  <2> HIDE DEF A
  <2> QED  BY <2>1
<1>4. PICK x \in S : \A y \in S : y <= x
  BY <1>3
<1>5. \A y \in S : x >= y
  BY <1>4
<1>6. Max(S) \in S /\ \A y \in S : Max(S) >= y
  BY <1>5, Zenon DEF Max
<1> QED  BY <1>6

Modes == {"probe", "partial", "resume", "driver"}

\* What the callers of the parser keep to: where a delivery ends no line break
\* of the content is split, and the input does not end in one unless the
\* parser waits for what follows.
Reading(in, n, b, mode) ==
  /\ Fine /\ n \in 0..Len(doc)
  /\ in \in Seq(Byte) /\ Len(in) = n /\ \A i \in 1..n : in[i] = doc[i]
  /\ b \in 0..n /\ mode \in Modes
  /\ b > 0 /\ Pair(b) => ~Inside(b)
  /\ mode # "driver" /\ n > 0 => ~Pair(n)
  /\ mode = "driver" /\ b > 0 =>
       /\ doc[b].last
       /\ Inside(b + 1) /\ doc[b].kind \in Text =>
            b < n /\ doc[b + 1].kind \in Markup

LEMMA Numbers ==
  ASSUME NEW in, NEW n, NEW b, NEW mode, Reading(in, n, b, mode)
  PROVE  /\ n \in Nat /\ b \in Nat /\ b <= n /\ n <= Len(doc) /\ Len(doc) \in Nat
         /\ Fine /\ Len(in) = n /\ mode \in Modes
         /\ \A i \in 1..n : i \in 1..Len(doc) /\ in[i] = doc[i]
  BY DEF Reading, Fine

LEMMA SameBegins ==
  ASSUME NEW in, NEW n, NEW b, NEW mode, Reading(in, n, b, mode)
  PROVE  /\ \A i \in 1..(n - 1) : GoesOn(in, i) <=> GoesOn(doc, i)
         /\ \A i \in 1..n : Begins(in, i) <=> IsItem(i)
         /\ \A i \in 1..(n - 1) : in[i].kind \in Text => (GoesOn(in, i) <=> Pair(i))
<1>0. /\ n \in Nat /\ n <= Len(doc) /\ Len(doc) \in Nat
      /\ Fine /\ \A i \in 1..n : i \in 1..Len(doc) /\ in[i] = doc[i]
  BY Numbers
<1>1. \A i \in 1..(n - 1) : GoesOn(in, i) <=> GoesOn(doc, i)
  <2> TAKE i \in 1..(n - 1)
  <2>1. in[i] = doc[i] /\ in[i + 1] = doc[i + 1]
    BY <1>0
  <2> QED  BY <2>1 DEF GoesOn
<1>2. \A i \in 1..n : Begins(in, i) <=> IsItem(i)
  <2> TAKE i \in 1..n
  <2>1. i = 1 \/ i - 1 \in 1..(n - 1)
    BY <1>0
  <2> QED  BY <1>1, <2>1 DEF Begins, IsItem
<1>3. \A i \in 1..(n - 1) : in[i].kind \in Text => (GoesOn(in, i) <=> Pair(i))
  <2> TAKE i \in 1..(n - 1)
  <2>1. i \in 1..Len(doc) /\ i < Len(doc) /\ in[i] = doc[i]
    BY <1>0
  <2>2. doc[i].kind \in Text => doc[i].last
    BY <1>0, <2>1, Kinds
  <2> QED  BY <1>1, <2>1, <2>2 DEF GoesOn, Pair
<1> QED  BY <1>1, <1>2, <1>3

\* Where a run of text ends
LEMMA TextEnd ==
  ASSUME NEW in, NEW n, NEW b, NEW mode, Reading(in, n, b, mode),
         NEW p \in 1..n, doc[p].kind \in Text, NEW e, e = TokenEnd(in, p, b)
  PROVE  /\ e \in p..n /\ e \in Nat
         /\ \A i \in p..e : doc[i].kind \in Text
         /\ e < n => IsItem(e + 1)
         /\ e < n /\ doc[e + 1].kind \notin Markup =>
              p <= b /\ ((e = b /\ ~Pair(b)) \/ (e = b + 1 /\ Pair(b)))
         /\ p <= b /\ b < e => e = b + 1 /\ Pair(b)
<1>0. /\ n \in Nat /\ b \in Nat /\ b <= n /\ n <= Len(doc) /\ Len(doc) \in Nat
      /\ Fine /\ Len(in) = n /\ p \in Nat /\ p \in 1..Len(doc)
  BY Numbers
<1>1. \A i \in 1..n : i \in 1..Len(doc) /\ in[i] = doc[i]
  BY Numbers
<1> DEFINE S == {q \in p..Len(in) : \A i \in p..q : in[i].kind \in Text}
           run == Max(S)
<1>2. S # {} /\ \A x \in S : x \in 0..n
  <2>1. p \in S
    BY <1>0, <1>1
  <2>2. \A x \in S : x \in 0..n
    BY <1>0
  <2> HIDE DEF S
  <2> QED  BY <2>1, <2>2
<1>3. run \in S /\ \A x \in S : x <= run
  <2> HIDE DEF S
  <2> QED  BY <1>0, <1>2, Greatest
<1>4. /\ run \in p..n /\ run \in Nat
      /\ \A i \in p..run : doc[i].kind \in Text
  <2> DEFINE r == run
  <2>1. r \in S
    BY <1>3
  <2> HIDE DEF r
  <2>2. r \in p..n /\ \A i \in p..r : in[i].kind \in Text
    BY <1>0, <2>1
  <2>3. r \in Nat
    BY <1>0, <2>2
  <2>4. \A i \in p..r : doc[i].kind \in Text
    <3> TAKE i \in p..r
    <3>1. i \in 1..n
      BY <1>0, <2>2
    <3> QED  BY <1>1, <2>2, <3>1
  <2> QED  BY <2>2, <2>3, <2>4 DEF r
<1>5. run < n => doc[run + 1].kind \in Markup
  <2> SUFFICES ASSUME run < n, doc[run + 1].kind \notin Markup  PROVE FALSE
    OBVIOUS
  <2>1. run + 1 \in 1..Len(doc) /\ run + 1 \in p..n
    BY <1>0, <1>4
  <2>2. doc[run + 1].kind \in Text
    BY <1>0, <2>1, Kinds
  <2>3. \A i \in p..(run + 1) : in[i].kind \in Text
    <3> TAKE i \in p..(run + 1)
    <3>1. i \in 1..n /\ (i \in p..run \/ i = run + 1)
      BY <1>0, <1>4, <2>1
    <3> QED  BY <1>1, <1>4, <2>2, <3>1
  <2>4. run + 1 \in S
    BY <1>0, <2>1, <2>3
  <2> HIDE DEF S
  <2> QED  BY <1>3, <1>4, <2>4
<1>6. doc[p].kind \notin Markup /\ in[p].kind \notin Markup
  BY <1>1, Disjoint
<1>7. e = IF p <= b /\ b < run THEN IF GoesOn(in, b) THEN b + 1 ELSE b ELSE run
  BY <1>6 DEF TokenEnd
<1> HIDE DEF run, S
<1>8. CASE ~(p <= b /\ b < run)
  <2>1. e = run
    BY <1>7, <1>8
  <2>2. e < n => IsItem(e + 1)
    <3> SUFFICES ASSUME e < n  PROVE IsItem(e + 1)
      OBVIOUS
    <3>1. /\ e + 1 \in 1..Len(doc) /\ doc[e + 1].kind \in Markup /\ e \in p..run
          /\ e + 1 > 1 /\ (e + 1) - 1 = e
      BY <1>0, <1>4, <1>5, <2>1
    <3>2. doc[e].kind \notin Markup
      BY <1>4, <3>1, Disjoint
    <3>3. ~doc[e + 1].last
      BY <1>0, <3>1, <3>2, Kinds
    <3> QED  BY <1>0, <3>1, <3>3, Items
  <2> QED  BY <1>0, <1>4, <1>5, <1>8, <2>1, <2>2
<1>9. CASE p <= b /\ b < run
  <2>1. b \in 1..(n - 1) /\ b \in 1..n /\ b \in p..run /\ b + 1 \in p..run
    BY <1>0, <1>4, <1>9
  <2>2. GoesOn(in, b) <=> Pair(b)
    BY <1>1, <1>4, <2>1, SameBegins
  <2>3. CASE ~Pair(b)
    <3>1. e = b
      BY <1>7, <1>9, <2>2, <2>3
    <3>2. IsItem(b + 1)
      <4>1. b + 1 \in 1..Len(doc) /\ doc[b + 1].kind \in Text /\ (b + 1) - 1 = b
        BY <1>0, <1>4, <2>1
      <4> QED  BY <1>0, <2>3, <4>1, Items
    <3>3. \A i \in p..e : doc[i].kind \in Text
      BY <1>0, <1>4, <1>9, <3>1
    <3> QED  BY <1>0, <1>4, <1>9, <2>3, <3>1, <3>2, <3>3
  <2>4. CASE Pair(b)
    <3>1. e = b + 1
      BY <1>7, <1>9, <2>2, <2>4
    <3>2. e < n => IsItem(e + 1)
      <4> SUFFICES ASSUME e < n  PROVE IsItem(e + 1)
        OBVIOUS
      <4>1. /\ e + 1 \in 1..Len(doc) /\ (e + 1) - 1 = e /\ e + 1 > 1 /\ e \in p..run
        BY <1>0, <2>1, <3>1
      <4>2. doc[e].kind = "lf" /\ doc[e].kind \notin Markup
        BY <2>4, <3>1 DEF Pair, Markup
      <4>3. ~Pair(e)
        BY <4>2 DEF Pair
      <4>4. doc[e + 1].kind \in Markup => ~doc[e + 1].last
        BY <1>0, <4>1, <4>2, Kinds
      <4>5. doc[e + 1].kind \in Markup \cup Text
        BY <1>0, <4>1, Kinds
      <4> QED  BY <1>0, <4>1, <4>3, <4>4, <4>5, Items
    <3>3. \A i \in p..e : doc[i].kind \in Text
      BY <1>0, <1>4, <1>9, <3>1
    <3> QED  BY <1>0, <1>4, <1>9, <2>1, <2>4, <3>1, <3>2, <3>3
  <2> QED  BY <2>3, <2>4
<1> QED  BY <1>8, <1>9

\* Where markup ends
LEMMA MarkupEnd ==
  ASSUME NEW in, NEW n, NEW b, NEW mode, Reading(in, n, b, mode),
         NEW p \in 1..n, doc[p].kind \in Markup
  PROVE  TokenEnd(in, p, b) = IF p < n THEN p + 1 ELSE p
<1>0. n \in Nat /\ Len(in) = n /\ in[p] = doc[p]
  BY Numbers
<1>1. TokenEnd(in, p, b) = Min({p + 1, n})
  BY <1>0 DEF TokenEnd
<1> DEFINE m == IF p < n THEN p + 1 ELSE p
<1>2. m \in {p + 1, n} /\ \A y \in {p + 1, n} : m <= y
  BY <1>0
<1>3. \A x \in {p + 1, n} : (\A y \in {p + 1, n} : x <= y) => x = m
  BY <1>0
<1> HIDE DEF m
<1>4. Min({p + 1, n}) = m
  BY <1>2, <1>3, Zenon DEF Min
<1> QED  BY <1>1, <1>4 DEF m

-----------------------------------------------------------------------------
(* What the parser has found after each byte *)

Stops == {"none", "paused", "truncated", "failed", "done"}
Scan == [next : Int, depth : Int, phase : {"prolog", "content", "epilog"}, stop : Stops,
         at : Int, wellFormed : BOOLEAN, log : Seq(Nat)]

Out(mode, r) == IF mode = "probe" THEN <<>> ELSE r

Sound(s) == s.wellFormed = TRUE
Broken(s) == s.wellFormed = FALSE

PhaseAt(q) ==
  IF Inside(q) THEN "content" ELSE IF RootBegun(q) THEN "epilog" ELSE "prolog"

\* A call of the persistent engine passes text of the content only together
\* with the markup that follows it.
NotInText(q, n, mode) ==
  mode = "driver" /\ Inside(q) /\ q > 1 /\ doc[q - 1].kind \in Text =>
    q <= n /\ doc[q].kind \in Markup

\* It reads on at the item that begins at next.
Going(s, n, b, mode) ==
  /\ s.stop = "none" /\ Sound(s)
  /\ s.next \in 1..(n + 1) /\ (s.next <= n => IsItem(s.next)) /\ Passed(s.next)
  /\ s.depth = DepthAt(s.next) /\ s.phase = PhaseAt(s.next)
  /\ s.log = Out(mode, Report(s.next - 1, b))
  /\ NotInText(s.next, n, mode)

\* It waits for more of the item after at.
Waits(s, n, b, mode) ==
  /\ s.stop \in {"truncated", "paused"} /\ Sound(s) /\ mode # "resume"
  /\ s.at \in 0..(n - 1) /\ IsItem(s.at + 1) /\ Passed(s.at + 1)
  /\ ~WrongWithin(n)
  /\ s.log = Out(mode, Report(s.at, b))
  /\ mode = "driver" => b <= s.at /\ NotInText(s.at + 1, n, mode)
  /\ mode # "driver" => s.at = n - 1 /\ doc[n].kind \in Markup

Complete(n) ==
  /\ n > 0 => doc[n].last
  /\ RootBegun(n + 1) /\ DepthAt(n + 1) = 0

\* It has raised an error.
Failing(s, n, b, mode) ==
  /\ s.wellFormed = FALSE
  /\ s.log = Out(mode, Report(n, b))
  /\ WrongWithin(n) \/ (mode = "resume" /\ ~Complete(n))

Read(s, p, n, b, mode) ==
  /\ s \in Scan
  /\ \/ Going(s, n, b, mode) /\ p < s.next
     \/ Waits(s, n, b, mode)
     \/ Failing(s, n, b, mode)

LEMMA FireSays ==
  ASSUME NEW s \in Scan, Sound(s), NEW mode, NEW r, s.log = Out(mode, r),
         NEW b \in Nat, NEW e \in Nat, NEW items \in Seq(Nat),
         NEW t, t = Fire(s, mode, b, e, items)
  PROVE  /\ t \in Scan /\ t.next = s.next /\ t.depth = s.depth /\ t.phase = s.phase
         /\ t.stop = s.stop /\ t.at = s.at /\ Sound(t)
         /\ t.log = Out(mode, IF e <= b THEN r ELSE r \o items)
<1>0. s.wellFormed = TRUE
  BY DEF Sound
<1>1. CASE mode = "probe" \/ e <= b
  <2>1. t = s
    BY <1>1 DEF Fire
  <2> QED  BY <1>1, <2>1 DEF Out
<1>2. CASE mode # "probe" /\ ~(e <= b)
  <2> DEFINE l == s.log \o items
  <2>1. t = [s EXCEPT !.log = l]
    BY <1>0, <1>2 DEF Fire
  <2>2. s.log = r /\ l \in Seq(Nat)
    <3>1. s.log \in Seq(Nat)
      BY DEF Scan
    <3> QED  BY <1>2, <3>1 DEF Out
  <2>3. l = r \o items
    BY <2>2
  <2> HIDE DEF l
  <2>4. /\ t \in Scan /\ t.next = s.next /\ t.depth = s.depth /\ t.phase = s.phase
        /\ t.stop = s.stop /\ t.at = s.at /\ t.wellFormed = s.wellFormed /\ t.log = l
    BY <2>1, <2>2 DEF Scan
  <2>5. Sound(t)
    BY <1>0, <2>4, Zenon DEF Sound
  <2> QED  BY <1>2, <2>3, <2>4, <2>5 DEF Out
<1> QED  BY <1>1, <1>2

\* The fields of a state that was stopped or has failed, or reads on elsewhere
LEMMA Stopped ==
  ASSUME NEW s \in Scan, NEW how \in Stops, NEW at \in Int
  PROVE  /\ Stop(s, how, at) \in Scan
         /\ Stop(s, how, at).stop = how /\ Stop(s, how, at).at = at
         /\ Stop(s, how, at).log = s.log /\ Stop(s, how, at).wellFormed = s.wellFormed
  BY DEF Scan, Stop

LEMMA HasFailed ==
  ASSUME NEW s \in Scan
  PROVE  /\ Fatal(s) \in Scan /\ Fatal(s).wellFormed = FALSE
         /\ Fatal(s).log = s.log /\ Fatal(s).stop = s.stop
  BY DEF Scan, Fatal

LEMMA Advanced ==
  ASSUME NEW s \in Scan, NEW q \in Int
  PROVE  LET t == [s EXCEPT !.next = q]
         IN  /\ t \in Scan /\ t.next = q /\ t.depth = s.depth /\ t.phase = s.phase
             /\ t.stop = s.stop /\ t.at = s.at /\ t.log = s.log
             /\ t.wellFormed = s.wellFormed
  BY DEF Scan

LEMMA Nested ==
  ASSUME NEW s \in Scan, NEW kind
  PROVE  LET t == Nest(s, kind)
         IN  /\ t \in Scan /\ t.depth = s.depth + Change(kind)
             /\ t.phase = IF s.depth + Change(kind) = 0 THEN "epilog" ELSE "content"
             /\ t.next = s.next
             /\ t.stop = s.stop /\ t.log = s.log /\ t.wellFormed = s.wellFormed
<1> DEFINE d == CASE kind = "open" -> s.depth + 1
                  [] kind \in {"close", "stray"} -> s.depth - 1
                  [] OTHER -> s.depth
<1>1. d = s.depth + Change(kind) /\ d \in Int
  BY DEF Change, Scan
<1>2. Nest(s, kind) = [s EXCEPT !.depth = d,
                                !.phase = IF d = 0 THEN "epilog" ELSE "content"]
  BY DEF Nest
<1> HIDE DEF d
<1> DEFINE t == [s EXCEPT !.depth = d, !.phase = IF d = 0 THEN "epilog" ELSE "content"]
<1>3. /\ t \in Scan /\ t.depth = d
      /\ t.phase = IF d = 0 THEN "epilog" ELSE "content"
      /\ t.next = s.next
      /\ t.stop = s.stop /\ t.log = s.log /\ t.wellFormed = s.wellFormed
  BY <1>1 DEF Scan
<1> QED  BY <1>1, <1>2, <1>3

\* A parser that has raised an error reports nothing more and stays in it.
LEMMA FailingStays ==
  ASSUME NEW in, NEW n, NEW b, NEW mode, Reading(in, n, b, mode), NEW p \in 1..n,
         NEW s \in Scan, Broken(s), NEW t, t = Token(s, in, p, mode, b)
  PROVE  t \in Scan /\ Broken(t) /\ t.log = s.log
<1> DEFINE Stays(v) == v \in Scan /\ v.wellFormed = FALSE /\ v.log = s.log
<1>0. n \in Nat /\ p \in Nat /\ p - 1 \in Int
  BY Numbers
<1>1. Stays(s)
  BY Zenon DEF Broken
<1>2. ASSUME NEW v, Stays(v), NEW how \in Stops, NEW at \in Int  PROVE Stays(Stop(v, how, at))
  <2> DEFINE u == Stop(v, how, at)
  <2>1. u \in Scan /\ u.log = v.log /\ u.wellFormed = v.wellFormed
    <3>1. v \in Scan
      BY <1>2
    <3> QED  BY <3>1, <1>2, Stopped, SMT
  <2> HIDE DEF u
  <2>2. Stays(u)
    BY <1>2, <2>1, Zenon
  <2> QED  BY <2>2 DEF u
<1>3. ASSUME NEW v, Stays(v)  PROVE Stays(Fatal(v))
  BY <1>3, HasFailed
<1>4. ASSUME NEW v, Stays(v), NEW kind  PROVE Stays(Nest(v, kind))
  <2>1. /\ Nest(v, kind) \in Scan /\ Nest(v, kind).log = v.log
        /\ Nest(v, kind).wellFormed = v.wellFormed
    BY <1>4, Nested
  <2> QED  BY <1>4, <2>1, Zenon
<1>5. ASSUME NEW e, NEW items  PROVE Fire(s, mode, b, e, items) = s
  BY DEF Fire, Broken
<1>6. ASSUME NEW v, Stays(v), NEW q \in Int  PROVE Stays([v EXCEPT !.next = q])
  <2> DEFINE u == [v EXCEPT !.next = q]
  <2>1. u \in Scan /\ u.log = v.log /\ u.wellFormed = v.wellFormed
    BY <1>6, Advanced
  <2> HIDE DEF u
  <2>2. Stays(u)
    BY <1>6, <2>1, Zenon
  <2> QED  BY <2>2 DEF u
<1>7. {"paused", "failed", "truncated"} \subseteq Stops
  BY DEF Stops
<1> HIDE DEF Stays
<1>8. Stays(CutMarkup(s, in, p, mode))
  BY <1>0, <1>1, <1>2, <1>3, <1>7 DEF CutMarkup
<1>9. Stays(WholeMarkup(s, in, p, mode, b))
  BY <1>0, <1>1, <1>2, <1>3, <1>4, <1>5, <1>7 DEF WholeMarkup
<1>10. ASSUME NEW e  PROVE Stays(Run(s, in, p, e, mode, b))
  BY <1>0, <1>1, <1>2, <1>3, <1>5, <1>7 DEF Run
<1>11. Stays(Token(s, in, p, mode, b))
  <2>1. CASE s.stop # "none" \/ p < s.next
    BY <1>1, <2>1 DEF Token
  <2>2. CASE ~(s.stop # "none" \/ p < s.next)
    <3> DEFINE e == TokenEnd(in, p, b)
               r == CASE in[p].kind \in Text -> Run(s, in, p, e, mode, b)
                      [] in[p].kind \in Markup /\ e = p -> CutMarkup(s, in, p, mode)
                      [] OTHER -> WholeMarkup(s, in, p, mode, b)
    <3>1. Token(s, in, p, mode, b) = [r EXCEPT !.next = e + 1]
      BY <2>2 DEF Token
    <3>2. Stays(r)
      BY <1>8, <1>9, <1>10
    <3>3. e \in Nat
      <4>1. p \in 1..Len(doc) /\ Fine
        BY Numbers
      <4>2. CASE doc[p].kind \in Text
        BY <4>2, TextEnd
      <4>3. CASE doc[p].kind \in Markup
        BY <1>0, <4>3, MarkupEnd
      <4> QED  BY <4>1, <4>2, <4>3, Kinds
    <3>4. e + 1 \in Int
      BY <3>3
    <3> HIDE DEF r, e
    <3> QED  BY <1>6, <3>1, <3>2, <3>4
  <2> QED  BY <2>1, <2>2
<1> HIDE DEF Stays
<1>12. Stays(t)
  BY <1>11
<1> QED  BY <1>12, Zenon DEF Stays, Broken

\* White space around the root is read over, and other text is an error there.
LEMMA TextReadOutside ==
  ASSUME NEW in, NEW n, NEW b, NEW mode, Reading(in, n, b, mode), NEW p \in 1..n,
         NEW s \in Scan, Going(s, n, b, mode), s.next = p,
         doc[p].kind \in Text, NEW e, e = TokenEnd(in, p, b), ~Inside(p)
  PROVE  Read([Run(s, in, p, e, mode, b) EXCEPT !.next = e + 1], p, n, b, mode)
<1>0. /\ n \in Nat /\ b \in Nat /\ b <= n /\ n <= Len(doc) /\ Len(doc) \in Nat
      /\ Fine /\ p \in Nat \ {0} /\ p \in 1..Len(doc) /\ p - 1 \in Int
  BY Numbers
<1>1. /\ e \in p..n /\ e \in Nat /\ e <= Len(doc) /\ e + 1 \in Int /\ (e + 1) - 1 = e
      /\ p <= e /\ e <= n
      /\ \A i \in p..e : doc[i].kind \in Text
      /\ e < n => IsItem(e + 1)
  BY <1>0, TextEnd
<1>2. DepthAt(p) = 0 /\ Passed(p)
  <2>1. Passed(p) /\ DepthAt(p) \in Int
    BY <1>0, DepthStep DEF Going
  <2> QED  BY <2>1 DEF Passed, Inside
<1>3. s.phase # "content"
  BY DEF Going, PhaseAt
<1>4. \A i \in p..e : in[i] = doc[i]
  <2> TAKE i \in p..e
  <2>1. i \in 1..n
    BY <1>0, <1>1
  <2> QED  BY <2>1, Numbers
<1> DEFINE t == Run(s, in, p, e, mode, b)
           u == [t EXCEPT !.next = e + 1]
<1>5. CASE \A i \in p..e : doc[i].kind \in {"blank", "cr", "lf"}
  <2>1. t = s
    BY <1>3, <1>4, <1>5 DEF Run
  <2>2. Passed(e + 1) /\ Report(p - 1, b) = Report(e, b)
    <3>1. Fine /\ p \in Nat \ {0} /\ e \in Nat /\ p <= e /\ e <= Len(doc)
      BY <1>0, <1>1
    <3> QED  BY ONLY <3>1, <1>2, <1>5, SpacePasses, Z3
  <2>3. /\ u \in Scan /\ u.next = e + 1 /\ u.depth = s.depth /\ u.phase = s.phase
        /\ u.stop = s.stop /\ u.log = s.log /\ u.wellFormed = s.wellFormed
    BY <1>1, <2>1, Advanced
  <2>4. DepthAt(e + 1) = 0 /\ (RootBegun(e + 1) <=> RootBegun(p))
    <3>1. e + 1 \in p..(e + 1)
      BY <1>0, <1>1
    <3>2. /\ Fine /\ p \in Nat \ {0} /\ e \in Nat /\ p <= e /\ e <= Len(doc)
          /\ \A i \in p..e : doc[i].kind \in Text
      BY <1>0, <1>1, <1>2
    <3>3. DepthAt(e + 1) = DepthAt(p) /\ (RootBegun(e + 1) <=> RootBegun(p))
      BY ONLY <3>1, <3>2, TextRun, Z3
    <3> QED  BY <1>2, <3>3, Zenon
  <2>5. ~Inside(e + 1)
    BY <2>4 DEF Inside
  <2> HIDE DEF u, t
  <2>6. u.phase = PhaseAt(e + 1)
    BY <2>3, <2>4, <2>5 DEF Going, PhaseAt
  <2>7. u.depth = DepthAt(e + 1)
    BY <1>2, <2>3, <2>4 DEF Going
  <2>8. u.log = Out(mode, Report((e + 1) - 1, b))
    BY <1>1, <2>2, <2>3 DEF Going
  <2>9. u.stop = "none" /\ Sound(u)
    <3>1. s.stop = "none" /\ Sound(s)
      BY DEF Going
    <3>2. Sound(u)
      BY <2>3, <3>1, Zenon DEF Sound
    <3> QED  BY <2>3, <3>1, <3>2
  <2>10. NotInText(e + 1, n, mode)
    BY <2>5 DEF NotInText
  <2>11. e + 1 \in 1..(n + 1) /\ (e + 1 <= n => IsItem(e + 1)) /\ p < e + 1
    BY <1>0, <1>1
  <2>12. Going(u, n, b, mode) /\ p < u.next
    BY <2>2, <2>3, <2>6, <2>7, <2>8, <2>9, <2>10, <2>11 DEF Going
  <2>13. u \in Scan
    BY <2>3
  <2> QED  BY <2>12, <2>13 DEF Read, u, t
<1>6. CASE \E i \in p..e : doc[i].kind \notin {"blank", "cr", "lf"}
  <2>1. t = Stop(Fatal(s), "failed", p - 1)
    BY <1>3, <1>4, <1>6 DEF Run
  <2>2. WrongWithin(n) /\ Report(p - 1, b) = Report(n, b)
    <3>1. /\ Fine /\ p \in Nat \ {0} /\ e \in Nat /\ p <= e /\ n \in Nat
          /\ e <= n /\ n <= Len(doc)
      BY <1>0, <1>1
    <3>2. \A i \in p..e : doc[i].kind \in Text
      BY <1>1
    <3> QED  BY ONLY <3>1, <3>2, <1>2, <1>6, TextOutside, Z3
  <2>3. Fatal(s) \in Scan /\ Fatal(s).wellFormed = FALSE /\ Fatal(s).log = s.log
    BY HasFailed
  <2>4. t \in Scan /\ t.wellFormed = Fatal(s).wellFormed /\ t.log = s.log
    <3>1. "failed" \in Stops /\ p - 1 \in Int
      BY <1>0 DEF Stops
    <3> DEFINE f == Fatal(s)
    <3>2. f \in Scan /\ f.log = s.log
      BY <2>3
    <3> HIDE DEF f
    <3>3. LET v == Stop(f, "failed", p - 1)
          IN  v \in Scan /\ v.wellFormed = f.wellFormed /\ v.log = f.log
      BY <3>1, <3>2, Stopped
    <3>4. t = Stop(f, "failed", p - 1)
      BY <2>1 DEF f
    <3> HIDE DEF t
    <3> QED  BY <3>2, <3>3, <3>4 DEF f
  <2>5. u \in Scan /\ u.wellFormed = t.wellFormed /\ u.log = t.log
    <3> HIDE DEF t
    <3> QED  BY <1>1, <2>4, Advanced
  <2> HIDE DEF u, t
  <2>6. u.wellFormed = FALSE
    BY <2>3, <2>4, <2>5, Zenon
  <2>7. u.log = Out(mode, Report(n, b))
    BY <2>2, <2>4, <2>5 DEF Going
  <2>8. u \in Scan
    BY <2>5
  <2> QED  BY <2>2, <2>6, <2>7, <2>8 DEF Read, Failing, u, t
<1> QED  BY <1>5, <1>6

\* Text of the content is reported, unless more of it may follow.
LEMMA TextReadInside ==
  ASSUME NEW in, NEW n, NEW b, NEW mode, Reading(in, n, b, mode), NEW p \in 1..n,
         NEW s \in Scan, Going(s, n, b, mode), s.next = p,
         doc[p].kind \in Text, NEW e, e = TokenEnd(in, p, b), Inside(p)
  PROVE  Read([Run(s, in, p, e, mode, b) EXCEPT !.next = e + 1], p, n, b, mode)
<1>0. /\ n \in Nat /\ b \in Nat /\ b <= n /\ n <= Len(doc) /\ Len(doc) \in Nat
      /\ Fine /\ p \in Nat \ {0} /\ p \in 1..Len(doc) /\ p - 1 \in Int
      /\ Len(in) = n
  BY Numbers
<1>1. /\ e \in p..n /\ e \in Nat /\ e <= Len(doc) /\ e + 1 \in Int /\ (e + 1) - 1 = e
      /\ p <= e /\ e <= n
      /\ \A i \in p..e : doc[i].kind \in Text
      /\ e < n => IsItem(e + 1)
  BY <1>0, TextEnd
<1>2. /\ e < n /\ doc[e + 1].kind \notin Markup =>
           p <= b /\ ((e = b /\ ~Pair(b)) \/ (e = b + 1 /\ Pair(b)))
      /\ p <= b /\ b < e => e = b + 1 /\ Pair(b)
  BY TextEnd
<1>3. Passed(p) /\ DepthAt(p) \in Int
  BY <1>0, DepthStep DEF Going
<1>4. \A q \in p..(e + 1) : /\ DepthAt(q) = DepthAt(p) /\ (RootBegun(q) <=> RootBegun(p))
                            /\ Inside(q)
  <2>1. \A q \in p..(e + 1) : DepthAt(q) = DepthAt(p) /\ (RootBegun(q) <=> RootBegun(p))
    BY <1>0, <1>1, TextRun
  <2> QED  BY <2>1 DEF Inside
<1>5. s.phase = "content"
  BY DEF Going, PhaseAt
<1>6. p <= b /\ b <= e => ~Pair(b)
  <2> SUFFICES ASSUME p <= b, b <= e  PROVE ~Pair(b)
    OBVIOUS
  <2>1. b \in p..(e + 1) /\ b > 0
    BY <1>0, <1>1
  <2>2. Inside(b)
    BY <1>4, <2>1
  <2> QED  BY <2>1, <2>2 DEF Reading
<1>7. e <= b \/ b < p
  BY <1>0, <1>1, <1>2, <1>6
<1>8. e < n /\ doc[e + 1].kind \notin Markup => e = b /\ ~Pair(b) /\ p <= b
  BY <1>0, <1>1, <1>2, <1>6
<1> DEFINE t == Run(s, in, p, e, mode, b)
           u == [t EXCEPT !.next = e + 1]
<1>9. CASE mode = "driver" /\ e = n
  <2>1. t = Stop(s, "paused", p - 1)
    BY <1>0, <1>5, <1>9 DEF Run
  <2>2. /\ t \in Scan /\ t.stop = "paused" /\ t.at = p - 1
        /\ t.log = s.log /\ t.wellFormed = s.wellFormed
    <3>1. "paused" \in Stops /\ p - 1 \in Int
      BY <1>0 DEF Stops
    <3> HIDE DEF t
    <3> QED  BY <2>1, <3>1, Stopped
  <2>3. /\ u \in Scan /\ u.stop = "paused" /\ u.at = p - 1
        /\ u.log = s.log /\ u.wellFormed = s.wellFormed
    <3> HIDE DEF t
    <3> QED  BY <1>1, <2>2, Advanced
  <2>4. ~WrongWithin(n)
    <3>1. \A r \in 1..n : IsItem(r) => ~Wrong(r)
      <4> SUFFICES ASSUME NEW r \in 1..n, IsItem(r)  PROVE ~Wrong(r)
        OBVIOUS
      <4>1. CASE r < p
        <5>1. r \in 1..(p - 1)
          BY <1>0, <4>1
        <5> QED  BY <1>3, <5>1 DEF Passed
      <4>2. CASE ~(r < p)
        <5>1. r \in p..e /\ r \in p..(e + 1)
          BY <1>0, <1>1, <1>9, <4>2
        <5>2. DepthAt(r) # 0 /\ RootBegun(r)
          BY <1>3, <1>4, <5>1 DEF Inside, Passed
        <5>3. doc[r].kind \in Text
          BY <1>1, <5>1
        <5> QED  BY <5>2, <5>3 DEF Wrong, Text
      <4> QED  BY <4>1, <4>2
    <3> QED  BY <3>1 DEF WrongWithin
  <2>5. b <= p - 1
    <3>1. ~(b = n)
      <4> SUFFICES ASSUME b = n  PROVE FALSE
        OBVIOUS
      <4>1. b > 0 /\ Inside(b + 1) /\ doc[b].kind \in Text
        <5>1. e + 1 \in p..(e + 1) /\ e \in p..e
          BY <1>0, <1>1
        <5> QED  BY <1>0, <1>1, <1>4, <1>9, <5>1
      <4> QED  BY <1>0, <1>9, <4>1 DEF Reading
    <3> QED  BY <1>0, <1>1, <1>7, <1>9, <3>1
  <2>6. (p - 1) + 1 = p /\ p - 1 \in 0..(n - 1)
    BY <1>0
  <2>7. NotInText(p, n, mode) /\ IsItem(p)
    BY <1>0 DEF Going
  <2> HIDE DEF u, t
  <2>8. u.log = Out(mode, Report(p - 1, b)) /\ Sound(u)
    <3>1. s.log = Out(mode, Report(p - 1, b)) /\ Sound(s)
      BY DEF Going
    <3>2. Sound(u)
      BY <2>3, <3>1, Zenon DEF Sound
    <3> QED  BY <2>3, <3>1, <3>2
  <2>9. Waits(u, n, b, mode)
    BY <1>3, <1>9, <2>3, <2>4, <2>5, <2>6, <2>7, <2>8 DEF Waits
  <2>10. u \in Scan
    BY <2>3
  <2> QED  BY <2>9, <2>10 DEF Read, u, t
<1>10. CASE ~(mode = "driver" /\ e = n)
  <2>1. in[e].last
    <3>1. e \in 1..n /\ e \in 1..Len(doc) /\ e \in p..e
      BY <1>0, <1>1
    <3>2. in[e] = doc[e]
      BY <3>1, Numbers
    <3> QED  BY <1>0, <1>1, <3>1, <3>2, Kinds
  <2> DEFINE items == InOrder({i \in p..e : IsItem(i)}, e)
  <2>2. Characters(in, p, e) = items
    <3>1. \A i \in p..e : Begins(in, i) <=> IsItem(i)
      <4> TAKE i \in p..e
      <4>1. i \in 1..n
        BY <1>0, <1>1
      <4> QED  BY <4>1, SameBegins
    <3>2. {i \in p..e : Begins(in, i)} = {i \in p..e : IsItem(i)}
      BY <3>1
    <3> QED  BY <3>2 DEF Characters
  <2>3. t = Fire(s, mode, b, e, items)
    <3> HIDE DEF items
    <3> QED  BY <1>0, <1>5, <1>10, <2>1, <2>2 DEF Run
  <2>4. ~Pair(e)
    <3>1. CASE e = n
      <4>1. mode # "driver" /\ n > 0
        BY <1>0, <1>1, <1>10, <3>1
      <4> QED  BY <3>1, <4>1 DEF Reading
    <3>2. CASE e < n /\ doc[e + 1].kind \in Markup
      BY <3>2 DEF Pair, Markup
    <3>3. CASE e < n /\ doc[e + 1].kind \notin Markup
      BY <1>8, <3>3
    <3> QED  BY <1>0, <1>1, <3>1, <3>2, <3>3
  <2>5. /\ Passed(e + 1)
        /\ Report(e, b) = IF e <= b THEN Report(p - 1, b) ELSE Report(p - 1, b) \o items
    <3> HIDE DEF items
    <3> QED  BY <1>0, <1>1, <1>3, <1>7, <2>4, TextPasses DEF items
  <2>6. items \in Seq(Nat)
    BY <1>1, InOrderType
  <2>7. Sound(s) /\ s.log = Out(mode, Report(p - 1, b))
    BY DEF Going
  <2>8. /\ t \in Scan /\ t.depth = s.depth /\ t.phase = s.phase /\ t.stop = s.stop
        /\ Sound(t) /\ t.log = Out(mode, Report(e, b))
    <3> DEFINE r == Report(p - 1, b)
               f == Fire(s, mode, b, e, items)
    <3>1. Sound(s) /\ s.log = Out(mode, r)
      BY <2>7
    <3> HIDE DEF items, t, r
    <3>2. /\ f \in Scan /\ f.depth = s.depth /\ f.phase = s.phase /\ f.stop = s.stop
          /\ Sound(f) /\ f.log = Out(mode, IF e <= b THEN r ELSE r \o items)
      <4>1. s \in Scan /\ b \in Nat /\ e \in Nat
        BY <1>0, <1>1
      <4>2. f = Fire(s, mode, b, e, items)
        OBVIOUS
      <4> HIDE DEF f
      <4> QED  BY ONLY <4>1, <4>2, <2>6, <3>1, FireSays, Z3
    <3> HIDE DEF f
    <3>3. t = f /\ Report(e, b) = IF e <= b THEN r ELSE r \o items
      BY <2>3, <2>5 DEF f, r
    <3>4. /\ t \in Scan /\ t.depth = s.depth /\ t.phase = s.phase /\ t.stop = s.stop
          /\ t.log = Out(mode, Report(e, b))
      BY <3>2, <3>3
    <3>5. Sound(t)
      BY <3>1, <3>2, <3>3, Zenon
    <3> QED  BY <3>4, <3>5
  <2>9. /\ u \in Scan /\ u.next = e + 1 /\ u.depth = s.depth /\ u.phase = s.phase
        /\ u.stop = s.stop /\ u.log = Out(mode, Report(e, b)) /\ u.wellFormed = t.wellFormed
    <3> HIDE DEF t
    <3> QED  BY <1>1, <2>8, Advanced
  <2> HIDE DEF u, t, items
  <2>10. DepthAt(e + 1) = DepthAt(p) /\ Inside(e + 1)
    <3>1. e + 1 \in p..(e + 1)
      BY <1>0, <1>1
    <3> QED  BY <1>4, <3>1
  <2>11. u.depth = DepthAt(e + 1) /\ u.phase = PhaseAt(e + 1) /\ u.stop = "none"
    BY <1>5, <2>9, <2>10 DEF Going, PhaseAt
  <2>12. NotInText(e + 1, n, mode)
    <3> SUFFICES ASSUME mode = "driver"
                 PROVE  e + 1 <= n /\ doc[e + 1].kind \in Markup
      BY DEF NotInText
    <3>1. e < n
      BY <1>0, <1>1, <1>10
    <3>2. doc[e + 1].kind \in Markup
      <4> SUFFICES ASSUME doc[e + 1].kind \notin Markup  PROVE FALSE
        OBVIOUS
      <4>1. e = b /\ b > 0
        BY <1>0, <1>8, <3>1
      <4>2. Inside(b + 1) /\ doc[b].kind \in Text
        <5>1. e \in p..e
          BY <1>0, <1>1
        <5> QED  BY <1>1, <2>10, <4>1, <5>1
      <4> QED  BY <4>1, <4>2 DEF Reading
    <3> QED  BY <1>0, <1>1, <3>1, <3>2
  <2>13. e + 1 \in 1..(n + 1) /\ (e + 1 <= n => IsItem(e + 1)) /\ p < e + 1
    BY <1>0, <1>1
  <2>14. Sound(u)
    BY <2>8, <2>9, Zenon DEF Sound
  <2>15. Going(u, n, b, mode) /\ p < u.next
    BY <1>1, <2>5, <2>9, <2>11, <2>12, <2>13, <2>14 DEF Going
  <2>16. u \in Scan
    BY <2>9
  <2> QED  BY <2>15, <2>16 DEF Read, u, t
<1> QED  BY <1>9, <1>10

\* The first byte of markup, at the end of the input
LEMMA CutRead ==
  ASSUME NEW in, NEW n, NEW b, NEW mode, Reading(in, n, b, mode), NEW p \in 1..n,
         NEW s \in Scan, Going(s, n, b, mode), s.next = p,
         doc[p].kind \in Markup, p = n
  PROVE  Read([CutMarkup(s, in, p, mode) EXCEPT !.next = p + 1], p, n, b, mode)
<1>0. /\ n \in Nat /\ b \in Nat /\ b <= n /\ n <= Len(doc) /\ Len(doc) \in Nat
      /\ Fine /\ p \in Nat \ {0} /\ p \in 1..Len(doc) /\ p - 1 \in Int /\ p + 1 \in Int
      /\ Len(in) = n /\ in[p] = doc[p] /\ (p - 1) + 1 = p
  BY Numbers
<1>1. IsItem(p) /\ Passed(p) /\ NotInText(p, n, mode)
  BY <1>0 DEF Going
<1>2. ~doc[p].last /\ ItemEnd(p) = p + 1
  BY <1>0, <1>1, Items
<1>3. Report(p - 1, b) = Report(n, b)
  <2>1. \A r \in 1..n : Told(r, n) => Told(r, n - 1)
    <3>1. n \in 1..Len(doc) /\ IsItem(n) /\ doc[n].kind \in Markup
      BY <1>0, <1>1
    <3> QED  BY <1>0, <3>1, CutSaysNothing
  <2>2. n - 1 \in Nat /\ n - 1 <= n
    BY <1>0
  <2> QED  BY <1>0, <2>1, <2>2, SameReport
<1> DEFINE t == CutMarkup(s, in, p, mode)
           u == [t EXCEPT !.next = p + 1]
<1>4. CASE mode = "resume"
  <2>1. t = Stop(Fatal(s), "failed", p - 1)
    BY <1>4 DEF CutMarkup
  <2>2. u \in Scan /\ u.wellFormed = FALSE /\ u.log = s.log
    <3> DEFINE f == Fatal(s)
    <3>1. f \in Scan /\ f.wellFormed = FALSE /\ f.log = s.log
      BY HasFailed
    <3>2. "failed" \in Stops /\ p - 1 \in Int
      BY <1>0 DEF Stops
    <3> HIDE DEF f
    <3>3. LET v == Stop(f, "failed", p - 1)
          IN  v \in Scan /\ v.wellFormed = f.wellFormed /\ v.log = f.log
      BY <3>1, <3>2, Stopped
    <3>4. t \in Scan /\ t.wellFormed = f.wellFormed /\ t.log = f.log
      BY <2>1, <3>3 DEF f
    <3> HIDE DEF t
    <3>5. u \in Scan /\ u.wellFormed = t.wellFormed /\ u.log = t.log
      BY <1>0, <3>4, Advanced
    <3> HIDE DEF u
    <3> QED  BY <3>1, <3>4, <3>5, Zenon
  <2> HIDE DEF u, t
  <2>3. u.log = Out(mode, Report(n, b))
    BY <1>3, <2>2 DEF Going
  <2>4. ~Complete(n)
    BY <1>0, <1>2 DEF Complete
  <2>5. u \in Scan /\ u.wellFormed = FALSE
    BY <2>2
  <2>6. Failing(u, n, b, mode)
    BY <1>4, <2>3, <2>4, <2>5 DEF Failing
  <2> QED  BY <2>5, <2>6 DEF Read, u, t
<1>5. CASE mode # "resume"
  <2>1. PICK how \in {"truncated", "paused"} :
          t = Stop(s, how, p - 1) /\ (mode = "driver" => how = "paused")
    <3>1. CASE mode = "driver" \/ in[p].kind # "pi"
      BY <1>5, <3>1 DEF CutMarkup
    <3>2. CASE mode # "driver" /\ in[p].kind = "pi"
      <4>1. RootBegun(p) => DepthAt(p) # 0
        BY <1>0, <3>2, Kinds DEF RootBegun, DepthAt
      <4>2. RootBegun(p) => Inside(p)
        <5>1. DepthAt(p) \in Int /\ DepthAt(p) >= 0
          BY <1>0, <1>1, DepthStep DEF Passed
        <5> QED  BY <4>1, <5>1 DEF Inside
      <4>3. s.phase # "epilog"
        BY <4>2 DEF Going, PhaseAt
      <4> QED  BY <1>5, <3>2, <4>3 DEF CutMarkup
    <3> QED  BY <3>1, <3>2
  <2>2. /\ t \in Scan /\ t.stop = how /\ t.at = p - 1
        /\ t.log = s.log /\ t.wellFormed = s.wellFormed
    <3>1. how \in Stops
      BY DEF Stops
    <3> HIDE DEF t
    <3>2. p - 1 \in Int /\ s \in Scan
      BY <1>0
    <3>3. t = Stop(s, how, p - 1)
      BY <2>1
    <3> QED  BY ONLY <3>1, <3>2, <3>3, Stopped, Z3
  <2>3. /\ u \in Scan /\ u.stop = how /\ u.at = p - 1
        /\ u.log = s.log /\ u.wellFormed = s.wellFormed
    <3> HIDE DEF t
    <3> QED  BY <1>0, <2>2, Advanced
  <2>4. ~WrongWithin(n)
    <3>1. \A r \in 1..n : IsItem(r) /\ ItemEnd(r) <= n => ~Wrong(r)
      <4> TAKE r \in 1..n
      <4>1. CASE r = p
        BY <1>0, <1>2, <4>1
      <4>2. CASE r # p
        <5>1. r \in 1..(p - 1)
          BY <1>0, <4>2
        <5> QED  BY <1>1, <5>1 DEF Passed
      <4> QED  BY <4>1, <4>2
    <3> QED  BY <3>1 DEF WrongWithin
  <2>5. mode = "driver" => b <= p - 1
    <3> SUFFICES ASSUME mode = "driver"  PROVE b # n
      BY <1>0
    <3>1. b > 0 => doc[b].last
      BY DEF Reading
    <3> QED  BY <1>0, <1>2, <3>1
  <2> HIDE DEF u, t
  <2>6. u.log = Out(mode, Report(p - 1, b)) /\ Sound(u)
    <3>1. s.log = Out(mode, Report(p - 1, b)) /\ Sound(s)
      BY DEF Going
    <3>2. Sound(u)
      BY <2>3, <3>1, Zenon DEF Sound
    <3> QED  BY <2>3, <3>1, <3>2
  <2>7. u.stop \in {"truncated", "paused"} /\ u.at = p - 1 /\ p - 1 \in 0..(n - 1) /\ p - 1 = n - 1
    BY <1>0, <2>3
  <2>8. Waits(u, n, b, mode)
    BY <1>0, <1>1, <1>5, <2>4, <2>5, <2>6, <2>7 DEF Waits
  <2>9. u \in Scan
    BY <2>3
  <2> QED  BY <2>8, <2>9 DEF Read, u, t
<1> QED  BY <1>4, <1>5

\* Markup that is wrong is an error, the parser stopping there or not.
LEMMA WrongMarkupRead ==
  ASSUME NEW in, NEW n, NEW b, NEW mode, Reading(in, n, b, mode), NEW p \in 1..n,
         NEW s \in Scan, Going(s, n, b, mode), s.next = p,
         doc[p].kind \in Markup, p < n, Wrong(p)
  PROVE  Read([WholeMarkup(s, in, p, mode, b) EXCEPT !.next = p + 2], p, n, b, mode)
<1>0. /\ n \in Nat /\ b \in Nat /\ n <= Len(doc) /\ Len(doc) \in Nat
      /\ Fine /\ p \in Nat \ {0} /\ p \in 1..Len(doc) /\ p - 1 \in Int /\ p + 2 \in Int
      /\ in[p] = doc[p]
  BY Numbers
<1>1. IsItem(p) /\ Passed(p)
  BY <1>0 DEF Going
<1>2. WrongWithin(n) /\ Report(p - 1, b) = Report(n, b)
  BY <1>0, <1>1, MarkupWrong
<1> DEFINE t == WholeMarkup(s, in, p, mode, b)
           u == [t EXCEPT !.next = p + 2]
<1>3. \/ t = Nest(Fatal(s), "stray")
      \/ t = Stop(Fatal(s), "failed", p - 1)
  <2>1. doc[p].kind \in {"open", "close", "empty", "stray"}
    BY DEF Wrong, Markup
  <2>2. doc[p].kind = "close" => s.phase # "content"
    <3>1. doc[p].kind = "close" => ~Inside(p)
      BY <1>1 DEF Wrong, Passed, Inside
    <3> QED  BY <3>1 DEF Going, PhaseAt
  <2>3. doc[p].kind \in {"open", "empty"} => s.phase = "epilog"
    <3>1. doc[p].kind \in {"open", "empty"} => ~Inside(p) /\ RootBegun(p)
      BY DEF Wrong, Inside
    <3> QED  BY <3>1 DEF Going, PhaseAt
  <2> QED  BY <1>0, <2>1, <2>2, <2>3 DEF WholeMarkup
<1>4. t \in Scan /\ t.wellFormed = FALSE /\ t.log = s.log
  <2> DEFINE f == Fatal(s)
  <2>1. f \in Scan /\ f.wellFormed = FALSE /\ f.log = s.log
    BY HasFailed
  <2> HIDE DEF f
  <2>2. /\ Nest(f, "stray") \in Scan /\ Nest(f, "stray").log = f.log
        /\ Nest(f, "stray").wellFormed = f.wellFormed
    BY <2>1, Nested
  <2>3. /\ Stop(f, "failed", p - 1) \in Scan /\ Stop(f, "failed", p - 1).log = f.log
        /\ Stop(f, "failed", p - 1).wellFormed = f.wellFormed
    <3>1. "failed" \in Stops /\ p - 1 \in Int
      BY <1>0 DEF Stops
    <3>2. LET v == Stop(f, "failed", p - 1)
          IN  v \in Scan /\ v.wellFormed = f.wellFormed /\ v.log = f.log
      BY <2>1, <3>1, Stopped
    <3> QED  BY <3>2
  <2>4. t = Nest(f, "stray") \/ t = Stop(f, "failed", p - 1)
    BY <1>3 DEF f
  <2> HIDE DEF t
  <2> QED  BY <2>1, <2>2, <2>3, <2>4, Zenon
<1>5. u \in Scan /\ u.wellFormed = t.wellFormed /\ u.log = t.log
  <2> HIDE DEF t
  <2> QED  BY <1>0, <1>4, Advanced
<1> HIDE DEF t, u
<1>6. u.wellFormed = FALSE /\ u.log = s.log /\ u \in Scan
  BY <1>4, <1>5, Zenon
<1>7. u.log = Out(mode, Report(n, b))
  <2>1. s.log = Out(mode, Report(p - 1, b))
    BY DEF Going
  <2> QED  BY <1>2, <1>6, <2>1
<1>8. Failing(u, n, b, mode)
  BY <1>2, <1>6, <1>7, Zenon DEF Failing
<1> QED  BY <1>6, <1>8 DEF Read, t, u

\* Markup that is right is reported.
LEMMA MarkupRead ==
  ASSUME NEW in, NEW n, NEW b, NEW mode, Reading(in, n, b, mode), NEW p \in 1..n,
         NEW s \in Scan, Going(s, n, b, mode), s.next = p,
         doc[p].kind \in Markup, p < n, ~Wrong(p)
  PROVE  Read([WholeMarkup(s, in, p, mode, b) EXCEPT !.next = p + 2], p, n, b, mode)
<1>0. /\ n \in Nat /\ b \in Nat /\ n <= Len(doc) /\ Len(doc) \in Nat
      /\ Fine /\ p \in Nat \ {0} /\ p \in 1..Len(doc) /\ p + 1 \in Nat /\ p + 2 \in Int
      /\ in[p] = doc[p] /\ p < Len(doc) /\ (p + 2) - 1 = p + 1
  BY Numbers
<1>1. /\ IsItem(p) /\ Passed(p) /\ s.depth = DepthAt(p) /\ s.phase = PhaseAt(p)
      /\ s.stop = "none"
  BY <1>0 DEF Going
<1> DEFINE kind == doc[p].kind
           f == Fire(s, mode, b, p + 1, <<p>>)
           t == WholeMarkup(s, in, p, mode, b)
           u == [t EXCEPT !.next = p + 2]
<1>2. /\ Passed(p + 2)
      /\ Report(p + 1, b) = IF p + 1 <= b THEN Report(p - 1, b)
                            ELSE Report(p - 1, b) \o <<p>>
  BY <1>0, <1>1, MarkupPasses
<1>3. /\ doc[p + 1].last
      /\ p + 2 <= Len(doc) => IsItem(p + 2)
      /\ DepthAt(p + 2) = DepthAt(p) + Change(kind)
      /\ RootBegun(p + 2) <=> RootBegun(p) \/ kind \in {"open", "empty"}
  BY <1>0, <1>1, MarkupStep
<1>4. /\ f \in Scan /\ f.depth = s.depth /\ f.phase = s.phase /\ f.stop = s.stop
      /\ Sound(f) /\ f.log = Out(mode, Report(p + 1, b))
  <2> DEFINE r == Report(p - 1, b)
             items == <<p>>
  <2>1. s \in Scan /\ b \in Nat /\ p + 1 \in Nat /\ items \in Seq(Nat)
    BY <1>0
  <2>2. Sound(s) /\ s.log = Out(mode, r)
    BY DEF Going
  <2>3. f = Fire(s, mode, b, p + 1, items)
    OBVIOUS
  <2>4. Report(p + 1, b) = IF p + 1 <= b THEN r ELSE r \o items
    BY <1>2
  <2> HIDE DEF f, r, items
  <2>5. /\ f \in Scan /\ f.depth = s.depth /\ f.phase = s.phase /\ f.stop = s.stop
        /\ Sound(f) /\ f.log = Out(mode, IF p + 1 <= b THEN r ELSE r \o items)
    BY ONLY <2>1, <2>2, <2>3, FireSays, Z3
  <2> QED  BY <2>4, <2>5
<1>5. DepthAt(p) \in Int /\ DepthAt(p) >= 0 /\ (~RootBegun(p) => DepthAt(p) = 0)
  BY <1>0, <1>1, DepthStep DEF Passed
<1>6. kind \in {"pi", "comment", "open", "empty", "close"}
  BY DEF Wrong, Markup
<1>7. kind \in {"open", "empty"} => s.phase # "epilog"
  <2>1. kind \in {"open", "empty"} => ~RootBegun(p) \/ Inside(p)
    BY <1>5 DEF Wrong, Inside
  <2> QED  BY <1>1, <2>1 DEF PhaseAt
<1>8. kind = "close" => s.phase = "content"
  <2>1. kind = "close" => Inside(p)
    BY <1>5 DEF Wrong, Inside
  <2> QED  BY <1>1, <2>1 DEF PhaseAt
<1>9. t = IF kind \in {"pi", "comment"} THEN f ELSE Nest(f, kind)
  <2> HIDE DEF f
  <2> QED  BY <1>0, <1>6, <1>7, <1>8 DEF WholeMarkup, f
<1>10. /\ t \in Scan /\ t.depth = DepthAt(p + 2) /\ t.phase = PhaseAt(p + 2)
       /\ t.stop = "none" /\ t.wellFormed = f.wellFormed /\ t.log = f.log
  <2> HIDE DEF f, t
  <2>1. CASE kind \in {"pi", "comment"}
    <3>1. t = f
      BY <1>9, <2>1
    <3>2. Change(kind) = 0
      BY <2>1 DEF Change
    <3>3. DepthAt(p + 2) = DepthAt(p) /\ (RootBegun(p + 2) <=> RootBegun(p))
      BY <1>3, <1>5, <2>1, <3>2
    <3>4. PhaseAt(p + 2) = PhaseAt(p)
      BY <3>3 DEF PhaseAt, Inside
    <3> QED  BY <1>1, <1>4, <3>1, <3>3, <3>4
  <2>2. CASE kind \notin {"pi", "comment"}
    <3>1. t = Nest(f, kind)
      BY <1>9, <2>2
    <3>2. /\ t \in Scan /\ t.depth = f.depth + Change(kind)
          /\ t.phase = IF f.depth + Change(kind) = 0 THEN "epilog" ELSE "content"
          /\ t.stop = f.stop /\ t.log = f.log /\ t.wellFormed = f.wellFormed
      <4>1. f \in Scan
        BY <1>4
      <4> HIDE DEF kind
      <4> QED  BY <3>1, <4>1, Nested
    <3>3. f.depth + Change(kind) = DepthAt(p + 2)
      BY <1>1, <1>3, <1>4
    <3>4. RootBegun(p + 2)
      <4>1. kind = "close" => RootBegun(p)
        BY DEF Wrong
      <4> QED  BY <1>3, <1>6, <2>2, <4>1
    <3>5. DepthAt(p + 2) \in Int /\ DepthAt(p + 2) >= 0
      <4>1. p + 2 \in Nat \ {0}
        BY <1>0
      <4> QED  BY <1>2, <4>1, DepthStep DEF Passed
    <3>6. t.phase = PhaseAt(p + 2)
      BY <3>2, <3>3, <3>4, <3>5 DEF PhaseAt, Inside
    <3>7. t.depth = DepthAt(p + 2)
      BY <3>2, <3>3
    <3> QED  BY <1>1, <1>4, <3>2, <3>6, <3>7
  <2> QED  BY <2>1, <2>2
<1>11. /\ u \in Scan /\ u.next = p + 2 /\ u.depth = t.depth /\ u.phase = t.phase
       /\ u.stop = t.stop /\ u.log = t.log /\ u.wellFormed = t.wellFormed
  <2> HIDE DEF t
  <2> QED  BY <1>0, <1>10, Advanced
<1> HIDE DEF u, t, f
<1>12. Sound(u)
  BY <1>4, <1>10, <1>11, Zenon DEF Sound
<1>13. u.log = Out(mode, Report((p + 2) - 1, b))
  BY <1>0, <1>4, <1>10, <1>11
<1>14. NotInText(p + 2, n, mode)
  <2>1. doc[(p + 2) - 1].kind \notin Text
    <3>1. p + 1 \in 1..Len(doc) /\ p + 1 > 1 /\ (p + 1) - 1 = p
      BY <1>0
    <3>2. doc[p + 1].kind = doc[p].kind
      <4>1. ~doc[p].last
        BY <1>0, <1>1, Items
      <4> QED  BY <1>0, <4>1, Kinds
    <3> QED  BY <1>0, <3>2, Disjoint
  <2> QED  BY <2>1 DEF NotInText
<1>15. p + 2 \in 1..(n + 1) /\ (p + 2 <= n => IsItem(p + 2)) /\ p < p + 2
  BY <1>0, <1>3
<1>16. Going(u, n, b, mode) /\ p < u.next
  BY <1>2, <1>10, <1>11, <1>12, <1>13, <1>14, <1>15 DEF Going
<1>17. u \in Scan
  BY <1>11
<1> QED  BY <1>16, <1>17 DEF Read, u, t, f

LEMMA ReadStart ==
  ASSUME NEW in, NEW n, NEW b, NEW mode, Reading(in, n, b, mode)
  PROVE  Read(Start, 0, n, b, mode)
<1>0. n \in Nat
  BY Numbers
<1>1. /\ Start.next = 1 /\ Start.depth = 0 /\ Start.phase = "prolog" /\ Start.stop = "none"
      /\ Start.log = <<>>
  BY DEF Start
<1>2. Start \in Scan
  <2>1. <<>> \in Seq(Nat)
    OBVIOUS
  <2> QED  BY <2>1 DEF Start, Scan, Stops
<1>3. Sound(Start)
  <2>1. Start.wellFormed = TRUE
    BY DEF Start
  <2> QED  BY <2>1, Zenon DEF Sound
<1>4. Passed(1) /\ IsItem(1)
  <2>1. IsItem(1)
    BY DEF IsItem, Begins
  <2> QED  BY <2>1, AtFirst DEF Passed
<1>5. PhaseAt(1) = "prolog" /\ DepthAt(1) = 0
  BY AtFirst DEF PhaseAt, Inside
<1>6. Report(0, b) = <<>>
  BY InOrderStep DEF Report
<1>7. Out(mode, Report(1 - 1, b)) = <<>>
  BY <1>6 DEF Out
<1>8. NotInText(1, n, mode)
  BY DEF NotInText
<1>9. 1 \in 1..(n + 1) /\ 0 < 1
  BY <1>0
<1>10. Going(Start, n, b, mode) /\ 0 < Start.next
  BY <1>1, <1>3, <1>4, <1>5, <1>7, <1>8, <1>9 DEF Going
<1> QED  BY <1>2, <1>10 DEF Read

LEMMA ReadStep ==
  ASSUME NEW in, NEW n, NEW b, NEW mode, Reading(in, n, b, mode), NEW p \in 1..n,
         NEW s, Read(s, p - 1, n, b, mode)
  PROVE  Read(Token(s, in, p, mode, b), p, n, b, mode)
<1>0. /\ n \in Nat /\ n <= Len(doc) /\ Len(doc) \in Nat /\ Fine /\ p \in Nat
      /\ p \in 1..Len(doc) /\ in[p] = doc[p]
  BY Numbers
<1>1. s \in Scan
  BY DEF Read
<1>2. CASE Waits(s, n, b, mode)
  <2>1. Token(s, in, p, mode, b) = s
    BY <1>2 DEF Waits, Token
  <2> QED  BY <1>1, <1>2, <2>1 DEF Read
<1>3. CASE Failing(s, n, b, mode)
  <2> DEFINE t == Token(s, in, p, mode, b)
  <2>1. Broken(s)
    BY <1>3, Zenon DEF Failing, Broken
  <2>2. t \in Scan /\ Broken(t) /\ t.log = s.log
    BY <1>1, <2>1, FailingStays
  <2> HIDE DEF t
  <2>3. Failing(t, n, b, mode)
    BY <1>3, <2>2, Zenon DEF Failing, Broken
  <2> QED  BY <2>2, <2>3 DEF Read, t
<1>4. CASE Going(s, n, b, mode) /\ p - 1 < s.next
  <2>1. s.next \in 1..(n + 1) /\ s.stop = "none"
    BY <1>4 DEF Going
  <2>2. CASE p < s.next
    <3>1. Token(s, in, p, mode, b) = s
      BY <2>2 DEF Token
    <3> QED  BY <1>1, <1>4, <2>2, <3>1 DEF Read
  <2>3. CASE ~(p < s.next)
    <3>1. s.next = p
      BY <1>0, <1>4, <2>1, <2>3
    <3>2. Going(s, n, b, mode)
      BY <1>4
    <3> DEFINE e == TokenEnd(in, p, b)
    <3>3. CASE doc[p].kind \in Text
      <4> DEFINE t == Run(s, in, p, e, mode, b)
      <4>1. Token(s, in, p, mode, b) = [t EXCEPT !.next = e + 1]
        <5> HIDE DEF t
        <5>1. doc[p].kind \notin Markup
          BY <3>3, Disjoint
        <5> QED  BY <1>0, <2>1, <2>3, <3>3, <5>1 DEF Token, t
      <4> DEFINE u == [Run(s, in, p, e, mode, b) EXCEPT !.next = e + 1]
      <4>2. CASE Inside(p)
        <5>1. Read(u, p, n, b, mode)
          BY <1>1, <3>1, <3>2, <3>3, <4>2, TextReadInside
        <5> QED  BY <4>1, <5>1
      <4>3. CASE ~Inside(p)
        <5>1. Read(u, p, n, b, mode)
          BY <1>1, <3>1, <3>2, <3>3, <4>3, TextReadOutside
        <5> QED  BY <4>1, <5>1
      <4> QED  BY <4>2, <4>3
    <3>4. CASE doc[p].kind \in Markup
      <4>0. doc[p].kind \notin Text
        BY <3>4, Disjoint
      <4>1. e = IF p < n THEN p + 1 ELSE p
        BY <3>4, MarkupEnd
      <4>2. CASE p = n
        <5>1. Token(s, in, p, mode, b) = [CutMarkup(s, in, p, mode) EXCEPT !.next = p + 1]
          <6>1. e = p
            BY <1>0, <4>1, <4>2
          <6> QED  BY <1>0, <2>1, <2>3, <3>4, <4>0, <6>1 DEF Token
        <5>2. Read([CutMarkup(s, in, p, mode) EXCEPT !.next = p + 1], p, n, b, mode)
          BY <1>1, <3>1, <3>2, <3>4, <4>2, CutRead
        <5> QED  BY <5>1, <5>2
      <4>3. CASE p < n
        <5>1. e = p + 1 /\ e # p /\ e + 1 = p + 2
          BY <1>0, <4>1, <4>3
        <5> DEFINE t == WholeMarkup(s, in, p, mode, b)
        <5>2. Token(s, in, p, mode, b) = [t EXCEPT !.next = e + 1]
          <6> HIDE DEF t
          <6> QED  BY <1>0, <2>1, <2>3, <3>4, <4>0, <5>1 DEF Token, t
        <5>3. Read([t EXCEPT !.next = p + 2], p, n, b, mode)
          <6>1. CASE Wrong(p)
            BY <1>1, <3>1, <3>2, <3>4, <4>3, <6>1, WrongMarkupRead
          <6>2. CASE ~Wrong(p)
            BY <1>1, <3>1, <3>2, <3>4, <4>3, <6>2, MarkupRead
          <6> QED  BY <6>1, <6>2
        <5> HIDE DEF t, e
        <5> QED  BY <5>1, <5>2, <5>3
      <4> QED  BY <1>0, <4>2, <4>3
    <3>5. doc[p].kind \in Markup \cup Text
      BY <1>0, Kinds
    <3> QED  BY <3>3, <3>4, <3>5
  <2> QED  BY <2>2, <2>3
<1> QED  BY <1>2, <1>3, <1>4 DEF Read

LEMMA AllRead ==
  ASSUME NEW in, NEW n, NEW b, NEW mode, Reading(in, n, b, mode)
  PROVE  Read(Tokens(in, b, mode), n, n, b, mode)
<1>0. n \in Nat /\ Len(in) = n
  BY Numbers
<1>1. PICK f : /\ Tokens(in, b, mode) = f[n] /\ f[0] = Start
               /\ \A p \in 1..n : f[p] = Token(f[p - 1], in, p, mode, b)
  BY <1>0, TokensRun
<1> DEFINE A == {k \in 0..n : Read(f[k], k, n, b, mode)}
<1>2. 0 \in A
  BY <1>0, <1>1, ReadStart
<1>3. ASSUME NEW k \in 0..(n - 1), k \in A  PROVE k + 1 \in A
  <2> DEFINE p == k + 1
  <2>1. p \in 1..n /\ p - 1 = k /\ p \in 0..n
    BY <1>0
  <2>2. Read(f[p - 1], p - 1, n, b, mode)
    BY <1>3, <2>1
  <2>3. f[p] = Token(f[p - 1], in, p, mode, b)
    BY <1>1, <2>1
  <2> HIDE DEF p
  <2>4. Read(Token(f[p - 1], in, p, mode, b), p, n, b, mode)
    BY <2>1, <2>2, ReadStep
  <2>5. p \in A
    BY <2>1, <2>3, <2>4
  <2> QED  BY <2>5 DEF p
<1>4. \A k \in 0..n : k \in A
  <2> HIDE DEF A
  <2> QED  BY <1>0, <1>2, <1>3, Upward
<1>5. n \in A
  <2> HIDE DEF A
  <2> QED  BY <1>0, <1>4
<1> QED  BY <1>1, <1>5

\* It has read all of the input without an error.
Ended(s, n, b, mode) ==
  /\ s.stop \in {"done", "paused"} /\ Sound(s) /\ s.at = n
  /\ Passed(n + 1) /\ ~WrongWithin(n)
  /\ s.log = Out(mode, Report(n, b))
  /\ s.stop = "done" => Complete(n)
  /\ mode = "resume" => s.stop = "done"
  /\ NotInText(n + 1, n, mode)

\* What the parser says of the first n bytes of the document
LEMMA ParseSays ==
  ASSUME NEW in, NEW n, NEW b, NEW mode, Reading(in, n, b, mode)
  PROVE  LET s == Parse(in, b, mode)
         IN  /\ s \in Scan
             /\ Failing(s, n, b, mode) \/ Waits(s, n, b, mode) \/ Ended(s, n, b, mode)
<1>0. /\ n \in Nat /\ Len(in) = n /\ n \in Int
  BY Numbers
<1> DEFINE r == Tokens(in, b, mode)
           s == Parse(in, b, mode)
<1>1. Read(r, n, n, b, mode)
  BY AllRead
<1> HIDE DEF r
<1>2. \/ s = r /\ r.stop # "none"
      \/ s = Stop(r, "done", n) /\ r.stop = "none" /\ r.phase = "epilog"
      \/ s = Stop(Fatal(r), "failed", n) /\ r.stop = "none" /\ r.phase # "epilog" /\ mode = "resume"
      \/ s = Stop(r, "paused", n) /\ r.stop = "none" /\ r.phase # "epilog" /\ mode # "resume"
  <2>1. s = IF r.stop # "none" THEN r
            ELSE IF r.phase = "epilog" THEN Stop(r, "done", n)
            ELSE IF mode = "resume" THEN Stop(Fatal(r), "failed", n)
            ELSE Stop(r, "paused", n)
    BY <1>0 DEF Parse, r
  <2> HIDE DEF s
  <2>2. CASE r.stop # "none"
    BY <2>1, <2>2
  <2>3. CASE r.stop = "none" /\ r.phase = "epilog"
    BY <2>1, <2>3
  <2>4. CASE r.stop = "none" /\ r.phase # "epilog" /\ mode = "resume"
    BY <2>1, <2>4
  <2>5. CASE r.stop = "none" /\ r.phase # "epilog" /\ mode # "resume"
    BY <2>1, <2>5
  <2> QED  BY <2>2, <2>3, <2>4, <2>5, Zenon
<1> HIDE DEF s
<1>3. r \in Scan
  BY <1>1 DEF Read
<1> DEFINE f == Fatal(r)
<1>4. f \in Scan /\ f.wellFormed = FALSE /\ f.log = r.log
  BY <1>3, HasFailed
<1>5. {"done", "failed", "paused"} \subseteq Stops
  BY DEF Stops
<1>6. s = Stop(f, "failed", n) => s \in Scan /\ s.wellFormed = f.wellFormed /\ s.log = f.log
  <2> HIDE DEF f
  <2>1. LET v == Stop(f, "failed", n)
        IN  v \in Scan /\ v.wellFormed = f.wellFormed /\ v.log = f.log
    BY <1>0, <1>4, <1>5, Stopped
  <2> QED  BY <2>1
<1>7. ASSUME NEW how \in {"done", "paused"}, s = Stop(r, how, n)
      PROVE  /\ s \in Scan /\ s.wellFormed = r.wellFormed /\ s.log = r.log /\ s.stop = how
             /\ s.at = n
  <2>1. LET v == Stop(r, how, n)
        IN  /\ v \in Scan /\ v.wellFormed = r.wellFormed /\ v.log = r.log /\ v.stop = how
            /\ v.at = n
    BY <1>0, <1>3, <1>5, Stopped
  <2> QED  BY <1>7, <2>1
<1>8. CASE Failing(r, n, b, mode)
  <2>1. r.wellFormed = FALSE
    BY <1>8, Zenon DEF Failing
  <2>2. s \in Scan /\ s.log = r.log
    <3>1. s = r \/ s = Stop(r, "done", n) \/ s = Stop(f, "failed", n) \/ s = Stop(r, "paused", n)
      BY <1>2 DEF f
    <3> QED  BY <1>3, <1>4, <1>6, <1>7, <3>1
  <2>3. s.wellFormed = FALSE
    <3>1. s = r \/ s = Stop(r, "done", n) \/ s = Stop(f, "failed", n) \/ s = Stop(r, "paused", n)
      BY <1>2 DEF f
    <3>2. s = Stop(r, "done", n) \/ s = Stop(r, "paused", n) => s.wellFormed = r.wellFormed
      BY <1>7
    <3>3. s = Stop(f, "failed", n) => s.wellFormed = f.wellFormed
      BY <1>6
    <3> HIDE DEF f
    <3> QED  BY <1>4, <2>1, <3>1, <3>2, <3>3, Zenon
  <2>4. Failing(s, n, b, mode)
    BY <1>8, <2>2, <2>3, Zenon DEF Failing
  <2> QED  BY <2>2, <2>4 DEF s
<1>9. CASE Waits(r, n, b, mode)
  <2>1. s = r
    BY <1>2, <1>9 DEF Waits
  <2> QED  BY <1>3, <1>9, <2>1 DEF s
<1>10. CASE Going(r, n, b, mode) /\ n < r.next
  <2>1. r.next = n + 1
    BY <1>0, <1>10 DEF Going
  <2>2. /\ Passed(n + 1) /\ r.phase = PhaseAt(n + 1) /\ NotInText(n + 1, n, mode)
        /\ r.stop = "none" /\ Sound(r)
    BY <1>10, <2>1 DEF Going
  <2>3. r.log = Out(mode, Report(n, b))
    <3>1. (n + 1) - 1 = n
      BY <1>0
    <3> QED  BY <1>10, <2>1, <3>1 DEF Going
  <2>4. ~WrongWithin(n)
    <3>1. \A q \in 1..n : IsItem(q) => ~Wrong(q)
      BY <1>0, <2>2 DEF Passed
    <3> QED  BY <3>1 DEF WrongWithin
  <2>5. r.phase = "epilog" <=> Complete(n)
    <3>1. DepthAt(n + 1) \in Int /\ DepthAt(n + 1) >= 0
      <4>1. n + 1 \in Nat \ {0}
        BY <1>0
      <4> QED  BY <2>2, <4>1, DepthStep DEF Passed
    <3>2. n > 0 => doc[n].last
      <4>1. (n + 1) - 1 = n /\ (n > 0 => n + 1 > 1)
        BY <1>0
      <4> QED  BY <2>2, <4>1 DEF Passed
    <3>3. r.phase = "epilog" <=> RootBegun(n + 1) /\ DepthAt(n + 1) = 0
      BY <2>2, <3>1 DEF PhaseAt, Inside
    <3> QED  BY <3>2, <3>3 DEF Complete
  <2>6. CASE s = Stop(f, "failed", n) /\ mode = "resume" /\ r.phase # "epilog"
    <3>1. s.wellFormed = FALSE
      <4>1. s.wellFormed = f.wellFormed
        BY <1>6, <2>6
      <4> QED  BY <1>4, <4>1, Zenon
    <3>2. s \in Scan /\ s.log = r.log
      BY <1>4, <1>6, <2>6
    <3>3. ~Complete(n)
      BY <2>5, <2>6
    <3>4. s.log = Out(mode, Report(n, b)) /\ mode = "resume"
      BY <2>3, <2>6, <3>2
    <3>5. Failing(s, n, b, mode)
      BY <3>1, <3>3, <3>4, Zenon DEF Failing
    <3> QED  BY <3>2, <3>5 DEF s
  <2>7. CASE \E how \in {"done", "paused"} :
               /\ s = Stop(r, how, n) /\ (how = "done" <=> r.phase = "epilog")
               /\ mode = "resume" => how = "done"
    <3>1. PICK how \in {"done", "paused"} :
               /\ s = Stop(r, how, n) /\ (how = "done" <=> r.phase = "epilog")
               /\ mode = "resume" => how = "done"
      BY <2>7
    <3>2. /\ s \in Scan /\ s.wellFormed = r.wellFormed /\ s.log = r.log /\ s.stop = how
          /\ s.at = n
      BY <1>7, <3>1
    <3>3. Sound(s)
      BY <2>2, <3>2, Zenon DEF Sound
    <3>4. s.log = Out(mode, Report(n, b))
      BY <2>3, <3>2
    <3>5. Ended(s, n, b, mode)
      BY <2>2, <2>4, <2>5, <3>1, <3>2, <3>3, <3>4 DEF Ended
    <3> QED  BY <3>2, <3>5 DEF s
  <2>8. \/ s = Stop(r, "done", n) /\ r.phase = "epilog"
        \/ s = Stop(f, "failed", n) /\ r.phase # "epilog" /\ mode = "resume"
        \/ s = Stop(r, "paused", n) /\ r.phase # "epilog" /\ mode # "resume"
    BY <1>2, <2>2 DEF f
  <2> HIDE DEF f
  <2> QED  BY <2>6, <2>7, <2>8
<1> QED  BY <1>1, <1>8, <1>9, <1>10 DEF Read

-----------------------------------------------------------------------------
(* What a call adds to the log *)

LEMMA Beginning ==
  ASSUME Fine, NEW n \in 0..Len(doc), NEW in, in = SubSeq(doc, 1, n)
  PROVE  in \in Seq(Byte) /\ Len(in) = n /\ \A i \in 1..n : in[i] = doc[i]
<1>1. doc \in Seq(Byte) /\ Len(doc) \in Nat /\ n \in Nat
  BY DEF Fine
<1>2. \A i \in 1..n : doc[i] \in Byte
  BY <1>1
<1>3. SubSeq(doc, 1, n) \in Seq(Byte) /\ Len(SubSeq(doc, 1, n)) = n
  BY <1>1, <1>2, SubSeqProperties
<1>4. \A i \in 1..n : SubSeq(doc, 1, n)[i] = doc[i]
  BY <1>1
<1> QED  BY <1>3, <1>4

LEMMA CRKind ==
  ASSUME Fine, NEW i \in 1..Len(doc)
  PROVE  doc[i].kind = "cr" <=> doc[i] = CR
<1>1. doc[i] \in Byte
  BY DEF Fine
<1>2. "cr" \in Text
  BY DEF Text
<1>3. doc[i].kind = "cr" => doc[i].last = TRUE
  BY <1>1, <1>2, Kinds, Zenon DEF Byte
<1>4. doc[i] = [kind |-> doc[i].kind, last |-> doc[i].last]
  BY <1>1 DEF Byte
<1>5. doc[i].kind = "cr" => doc[i] = CR
  BY <1>3, <1>4, Zenon DEF CR
<1>6. CR.kind = "cr"
  BY DEF CR
<1> QED  BY <1>5, <1>6, Zenon

LEMMA UnfinishedDocument ==
  ASSUME Fine
  PROVE  Unfinished <=> ~Complete(Len(doc))
<1>1. Len(doc) \in Nat /\ (doc # <<>> <=> Len(doc) > 0)
  BY DEF Fine
<1> QED  BY <1>1 DEF Unfinished, Complete

\* Where a delivery may take up again after n bytes
Clear(b, n) ==
  /\ b > 0 /\ Pair(b) => ~Inside(b)
  /\ b > 0 => doc[b].last
  /\ b > 0 /\ Inside(b + 1) /\ doc[b].kind \in Text =>
       b < n /\ doc[b + 1].kind \in Markup

\* The parser has told the rest and raised an error.
Fails(s, l, n, mode) ==
  /\ Broken(s) /\ l \o s.log = Expected(n)
  /\ WrongWithin(n) \/ (mode = "resume" /\ ~Complete(n))

\* It has told the rest of what is whole.
Tells(s, l, n, mode) ==
  /\ Sound(s) /\ ~WrongWithin(n) /\ l \o s.log = Expected(n)
  /\ mode = "resume" => s.stop = "done" /\ s.at = n /\ Complete(n)
  /\ \/ s.at = n
     \/ n > 0 /\ s.at = n - 1 /\ Expected(n - 1) = Expected(n) /\ doc[n].kind \in Markup

\* The persistent engine has told what precedes the item it waits for.
Keeps(s, l, n) ==
  /\ Sound(s) /\ s.at \in 0..n /\ l \o s.log = Expected(s.at) /\ Clear(s.at, n)

LEMMA Delivers ==
  ASSUME NEW in, NEW n, NEW b, NEW mode, Reading(in, n, b, mode),
         mode \in {"partial", "resume"},
         NEW l, l = Expected(b), NEW s, s = Parse(in, b, mode)
  PROVE  Fails(s, l, n, mode) \/ Tells(s, l, n, mode)
<1>0. /\ n \in Nat /\ b \in Nat /\ b <= n /\ n <= Len(doc) /\ Fine /\ mode # "probe"
      /\ mode # "driver" /\ Len(doc) \in Nat
  BY Numbers
<1>1. Failing(s, n, b, mode) \/ Waits(s, n, b, mode) \/ Ended(s, n, b, mode)
  BY ParseSays
<1>2. l \o Report(n, b) = Expected(n)
  BY <1>0, Joined
<1>3. \A r : Out(mode, r) = r
  BY <1>0 DEF Out
<1>4. CASE Failing(s, n, b, mode)
  BY <1>2, <1>3, <1>4, Zenon DEF Failing, Fails, Broken
<1>5. CASE Ended(s, n, b, mode)
  <2>1. s.at = n /\ ~WrongWithin(n) /\ s.log = Report(n, b) /\ Sound(s)
    BY <1>3, <1>5 DEF Ended
  <2>2. mode = "resume" => s.stop = "done" /\ Complete(n)
    BY <1>5 DEF Ended
  <2> QED  BY <1>2, <2>1, <2>2 DEF Tells
<1>6. CASE Waits(s, n, b, mode)
  <2>1. /\ Sound(s) /\ mode # "resume" /\ s.at \in 0..(n - 1) /\ IsItem(s.at + 1)
        /\ ~WrongWithin(n) /\ s.log = Report(s.at, b)
        /\ s.at = n - 1 /\ doc[n].kind \in Markup
    BY <1>0, <1>3, <1>6 DEF Waits
  <2>2. n > 0 /\ n - 1 \in Nat /\ n \in 1..Len(doc) /\ IsItem(n) /\ n - 1 <= n
    <3>1. n > 0 /\ (n - 1) + 1 = n
      BY <1>0, <2>1
    <3> QED  BY <1>0, <2>1, <3>1
  <2>3. \A p \in 1..n : Told(p, n) => Told(p, n - 1)
    BY <1>0, <2>1, <2>2, CutSaysNothing
  <2>4. Report(n - 1, b) = Report(n, b)
    BY <1>0, <2>2, <2>3, SameReport
  <2>5. Expected(n - 1) = Expected(n)
    BY <1>0, <2>2, <2>3, SameExpected
  <2>6. s.log = Report(n, b)
    BY <2>1, <2>4
  <2> QED  BY <1>2, <2>1, <2>2, <2>5, <2>6 DEF Tells
<1> QED  BY <1>1, <1>4, <1>5, <1>6

LEMMA Drives ==
  ASSUME NEW in, NEW n, NEW b, Reading(in, n, b, "driver"),
         NEW l, l = Expected(b), NEW s, s = Parse(in, b, "driver")
  PROVE  /\ Fails(s, l, n, "driver") \/ Keeps(s, l, n)
         /\ Keeps(s, l, n) => ~WrongWithin(n) /\ (b = n => s.at = n)
<1>0. /\ n \in Nat /\ b \in Nat /\ b <= n /\ n <= Len(doc) /\ Fine
      /\ Len(doc) \in Nat
  BY Numbers
<1>1. Failing(s, n, b, "driver") \/ Waits(s, n, b, "driver") \/ Ended(s, n, b, "driver")
  BY ParseSays
<1>2. \A r : Out("driver", r) = r
  BY DEF Out
<1>3. CASE Failing(s, n, b, "driver")
  <2>1. l \o Report(n, b) = Expected(n)
    BY <1>0, Joined
  <2>2. Fails(s, l, n, "driver")
    BY <1>2, <1>3, <2>1, Zenon DEF Failing, Fails, Broken
  <2>3. ~Keeps(s, l, n)
    BY <2>2 DEF Fails, Keeps, Sound, Broken
  <2> QED  BY <2>2, <2>3
<1>4. ASSUME NEW a, s.at = a, a \in 0..n, b <= a, Sound(s), s.log = Report(a, b),
             Passed(a + 1), a < n => IsItem(a + 1), NotInText(a + 1, n, "driver")
      PROVE  Keeps(s, l, n)
  <2>1. a \in Nat /\ a <= Len(doc) /\ (a + 1) - 1 = a /\ (a > 0 => a + 1 > 1 /\ a \in 1..Len(doc))
    BY <1>0, <1>4
  <2>2. l \o Report(a, b) = Expected(a)
    BY <1>0, <1>4, <2>1, Joined
  <2>3. a > 0 => doc[a].last
    BY <1>4, <2>1 DEF Passed
  <2>4. ASSUME a > 0, Inside(a + 1), doc[a].kind \in Text
        PROVE  a < n /\ doc[a + 1].kind \in Markup
    <3>1. a + 1 <= n /\ doc[a + 1].kind \in Markup
      BY <1>4, <2>1, <2>4 DEF NotInText
    <3> QED  BY <1>0, <2>1, <3>1
  <2>5. ASSUME a > 0, Pair(a)  PROVE ~Inside(a)
    <3>1. /\ doc[a].kind = "cr" /\ doc[a].kind \in Text /\ a < Len(doc)
          /\ doc[a + 1].kind = "lf" /\ doc[a + 1].kind \notin Markup
      BY <2>5 DEF Pair, Text, Markup
    <3>2. ~Inside(a + 1)
      BY <2>4, <2>5, <3>1
    <3>3. DepthAt(a + 1) = DepthAt(a)
      <4>1. a \in Nat \ {0}
        BY <2>1, <2>5
      <4>2. doc[a].kind \notin {"open", "close", "stray"}
        BY <3>1
      <4>3. Change(doc[a].kind) = 0
        BY <4>2 DEF Change
      <4>4. /\ DepthAt(a) \in Int
            /\ DepthAt(a + 1) = DepthAt(a) + (IF IsItem(a) THEN Change(doc[a].kind) ELSE 0)
        BY <4>1, DepthStep
      <4> QED  BY <4>3, <4>4
    <3> QED  BY <3>2, <3>3 DEF Inside
  <2>6. Clear(a, n)
    BY <2>3, <2>4, <2>5 DEF Clear
  <2> QED  BY <1>4, <2>2, <2>6 DEF Keeps
<1>5. CASE Waits(s, n, b, "driver")
  <2> DEFINE a == s.at
  <2>1. /\ a \in 0..(n - 1) /\ b <= a /\ Sound(s) /\ s.log = Report(a, b)
        /\ Passed(a + 1) /\ IsItem(a + 1) /\ NotInText(a + 1, n, "driver")
        /\ ~WrongWithin(n)
    BY <1>2, <1>5 DEF Waits
  <2> HIDE DEF a
  <2>2. a \in 0..n /\ b # n
    BY <1>0, <2>1
  <2>3. s.at = a
    BY DEF a
  <2>4. Keeps(s, l, n)
    BY <1>4, <2>1, <2>2, <2>3
  <2> QED  BY <2>1, <2>2, <2>4
<1>6. CASE Ended(s, n, b, "driver")
  <2>1. /\ s.at = n /\ Sound(s) /\ s.log = Report(n, b)
        /\ Passed(n + 1) /\ NotInText(n + 1, n, "driver") /\ ~WrongWithin(n)
    BY <1>2, <1>6 DEF Ended
  <2>2. n \in 0..n /\ ~(n < n)
    BY <1>0
  <2>3. Keeps(s, l, n)
    BY <1>0, <1>4, <2>1, <2>2
  <2> QED  BY <2>1, <2>3
<1> QED  BY <1>1, <1>3, <1>5, <1>6

-----------------------------------------------------------------------------
(* What was told between the calls *)

\* The outcome the document must have
Failed == WrongWithin(Len(doc)) \/ Unfinished

Flag == ctxt.disableSAX \in BOOLEAN
Running == ctxt.disableSAX = FALSE

\* The persistent engine has told of all up to its cursor, and what lies behind
\* it is not wrong.
Driven ==
  ~closed /\ Running /\ session # NoSession =>
    /\ cursor \in 0..fed /\ log = Expected(cursor) /\ Clear(cursor, fed)

\* The replay engine has told of all up to what it counts as delivered, which
\* leaves nothing out once the encoding was decided.
Replayed ==
  ~closed /\ Running /\ session = NoSession =>
    /\ push.pending \in 0..fed /\ push.delivered \in 0..(fed - push.pending)
    /\ log = Expected(push.delivered)
    /\ push.delivered > 0 /\ Pair(push.delivered) => ~Inside(push.delivered)
    /\ failed # NoCall /\ fed - push.pending >= DecideBytes =>
         log = Expected(fed - push.pending) /\ ~WrongWithin(fed - push.pending)
    /\ push.pushContext /\ context = "plain" => push.delivered = 0 /\ failed = NoCall
    /\ push.pending = 0 /\ fed > 0 => doc[fed].kind # "cr"

\* A context was stopped by an error in what it read, and told up to it.
Halted ==
  ~closed /\ ~Running =>
    /\ push.pending \in 0..fed
    /\ \E m \in 0..(fed - push.pending) : WrongWithin(m) /\ log = Expected(m)

\* After the terminating call nothing is left to tell, whatever is called.
Over ==
  closed =>
    /\ fed = Len(doc) /\ log = Expected(Len(doc))
    /\ Failed => failed = TRUE /\ ~Running
    /\ ~Failed => /\ failed = FALSE /\ Running
                  /\ \/ session # NoSession /\ session = SubSeq(doc, 1, Len(doc))
                        /\ cursor = Len(doc)
                     \/ session = NoSession /\ ctxt.instate = "EOF" /\ ~push.pushContext

Spoken == Fine /\ Flag /\ Driven /\ Replayed /\ Halted /\ Over

\* What a document says stays as long as it is the same document.
LEMMA SameDocument ==
  ASSUME doc' = doc
  PROVE  /\ Fine' <=> Fine
         /\ \A n : Expected(n)' = Expected(n)
         /\ \A n : WrongWithin(n)' <=> WrongWithin(n)
         /\ \A n : Inside(n)' <=> Inside(n)
         /\ \A n : Pair(n)' <=> Pair(n)
         /\ \A b, n : Clear(b, n)' <=> Clear(b, n)
         /\ Failed' <=> Failed
<1>1. \A n : Inside(n)' <=> Inside(n)
  BY DEF Inside, DepthAt
<1>2. \A n : Pair(n)' <=> Pair(n)
  BY DEF Pair
<1>3. \A n : Wrong(n)' <=> Wrong(n)
  BY DEF Wrong, RootBegun, DepthAt
<1>4. \A n : IsItem(n)' <=> IsItem(n)
  BY DEF IsItem
<1>5. \A n : ItemEnd(n)' = ItemEnd(n)
  BY DEF ItemEnd
<1>6. \A n : WrongWithin(n)' <=> WrongWithin(n)
  BY <1>3, <1>4, <1>5 DEF WrongWithin
<1>7. \A p, n : Told(p, n)' <=> Told(p, n)
  BY DEF Told, Wrong, RootBegun, DepthAt, IsItem, ItemEnd
<1>8. \A n : Expected(n)' = Expected(n)
  BY DEF Expected, Told, Wrong, RootBegun, DepthAt, IsItem, ItemEnd
<1>9. \A b, n : Clear(b, n)' <=> Clear(b, n)
  BY <1>1, <1>2 DEF Clear
<1>10. Fine' <=> Fine
  BY DEF Fine
<1>11. Failed' <=> Failed
  BY DEF Failed, WrongWithin, Unfinished, Wrong, RootBegun, DepthAt, IsItem, ItemEnd
<1> QED  BY <1>1, <1>2, <1>6, <1>8, <1>9, <1>10, <1>11

LEMMA AfterIs ==
  ASSUME NEW s, NEW i
  PROVE  /\ Sound(s) => After(s, i).disableSAX = FALSE
         /\ Broken(s) => After(s, i).disableSAX = TRUE
         /\ After(s, i).instate = i
  BY Zenon DEF Sound, Broken, After

\* The bytes a call passes on to what is held
Through(k, d) == fed + k - d

LEMMA PassedOn ==
  ASSUME Kept, NEW k \in Nat, fed + k <= Len(doc), NEW terminate \in BOOLEAN
  PROVE  /\ SubSeq(doc, 1, fed) \o Slice(k, terminate)
              = SubSeq(doc, 1, Through(k, Deferred(k, terminate)))
         /\ terminate => Deferred(k, terminate) = 0
         /\ Deferred(k, terminate) \in 0..1
         /\ k = 0 => Deferred(k, terminate) = 0
<1> DEFINE d == Deferred(k, terminate)
           n == Through(k, d)
<1>1. /\ doc \in Seq(Byte) /\ fed \in 0..Len(doc) /\ Len(doc) \in Nat
  BY DEF Kept
<1>2. /\ d \in 0..1 /\ (terminate => d = 0)
      /\ k = 0 => d = 0
  BY DEF Deferred
<1>3. Slice(k, terminate) = SubSeq(doc, fed + 1, n)
  BY DEF Slice, Through
<1>4. k \in Nat /\ fed + k <= Len(doc)
  OBVIOUS
<1> HIDE DEF d
<1>5. n \in 0..Len(doc) /\ fed <= n
  BY ONLY <1>1, <1>2, <1>4 DEF Through
<1> HIDE DEF n
<1>6. SubSeq(doc, 1, fed) \o SubSeq(doc, fed + 1, n) = SubSeq(doc, 1, n)
  <2>1. /\ 1 \in 1..(Len(doc) + 1) /\ fed \in (1 - 1)..Len(doc)
        /\ n \in fed..Len(doc)
    BY <1>1, <1>5
  <2> QED  BY <2>1, <1>1, ConcatAdjacentSubSeq
<1> QED  BY <1>2, <1>3, <1>6, Zenon DEF d, n

\* What the persistent engine parses, and from where
Passing(in, from, d, n, k, terminate) ==
  /\ n \in 0..Len(doc) /\ fed <= n /\ n <= fed + k /\ n = fed + k - d
  /\ in = SubSeq(doc, 1, n) /\ in \in Seq(Byte) /\ Len(in) = n
  /\ \A i \in 1..n : in[i] = doc[i]
  /\ from \in 0..fed /\ log = Expected(from) /\ Clear(from, n)
  /\ terminate => n = Len(doc)
  /\ d \in 0..1
  /\ closed => from = n /\ ~Failed /\ n = Len(doc) /\ k = 0 /\ fed = Len(doc) /\ d = 0
  /\ push.pending = 0 /\ Running

LEMMA PersistentInput ==
  ASSUME IInv, Spoken, NEW k \in Nat, NEW terminate \in BOOLEAN, fed + k <= Len(doc),
         PersistentChunk(k, terminate), terminate => fed + k = Len(doc),
         NEW in, in = (IF session = NoSession THEN Stashed ELSE session)
                        \o Slice(k, terminate),
         NEW from, from = (IF session = NoSession THEN 0 ELSE cursor),
         NEW d, d = Deferred(k, terminate), NEW n, n = fed + k - d
  PROVE  Passing(in, from, d, n, k, terminate)
<1>1. /\ Kept /\ OneEngine /\ InputInOrder /\ Fine /\ Flag /\ Driven /\ Replayed /\ Over
  BY DEF IInv, Spoken
<1>2. /\ push.pushContext /\ context = "plain" /\ push.pending = 0
      /\ ~ctxt.disableSAX
  BY <1>1 DEF OneEngine, PersistentChunk, Eligible
<1>3. Running
  BY <1>1, <1>2, Zenon DEF Running, Flag
<1>4. doc \in Seq(Byte) /\ fed \in 0..Len(doc) /\ Len(doc) \in Nat
  BY <1>1 DEF Kept
<1>7. k \in Nat /\ fed + k <= Len(doc) /\ n = fed + k - d
  OBVIOUS
<1>8. terminate \in BOOLEAN /\ d = Deferred(k, terminate)
  OBVIOUS
<1> DEFINE held == IF session = NoSession THEN Stashed ELSE session
<1>5. CASE closed
  <2>1. /\ fed = Len(doc) /\ log = Expected(Len(doc)) /\ ~Failed
        /\ session # NoSession /\ session = SubSeq(doc, 1, Len(doc)) /\ cursor = Len(doc)
    BY <1>1, <1>2, <1>3, <1>5 DEF Over
  <2>2. k = 0
    BY <1>4, <2>1
  <2>3. held = SubSeq(doc, 1, fed) /\ from = cursor
    BY <2>1, Zenon
  <2> HIDE DEF held
  <2>4. /\ n \in 0..Len(doc) /\ fed <= n /\ n <= fed + k
        /\ held \o Slice(k, terminate) = SubSeq(doc, 1, n)
        /\ d \in 0..1 /\ (k = 0 => d = 0)
    <3>1. /\ held \o Slice(k, terminate) = SubSeq(doc, 1, Through(k, d))
          /\ d \in 0..1 /\ (terminate => d = 0) /\ (k = 0 => d = 0)
      BY <1>1, <1>7, <1>8, <2>3, PassedOn, Zenon
    <3>2. Through(k, d) = n
      BY ONLY <1>7 DEF Through
    <3>3. n \in 0..Len(doc) /\ fed <= n /\ n <= fed + k
      BY ONLY <1>4, <1>7, <3>1
    <3> QED  BY ONLY <3>1, <3>2, <3>3, Zenon
  <2>5. in = SubSeq(doc, 1, n)
    BY <2>4 DEF held
  <2>6. in \in Seq(Byte) /\ Len(in) = n /\ \A i \in 1..n : in[i] = doc[i]
    BY <1>1, <2>4, <2>5, Beginning
  <2>7. n = Len(doc) /\ from = n /\ from \in 0..fed
    BY <1>4, <2>1, <2>2, <2>3, <2>4
  <2>8. Clear(from, n)
    <3>1. Complete(Len(doc))
      BY <1>1, <2>1, UnfinishedDocument DEF Failed
    <3>2. from > 0 => doc[from].last
      BY <2>7, <3>1 DEF Complete
    <3>3. ~Inside(from + 1)
      BY <2>7, <3>1 DEF Complete, Inside
    <3>4. ~Pair(from)
      BY <2>7 DEF Pair
    <3> QED  BY <3>2, <3>3, <3>4 DEF Clear
  <2>9. log = Expected(from)
    BY <2>1, <2>7
  <2>10. d = 0
    BY <2>2, <2>4
  <2> QED  BY <1>2, <1>3, <1>5, <2>1, <2>2, <2>4, <2>5, <2>6, <2>7, <2>8, <2>9, <2>10 DEF Passing
<1>6. CASE ~closed
  <2>1. Held = SubSeq(doc, 1, fed)
    BY <1>1, <1>2, <1>6 DEF InputInOrder
  <2>2. Held = held
    <3>1. CASE session = NoSession
      <4>0. Stashed \in Seq(Byte)
        <5>1. <<>> \in Seq(Byte)
          OBVIOUS
        <5> QED  BY <1>1, <5>1 DEF Kept, Stashed
      <4>1. Stashed \o CRs(push.pending) = Stashed
        BY <1>2, <4>0, NoCRs, ConcatEmptySeq
      <4> QED
        BY <3>1, <4>1 DEF Held
    <3>2. CASE session # NoSession
      BY <3>2 DEF Held
    <3> QED
      BY <3>1, <3>2
  <2>3. held = SubSeq(doc, 1, fed)
    BY <2>1, <2>2
  <2> HIDE DEF held
  <2>4. /\ n \in 0..Len(doc) /\ fed <= n /\ n <= fed + k
        /\ held \o Slice(k, terminate) = SubSeq(doc, 1, n)
        /\ (terminate => d = 0)
        /\ d \in 0..1
    <3>1. /\ held \o Slice(k, terminate) = SubSeq(doc, 1, Through(k, d))
          /\ d \in 0..1 /\ (terminate => d = 0) /\ (k = 0 => d = 0)
      BY <1>1, <1>7, <1>8, <2>3, PassedOn, Zenon
    <3>2. Through(k, d) = n
      BY ONLY <1>7 DEF Through
    <3>3. n \in 0..Len(doc) /\ fed <= n /\ n <= fed + k
      BY ONLY <1>4, <1>7, <3>1
    <3> QED  BY ONLY <3>1, <3>2, <3>3, Zenon
  <2>5. in = SubSeq(doc, 1, n)
    BY <2>4 DEF held
  <2>6. in \in Seq(Byte) /\ Len(in) = n /\ \A i \in 1..n : in[i] = doc[i]
    BY <1>1, <2>4, <2>5, Beginning
  <2>7. from \in 0..fed /\ log = Expected(from) /\ Clear(from, n)
    <3>1. CASE session = NoSession
      <4>1. from = 0 /\ log = Expected(0)
        BY <1>1, <1>2, <1>3, <1>6, <3>1 DEF Replayed
      <4> QED  BY <1>4, <4>1 DEF Clear
    <3>2. CASE session # NoSession
      <4>1. /\ cursor \in 0..fed /\ log = Expected(cursor) /\ Clear(cursor, fed)
            /\ from = cursor
        BY <1>1, <1>3, <1>6, <3>2 DEF Driven
      <4>2. Clear(cursor, n)
        BY <1>4, <2>4, <4>1 DEF Clear
      <4> QED  BY <4>1, <4>2
    <3> QED  BY <3>1, <3>2
  <2>8. terminate => n = Len(doc)
    <3> SUFFICES ASSUME terminate  PROVE n = Len(doc)
      OBVIOUS
    <3>1. d = 0 /\ fed + k = Len(doc)
      BY <2>4
    <3> QED  BY ONLY <1>4, <1>7, <3>1
  <2> QED  BY <1>2, <1>3, <1>6, <2>4, <2>5, <2>6, <2>7, <2>8 DEF Passing
<1> QED  BY <1>5, <1>6

LEMMA SameWords ==
  ASSUME doc' = doc
  PROVE  /\ Expected(cursor)' = Expected(cursor')
         /\ Clear(cursor, fed)' <=> Clear(cursor', fed')
         /\ Expected(push.delivered)' = Expected(push'.delivered)
         /\ Pair(push.delivered)' <=> Pair(push'.delivered)
         /\ Inside(push.delivered)' <=> Inside(push'.delivered)
         /\ Expected(fed - push.pending)' = Expected(fed' - push'.pending)
         /\ WrongWithin(fed - push.pending)' <=> WrongWithin(fed' - push'.pending)
         /\ Expected(Len(doc))' = Expected(Len(doc))
<1>1. Expected(cursor)' = Expected(cursor')
  BY DEF Expected, Told, Wrong, RootBegun, DepthAt, IsItem, ItemEnd
<1>2. Clear(cursor, fed)' <=> Clear(cursor', fed')
  BY DEF Clear, Pair, Inside, DepthAt
<1>3. Expected(push.delivered)' = Expected(push'.delivered)
  BY DEF Expected, Told, Wrong, RootBegun, DepthAt, IsItem, ItemEnd
<1>4. /\ Pair(push.delivered)' <=> Pair(push'.delivered)
      /\ Inside(push.delivered)' <=> Inside(push'.delivered)
  BY DEF Pair, Inside, DepthAt
<1>5. Expected(fed - push.pending)' = Expected(fed' - push'.pending)
  BY DEF Expected, Told, Wrong, RootBegun, DepthAt, IsItem, ItemEnd
<1>6. WrongWithin(fed - push.pending)' <=> WrongWithin(fed' - push'.pending)
  BY DEF WrongWithin, Wrong, RootBegun, DepthAt, IsItem, ItemEnd
<1>7. Expected(Len(doc))' = Expected(Len(doc))
  BY DEF Expected, Told, Wrong, RootBegun, DepthAt, IsItem, ItemEnd
<1> QED BY <1>1, <1>2, <1>3, <1>4, <1>5, <1>6, <1>7

\* The states a call can leave: the persistent engine goes on, ...
LEMMA DrivesOn ==
  ASSUME doc' = doc, Fine, ~closed', ctxt'.disableSAX = FALSE, session' # NoSession,
         cursor' \in 0..fed', log' = Expected(cursor'), Clear(cursor', fed')
  PROVE  Spoken'
<1>1. Fine' /\ Flag' /\ Running'
  BY SameDocument DEF Flag, Running
<1>2. Driven'
  BY SameWords DEF Driven
<1> QED  BY <1>1, <1>2 DEF Spoken, Replayed, Halted, Over

\* ... or the replay engine does, ...
LEMMA ReplaysOn ==
  ASSUME doc' = doc, Fine, ~closed', ctxt'.disableSAX = FALSE, session' = NoSession,
         push'.pending \in 0..fed', push'.delivered \in 0..(fed' - push'.pending),
         log' = Expected(push'.delivered),
         push'.delivered > 0 /\ Pair(push'.delivered) => ~Inside(push'.delivered),
         failed' # NoCall /\ fed' - push'.pending >= DecideBytes =>
           log' = Expected(fed' - push'.pending) /\ ~WrongWithin(fed' - push'.pending),
         push'.pushContext /\ context' = "plain" =>
           push'.delivered = 0 /\ failed' = NoCall,
         push'.pending = 0 /\ fed' > 0 => doc[fed'].kind # "cr"
  PROVE  Spoken'
<1>1. Fine' /\ Flag' /\ Running'
  BY SameDocument DEF Flag, Running
<1>2. Replayed'
  BY SameWords DEF Replayed
<1> QED  BY <1>1, <1>2 DEF Spoken, Driven, Halted, Over

\* ... or an error has stopped it, ...
LEMMA StopsHere ==
  ASSUME doc' = doc, Fine, ~closed', ctxt'.disableSAX = TRUE, push'.pending \in 0..fed',
         NEW m, m \in 0..(fed' - push'.pending), WrongWithin(m), log' = Expected(m)
  PROVE  Spoken'
<1>1. Fine' /\ Flag' /\ ~Running'
  BY SameDocument DEF Flag, Running
<1>2. WrongWithin(m)' /\ log' = Expected(m)'
  BY SameDocument
<1>3. Halted'
  BY <1>2 DEF Halted
<1> QED  BY <1>1, <1>3 DEF Spoken, Driven, Replayed, Over

\* ... or the document is over.
LEMMA EndsBadly ==
  ASSUME doc' = doc, Fine, closed', Failed, failed' = TRUE, ctxt'.disableSAX = TRUE,
         fed' = Len(doc), log' = Expected(Len(doc))
  PROVE  Spoken'
<1>1. Fine' /\ Flag' /\ ~Running' /\ Failed'
  BY SameDocument DEF Flag, Running
<1>2. Over'
  BY <1>1, SameWords DEF Over
<1> QED  BY <1>1, <1>2 DEF Spoken, Driven, Replayed, Halted

LEMMA EndsWell ==
  ASSUME doc' = doc, Fine, closed', ~Failed, failed' = FALSE, ctxt'.disableSAX = FALSE,
         fed' = Len(doc), log' = Expected(Len(doc)),
         \/ session' # NoSession /\ session' = SubSeq(doc, 1, Len(doc))
            /\ cursor' = Len(doc)
         \/ session' = NoSession /\ ctxt'.instate = "EOF" /\ ~push'.pushContext
  PROVE  Spoken'
<1>1. Fine' /\ Flag' /\ Running' /\ ~Failed'
  BY SameDocument DEF Flag, Running
<1>2. Over'
  BY <1>1, SameWords DEF Over
<1> QED  BY <1>1, <1>2 DEF Spoken, Driven, Replayed, Halted

\* A chunk of the persistent engine
LEMMA PersistentTells ==
  ASSUME IInv, Spoken, NEW k \in Nat, NEW terminate \in BOOLEAN,
         fed + k <= Len(doc), terminate => fed + k = Len(doc),
         PersistentChunk(k, terminate),
         fed' = fed + k, closed' = (closed \/ terminate), doc' = doc
  PROVE  Spoken'
<1> DEFINE in == (IF session = NoSession THEN Stashed ELSE session)
                   \o Slice(k, terminate)
           from == IF session = NoSession THEN 0 ELSE cursor
           d == Deferred(k, terminate)
           n == fed + k - d
           mode == IF terminate THEN "resume" ELSE "driver"
           s == Parse(in, from, mode)
           parked == ~terminate /\ Len(in) < DecideBytes
<1>1. Passing(in, from, d, n, k, terminate)
  BY PersistentInput, Zenon
<1>2. /\ session' = in \o CRs(d) /\ push' = push
      /\ cursor' = IF parked THEN from ELSE s.at
      /\ ctxt' = IF ~parked THEN After(s, "other")
                 ELSE IF session = NoSession THEN Fresh ELSE ctxt
      /\ log' = IF parked THEN log ELSE log \o s.log
      /\ failed' = (~parked /\ ~s.wellFormed)
  BY Zenon DEF PersistentChunk
<1>3. Fine /\ doc' = doc /\ fed' = fed + k
  BY DEF Spoken
<1>4. closed' <=> closed \/ terminate
  OBVIOUS
<1>5. terminate => mode = "resume" /\ ~parked
  OBVIOUS
<1>6. ~terminate => mode = "driver"
  OBVIOUS
<1>7. s = Parse(in, from, mode)
  OBVIOUS
<1> HIDE DEF in, from, d, n, mode, s, parked
<1>8. fed \in Nat /\ Len(doc) \in Nat /\ doc \in Seq(Byte)
  <2>1. Kept
    BY DEF IInv
  <2> QED  BY ONLY <2>1 DEF Kept
<1>9. k \in Nat /\ fed + k <= Len(doc)
  OBVIOUS
<1>10. /\ n \in 0..Len(doc) /\ fed <= n /\ n <= fed + k /\ n \in Nat
       /\ in = SubSeq(doc, 1, n) /\ in \in Seq(Byte) /\ Len(in) = n
       /\ \A i \in 1..n : in[i] = doc[i]
       /\ from \in 0..n /\ from \in Nat /\ log = Expected(from) /\ Clear(from, n)
       /\ d \in Nat /\ from \in 0..fed
  BY ONLY <1>1, <1>8, <1>9 DEF Passing
<1>11. session' # NoSession /\ (d = 0 => session' = in)
  <2>1. CRs(d) \in Seq(Byte)
    BY ONLY <1>10, CRsAreBytes
  <2>2. in \o CRs(d) \in Seq(Byte)
    BY ONLY <1>10, <2>1, Concatenates, Zenon
  <2>3. d = 0 => in \o CRs(d) = in
    BY ONLY <1>10, NoCRs, ConcatEmptySeq
  <2> QED  BY <1>2, <2>2, <2>3, ReplayConstants, Zenon
<1>12. ctxt.disableSAX = FALSE /\ push.pending = 0
  BY ONLY <1>1, Zenon DEF Passing, Running
<1>13. terminate => n = Len(doc) /\ d = 0
  <2>1. terminate => n = Len(doc)
    BY ONLY <1>1 DEF Passing
  <2>2. n = Len(doc) => d = 0
    <3>1. n = fed + k - d
      BY ONLY <1>1 DEF Passing
    <3> QED  BY ONLY <1>8, <1>9, <1>10, <3>1
  <2> QED  BY ONLY <2>1, <2>2, Zenon
<1>14. closed => from = n /\ ~Failed /\ n = Len(doc) /\ fed = Len(doc) /\ d = 0 /\ k = 0
  BY ONLY <1>1, Zenon DEF Passing
<1>15. Failed <=> WrongWithin(Len(doc)) \/ ~Complete(Len(doc))
  BY <1>3, UnfinishedDocument DEF Failed
<1>16. Reading(in, n, from, mode)
  <2>1. mode \in Modes
    BY ONLY <1>5, <1>6, Zenon DEF Modes
  <2>2. from > 0 /\ Pair(from) => ~Inside(from)
    BY ONLY <1>10 DEF Clear
  <2>3. mode # "driver" => ~Pair(n)
    <3>1. mode # "driver" => n = Len(doc)
      BY ONLY <1>6, <1>13, Zenon
    <3> QED  BY ONLY <1>8, <3>1 DEF Pair
  <2> QED  BY ONLY <1>3, <1>10, <2>1, <2>2, <2>3 DEF Reading, Clear
<1>17. CASE parked
  <2>1. /\ ~terminate /\ cursor' = from /\ log' = log
        /\ ctxt' = IF session = NoSession THEN Fresh ELSE ctxt
    BY <1>2, <1>5, <1>17, Zenon
  <2>2. ctxt'.disableSAX = FALSE
    BY <1>12, <2>1, Zenon DEF Fresh
  <2>3. failed' = FALSE
    BY <1>2, <1>17, Zenon
  <2>4. CASE closed
    <3>1. closed' /\ log' = Expected(Len(doc)) /\ cursor' = Len(doc)
      BY ONLY <1>4, <1>10, <1>14, <2>1, <2>4
    <3>2. session' = SubSeq(doc, 1, Len(doc)) /\ fed' = Len(doc)
      BY ONLY <1>3, <1>8, <1>10, <1>11, <1>14, <2>4
    <3> QED  BY ONLY <1>3, <1>11, <1>14, <2>2, <2>3, <2>4, <3>1, <3>2, EndsWell, Zenon
  <2>5. CASE ~closed
    <3>1. ~closed' /\ cursor' \in 0..fed' /\ log' = Expected(cursor')
      BY ONLY <1>3, <1>4, <1>8, <1>9, <1>10, <2>1, <2>5
    <3>2. Clear(cursor', fed')
      BY ONLY <1>3, <1>8, <1>9, <1>10, <2>1 DEF Clear
    <3> QED  BY ONLY <1>3, <1>11, <2>2, <3>1, <3>2, DrivesOn, Zenon
  <2> QED  BY <2>4, <2>5
<1>18. CASE ~parked
  <2>1. /\ cursor' = s.at /\ log' = log \o s.log /\ ctxt' = After(s, "other")
        /\ Sound(s) => failed' = FALSE
        /\ Broken(s) => failed' = TRUE
    BY <1>2, <1>18, Zenon DEF Sound, Broken
  <2>2. /\ Sound(s) => ctxt'.disableSAX = FALSE
        /\ Broken(s) => ctxt'.disableSAX = TRUE
    BY <2>1, AfterIs, Zenon
  <2>3. CASE terminate
    <3>1. closed' /\ n = Len(doc) /\ fed' = Len(doc) /\ session' = SubSeq(doc, 1, Len(doc))
          /\ mode = "resume"
      <4>1. closed' /\ n = Len(doc) /\ d = 0 /\ mode = "resume"
        BY ONLY <1>4, <1>5, <1>13, <2>3, Zenon
      <4>2. fed + k = Len(doc)
        BY ONLY <1>8, <1>9, <1>10, <4>1
      <4> QED  BY ONLY <1>3, <1>10, <1>11, <4>1, <4>2, Zenon
    <3>2. Fails(s, log, n, mode) \/ Tells(s, log, n, mode)
      <4>1. mode \in {"partial", "resume"}
        BY <3>1
      <4>2. log = Expected(from)
        BY <1>10
      <4> QED  BY ONLY <1>7, <1>16, <4>1, <4>2, Delivers, Zenon
    <3>3. CASE Fails(s, log, n, mode)
      <4>1. Broken(s) /\ log' = Expected(Len(doc)) /\ Failed
        BY ONLY <1>15, <2>1, <3>1, <3>3, Zenon DEF Fails
      <4> QED  BY ONLY <1>3, <2>1, <2>2, <3>1, <4>1, EndsBadly, Zenon
    <3>4. CASE Tells(s, log, n, mode)
      <4>1. Sound(s) /\ log' = Expected(Len(doc)) /\ ~Failed /\ cursor' = Len(doc)
        BY ONLY <1>15, <2>1, <3>1, <3>4, Zenon DEF Tells
      <4> QED  BY ONLY <1>3, <1>11, <2>1, <2>2, <3>1, <4>1, EndsWell, Zenon
    <3> QED  BY <3>2, <3>3, <3>4
  <2>4. CASE ~terminate
    <3>1. /\ Fails(s, log, n, "driver") \/ Keeps(s, log, n)
          /\ Keeps(s, log, n) => ~WrongWithin(n) /\ (from = n => s.at = n)
      <4>1. mode = "driver" /\ s = Parse(in, from, "driver") /\ Reading(in, n, from, "driver")
        BY ONLY <1>6, <1>7, <1>16, <2>4, Zenon
      <4>2. log = Expected(from)
        BY <1>10
      <4> QED  BY ONLY <4>1, <4>2, Drives, Zenon
    <3>2. CASE Fails(s, log, n, "driver")
      <4>1. Broken(s) /\ log' = Expected(n) /\ WrongWithin(n)
        <5>1. "driver" # "resume"
          OBVIOUS
        <5> QED  BY ONLY <2>1, <3>2, <5>1, Zenon DEF Fails
      <4>2. ~closed
        BY ONLY <1>14, <1>15, <4>1, Zenon
      <4>3. ~closed' /\ push' = push
        BY ONLY <1>2, <1>4, <2>4, <4>2, Zenon
      <4>4. push'.pending \in 0..fed' /\ n \in 0..(fed' - push'.pending)
        BY ONLY <1>3, <1>8, <1>9, <1>10, <1>12, <4>3
      <4> QED  BY ONLY <1>3, <2>2, <4>1, <4>3, <4>4, StopsHere, Zenon
    <3>3. CASE Keeps(s, log, n)
      <4>1. Sound(s) /\ s.at \in 0..n /\ log' = Expected(cursor') /\ Clear(cursor', n)
            /\ cursor' = s.at
        BY ONLY <2>1, <3>3, Zenon DEF Keeps
      <4>2. CASE closed
        <5>1. cursor' = Len(doc) /\ ~Failed /\ d = 0 /\ n = Len(doc)
          BY ONLY <1>14, <3>1, <3>3, <4>1, <4>2, Zenon
        <5>2. session' = SubSeq(doc, 1, Len(doc)) /\ log' = Expected(Len(doc)) /\ closed'
          BY ONLY <1>4, <1>10, <1>11, <4>1, <4>2, <5>1, Zenon
        <5>3. fed' = Len(doc)
          BY ONLY <1>3, <1>8, <1>14, <4>2
        <5> QED  BY ONLY <1>3, <1>11, <2>1, <2>2, <4>1, <5>1, <5>2, <5>3, EndsWell, Zenon
      <4>3. CASE ~closed
        <5>1. ~closed'
          BY ONLY <1>4, <2>4, <4>3, Zenon
        <5>2. cursor' \in 0..fed' /\ Clear(cursor', fed')
          BY ONLY <1>3, <1>8, <1>9, <1>10, <4>1 DEF Clear
        <5> QED  BY ONLY <1>3, <1>11, <2>2, <4>1, <5>1, <5>2, DrivesOn, Zenon
      <4> QED  BY <4>2, <4>3
    <3> QED  BY <3>1, <3>2, <3>3
  <2> QED  BY <2>3, <2>4
<1> QED  BY <1>17, <1>18

\* What is parsed of what is held, when `\r's are kept back
LEMMA Withheld ==
  ASSUME Fine, NEW base \in Seq(Byte), NEW p \in Nat, NEW m \in 0..Len(doc),
         base \o CRs(p) = SubSeq(doc, 1, m)
  PROVE  /\ Len(base) = m - p /\ p <= m
         /\ \A i \in 1..Len(base) : base[i] = doc[i]
         /\ p > 0 => doc[Len(base) + 1] = CR
<1>0. doc \in Seq(Byte) /\ Len(doc) \in Nat /\ m \in Nat
  BY DEF Fine
<1> DEFINE in == SubSeq(doc, 1, m)
           c == CRs(p)
<1>1. in \in Seq(Byte) /\ Len(in) = m /\ \A i \in 1..m : in[i] = doc[i]
  BY Beginning
<1>2. c \in Seq(Byte) /\ Len(c) = p /\ \A i \in 1..p : c[i] = CR
  BY CRsAreBytes
<1>3. base \o c = in
  OBVIOUS
<1> HIDE DEF in, c
<1>4. /\ Len(base \o c) = Len(base) + p
      /\ \A i \in 1..(Len(base) + p) :
           (base \o c)[i] = IF i <= Len(base) THEN base[i] ELSE c[i - Len(base)]
  BY <1>2, ConcatProperties
<1>5. Len(base) \in Nat /\ m = Len(base) + p
  BY <1>1, <1>3, <1>4
<1>6. \A i \in 1..Len(base) : base[i] = doc[i]
  <2> TAKE i \in 1..Len(base)
  <2>1. i \in 1..m /\ i \in 1..(Len(base) + p) /\ i <= Len(base)
    BY <1>5
  <2> QED  BY <1>1, <1>3, <1>4, <2>1
<1>7. p > 0 => doc[Len(base) + 1] = CR
  <2> SUFFICES ASSUME p > 0  PROVE doc[Len(base) + 1] = CR
    OBVIOUS
  <2> DEFINE i == Len(base) + 1
  <2>1. /\ i \in 1..m /\ i \in 1..(Len(base) + p) /\ ~(i <= Len(base))
        /\ i - Len(base) = 1 /\ 1 \in 1..p
    BY <1>5
  <2> HIDE DEF i
  <2>2. (base \o c)[i] = c[1]
    BY <1>4, <2>1
  <2> QED  BY <1>1, <1>2, <1>3, <2>1, <2>2 DEF i
<1> QED  BY <1>0, <1>5, <1>6, <1>7

\* The replay engine parses only what is not over.
LEMMA ReplayRuns ==
  ASSUME IInv, Spoken, ReplayGuard, ctxt.instate # "EOF"
  PROVE  /\ ~closed /\ Running /\ session = NoSession
         /\ ~(push.pushContext /\ context = "plain")
<1>1. session = NoSession /\ ~ctxt.disableSAX
  BY NoSessionInReplay
<1>2. Running
  BY <1>1, Zenon DEF Running, Spoken, Flag
<1>3. ~closed
  BY <1>1, <1>2, Zenon DEF Spoken, Over
<1>4. ~(push.pushContext /\ context = "plain")
  BY <1>1 DEF IInv, OneEngine, ReplayGuard, Eligible
<1> QED  BY <1>1, <1>2, <1>3, <1>4

Replaying(base, n, p, k) ==
  /\ base \in Seq(Byte) /\ n \in 0..Len(doc) /\ Len(base) = n
  /\ \A i \in 1..n : base[i] = doc[i]
  /\ p \in 0..(fed + k) /\ n = (fed + k) - p /\ fed - push.pending <= n
  /\ n > 0 => ~Pair(n)
  /\ p = 0 /\ fed + k > 0 => doc[fed + k].kind # "cr"

LEMMA ReplayInput ==
  ASSUME IInv, Spoken, ReplayGuard, ctxt.instate # "EOF",
         NEW k \in Nat, fed + k <= Len(doc),
         NEW base, base = Base(k, FALSE), NEW p, p = Pending(k, FALSE),
         NEW n, n = Len(base)
  PROVE  Replaying(base, n, p, k)
<1>1. ~closed /\ Running /\ session = NoSession
  BY ReplayRuns
<1>2. Kept /\ InputInOrder /\ Fine /\ Replayed
  BY DEF IInv, Spoken
<1>3. /\ push.pending \in 0..fed
      /\ push.pending = 0 /\ fed > 0 => doc[fed].kind # "cr"
  BY <1>1, <1>2 DEF Replayed
<1>4. doc \in Seq(Byte) /\ fed \in Nat /\ Len(doc) \in Nat /\ fed <= Len(doc)
  BY <1>2 DEF Kept
<1> DEFINE d == Deferred(k, FALSE)
           slice == Slice(k, FALSE)
<1>5. d \in 0..1 /\ (k = 0 => d = 0)
  BY DEF Deferred
<1>14. k \in Nat /\ fed + k <= Len(doc) /\ n = Len(base)
  OBVIOUS
<1>15. slice = SubSeq(doc, fed + 1, fed + k - d)
  BY Zenon DEF Slice
<1>6. d = 0 /\ k > 0 => doc[fed + k] # CR
  BY DEF Deferred
<1>7. /\ base \in Seq(Byte) /\ p \in Nat /\ base \o CRs(p) = SubSeq(doc, 1, fed + k)
  <2>1. /\ base \in Seq(Byte) /\ p \in Nat
        /\ base \o CRs(p) = (Stashed \o CRs(push.pending))
                              \o (Slice(k, FALSE) \o CRs(Deferred(k, FALSE)))
    BY <1>2, BaseHeld, Zenon
  <2>2. Stashed \o CRs(push.pending) = SubSeq(doc, 1, fed)
    BY <1>1, <1>2, Zenon DEF InputInOrder, Held, Running
  <2>3. (Stashed \o CRs(push.pending)) \o (Slice(k, FALSE) \o CRs(Deferred(k, FALSE)))
          = SubSeq(doc, 1, fed + k)
    <3>1. FALSE \in BOOLEAN
      OBVIOUS
    <3> QED  BY <1>2, <2>2, <3>1, Appended, Zenon
  <2> QED  BY <2>1, <2>3, Zenon
<1>8. /\ Len(base) = (fed + k) - p /\ p <= fed + k
      /\ \A i \in 1..Len(base) : base[i] = doc[i]
      /\ p > 0 => doc[Len(base) + 1] = CR
  <2>1. fed + k \in 0..Len(doc)
    BY ONLY <1>4, <1>14
  <2> QED  BY ONLY <1>2, <1>7, <2>1, Withheld
<1>9. p = d + push.pending \/ (p = d /\ push.pending > 0 /\ slice # <<>>)
  <2>1. CASE Restores(k, FALSE)
    <3>1. p = d + 0
      BY <2>1, Zenon DEF Pending
    <3>2. push.pending > 0 /\ slice # <<>>
      BY <2>1 DEF Restores
    <3> HIDE DEF d, slice
    <3> QED  BY ONLY <1>5, <3>1, <3>2
  <2>2. CASE ~Restores(k, FALSE)
    BY <2>2, Zenon DEF Pending
  <2> QED  BY <2>1, <2>2
<1> HIDE DEF d, slice
<1>10. p <= d + push.pending /\ d <= k
  BY ONLY <1>3, <1>4, <1>5, <1>9
<1>11. n \in 0..Len(doc) /\ n = (fed + k) - p /\ fed - push.pending <= n /\ p \in 0..(fed + k)
  <2>1. n = (fed + k) - p /\ p <= fed + k /\ p \in Nat
    BY ONLY <1>7, <1>8, <1>14
  <2>2. p <= d + push.pending /\ d <= k /\ d \in Nat /\ push.pending \in Nat
    BY ONLY <1>3, <1>5, <1>10
  <2>3. k \in Nat /\ fed + k <= Len(doc) /\ fed \in Nat /\ Len(doc) \in Nat
    BY ONLY <1>4, <1>14
  <2> QED  BY ONLY <2>1, <2>2, <2>3
<1>12. p = 0 /\ fed + k > 0 => doc[fed + k].kind # "cr"
  <2>1. CASE k > 0
    <3>1. p = 0 => d = 0
      BY ONLY <1>3, <1>5, <1>9
    <3>2. fed + k \in 1..Len(doc)
      BY ONLY <1>4, <1>14, <2>1
    <3>3. doc[fed + k] # CR => doc[fed + k].kind # "cr"
      BY ONLY <1>2, <3>2, CRKind
    <3> QED  BY ONLY <1>6, <2>1, <3>1, <3>3 DEF d
  <2>2. CASE k = 0
    <3>1. d = 0
      BY <1>5, <2>2
    <3>2. fed + k = fed /\ fed + k - d = fed
      BY ONLY <1>4, <2>2, <3>1
    <3>3. slice = <<>>
      BY ONLY <1>4, <1>15, <3>2, SubSeqEmpty
    <3>4. p = 0 => push.pending = 0
      BY ONLY <1>3, <1>9, <3>1, <3>3
    <3> QED  BY ONLY <1>3, <3>2, <3>4
  <2> QED  BY ONLY <1>14, <2>1, <2>2
<1>13. n > 0 => ~Pair(n)
  <2>1. CASE p > 0
    <3>1. doc[n + 1] = CR
      BY ONLY <1>8, <1>14, <2>1
    <3> QED  BY ONLY <3>1 DEF CR, Pair
  <2>2. CASE p = 0
    <3>1. n = fed + k
      BY ONLY <1>4, <1>11, <1>14, <2>2
    <3> QED  BY ONLY <1>12, <2>2, <3>1 DEF Pair
  <2> QED  BY ONLY <1>7, <2>1, <2>2
<1> QED  BY ONLY <1>7, <1>8, <1>11, <1>12, <1>13, <1>14 DEF Replaying

\* A chunk the replay engine keeps unparsed
LEMMA ParkedTells ==
  ASSUME IInv, Spoken, NEW k \in Nat, fed + k <= Len(doc), ReplayParked(k),
         fed' = fed + k, closed' <=> closed, doc' = doc, context' = context
  PROVE  Spoken'
<1> DEFINE base == Base(k, FALSE)
           n == Len(base)
           p == Pending(k, FALSE)
<1>1. /\ ReplayGuard /\ ctxt.instate # "EOF" /\ n < DecideBytes
      /\ push' = [push EXCEPT !.pending = p] /\ failed' = FALSE
      /\ ctxt' = ctxt /\ session' = session /\ log' = log
  BY Zenon DEF ReplayParked
<1>2. Replaying(base, n, p, k)
  BY <1>1, ReplayInput, Zenon
<1>3. /\ ~closed /\ Running /\ session = NoSession
      /\ ~(push.pushContext /\ context = "plain")
  BY <1>1, ReplayRuns
<1>4. Fine /\ doc' = doc /\ fed' = fed + k /\ Kept
  BY DEF Spoken, IInv
<1>5. /\ push.pending \in 0..fed /\ push.delivered \in 0..(fed - push.pending)
      /\ log = Expected(push.delivered)
      /\ push.delivered > 0 /\ Pair(push.delivered) => ~Inside(push.delivered)
  BY <1>3 DEF Spoken, Replayed
<1>6. /\ push'.pending = p /\ push'.delivered = push.delivered
      /\ push'.pushContext = push.pushContext
  BY <1>1, <1>4, Zenon DEF Kept
<1>7. ~closed' /\ ctxt'.disableSAX = FALSE /\ session' = NoSession /\ context' = context
  BY <1>1, <1>3, Zenon DEF Running
<1> HIDE DEF base, n, p
<1>8. k \in Nat /\ fed \in Nat
  BY <1>4 DEF Kept
<1>9. /\ push'.pending \in 0..fed' /\ push'.delivered \in 0..(fed' - push'.pending)
      /\ ~(fed' - push'.pending >= DecideBytes)
  BY ONLY <1>1, <1>2, <1>4, <1>5, <1>6, <1>8, ReplayConstants DEF Replaying
<1>10. log' = Expected(push'.delivered)
  BY ONLY <1>1, <1>5, <1>6, Zenon
<1>11. push'.delivered > 0 /\ Pair(push'.delivered) => ~Inside(push'.delivered)
  BY ONLY <1>5, <1>6, Zenon
<1>12. ~(push'.pushContext /\ context' = "plain")
  BY ONLY <1>3, <1>6, <1>7, Zenon
<1>13. push'.pending = 0 /\ fed' > 0 => doc[fed'].kind # "cr"
  BY ONLY <1>2, <1>4, <1>6 DEF Replaying
<1> QED
  BY ONLY <1>4, <1>7, <1>9, <1>10, <1>11, <1>12, <1>13, ReplaysOn, Zenon

\* A chunk the replay engine parses
LEMMA NonFinalTells ==
  ASSUME IInv, Spoken, NEW k \in Nat, fed + k <= Len(doc), ReplayNonFinal(k),
         fed' = fed + k, closed' <=> closed, doc' = doc, context' = context
  PROVE  Spoken'
<1> DEFINE base == Base(k, FALSE)
           n == Len(base)
           p == Pending(k, FALSE)
           b == push.delivered
           probe == Parse(base, 0, "probe")
           ended == probe.stop \in {"done", "failed"}
           mode == IF ended THEN "resume" ELSE "partial"
           s == Parse(base, b, mode)
           at == Boundary(probe, s, n)
<1>1. /\ ReplayGuard /\ ctxt.instate # "EOF" /\ n >= DecideBytes
      /\ push' = [delivered |-> at, pending |-> p, pushContext |-> push.pushContext]
      /\ failed' = (ended /\ ~s.wellFormed)
      /\ ctxt' = After(s, "other") /\ session' = session /\ log' = log \o s.log
  BY Zenon DEF ReplayNonFinal
<1>2. Replaying(base, n, p, k)
  BY <1>1, ReplayInput, Zenon
<1>3. /\ ~closed /\ Running /\ session = NoSession
      /\ ~(push.pushContext /\ context = "plain")
  BY <1>1, ReplayRuns
<1>4. Fine /\ doc' = doc /\ fed' = fed + k /\ Kept
  BY DEF Spoken, IInv
<1>5. /\ push.pending \in 0..fed /\ b \in 0..(fed - push.pending)
      /\ log = Expected(b)
      /\ b > 0 /\ Pair(b) => ~Inside(b)
  BY <1>3 DEF Spoken, Replayed
<1>6. /\ push'.pending = p /\ push'.delivered = at
      /\ push'.pushContext = push.pushContext
  BY <1>1, Zenon
<1>7. ~closed' /\ session' = NoSession /\ context' = context
  BY <1>1, <1>3, Zenon DEF Running
<1>8. k \in Nat /\ fed \in Nat /\ Len(doc) \in Nat /\ fed + k <= Len(doc)
  BY <1>4 DEF Kept
<1>9. /\ probe = Parse(base, 0, "probe") /\ s = Parse(base, b, mode)
      /\ mode = IF probe.stop \in {"done", "failed"} THEN "resume" ELSE "partial"
      /\ at = IF probe.stop = "truncated" THEN Max({b, s.at}) ELSE n
  BY Zenon DEF Boundary
<1> HIDE DEF base, n, p, b, probe, ended, mode, s, at
<1>10. /\ n \in 0..Len(doc) /\ n \in Nat /\ b \in 0..n /\ b \in Nat
       /\ base \in Seq(Byte) /\ Len(base) = n /\ \A i \in 1..n : base[i] = doc[i]
       /\ n > 0 => ~Pair(n)
       /\ p \in 0..fed' /\ fed' - p = n
  BY ONLY <1>2, <1>4, <1>5, <1>8 DEF Replaying
<1>11. mode \in {"partial", "resume"} /\ mode \in Modes
  BY ONLY <1>9, Zenon DEF Modes
<1>12. Reading(base, n, 0, "probe")
  BY ONLY <1>4, <1>10 DEF Reading, Modes
<1>13. Reading(base, n, b, mode)
  BY ONLY <1>4, <1>5, <1>10, <1>11 DEF Reading
<1>14. Fails(s, log, n, mode) \/ Tells(s, log, n, mode)
  BY ONLY <1>5, <1>9, <1>11, <1>13, Delivers, Zenon
<1>15. \/ Failing(probe, n, 0, "probe") \/ Waits(probe, n, 0, "probe")
       \/ Ended(probe, n, 0, "probe")
  BY ONLY <1>9, <1>12, ParseSays, Zenon
<1>16. CASE Fails(s, log, n, mode)
  <2>1. Broken(s) /\ log' = Expected(n)
    BY ONLY <1>1, <1>16, Zenon DEF Fails
  <2>2. ctxt'.disableSAX = TRUE
    BY ONLY <1>1, <2>1, AfterIs, Zenon
  <2>3. WrongWithin(n)
    <3>1. CASE Failing(probe, n, 0, "probe")
      BY ONLY <3>1 DEF Failing
    <3>2. CASE Waits(probe, n, 0, "probe")
      <4>1. mode = "partial"
        BY ONLY <1>9, <3>2 DEF Waits
      <4> QED  BY ONLY <1>16, <4>1 DEF Fails
    <3>3. CASE Ended(probe, n, 0, "probe")
      <4>1. mode = "resume" => Complete(n)
        BY ONLY <1>9, <3>3 DEF Ended
      <4> QED  BY ONLY <1>16, <4>1, Zenon DEF Fails
    <3> QED  BY ONLY <1>15, <3>1, <3>2, <3>3
  <2>4. push'.pending \in 0..fed' /\ n \in 0..(fed' - push'.pending)
    BY ONLY <1>6, <1>10
  <2> QED  BY ONLY <1>4, <1>7, <2>1, <2>2, <2>3, <2>4, StopsHere, Zenon
<1>17. CASE Tells(s, log, n, mode)
  <2>1. Sound(s) /\ log' = Expected(n) /\ ~WrongWithin(n)
    BY ONLY <1>1, <1>17, Zenon DEF Tells
  <2>2. ctxt'.disableSAX = FALSE
    BY ONLY <1>1, <2>1, AfterIs, Zenon
  <2>3. /\ at \in 0..n /\ Expected(at) = Expected(n)
        /\ at > 0 /\ Pair(at) => ~Inside(at)
    <3>1. CASE at = n
      BY ONLY <1>10, <3>1
    <3>2. CASE at # n
      <4>1. at = Max({b, s.at})
        BY ONLY <1>9, <3>2
      <4>2. \/ s.at = n
            \/ n > 0 /\ s.at = n - 1 /\ Expected(n - 1) = Expected(n) /\ doc[n].kind \in Markup
        BY ONLY <1>17 DEF Tells
      <4>3. s.at \in 0..n
        BY ONLY <1>10, <4>2
      <4>4. at \in {b, s.at} /\ b <= at /\ s.at <= at
        <5> DEFINE S == {b, s.at}
        <5>1. S # {} /\ (\A x \in S : x \in 0..n) /\ b \in S /\ s.at \in S
          BY ONLY <1>10, <4>3
        <5> HIDE DEF S
        <5>2. Max(S) \in S /\ \A x \in S : x <= Max(S)
          BY ONLY <1>10, <5>1, Greatest
        <5>3. at = Max(S)
          BY ONLY <4>1 DEF S
        <5> QED  BY ONLY <5>1, <5>2, <5>3 DEF S
      <4>5. /\ at = n - 1 /\ Expected(n - 1) = Expected(n) /\ doc[n].kind \in Markup /\ n > 0
            /\ (n - 1) + 1 = n /\ n - 1 \in 0..n
        BY ONLY <1>10, <3>2, <4>2, <4>3, <4>4
      <4>6. ~Pair(at)
        <5>1. doc[n].kind # "lf"
          BY ONLY <4>5 DEF Markup
        <5> QED  BY ONLY <4>5, <5>1 DEF Pair
      <4> QED  BY ONLY <4>5, <4>6
    <3> QED  BY ONLY <3>1, <3>2
  <2>4. push'.pending \in 0..fed' /\ push'.delivered \in 0..(fed' - push'.pending)
    BY ONLY <1>6, <1>10, <2>3
  <2>5. log' = Expected(push'.delivered)
    BY ONLY <1>6, <2>1, <2>3, Zenon
  <2>6. push'.delivered > 0 /\ Pair(push'.delivered) => ~Inside(push'.delivered)
    BY ONLY <1>6, <2>3, Zenon
  <2>7. log' = Expected(fed' - push'.pending) /\ ~WrongWithin(fed' - push'.pending)
    BY ONLY <1>6, <1>10, <2>1, Zenon
  <2>8. ~(push'.pushContext /\ context' = "plain")
    BY ONLY <1>3, <1>6, <1>7, Zenon
  <2>9. push'.pending = 0 /\ fed' > 0 => doc[fed'].kind # "cr"
    BY ONLY <1>2, <1>4, <1>6 DEF Replaying
  <2> QED
    BY ONLY <1>4, <1>7, <2>2, <2>4, <2>5, <2>6, <2>7, <2>8, <2>9, ReplaysOn, Zenon
<1> QED  BY ONLY <1>14, <1>16, <1>17

\* The terminating call of the replay engine
LEMMA FinalTells ==
  ASSUME IInv, Spoken, NEW k \in Nat, fed + k = Len(doc), ReplayFinal(k),
         fed' = fed + k, closed', doc' = doc
  PROVE  Spoken'
<1> DEFINE base == Base(k, TRUE)
           n == Len(doc)
           b == push.delivered
           s == Parse(base, b, "resume")
<1>1. /\ ReplayGuard /\ ctxt.instate # "EOF"
      /\ ctxt' = After(s, IF s.stop = "done" THEN "EOF" ELSE "other")
      /\ log' = log \o s.log /\ failed' = ~s.wellFormed
      /\ push' = NoPush /\ session' = NoSession
  BY Zenon DEF ReplayFinal
<1>2. ~closed /\ Running /\ session = NoSession
  BY <1>1, ReplayRuns
<1>3. Fine /\ doc' = doc /\ fed' = fed + k /\ Kept /\ InputInOrder /\ closed'
  BY DEF Spoken, IInv
<1>4. /\ push.pending \in 0..fed /\ b \in 0..(fed - push.pending)
      /\ log = Expected(b)
      /\ b > 0 /\ Pair(b) => ~Inside(b)
  BY <1>2 DEF Spoken, Replayed
<1>5. k \in Nat /\ fed \in Nat /\ n \in Nat /\ fed + k = n /\ doc \in Seq(Byte)
  BY <1>3 DEF Kept
<1>6. s = Parse(base, b, "resume")
  OBVIOUS
<1>7. base = SubSeq(doc, 1, n)
  <2>1. Stashed \o CRs(push.pending) = SubSeq(doc, 1, fed)
    BY <1>2, <1>3, Zenon DEF InputInOrder, Held, Running
  <2>2. base = (Stashed \o CRs(push.pending)) \o Slice(k, TRUE)
    <3>1. CASE push.pending > 0
      <4>1. Restores(k, TRUE)
        BY <3>1, Zenon DEF Restores
      <4> QED  BY <4>1, Zenon DEF Base
    <3>2. CASE ~(push.pending > 0)
      <4>1. CRs(push.pending) = <<>>
        <5>1. push.pending = 0
          BY ONLY <1>4, <1>5, <3>2
        <5> QED  BY <5>1, NoCRs
      <4>2. ~Restores(k, TRUE)
        BY <3>2, Zenon DEF Restores
      <4> QED  BY <4>1, <4>2, Zenon DEF Base
    <3> QED  BY <3>1, <3>2
  <2>3. /\ TRUE \in BOOLEAN
        /\ SubSeq(doc, 1, fed) \o Slice(k, TRUE) = SubSeq(doc, 1, Through(k, Deferred(k, TRUE)))
        /\ Deferred(k, TRUE) = 0
    <3>1. fed + k <= Len(doc)
      BY ONLY <1>5
    <3> QED  BY ONLY <1>3, <1>5, <3>1, PassedOn, Zenon
  <2>4. Through(k, 0) = n
    BY ONLY <1>5 DEF Through
  <2> QED  BY <2>1, <2>2, <2>3, <2>4, Zenon
<1> HIDE DEF base, b, s
<1>8. /\ base \in Seq(Byte) /\ Len(base) = n /\ \A i \in 1..n : base[i] = doc[i]
      /\ n \in 0..Len(doc) /\ b \in 0..n
  <2>1. n \in 0..Len(doc) /\ b \in 0..n
    BY ONLY <1>4, <1>5
  <2> QED  BY ONLY <1>3, <1>7, <2>1, Beginning
<1>9. Reading(base, n, b, "resume")
  <2>1. ~Pair(n)
    BY ONLY <1>5 DEF Pair
  <2> QED  BY ONLY <1>3, <1>4, <1>8, <2>1 DEF Reading, Modes
<1>10. Fails(s, log, n, "resume") \/ Tells(s, log, n, "resume")
  <2>1. "resume" \in {"partial", "resume"}
    OBVIOUS
  <2> QED  BY ONLY <1>4, <1>6, <1>9, <2>1, Delivers, Zenon
<1>11. Failed <=> WrongWithin(n) \/ ~Complete(n)
  BY ONLY <1>3, UnfinishedDocument DEF Failed
<1>12. fed' = n
  BY ONLY <1>3, <1>5
<1>13. CASE Fails(s, log, n, "resume")
  <2>1. Broken(s) /\ log' = Expected(n) /\ Failed
    BY ONLY <1>1, <1>11, <1>13, Zenon DEF Fails
  <2>2. ctxt'.disableSAX = TRUE /\ failed' = TRUE
    BY ONLY <1>1, <2>1, AfterIs, Zenon DEF Broken
  <2> QED  BY ONLY <1>3, <1>12, <2>1, <2>2, EndsBadly, Zenon
<1>14. CASE Tells(s, log, n, "resume")
  <2>1. Sound(s) /\ log' = Expected(n) /\ ~Failed /\ s.stop = "done"
    BY ONLY <1>1, <1>11, <1>14, Zenon DEF Tells
  <2>2. ctxt'.disableSAX = FALSE /\ failed' = FALSE /\ ctxt'.instate = "EOF"
    BY ONLY <1>1, <2>1, AfterIs, Zenon DEF Sound
  <2>3. ~push'.pushContext
    BY ONLY <1>1, Zenon DEF NoPush
  <2> QED  BY ONLY <1>1, <1>3, <1>12, <2>1, <2>2, <2>3, EndsWell, Zenon
<1> QED  BY ONLY <1>10, <1>13, <1>14

\* A call on a context that was stopped
LEMMA RefuseTells ==
  ASSUME IInv, Spoken, NEW k \in Nat, NEW terminate \in BOOLEAN,
         fed + k <= Len(doc), terminate => fed + k = Len(doc), Refuse(k, terminate),
         fed' = fed + k, closed' = (closed \/ terminate), doc' = doc
  PROVE  Spoken'
<1>1. /\ ctxt.disableSAX /\ failed' = TRUE
      /\ ctxt' = ctxt /\ push' = push /\ log' = log
  BY DEF Refuse
<1>2. Fine /\ Flag /\ Halted /\ Over /\ Kept /\ doc' = doc /\ fed' = fed + k
  BY DEF Spoken, IInv
<1>3. ctxt.disableSAX = TRUE /\ ~Running /\ ctxt'.disableSAX = TRUE
  BY ONLY <1>1, <1>2, Zenon DEF Flag, Running
<1>4. k \in Nat /\ fed \in Nat /\ Len(doc) \in Nat /\ fed + k <= Len(doc)
  BY <1>2 DEF Kept
<1>5. terminate => fed + k = Len(doc)
  OBVIOUS
<1>6. closed' <=> closed \/ terminate
  OBVIOUS
<1>7. CASE closed
  <2>1. Failed /\ fed = Len(doc) /\ log' = Expected(Len(doc)) /\ closed'
    BY ONLY <1>1, <1>2, <1>3, <1>6, <1>7, Zenon DEF Over
  <2>2. fed' = Len(doc)
    BY ONLY <1>2, <1>4, <2>1
  <2> QED  BY ONLY <1>1, <1>2, <1>3, <2>1, <2>2, EndsBadly, Zenon
<1>8. CASE ~closed
  <2>1. push.pending \in 0..fed
    BY ONLY <1>2, <1>3, <1>8, Zenon DEF Halted
  <2>2. PICK m \in 0..(fed - push.pending) : WrongWithin(m) /\ log = Expected(m)
    BY ONLY <1>2, <1>3, <1>8, Zenon DEF Halted
  <2>3. m \in Nat /\ m <= Len(doc) /\ Len(doc) <= Len(doc)
    BY <1>4, <2>1, <2>2
  <2>4. WrongWithin(Len(doc)) /\ Expected(m) = Expected(Len(doc))
    BY ONLY <1>2, <1>4, <2>2, <2>3, WrongStops
  <2>5. CASE terminate
    <3>1. Failed /\ log' = Expected(Len(doc)) /\ closed' /\ fed' = Len(doc)
      BY ONLY <1>1, <1>2, <1>5, <1>6, <2>2, <2>4, <2>5, Zenon DEF Failed
    <3> QED  BY ONLY <1>1, <1>2, <1>3, <3>1, EndsBadly, Zenon
  <2>6. CASE ~terminate
    <3>1. ~closed' /\ log' = Expected(m) /\ push' = push
      BY ONLY <1>1, <1>6, <1>8, <2>2, <2>6, Zenon
    <3>2. push'.pending \in 0..fed' /\ m \in 0..(fed' - push'.pending)
      <4>1. m <= fed - push.pending
        BY <2>2, <2>1, <1>4
      <4> QED  BY ONLY <1>2, <1>4, <2>1, <2>3, <3>1, <4>1
    <3> QED  BY ONLY <1>2, <1>3, <2>2, <3>1, <3>2, StopsHere, Zenon
  <2> QED  BY <2>5, <2>6
<1> QED  BY <1>7, <1>8

\* A call after the end of the document
LEMMA EofTells ==
  ASSUME IInv, Spoken, NEW k \in Nat, NEW terminate \in BOOLEAN,
         fed + k <= Len(doc), AtEof(k, terminate),
         fed' = fed + k, closed' = (closed \/ terminate), doc' = doc
  PROVE  Spoken'
<1>1. /\ ReplayGuard /\ ctxt.instate = "EOF" /\ failed' = ~ctxt.wellFormed
      /\ ctxt' = ctxt /\ push' = push /\ log' = log /\ session' = session
      /\ cursor' = cursor
  BY Zenon DEF AtEof
<1>2. Fine /\ Flag /\ Over /\ Kept /\ OneEngine /\ doc' = doc /\ fed' = fed + k
  BY DEF Spoken, IInv
<1>3. ~ctxt.disableSAX /\ closed
  BY <1>1, <1>2 DEF ReplayGuard, OneEngine
<1>4. Running /\ ctxt'.disableSAX = FALSE
  BY ONLY <1>1, <1>2, <1>3, Zenon DEF Flag, Running
<1>5. failed' = FALSE
  <2>1. ctxt.disableSAX <=> ~ctxt.wellFormed
    BY ONLY <1>2 DEF OneEngine
  <2> QED  BY ONLY <1>1, <1>3, <2>1, Zenon
<1>6. closed'
  BY <1>3
<1>7. /\ fed = Len(doc) /\ ~Failed /\ log' = Expected(Len(doc))
      /\ \/ session' # NoSession /\ session' = SubSeq(doc, 1, Len(doc))
            /\ cursor' = Len(doc)
         \/ session' = NoSession /\ ctxt'.instate = "EOF" /\ ~push'.pushContext
  BY ONLY <1>1, <1>2, <1>3, <1>4, Zenon DEF Over
<1>8. fed' = Len(doc)
  <2>1. k \in Nat /\ fed \in Nat /\ Len(doc) \in Nat /\ fed + k <= Len(doc)
    BY <1>2 DEF Kept
  <2> QED  BY ONLY <1>2, <1>7, <2>1
<1> QED  BY ONLY <1>2, <1>4, <1>5, <1>6, <1>7, <1>8, EndsWell, Zenon

LEMMA ParseChunkTells ==
  ASSUME IInv, Spoken, NEW k \in Nat, NEW terminate \in BOOLEAN,
         ParseChunk(k, terminate)
  PROVE  Spoken'
<1>1. /\ fed + k <= Len(doc) /\ (terminate => fed + k = Len(doc))
      /\ fed' = fed + k /\ closed' = (closed \/ terminate)
      /\ doc' = doc /\ context' = context
      /\ k \in Nat /\ terminate \in BOOLEAN
  BY DEF ParseChunk
<1>2. \/ Refuse(k, terminate) \/ PersistentChunk(k, terminate) \/ AtEof(k, terminate)
      \/ terminate /\ ReplayFinal(k)
      \/ ~terminate /\ ReplayParked(k)
      \/ ~terminate /\ ReplayNonFinal(k)
  BY Zenon DEF ParseChunk, ReplayChunk
<1>3. CASE Refuse(k, terminate)
  BY <1>1, <1>3, RefuseTells, Zenon
<1>4. CASE PersistentChunk(k, terminate)
  BY <1>1, <1>4, PersistentTells, Zenon
<1>5. CASE AtEof(k, terminate)
  BY <1>1, <1>5, EofTells, Zenon
<1>6. CASE terminate /\ ReplayFinal(k)
  <2>1. closed' /\ fed + k = Len(doc)
    BY <1>1, <1>6, Zenon
  <2> QED  BY <1>1, <1>6, <2>1, FinalTells, Zenon
<1>8. ~terminate => (closed' <=> closed)
  BY <1>1, Zenon
<1>9. CASE ~terminate /\ ReplayParked(k)
  BY <1>1, <1>8, <1>9, ParkedTells, Zenon
<1>10. CASE ~terminate /\ ReplayNonFinal(k)
  BY <1>1, <1>8, <1>10, NonFinalTells, Zenon
<1> QED  BY ONLY <1>2, <1>3, <1>4, <1>5, <1>6, <1>9, <1>10

\* A context that is about to take a document
Anew ==
  /\ doc \in Seq(Byte) /\ Ordinary(doc) /\ fed \in Nat /\ fed <= Len(doc)
  /\ fed > 0 => doc[fed] # CR
  /\ ctxt.disableSAX = FALSE /\ ~closed
  /\ push.pending = 0 /\ push.delivered = 0
  /\ session = NoSession /\ log = <<>> /\ failed = NoCall

LEMMA NothingTold == Anew => Spoken
<1> SUFFICES ASSUME Anew  PROVE Spoken
  OBVIOUS
<1>1. Fine /\ Flag /\ Running
  BY DEF Anew, Fine, Flag, Running
<1>2. Expected(0) = <<>>
  BY InOrderStep DEF Expected
<1>3. push.pending = 0 /\ fed > 0 => doc[fed].kind # "cr"
  <2>1. fed > 0 => fed \in 1..Len(doc)
    BY DEF Anew
  <2> QED  BY <1>1, <2>1, CRKind DEF Anew
<1>4. push.pending \in 0..fed /\ push.delivered \in 0..(fed - push.pending)
  BY DEF Anew
<1>5. Replayed
  BY <1>2, <1>3, <1>4 DEF Replayed, Anew
<1> QED  BY <1>1, <1>5 DEF Spoken, Driven, Halted, Over, Anew

LEMMA NothingToldYet == Anew' => Spoken'
  BY NothingTold, PTL

AllOrdinary == \A d \in Documents \cup Again : Ordinary(d)

LEMMA SpokenAtFirst ==
  ASSUME AllOrdinary, Init
  PROVE  Spoken
<1>1. Anew
  BY ReplayConstants DEF Init, Initial, Anew, AllOrdinary, Fresh, NoPush
<1> QED  BY <1>1, NothingTold

LEMMA SpokenNext ==
  ASSUME "zeroed" \notin Contexts, AllOrdinary, IInv, Spoken, [Next]_vars
  PROVE  Spoken'
<1> USE ReplayConstants
<1>1. ASSUME NEW k \in 0..MaxChunk, NEW terminate \in BOOLEAN,
             ParseChunk(k, terminate)
      PROVE  Spoken'
  BY <1>1, ParseChunkTells
<1>2. ASSUME NEW d \in Again, NEW k \in InitialSizes, ResetPush(d, k)
      PROVE  Anew'
  BY <1>2 DEF ResetPush, NewDocument, Initial, Anew, AllOrdinary, Fresh, NoPush
<1>3. ASSUME NEW d \in Again, NEW k \in InitialSizes, NEW c \in Contexts,
             Recreate(d, k, c)
      PROVE  Anew'
  BY <1>3 DEF Recreate, NewDocument, Initial, Anew, AllOrdinary, Fresh, NoPush
<1>4. ASSUME NEW d \in Again, Reset(d)
      PROVE  Anew'
  BY <1>4 DEF Reset, NewDocument, Anew, AllOrdinary, Fresh, NoPush
<1>5. ASSUME UNCHANGED vars
      PROVE  Spoken'
  <2> USE <1>5 DEF vars
  <2>1. Fine' /\ Flag' /\ (Running' <=> Running)
    BY SameDocument DEF Spoken, Flag, Running
  <2>2. Driven'
    BY <2>1, SameWords DEF Spoken, Driven
  <2>3. Replayed'
    BY <2>1, SameWords DEF Spoken, Replayed
  <2>4. Halted'
    BY <2>1, SameDocument DEF Spoken, Halted
  <2>5. Over'
    BY <2>1, SameDocument, SameWords DEF Spoken, Over
  <2> QED  BY <2>1, <2>2, <2>3, <2>4, <2>5 DEF Spoken
<1> QED
  BY <1>1, <1>2, <1>3, <1>4, <1>5, NothingToldYet DEF Next

LEMMA SpokenIsOnce ==
  ASSUME IInv, Spoken
  PROVE  EventsOnce /\ SameOutcome
<1>1. Fine /\ Flag /\ Driven /\ Replayed /\ Halted /\ Over /\ Kept
  BY DEF Spoken, IInv
<1>2. fed \in Nat /\ fed <= Len(doc) /\ push.pending \in Nat /\ Len(doc) \in Nat
  BY <1>1 DEF Kept
<1>3. SameOutcome
  <2>1. CASE Failed
    BY <1>1, <2>1, Zenon DEF Over, SameOutcome, Failed
  <2>2. CASE ~Failed
    BY <1>1, <2>2, Zenon DEF Over, SameOutcome, Failed
  <2> QED  BY <2>1, <2>2
<1> DEFINE n == fed - push.pending
<1>4. ASSUME ~closed  PROVE IsPrefix(log, Expected(fed))
  <2>1. ASSUME NEW m \in 0..fed, log = Expected(m)  PROVE IsPrefix(log, Expected(fed))
    <3>1. m \in Nat /\ m <= fed
      BY <1>2, <2>1
    <3> QED  BY ONLY <1>1, <1>2, <2>1, <3>1, ExpectedGrows
  <2>2. CASE ~Running
    <3>1. push.pending \in 0..fed /\ \E m \in 0..n : log = Expected(m)
      BY ONLY <1>1, <1>4, <2>2, Zenon DEF Halted
    <3>2. PICK m \in 0..n : log = Expected(m)
      BY <3>1
    <3>3. m \in 0..fed
      BY <1>2, <3>1, <3>2
    <3> QED  BY <2>1, <3>2, <3>3
  <2>3. CASE Running /\ session = NoSession
    <3>1. /\ push.pending \in 0..fed /\ push.delivered \in 0..n
          /\ log = Expected(push.delivered)
      BY ONLY <1>1, <1>4, <2>3, Zenon DEF Replayed
    <3>2. push.delivered \in 0..fed
      BY <1>2, <3>1
    <3> QED  BY <2>1, <3>1, <3>2
  <2>4. CASE Running /\ session # NoSession
    BY <1>1, <1>4, <2>1, <2>4 DEF Driven
  <2> QED  BY <2>2, <2>3, <2>4
<1>5. ASSUME ~closed, session = NoSession, failed # NoCall, n >= DecideBytes
      PROVE  log = Expected(n) /\ ctxt.disableSAX = WrongWithin(n)
  <2>1. CASE Running
    <3>1. log = Expected(n) /\ ~WrongWithin(n)
      BY ONLY <1>1, <1>5, <2>1, Zenon DEF Replayed
    <3> QED  BY ONLY <2>1, <3>1, Zenon DEF Running, WrongWithin
  <2>2. CASE ~Running
    <3>1. push.pending \in 0..fed
      BY ONLY <1>1, <1>5, <2>2, Zenon DEF Halted
    <3>2. PICK m \in 0..n : WrongWithin(m) /\ log = Expected(m)
      BY ONLY <1>1, <1>5, <2>2, Zenon DEF Halted
    <3>3. m \in Nat /\ m <= n /\ n \in Nat /\ n <= Len(doc)
      BY <1>2, <3>1, <3>2
    <3> HIDE DEF n
    <3>4. WrongWithin(n) /\ Expected(m) = Expected(n)
      BY ONLY <1>1, <3>2, <3>3, WrongStops
    <3> QED  BY ONLY <1>1, <2>2, <3>2, <3>4, Zenon DEF Running, Flag
  <2> QED  BY <2>1, <2>2
<1>6. EventsOnce
  BY ONLY <1>4, <1>5, Zenon DEF EventsOnce
<1> QED  BY <1>3, <1>6

\* helpers.rs:101-104 and 1262-1280: of ordinary documents, in any partition and
\* any number of uses of the context, every item is told of once and in order,
\* a non-final call of the replay engine leaves out none that is whole by then,
\* and the context is stopped if and only if what was read holds an error.
THEOREM EventsAreToldOnce ==
  ASSUME "zeroed" \notin Contexts, \A d \in Documents \cup Again : Ordinary(d)
  PROVE  Spec => []EventsOnce
<1>0. AllOrdinary
  BY Zenon DEF AllOrdinary
<1>1. Init => IInv /\ Spoken
  BY <1>0, Initially, SpokenAtFirst
<1>2. IInv /\ Spoken /\ [Next]_vars => IInv' /\ Spoken'
  BY <1>0, NextStep, SpokenNext
<1>3. IInv /\ Spoken => EventsOnce
  BY SpokenIsOnce
<1> QED
  BY <1>1, <1>2, <1>3, PTL DEF Spec

\* helpers.rs:1399-1433: of ordinary documents, in any partition and any number
\* of uses of the context, once the terminating call was made the handlers were
\* told what the document says, as by one call with all of it; and that call and
\* each one after it report a failure if and only if the document has one.
THEOREM OutcomeIsTheSame ==
  ASSUME "zeroed" \notin Contexts, \A d \in Documents \cup Again : Ordinary(d)
  PROVE  Spec => []SameOutcome
<1>0. AllOrdinary
  BY Zenon DEF AllOrdinary
<1>1. Init => IInv /\ Spoken
  BY <1>0, Initially, SpokenAtFirst
<1>2. IInv /\ Spoken /\ [Next]_vars => IInv' /\ Spoken'
  BY <1>0, NextStep, SpokenNext
<1>3. IInv /\ Spoken => SameOutcome
  BY SpokenIsOnce
<1> QED
  BY <1>1, <1>2, <1>3, PTL DEF Spec
=============================================================================
