------------------------ MODULE PushCharData_proofs ------------------------
(***************************************************************************)
(* Proofs about PushCharData, for every set of streams and every buffer    *)
(* size: what a scan consumes, delivers and finds wrong.                   *)
(***************************************************************************)
EXTENDS PushCharData, SequenceTheorems, WellFoundedInduction, TLAPS

\* What is delivered: the classes, a character of two bytes, a replacement.
Glyph == Class \cup {"u", "fffd", "nul"}

----------------------------------------------------------------------------
(* Induction: a set of numbers has a least one.                            *)

Less == {p \in Nat \X Nat : p[1] < p[2]}

LEMMA LessIsWellFounded == IsWellFoundedOn(Less, Nat)
<1>1. Less = OpToRel(<, Nat)
  BY Zenon DEF Less, OpToRel
<1> QED
  BY <1>1, NatLessThanWellFounded, Zenon

LEMMA LeastNumber ==
  ASSUME NEW T \in SUBSET Nat, T # {}
  PROVE  \E m \in T : \A k \in T : m <= k
<1>1. PICK m \in T : \A k \in T : <<k, m>> \notin Less
  BY LessIsWellFounded, WFMin, Zenon
<1>2. ASSUME NEW k \in T PROVE m <= k
  <2>1. k \in Nat /\ m \in Nat
    OBVIOUS
  <2>2. k < m => <<k, m>> \in Less
    BY <2>1 DEF Less
  <2> QED
    BY <1>1, <2>1, <2>2
<1> QED
  BY <1>2

----------------------------------------------------------------------------
(* The reference text.                                                     *)

Longer(k, end, t) == IF Joined(k, end) THEN t ELSE Append(t, Char(k, end))

IsText(r, n, end) ==
  r = [k \in 0 .. n |-> IF k = 0 THEN <<>>
                        ELSE IF Joined(k - 1, end) THEN r[k - 1]
                        ELSE Append(r[k - 1], Char(k - 1, end))]

LEMMA TextExists ==
  ASSUME NEW n \in Nat, NEW end
  PROVE  \E r : IsText(r, n, end)
<1> DEFINE T == {k \in Nat : ~\E r : IsText(r, k, end)}
<1>1. SUFFICES ASSUME T # {} PROVE FALSE
  BY Zenon
<1>2. PICK m \in T : \A k \in T : m <= k
  BY <1>1, LeastNumber
<1>3. m \in Nat /\ ~\E r : IsText(r, m, end)
  BY <1>2
<1>4. CASE m = 0
  <2>1. IsText([i \in 0 .. 0 |-> <<>>], 0, end)
    BY DEF IsText
  <2> QED
    BY <1>3, <1>4, <2>1
<1>5. CASE m # 0
  <2>1. m - 1 \in Nat /\ m - 1 \notin T
    BY <1>2, <1>3, <1>5
  <2>2. PICK p : IsText(p, m - 1, end)
    BY <2>1
  <2> DEFINE r == [i \in 0 .. m |-> IF i = m THEN Longer(m - 1, end, p[m - 1])
                                             ELSE p[i]]
  <2>3. ASSUME NEW i \in 0 .. m
        PROVE  r[i] = IF i = 0 THEN <<>>
                      ELSE IF Joined(i - 1, end) THEN r[i - 1]
                      ELSE Append(r[i - 1], Char(i - 1, end))
    <3>1. CASE i = m
      BY <1>3, <1>5, <3>1 DEF Longer
    <3>2. CASE i # m
      <4>1. /\ i \in 0 .. m - 1 /\ r[i] = p[i]
            /\ i # 0 => i - 1 \in 0 .. m /\ i - 1 # m
        BY <1>3, <3>2
      <4>2. p[i] = IF i = 0 THEN <<>>
                   ELSE IF Joined(i - 1, end) THEN p[i - 1]
                   ELSE Append(p[i - 1], Char(i - 1, end))
        BY <2>2, <4>1, Zenon DEF IsText
      <4> QED
        BY <4>1, <4>2
    <3> QED
      BY <3>1, <3>2
  <2>4. IsText(r, m, end)
    BY <2>3, Zenon DEF IsText
  <2> QED
    BY <1>3, <2>4
<1> QED
  BY <1>4, <1>5

LEMMA TextIsRun ==
  ASSUME NEW n \in Nat, NEW end
  PROVE  \E r : /\ Text(n, end) = r[n] /\ r[0] = <<>>
                /\ \A k \in 1 .. n : r[k] = Longer(k - 1, end, r[k - 1])
<1> DEFINE r == CHOOSE r : IsText(r, n, end)
<1>1. IsText(r, n, end)
  BY TextExists, Zenon
<1>2. Text(n, end) = r[n]
  BY Zenon DEF Text, IsText
<1> HIDE DEF r
<1>3. ASSUME NEW k \in 0 .. n
      PROVE  r[k] = IF k = 0 THEN <<>>
                    ELSE IF Joined(k - 1, end) THEN r[k - 1]
                    ELSE Append(r[k - 1], Char(k - 1, end))
  BY <1>1, Zenon DEF IsText
<1>4. r[0] = <<>>
  BY <1>3
<1>5. \A k \in 1 .. n : r[k] = Longer(k - 1, end, r[k - 1])
  BY <1>3 DEF Longer
<1> QED
  BY <1>2, <1>4, <1>5

LEMMA TextZero ==
  ASSUME NEW end
  PROVE  Text(0, end) = <<>>
BY TextIsRun

LEMMA TextNext ==
  ASSUME NEW n \in Nat, NEW end
  PROVE  Text(n + 1, end) = Longer(n, end, Text(n, end))
<1>1. PICK r : /\ Text(n, end) = r[n] /\ r[0] = <<>>
               /\ \A k \in 1 .. n : r[k] = Longer(k - 1, end, r[k - 1])
  BY TextIsRun
<1>2. PICK q : /\ Text(n + 1, end) = q[n + 1] /\ q[0] = <<>>
               /\ \A k \in 1 .. n + 1 : q[k] = Longer(k - 1, end, q[k - 1])
  <2> DEFINE n1 == n + 1
  <2>1. n1 \in Nat
    OBVIOUS
  <2> HIDE DEF n1
  <2>2. \E q : /\ Text(n1, end) = q[n1] /\ q[0] = <<>>
               /\ \A k \in 1 .. n1 : q[k] = Longer(k - 1, end, q[k - 1])
    BY <2>1, TextIsRun
  <2> QED
    BY <2>2 DEF n1
<1> DEFINE T == {k \in 0 .. n : r[k] # q[k]}
<1>3. T = {}
  <2>1. SUFFICES ASSUME T # {} PROVE FALSE
    BY Zenon
  <2>2. PICK m \in T : \A k \in T : m <= k
    <3>1. T \in SUBSET Nat
      OBVIOUS
    <3> QED
      BY <2>1, <3>1, LeastNumber, Zenon
  <2>3. m \in 0 .. n /\ r[m] # q[m] /\ m # 0
    BY <1>1, <1>2, <2>2
  <2>4. m - 1 \in 0 .. n /\ m - 1 \notin T
    BY <2>2, <2>3
  <2>5. r[m - 1] = q[m - 1]
    BY <2>4
  <2>6. m \in 1 .. n /\ m \in 1 .. n + 1
    BY <2>3
  <2> QED
    BY <1>1, <1>2, <2>3, <2>5, <2>6
<1>4. r[n] = q[n]
  BY <1>3
<1>5. n + 1 \in 1 .. n + 1 /\ (n + 1) - 1 = n
  OBVIOUS
<1> QED
  BY <1>1, <1>2, <1>4, <1>5

LEMMA ByteType ==
  ASSUME doc \in Seq(Class), NEW k \in Nat, NEW end \in Nat, end <= Len(doc)
  PROVE  ByteIn(k, end) \in Class \cup {"nul"}
BY DEF ByteIn

LEMMA CharType ==
  ASSUME doc \in Seq(Class), NEW k \in Nat, NEW end \in Nat, end <= Len(doc)
  PROVE  Char(k, end) \in Glyph
BY ByteType DEF Char, Glyph, Class

LEMMA TextType ==
  ASSUME doc \in Seq(Class), NEW n \in Nat, NEW end \in Nat, end <= Len(doc)
  PROVE  Text(n, end) \in Seq(Glyph)
<1> DEFINE T == {k \in Nat : Text(k, end) \notin Seq(Glyph)}
<1>1. SUFFICES ASSUME T # {} PROVE FALSE
  BY Zenon
<1>2. PICK m \in T : \A k \in T : m <= k
  BY <1>1, LeastNumber
<1>3. m \in Nat /\ Text(m, end) \notin Seq(Glyph) /\ m # 0
  <2>1. Text(0, end) \in Seq(Glyph)
    <3>1. Text(0, end) = <<>>
      BY TextZero
    <3>2. <<>> \in Seq(Glyph)
      OBVIOUS
    <3> QED
      BY <3>1, <3>2
  <2>2. m \in Nat /\ Text(m, end) \notin Seq(Glyph)
    OBVIOUS
  <2> HIDE DEF T
  <2>3. m = 0 => FALSE
    BY <2>1, <2>2
  <2> QED
    BY <2>2, <2>3
<1>4. m - 1 \in Nat /\ m - 1 \notin T /\ (m - 1) + 1 = m
  BY <1>2, <1>3
<1>5. Text(m, end) = Longer(m - 1, end, Text(m - 1, end))
  BY <1>4, TextNext
<1>6. Char(m - 1, end) \in Glyph
  BY <1>4, CharType
<1> QED
  BY <1>3, <1>4, <1>5, <1>6 DEF Longer

\* The text of the first n bytes is the same wherever the document ends
\* behind them, unless it ends within a character.
LEMMA TextAgrees ==
  ASSUME doc \in Seq(Class), NEW n \in Nat, NEW end \in Nat, NEW end2 \in Nat,
         n <= end, n <= end2, end <= Len(doc), end2 <= Len(doc),
         n > 0 => doc[n] # "lead"
  PROVE  Text(n, end) = Text(n, end2)
<1>1. ASSUME NEW k \in Nat, k < n
      PROVE  /\ Joined(k, end) = Joined(k, end2)
             /\ Char(k, end) = Char(k, end2)
  <2>1. ByteIn(k, end) = doc[k + 1] /\ ByteIn(k, end2) = doc[k + 1]
    BY <1>1 DEF ByteIn
  <2>2. k > 0 => ByteIn(k - 1, end) = doc[k] /\ ByteIn(k - 1, end2) = doc[k]
    BY <1>1 DEF ByteIn
  <2>3. Joined(k, end) = Joined(k, end2)
    BY <2>1, <2>2 DEF Joined
  <2>4. CASE k + 1 < n
    <3>1. ByteIn(k + 1, end) = ByteIn(k + 1, end2)
      BY <2>4 DEF ByteIn
    <3> QED
      BY <2>1, <2>3, <3>1 DEF Char
  <2>5. CASE k + 1 = n
    BY <2>1, <2>3, <2>5 DEF Char
  <2> QED
    BY <1>1, <2>4, <2>5
<1> DEFINE T == {k \in 0 .. n : Text(k, end) # Text(k, end2)}
<1>2. T = {}
  <2>1. SUFFICES ASSUME T # {} PROVE FALSE
    BY Zenon
  <2>2. PICK m \in T : \A k \in T : m <= k
    <3>1. T \in SUBSET Nat
      OBVIOUS
    <3> QED
      BY <2>1, <3>1, LeastNumber, Zenon
  <2>3. m \in 0 .. n /\ Text(m, end) # Text(m, end2) /\ m # 0
    BY <2>2, TextZero
  <2>4. m - 1 \in Nat /\ m - 1 < n /\ m - 1 \in 0 .. n /\ (m - 1) + 1 = m
        /\ m - 1 \notin T
    BY <2>2, <2>3
  <2>5. /\ Text(m, end) = Longer(m - 1, end, Text(m - 1, end))
        /\ Text(m, end2) = Longer(m - 1, end2, Text(m - 1, end2))
    BY <2>4, TextNext
  <2>6. Text(m - 1, end) = Text(m - 1, end2)
    BY <2>4
  <2> QED
    BY <1>1, <2>3, <2>4, <2>5, <2>6 DEF Longer
<1> QED
  BY <1>2

----------------------------------------------------------------------------
(* What holds between steps.                                               *)

TypeOK ==
  /\ doc \in Docs /\ recv \in 0 .. Len(doc)
  /\ have \in 0 .. recv /\ recv <= have + 1 /\ pos \in 0 .. have
  /\ out \in Seq(Glyph)
  /\ fatal \in BOOLEAN /\ busy \in BOOLEAN /\ term \in BOOLEAN
  /\ (~busy \/ term) => have = recv

\* The first n bytes, consumed with f a fatal or not: no fault was passed
\* over, no character was cut, and a fatal has its fault.
Judged(n, f) ==
  /\ ~f => /\ n > 0 => doc[n] # "lead"
           /\ \A k \in 0 .. n - 1 : ~Wrong(k, End)
  /\ f => \E k \in 0 .. n - 1 : Wrong(k, recv)

\* The first n bytes, of which o was delivered and b not yet.
Told(n, f, o, b) ==
  /\ \E m \in 0 .. n : o = Text(m, End)
  /\ ~f => o \o b = Text(n, End) /\ ~Joined(n, End)

\* What the driver sees in a call does not end within a line end.
LineKept == busy /\ have > 0 /\ doc[have] = "cr" => ByteIn(have, End) # "lf"

IInv == TypeOK /\ Judged(pos, fatal) /\ Backlog
Exact == Told(pos, fatal, out, <<>>) /\ LineKept

----------------------------------------------------------------------------
(* The character at a place.                                               *)

LEMMA Views ==
  ASSUME TypeOK
  PROVE  /\ doc \in Seq(Class) /\ Len(doc) \in Nat
         /\ have \in Nat /\ recv \in Nat /\ End \in Nat /\ pos \in Nat
         /\ have <= recv /\ recv <= End /\ End <= Len(doc) /\ pos <= have
         /\ term => have = recv /\ End = have
<1>1. doc \in Seq(Class)
  BY CharDataAssumption DEF TypeOK
<1> QED
  BY <1>1 DEF TypeOK, End

LEMMA Seen ==
  ASSUME TypeOK, NEW k \in Nat, k < have
  PROVE  /\ Byte(k) = doc[k + 1] /\ ByteIn(k, recv) = doc[k + 1]
         /\ ByteIn(k, End) = doc[k + 1] /\ doc[k + 1] \in Class
<1>1. k + 1 \in 1 .. Len(doc)
  BY Views
<1> QED
  BY <1>1, Views DEF Byte, ByteIn

\* Past what is seen there is nothing, or what the document holds there.
LEMMA Unseen ==
  ASSUME TypeOK, NEW k \in Nat, k >= have
  PROVE  /\ Byte(k) = "nul"
         /\ term => ByteIn(k, End) = "nul" /\ ByteIn(k, recv) = "nul"
BY Views DEF Byte, ByteIn

LEMMA BracketJudged ==
  ASSUME TypeOK, NEW k \in Nat, k < have, Byte(k) = "]", ~Unsure(k)
  PROVE  /\ CdataEnd(k) => Wrong(k, recv)
         /\ ~CdataEnd(k) => ~Wrong(k, End)
<1>1. /\ Byte(k) = "]" /\ ByteIn(k, recv) = "]" /\ ByteIn(k, End) = "]"
      /\ k + 1 \in Nat /\ k + 2 \in Nat /\ have \in Nat
  BY Seen, Views
<1>2. CASE CdataEnd(k)
  <2>1. Byte(k + 1) = "]" /\ Byte(k + 2) = ">"
    BY <1>2 DEF CdataEnd
  <2>2. k + 1 < have /\ k + 2 < have
    BY <1>1, <2>1, Unseen
  <2>3. ByteIn(k + 1, recv) = "]" /\ ByteIn(k + 2, recv) = ">"
    BY <1>1, <2>1, <2>2, Seen
  <2> QED
    BY <1>1, <1>2, <2>3 DEF Wrong
<1>3. CASE ~CdataEnd(k)
  <2>1. Byte(k + 1) # "]" \/ Byte(k + 2) # ">"
    BY <1>3, <1>1 DEF CdataEnd
  <2>2. CASE term
    <3>1. Byte(k + 1) = ByteIn(k + 1, End) /\ Byte(k + 2) = ByteIn(k + 2, End)
      BY <2>2, Views DEF Byte
    <3> QED
      BY <1>1, <1>3, <2>1, <3>1 DEF Wrong
  <2>3. CASE ~term
    <3>1. k + 1 < have /\ (Byte(k + 1) = "]" => k + 2 < have)
      BY <1>1, <2>3 DEF Unsure
    <3>2. Byte(k + 1) = ByteIn(k + 1, End)
      BY <1>1, <3>1, Seen
    <3>3. Byte(k + 1) = "]" => Byte(k + 2) = ByteIn(k + 2, End)
      BY <1>1, <3>1, Seen
    <3> QED
      BY <1>1, <1>3, <2>1, <3>2, <3>3 DEF Wrong
  <2> QED
    BY <2>2, <2>3
<1> QED
  BY <1>2, <1>3

Bad(k) == CdataEnd(k) \/ CharAt(k).err

\* A character that a scan takes.
LEMMA CharTaken ==
  ASSUME TypeOK, NEW k \in Nat, k <= have, ~Unsure(k),
         CharAt(k).ch \notin {"<", "nul", "ctl"}
  PROVE  /\ k < have /\ CharAt(k).ch \in Glyph
         /\ CharAt(k).n \in 1 .. 2 /\ k + CharAt(k).n <= have
         /\ Bad(k) /\ (k > 0 => doc[k] # "lead") => Wrong(k, recv)
         /\ ~Bad(k) => /\ CharAt(k).ch = Char(k, End)
                       /\ doc[k + CharAt(k).n] # "lead"
                       /\ CharAt(k).n = 2 => Joined(k + 1, End)
                       /\ \A j \in k .. k + CharAt(k).n - 1 : ~Wrong(j, End)
                       /\ LineKept /\ busy => ~Joined(k + CharAt(k).n, End)
<1>1. k < have
  <2>1. k # have
    BY Unseen, Views DEF CharAt
  <2> QED
    BY <2>1, Views
<1>2. /\ Byte(k) = doc[k + 1] /\ ByteIn(k, recv) = doc[k + 1]
      /\ ByteIn(k, End) = doc[k + 1] /\ doc[k + 1] \in Class /\ k + 1 \in Nat
      /\ have \in Nat /\ doc[k + 1] # "nul"
  BY <1>1, Seen, Views DEF Class
<1>3. CASE doc[k + 1] = "cr"
  <2>1. /\ CharAt(k).ch = "lf" /\ CharAt(k).err = FALSE /\ ~CdataEnd(k)
        /\ CharAt(k).n = IF Byte(k + 1) = "lf" THEN 2 ELSE 1
    BY <1>2, <1>3 DEF CharAt, CdataEnd
  <2>2. ~Bad(k) /\ Char(k, End) = "lf" /\ ~Wrong(k, End) /\ "lf" \in Glyph
    BY <1>2, <1>3, <2>1 DEF Bad, Char, Wrong, Glyph, Class
  <2>3. CASE Byte(k + 1) = "lf"
    <3>1. k + 1 < have
      BY <1>2, <2>3, Unseen
    <3>2. ByteIn(k + 1, End) = "lf" /\ doc[k + 2] = "lf" /\ (k + 1) + 1 = k + 2
      BY <1>2, <2>3, <3>1, Seen
    <3>3. Joined(k + 1, End)
      BY <1>2, <1>3, <3>2 DEF Joined
    <3>4. ~Wrong(k + 1, End)
      BY <3>2 DEF Wrong
    <3>5. (k + 2) - 1 = k + 1 /\ ~Joined(k + 2, End)
      BY <3>2 DEF Joined
    <3>6. \A j \in k .. k + 1 : j = k \/ j = k + 1
      BY <1>2
    <3> QED
      BY <1>1, <1>2, <2>1, <2>2, <2>3, <3>1, <3>2, <3>3, <3>4, <3>5, <3>6
  <2>4. CASE Byte(k + 1) # "lf"
    <3>1. CharAt(k).n = 1 /\ (k + 1) - 1 = k
      BY <2>1, <2>4
    <3>2. LineKept /\ busy => ByteIn(k + 1, End) # "lf"
      <4>1. CASE k + 1 < have
        BY <1>2, <2>4, <4>1, Seen
      <4>2. CASE k + 1 = have
        BY <1>2, <1>3, <4>2 DEF LineKept
      <4> QED
        BY <1>1, <1>2, <4>1, <4>2
    <3>3. LineKept /\ busy => ~Joined(k + 1, End)
      BY <1>2, <1>3, <3>1, <3>2 DEF Joined
    <3>4. \A j \in k .. k : j = k
      OBVIOUS
    <3> QED
      BY <1>1, <1>2, <1>3, <2>1, <2>2, <3>1, <3>3, <3>4
  <2> QED
    BY <2>3, <2>4
<1>4. CASE doc[k + 1] \in {"lead", "cont"}
  <2>1. have - k >= 2 /\ k + 1 < have
    BY <1>2, <1>4 DEF CharAt
  <2>2. /\ Byte(k + 1) = doc[k + 2] /\ ByteIn(k + 1, End) = doc[k + 2]
        /\ ByteIn(k + 1, recv) = doc[k + 2]
    BY <1>2, <2>1, Seen
  <2>3. ~CdataEnd(k)
    BY <1>2, <1>4 DEF CdataEnd
  <2>4. CASE doc[k + 1] = "lead" /\ doc[k + 2] = "cont"
    <3>1. CharAt(k).ch = "u" /\ CharAt(k).n = 2 /\ CharAt(k).err = FALSE
      BY <1>2, <2>1, <2>2, <2>4 DEF CharAt
    <3>2. ~Bad(k) /\ Char(k, End) = "u" /\ ~Wrong(k, End) /\ "u" \in Glyph
      BY <1>2, <2>2, <2>3, <2>4, <3>1 DEF Bad, Char, Wrong, Glyph
    <3>3. (k + 1) - 1 = k /\ k + 1 > 0 /\ (k + 2) - 1 = k + 1
      BY <1>2
    <3>4. Joined(k + 1, End) /\ ~Wrong(k + 1, End) /\ ~Joined(k + 2, End)
      BY <1>2, <2>2, <2>4, <3>3 DEF Joined, Wrong
    <3>5. \A j \in k .. k + 1 : j = k \/ j = k + 1
      BY <1>2
    <3> QED
      BY <1>1, <1>2, <2>1, <2>4, <3>1, <3>2, <3>3, <3>4, <3>5
  <2>5. CASE ~(doc[k + 1] = "lead" /\ doc[k + 2] = "cont")
    <3>1. CharAt(k).ch = "fffd" /\ CharAt(k).n = 1 /\ CharAt(k).err = TRUE
      BY <1>2, <1>4, <2>1, <2>2, <2>5 DEF CharAt
    <3>2. Bad(k) /\ "fffd" \in Glyph
      BY <3>1 DEF Bad, Glyph
    <3>3. k > 0 => ByteIn(k - 1, recv) = doc[k]
      BY <1>1, Views DEF ByteIn
    <3>4. (k > 0 => doc[k] # "lead") => Wrong(k, recv)
      BY <1>2, <1>4, <2>2, <2>5, <3>3 DEF Wrong
    <3> QED
      BY <1>1, <1>2, <3>1, <3>2, <3>4
  <2> QED
    BY <2>4, <2>5
<1>5. CASE doc[k + 1] \in {"x", "lf", "]", ">"}
  <2>1. CharAt(k).ch = doc[k + 1] /\ CharAt(k).n = 1 /\ CharAt(k).err = FALSE
    BY <1>2, <1>5 DEF CharAt
  <2>2. Char(k, End) = doc[k + 1] /\ doc[k + 1] \in Glyph /\ (k + 1) - 1 = k
    BY <1>2, <1>5 DEF Char, Glyph
  <2>3. ~Joined(k + 1, End)
    BY <1>2, <1>5, <2>2 DEF Joined
  <2>4. Bad(k) <=> CdataEnd(k)
    BY <2>1 DEF Bad
  <2>5. (Bad(k) => Wrong(k, recv)) /\ (~Bad(k) => ~Wrong(k, End))
    <3>1. CASE doc[k + 1] = "]"
      BY <1>1, <1>2, <2>4, <3>1, BracketJudged
    <3>2. CASE doc[k + 1] # "]"
      BY <1>2, <1>5, <2>4, <3>2 DEF Wrong, CdataEnd
    <3> QED
      BY <3>1, <3>2
  <2>6. \A j \in k .. k : j = k
    OBVIOUS
  <2> QED
    BY <1>1, <1>2, <1>5, <2>1, <2>2, <2>3, <2>5, <2>6
<1>6. CASE doc[k + 1] \in {"ctl", "<"}
  BY <1>2, <1>6 DEF CharAt
<1> QED
  BY <1>2, <1>3, <1>4, <1>5, <1>6 DEF Class

----------------------------------------------------------------------------
(* An iteration of the scan.                                               *)

ScanState == [loop : {"fast", "complex", "done"}, i : Nat,
              buf : Seq(Glyph), out : Seq(Glyph), fatal : BOOLEAN]

\* What is delivered of s once its buffer is flushed.
Kept(s) == IF s.fatal THEN s.out ELSE s.out \o s.buf

\* Where the scan has to leave the text to a later call, or to markup.
Rests(k) == \/ Unsure(k) \/ Byte(k) \in {"<", "nul"}
            \/ Byte(k) \in {"lead", "cont"} /\ have - k < 2 /\ ~term

\* Where it reports a byte that it skips.
Faulty(k) == k < have /\ \/ Byte(k) = "ctl"
                         \/ Byte(k) \in {"lead", "cont"} /\ have - k < 2 /\ term

Halts(s, y) ==
  /\ y.loop = "done" /\ y.buf = <<>> /\ y.out = Kept(s)
  /\ \/ Rests(s.i) /\ y.i = s.i /\ (y.fatal <=> s.fatal)
     \/ Faulty(s.i) /\ y.i = s.i + 1 /\ y.fatal

Switches(s, y) ==
  /\ s.loop = "fast" /\ y.loop = "complex" /\ y.buf = <<>> /\ y.out = Kept(s)
  /\ y.i = s.i /\ (y.fatal <=> s.fatal)

Eats(s, y) ==
  /\ ~Unsure(s.i) /\ CharAt(s.i).ch \notin {"<", "nul", "ctl"}
  /\ y.loop = s.loop /\ y.i = s.i + CharAt(s.i).n
  /\ y.fatal <=> (s.fatal \/ Bad(s.i))
  /\ y.out \in {s.out, Kept(s)} \/ (~y.fatal /\ y.buf = <<>>)
  /\ ~y.fatal => y.out \o y.buf = Append(s.out \o s.buf, CharAt(s.i).ch)

LEMMA Fields ==
  ASSUME NEW s \in ScanState
  PROVE  /\ s.loop \in {"fast", "complex", "done"} /\ s.i \in Nat
         /\ s.buf \in Seq(Glyph) /\ s.out \in Seq(Glyph) /\ s.fatal \in BOOLEAN
BY DEF ScanState

LEMMA KeptType ==
  ASSUME NEW s \in ScanState
  PROVE  Kept(s) \in Seq(Glyph)
BY Fields DEF Kept

LEMMA FlushedFields ==
  ASSUME NEW s \in ScanState
  PROVE  /\ Flushed(s) \in ScanState
         /\ Flushed(s).loop = s.loop /\ Flushed(s).i = s.i
         /\ Flushed(s).buf = <<>> /\ Flushed(s).out = Kept(s)
         /\ Flushed(s).fatal = s.fatal
<1>1. Kept(s) \in Seq(Glyph) /\ <<>> \in Seq(Glyph)
  BY KeptType
<1>2. Flushed(s) = [s EXCEPT !.buf = <<>>, !.out = Kept(s)]
  BY DEF Flushed, Kept
<1> QED
  BY <1>1, <1>2 DEF ScanState

LEMMA DoneFields ==
  ASSUME NEW s \in ScanState
  PROVE  /\ Done(s) \in ScanState
         /\ Done(s).loop = "done" /\ Done(s).i = s.i
         /\ Done(s).buf = <<>> /\ Done(s).out = Kept(s)
         /\ Done(s).fatal = s.fatal
BY FlushedFields DEF Done, ScanState

LEMMA RaisedFields ==
  ASSUME NEW s \in ScanState
  PROVE  /\ Raised(s) \in ScanState
         /\ Raised(s).loop = s.loop /\ Raised(s).i = s.i
         /\ Raised(s).buf = s.buf /\ Raised(s).out = s.out
         /\ Raised(s).fatal = TRUE
BY DEF Raised, ScanState

LEMMA TakeFields ==
  ASSUME NEW s \in ScanState, NEW ch \in Glyph, NEW n \in Nat
  PROVE  /\ Take(s, ch, n) \in ScanState
         /\ Take(s, ch, n).loop = s.loop /\ Take(s, ch, n).i = s.i + n
         /\ Take(s, ch, n).buf = Append(s.buf, ch) /\ Take(s, ch, n).out = s.out
         /\ Take(s, ch, n).fatal = s.fatal
<1> DEFINE j == s.i + n
           b == Append(s.buf, ch)
<1>1. j \in Nat /\ b \in Seq(Glyph)
  BY Fields
<1>2. Take(s, ch, n) = [s EXCEPT !.i = j, !.buf = b]
  BY DEF Take
<1> HIDE DEF j, b
<1>3. /\ [s EXCEPT !.i = j, !.buf = b] \in ScanState
      /\ Take(s, ch, n).loop = s.loop /\ Take(s, ch, n).i = j
      /\ Take(s, ch, n).buf = b /\ Take(s, ch, n).out = s.out
      /\ Take(s, ch, n).fatal = s.fatal
  BY <1>1, <1>2 DEF ScanState
<1> QED
  BY <1>2, <1>3 DEF j, b

LEMMA JoinAppend ==
  ASSUME NEW a \in Seq(Glyph), NEW b \in Seq(Glyph), NEW ch \in Glyph
  PROVE  /\ a \o Append(b, ch) = Append(a \o b, ch)
         /\ (a \o b) \o Append(<<>>, ch) = Append(a \o b, ch)
         /\ a \o <<>> = a
OBVIOUS

\* Taking a character, with a fault or not, flushed before or not.
LEMMA Eaten ==
  ASSUME TypeOK, NEW s \in ScanState, s.i <= have, ~Unsure(s.i),
         CharAt(s.i).ch \notin {"<", "nul", "ctl"}
  PROVE  LET y == Take(IF Bad(s.i) THEN Raised(s) ELSE s, CharAt(s.i).ch, CharAt(s.i).n)
         IN  /\ y \in ScanState /\ Eats(s, y)
             /\ Flushed(y) \in ScanState /\ Eats(s, Flushed(y))
<1> DEFINE x == IF Bad(s.i) THEN Raised(s) ELSE s
           ch == CharAt(s.i).ch
           n == CharAt(s.i).n
           y == Take(x, ch, n)
<1>1. ch \in Glyph /\ n \in Nat
  BY CharTaken, Fields
<1>2. /\ x \in ScanState /\ x.loop = s.loop /\ x.i = s.i /\ x.buf = s.buf
      /\ x.out = s.out /\ (x.fatal <=> (s.fatal \/ Bad(s.i)))
  BY RaisedFields, Fields
<1>0. ch = CharAt(s.i).ch /\ n = CharAt(s.i).n
  OBVIOUS
<1> HIDE DEF x, ch, n
<1>3. /\ y \in ScanState /\ y.loop = s.loop /\ y.i = s.i + n
      /\ y.buf = Append(s.buf, ch) /\ y.out = s.out
      /\ (y.fatal <=> (s.fatal \/ Bad(s.i)))
  <2>1. /\ y \in ScanState /\ y.loop = x.loop /\ y.i = x.i + n
        /\ y.buf = Append(x.buf, ch) /\ y.out = x.out /\ y.fatal = x.fatal
    BY <1>1, <1>2, TakeFields
  <2> HIDE DEF y
  <2> QED
    BY <1>2, <2>1
<1> HIDE DEF y
<1>4. y.out \o y.buf = Append(s.out \o s.buf, ch)
  <2> DEFINE a == s.out
             c == s.buf
  <2>1. a \in Seq(Glyph) /\ c \in Seq(Glyph)
    BY Fields
  <2>2. y.out = a /\ y.buf = Append(c, ch)
    BY <1>3
  <2> HIDE DEF a, c
  <2>3. a \o Append(c, ch) = Append(a \o c, ch)
    BY <1>1, <2>1, JoinAppend
  <2>4. y.out \o y.buf = Append(a \o c, ch)
    BY <2>2, <2>3
  <2> QED
    BY <2>4 DEF a, c
<1>5. Eats(s, y)
  BY <1>0, <1>3, <1>4 DEF Eats
<1>6. /\ Flushed(y) \in ScanState /\ Flushed(y).loop = s.loop
      /\ Flushed(y).i = s.i + n /\ Flushed(y).buf = <<>>
      /\ (Flushed(y).fatal <=> (s.fatal \/ Bad(s.i)))
      /\ Flushed(y).out = Kept(y)
  BY <1>3, FlushedFields
<1>7. Eats(s, Flushed(y))
  <2>1. CASE y.fatal
    <3>1. Flushed(y).fatal /\ Flushed(y).out = s.out
      BY <1>3, <1>6, <2>1 DEF Kept
    <3> QED
      BY <1>0, <1>6, <3>1 DEF Eats
  <2>2. CASE ~y.fatal
    <3>1. Kept(y) = Append(s.out \o s.buf, ch) /\ Kept(y) \in Seq(Glyph)
      BY <1>3, <1>4, <2>2, KeptType DEF Kept
    <3>2. Kept(y) \o <<>> = Kept(y)
      BY <3>1
    <3>3. Flushed(y).out \o Flushed(y).buf = Append(s.out \o s.buf, ch)
      BY <1>6, <3>1, <3>2
    <3>4. ~Flushed(y).fatal
      BY <1>3, <1>6, <2>2
    <3> QED
      BY <1>0, <1>6, <3>3, <3>4 DEF Eats
  <2> QED
    BY <2>1, <2>2
<1>8. y \in ScanState /\ Eats(s, y) /\ Flushed(y) \in ScanState /\ Eats(s, Flushed(y))
  BY <1>3, <1>5, <1>6, <1>7
<1> QED
  BY <1>8, Zenon DEF y, x, ch, n

LEMMA ComplexStep ==
  ASSUME TypeOK, NEW s \in ScanState, s.i <= have, s.loop = "complex"
  PROVE  Complex(s) \in ScanState /\ (Halts(s, Complex(s)) \/ Eats(s, Complex(s)))
<1> DEFINE at == CharAt(s.i)
           x == IF Bad(s.i) THEN Raised(s) ELSE s
           t == Take(x, at.ch, at.n)
<1>1. CASE ~(at.ch \in {"<", "nul", "ctl"} \/ Unsure(s.i))
  <2>1. Complex(s) \in {t, Flushed(t)}
    BY <1>1 DEF Complex, Bad
  <2> QED
    BY <1>1, <2>1, Eaten
<1>2. CASE at.ch \in {"<", "nul", "ctl"} \/ Unsure(s.i)
  <2> DEFINE y == Done(s)
             z == [Raised(y) EXCEPT !.i = y.i + 1]
  <2>1. Complex(s) = Stuck(y)
    BY <1>2 DEF Complex
  <2>2. /\ y \in ScanState /\ y.loop = "done" /\ y.i = s.i /\ y.buf = <<>>
        /\ y.out = Kept(s) /\ y.fatal = s.fatal
    BY DoneFields
  <2> HIDE DEF y
  <2>3. /\ z \in ScanState /\ z.loop = "done" /\ z.i = s.i + 1 /\ z.buf = <<>>
        /\ z.out = Kept(s) /\ z.fatal = TRUE
    <3> DEFINE r == Raised(y)
               j == y.i + 1
    <3>1. /\ r \in ScanState /\ r.loop = "done" /\ r.buf = <<>>
          /\ r.out = Kept(s) /\ r.fatal = TRUE
      BY <2>2, RaisedFields
    <3>2. z = [r EXCEPT !.i = j] /\ j \in Nat /\ j = s.i + 1
      BY <2>2, Fields
    <3> HIDE DEF r, j, z
    <3> QED
      BY <3>1, <3>2 DEF ScanState
  <2>4. \/ Stuck(y) = y /\ ~(at.ch = "nul" /\ s.i < have /\ term) /\ at.ch # "ctl"
        \/ /\ (at.ch = "nul" /\ s.i < have /\ term) \/ at.ch = "ctl"
           /\ Stuck(y) = z
    BY <2>2, RaisedFields DEF Stuck
  <2>5. s.i \in Nat /\ have \in Nat
    BY Fields, Views
  <2>6. ASSUME Stuck(y) = y, ~(at.ch = "nul" /\ s.i < have /\ term), at.ch # "ctl"
        PROVE  Rests(s.i)
    <3>1. CASE s.i < have
      <4>1. Byte(s.i) \in Class
        BY <2>5, <3>1, Seen
      <4> QED
        BY <1>2, <2>5, <2>6, <3>1, <4>1 DEF CharAt, Rests, Class
    <3>2. CASE s.i = have
      BY <2>5, <3>2, Unseen DEF Rests
    <3> QED
      BY <2>5, <3>1, <3>2
  <2>7. ASSUME (at.ch = "nul" /\ s.i < have /\ term) \/ at.ch = "ctl"
        PROVE  Faulty(s.i)
    <3>1. CASE s.i < have
      <4>1. Byte(s.i) \in Class
        BY <2>5, <3>1, Seen
      <4> QED
        BY <2>5, <2>7, <3>1, <4>1 DEF CharAt, Faulty, Class
    <3>2. CASE s.i = have
      BY <2>5, <2>7, <3>2, Unseen DEF CharAt
    <3> QED
      BY <2>5, <3>1, <3>2
  <2> HIDE DEF z
  <2> QED
    BY <2>1, <2>2, <2>3, <2>4, <2>6, <2>7 DEF Halts
<1> QED
  BY <1>1, <1>2

LEMMA FastStep ==
  ASSUME TypeOK, NEW s \in ScanState, s.i <= have, s.loop = "fast"
  PROVE  /\ Fast(s) \in ScanState
         /\ Halts(s, Fast(s)) \/ Switches(s, Fast(s)) \/ Eats(s, Fast(s))
<1> DEFINE b == Byte(s.i)
<1>0. s.i \in Nat /\ have \in Nat /\ s.loop \in {"fast", "complex", "done"}
  BY Fields, Views
<1>1. CASE Unsure(s.i) \/ b = "<"
  <2>1. Fast(s) = Done(s)
    BY <1>1 DEF Fast
  <2>2. Rests(s.i)
    BY <1>1 DEF Rests
  <2> QED
    BY <2>1, <2>2, DoneFields DEF Halts
<1>2. CASE ~Unsure(s.i) /\ CdataEnd(s.i)
  <2>1. b = "]" /\ b # "<"
    BY <1>2 DEF CdataEnd
  <2>2. /\ CharAt(s.i).ch = b /\ CharAt(s.i).n = 1 /\ Bad(s.i)
    BY <1>2, <2>1 DEF CharAt, Bad
  <2>3. Fast(s) = Take(Raised(s), CharAt(s.i).ch, CharAt(s.i).n)
    BY <1>2, <2>1, <2>2 DEF Fast
  <2> QED
    BY <1>2, <2>1, <2>2, <2>3, Eaten
<1>3. CASE ~Unsure(s.i) /\ ~CdataEnd(s.i) /\ b \in {"x", "lf", "]", ">"}
  <2>1. CharAt(s.i).ch = b /\ CharAt(s.i).n = 1 /\ ~Bad(s.i)
    BY <1>3 DEF CharAt, Bad
  <2>2. Fast(s) = Take(s, CharAt(s.i).ch, CharAt(s.i).n)
    BY <1>3, <2>1 DEF Fast
  <2> QED
    BY <1>3, <2>1, <2>2, Eaten
<1>4. CASE ~Unsure(s.i) /\ b = "cr" /\ Byte(s.i + 1) = "lf"
  <2> DEFINE z == Flushed(s)
             y == Take(z, "lf", 2)
  <2>1. Fast(s) = y
    BY <1>4 DEF Fast, CdataEnd
  <2>2. CharAt(s.i).ch = "lf" /\ CharAt(s.i).n = 2 /\ ~Bad(s.i)
    BY <1>4 DEF CharAt, Bad, CdataEnd
  <2>3. /\ z \in ScanState /\ z.loop = s.loop /\ z.i = s.i /\ z.buf = <<>>
        /\ z.out = Kept(s) /\ z.fatal = s.fatal
    BY FlushedFields
  <2>4. "lf" \in Glyph /\ 2 \in Nat
    BY DEF Glyph, Class
  <2> HIDE DEF z
  <2>5. /\ y \in ScanState /\ y.loop = s.loop /\ y.i = s.i + 2
        /\ y.buf = Append(<<>>, "lf") /\ y.out = Kept(s) /\ y.fatal = s.fatal
    BY <2>3, <2>4, TakeFields
  <2> HIDE DEF y
  <2>6. ~s.fatal => y.out \o y.buf = Append(s.out \o s.buf, "lf")
    <3> DEFINE a == s.out
               c == s.buf
    <3>1. a \in Seq(Glyph) /\ c \in Seq(Glyph)
      BY Fields
    <3>2. ~s.fatal => y.out = a \o c
      BY <2>5 DEF Kept
    <3> HIDE DEF a, c
    <3>3. (a \o c) \o Append(<<>>, "lf") = Append(a \o c, "lf")
      BY <2>4, <3>1, JoinAppend
    <3>4. ~s.fatal => y.out \o y.buf = Append(a \o c, "lf")
      BY <2>5, <3>2, <3>3
    <3> QED
      BY <3>4 DEF a, c
  <2> QED
    BY <1>0, <1>4, <2>1, <2>2, <2>5, <2>6 DEF Eats
<1>5. CASE /\ ~Unsure(s.i) /\ ~CdataEnd(s.i)
           /\ b \notin {"<", "x", "lf", "]", ">"}
           /\ ~(b = "cr" /\ Byte(s.i + 1) = "lf")
  <2>1. Fast(s) = [Flushed(s) EXCEPT !.loop = "complex"]
    BY <1>5 DEF Fast
  <2> QED
    BY <1>0, <2>1, FlushedFields DEF Switches, ScanState
<1> QED
  BY <1>1, <1>2, <1>3, <1>4, <1>5

----------------------------------------------------------------------------
(* What the scan keeps from one iteration to the next.                     *)

Going(s) ==
  /\ s \in ScanState /\ s.i \in pos .. have /\ Judged(s.i, s.fatal)
  /\ s.loop = "done" => s.buf = <<>> /\ (s.i > pos \/ (~term /\ have - pos <= 2))

ToldBy(s) == Told(s.i, s.fatal, s.out, s.buf)

\* The iterations left, at most.
Rank(s) == CASE s.loop = "fast"    -> have - s.i + 2
             [] s.loop = "complex" -> have - s.i + 1
             [] s.loop = "done"    -> 0

LEMMA RankType ==
  ASSUME TypeOK, NEW s, Going(s)
  PROVE  Rank(s) \in Int
<1>1. /\ s.loop \in {"fast", "complex", "done"} /\ s.i \in Nat /\ have \in Nat
  BY Fields, Views DEF Going
<1>2. CASE s.loop = "fast"
  BY <1>1, <1>2 DEF Rank
<1>3. CASE s.loop = "complex"
  BY <1>1, <1>3 DEF Rank
<1>4. CASE s.loop = "done"
  BY <1>1, <1>4 DEF Rank
<1> QED
  BY <1>1, <1>2, <1>3, <1>4

LEMMA FaultyIsWrong ==
  ASSUME TypeOK, NEW k \in Nat, Faulty(k), k > 0 => doc[k] # "lead"
  PROVE  Wrong(k, recv)
<1>1. /\ k < have /\ Byte(k) = doc[k + 1] /\ ByteIn(k, recv) = doc[k + 1]
      /\ have \in Nat /\ recv \in Nat /\ have <= recv
  BY Seen, Views DEF Faulty
<1>2. CASE Byte(k) = "ctl"
  BY <1>1, <1>2 DEF Wrong
<1>3. CASE Byte(k) \in {"lead", "cont"} /\ have - k < 2 /\ term
  <2>1. ByteIn(k + 1, recv) = "nul"
    BY <1>1, <1>3, Views DEF ByteIn
  <2>2. k > 0 => ByteIn(k - 1, recv) = doc[k]
    BY <1>1 DEF ByteIn
  <2> QED
    BY <1>1, <1>3, <2>1, <2>2 DEF Wrong
<1> QED
  BY <1>2, <1>3 DEF Faulty

LEMMA RestsEarly ==
  ASSUME TypeOK, Ready, Rests(pos)
  PROVE  ~term /\ have - pos <= 2
<1>1. pos \in Nat /\ have \in Nat /\ pos < have /\ Byte(pos) \in Class /\ Byte(pos) # "<"
  BY Views, Seen DEF Ready
<1>2. Byte(pos) # "nul"
  BY <1>1 DEF Class
<1> QED
  BY <1>1, <1>2 DEF Rests, Unsure

LEMMA EatsGoing ==
  ASSUME TypeOK, NEW s, NEW y \in ScanState, Going(s), s.loop # "done", Eats(s, y)
  PROVE  Going(y) /\ Rank(y) < Rank(s)
<1> DEFINE k == s.i
           n == CharAt(s.i).n
<1>1. /\ s \in ScanState /\ k \in Nat /\ pos \in Nat /\ have \in Nat
      /\ pos <= k /\ k <= have /\ s.loop \in {"fast", "complex"}
  BY Fields, Views DEF Going
<1>2. /\ n \in 1 .. 2 /\ k + n <= have /\ y.i = k + n /\ y.loop = s.loop
      /\ (Bad(k) /\ (k > 0 => doc[k] # "lead") => Wrong(k, recv))
      /\ (~Bad(k) => /\ doc[k + n] # "lead"
                     /\ \A j \in k .. k + n - 1 : ~Wrong(j, End))
      /\ (y.fatal <=> (s.fatal \/ Bad(k)))
  BY <1>1, CharTaken DEF Eats
<1>3. Judged(k, s.fatal)
  BY DEF Going
<1> HIDE DEF k, n
<1>4. Judged(k + n, y.fatal)
  <2>1. CASE s.fatal
    <3>1. PICK j \in 0 .. k - 1 : Wrong(j, recv)
      BY <1>3, <2>1 DEF Judged
    <3>2. j \in 0 .. (k + n) - 1
      BY <1>1, <1>2
    <3> QED
      BY <1>2, <2>1, <3>1, <3>2 DEF Judged
  <2>2. CASE ~s.fatal /\ Bad(k)
    <3>1. Wrong(k, recv)
      BY <1>2, <1>3, <2>2 DEF Judged
    <3>2. k \in 0 .. (k + n) - 1
      BY <1>1, <1>2
    <3> QED
      BY <1>2, <2>2, <3>1, <3>2 DEF Judged
  <2>3. CASE ~s.fatal /\ ~Bad(k)
    <3>1. \A j \in 0 .. (k + n) - 1 : j \in 0 .. k - 1 \/ j \in k .. k + n - 1
      BY <1>1, <1>2
    <3>2. \A j \in 0 .. (k + n) - 1 : ~Wrong(j, End)
      BY <1>2, <1>3, <2>3, <3>1 DEF Judged
    <3> QED
      BY <1>2, <2>3, <3>2 DEF Judged
  <2> QED
    BY <2>1, <2>2, <2>3
<1>5. y.i \in pos .. have /\ y.loop # "done"
  BY <1>1, <1>2
<1>6. Rank(y) < Rank(s)
  <2>1. y.i > s.i /\ y.i \in Nat /\ s.i \in Nat
    BY <1>1, <1>2 DEF k
  <2> QED
    BY <1>1, <1>2, <2>1 DEF Rank
<1> QED
  BY <1>2, <1>4, <1>5, <1>6 DEF Going

LEMMA EatsTold ==
  ASSUME TypeOK, busy, LineKept, NEW s, NEW y \in ScanState,
         Going(s), ToldBy(s), Eats(s, y)
  PROVE  ToldBy(y)
<1> DEFINE k == s.i
           n == CharAt(s.i).n
           ch == CharAt(s.i).ch
           a == s.out \o s.buf
           b == y.out \o y.buf
<1>1. /\ s \in ScanState /\ k \in Nat /\ k <= have /\ s.fatal \in BOOLEAN
  BY Fields, Views DEF Going
<1>2. /\ n \in 1 .. 2 /\ y.i = k + n
      /\ (~Bad(k) => /\ ch = Char(k, End) /\ (n = 2 => Joined(k + 1, End))
                     /\ ~Joined(k + n, End))
      /\ (y.fatal <=> (s.fatal \/ Bad(k)))
  BY <1>1, CharTaken DEF Eats
<1>3. ~y.fatal => b = Append(a, ch)
  BY DEF Eats
<1>4. /\ \E m \in 0 .. k : s.out = Text(m, End)
      /\ ~s.fatal => a = Text(k, End) /\ ~Joined(k, End)
  BY DEF ToldBy, Told
<1>5. Kept(s) = IF s.fatal THEN s.out ELSE a
  BY DEF Kept
<1>6. y.out \in {s.out, Kept(s)} \/ (~y.fatal /\ y.buf = <<>>)
  BY DEF Eats
<1>7. y.buf = <<>> => b = y.out
  BY Fields
<1> HIDE DEF k, n, ch, a, b
<1>8. ~y.fatal => b = Text(k + n, End) /\ ~Joined(k + n, End)
  <2>1. SUFFICES ASSUME ~y.fatal PROVE b = Text(k + n, End) /\ ~Joined(k + n, End)
    OBVIOUS
  <2>2. ~s.fatal /\ ~Bad(k)
    BY <1>2, <2>1
  <2>3. Text(k + 1, End) = Append(Text(k, End), Char(k, End))
    BY <1>1, <1>4, <2>2, TextNext DEF Longer
  <2>4. b = Text(k + 1, End)
    BY <1>2, <1>3, <1>4, <2>1, <2>2, <2>3
  <2>5. CASE n = 1
    BY <1>2, <2>2, <2>4, <2>5
  <2>6. CASE n = 2
    <3> DEFINE k1 == k + 1
    <3>1. k1 \in Nat /\ Joined(k1, End) /\ b = Text(k1, End)
      BY <1>1, <1>2, <2>2, <2>4, <2>6
    <3>2. k + n = k1 + 1
      BY <1>1, <2>6
    <3> HIDE DEF k1
    <3>3. Text(k1 + 1, End) = Text(k1, End)
      BY <3>1, TextNext DEF Longer
    <3> QED
      BY <1>2, <2>2, <3>1, <3>2, <3>3
  <2> QED
    BY <1>2, <2>5, <2>6
<1>9. \E m \in 0 .. k + n : y.out = Text(m, End)
  <2>1. \A m \in 0 .. k : m \in 0 .. k + n
    BY <1>1, <1>2
  <2>2. k \in 0 .. k + n /\ k + n \in 0 .. k + n
    BY <1>1, <1>2
  <2>3. CASE y.out = s.out
    BY <1>4, <2>1, <2>3
  <2>4. CASE y.out = Kept(s)
    BY <1>4, <1>5, <2>1, <2>2, <2>4
  <2>5. CASE ~y.fatal /\ y.buf = <<>>
    BY <1>7, <1>8, <2>2, <2>5
  <2> QED
    BY <1>6, <2>3, <2>4, <2>5
<1>10. /\ \E m \in 0 .. y.i : y.out = Text(m, End)
       /\ ~y.fatal => y.out \o y.buf = Text(y.i, End) /\ ~Joined(y.i, End)
  BY <1>2, <1>8, <1>9 DEF b
<1> QED
  BY <1>10, Zenon DEF ToldBy, Told

LEMMA HaltsGoing ==
  ASSUME TypeOK, Ready, NEW s, NEW y \in ScanState, Going(s), s.loop # "done",
         Halts(s, y)
  PROVE  Going(y) /\ Rank(y) < Rank(s)
<1>1. /\ s \in ScanState /\ s.i \in Nat /\ pos \in Nat /\ have \in Nat
      /\ pos <= s.i /\ s.i <= have /\ s.loop \in {"fast", "complex"}
      /\ Judged(s.i, s.fatal)
  BY Fields, Views DEF Going
<1>2. Rank(y) < Rank(s)
  BY <1>1 DEF Halts, Rank
<1>3. CASE Rests(s.i) /\ y.i = s.i /\ (y.fatal <=> s.fatal)
  <2>1. Judged(y.i, y.fatal)
    BY <1>1, <1>3 DEF Judged
  <2>2. s.i > pos \/ (~term /\ have - pos <= 2)
    BY <1>1, <1>3, RestsEarly
  <2> QED
    BY <1>1, <1>2, <1>3, <2>1, <2>2 DEF Going, Halts
<1>4. CASE Faulty(s.i) /\ y.i = s.i + 1 /\ y.fatal
  <2>1. s.i < have
    BY <1>4 DEF Faulty
  <2>2. Judged(s.i + 1, y.fatal)
    <3>1. CASE s.fatal
      <4>1. PICK j \in 0 .. s.i - 1 : Wrong(j, recv)
        BY <1>1, <3>1 DEF Judged
      <4>2. j \in 0 .. (s.i + 1) - 1
        BY <1>1
      <4> QED
        BY <1>4, <4>1, <4>2 DEF Judged
    <3>2. CASE ~s.fatal
      <4>1. Wrong(s.i, recv)
        BY <1>1, <1>4, <3>2, FaultyIsWrong DEF Judged
      <4>2. s.i \in 0 .. (s.i + 1) - 1
        BY <1>1
      <4> QED
        BY <1>4, <4>1, <4>2 DEF Judged
    <3> QED
      BY <3>1, <3>2
  <2>3. y.i \in pos .. have /\ y.i > pos
    BY <1>1, <1>4, <2>1
  <2> QED
    BY <1>2, <1>4, <2>2, <2>3 DEF Going, Halts
<1> QED
  BY <1>2, <1>3, <1>4 DEF Halts

\* Flushing tells no more than was told.
LEMMA KeptTold ==
  ASSUME NEW s, NEW y \in ScanState, s \in ScanState, ToldBy(s),
         y.buf = <<>>, y.out = Kept(s), s.fatal => y.fatal,
         y.i = s.i \/ (y.i = s.i + 1 /\ y.fatal)
  PROVE  ToldBy(y)
<1> DEFINE a == s.out \o s.buf
<1>1. s.i \in Nat /\ s.fatal \in BOOLEAN
  BY Fields
<1>2. /\ \E m \in 0 .. s.i : s.out = Text(m, End)
      /\ ~s.fatal => a = Text(s.i, End) /\ ~Joined(s.i, End)
  BY DEF ToldBy, Told
<1>3. y.out = IF s.fatal THEN s.out ELSE a
  BY DEF Kept
<1>4. y.out \o y.buf = y.out
  BY Fields
<1> HIDE DEF a
<1>5. \A m \in 0 .. s.i : m \in 0 .. y.i
  BY <1>1
<1>6. \E m \in 0 .. y.i : y.out = Text(m, End)
  <2>1. CASE s.fatal
    BY <1>2, <1>3, <1>5, <2>1
  <2>2. CASE ~s.fatal
    <3>1. s.i \in 0 .. y.i /\ y.out = Text(s.i, End)
      BY <1>1, <1>2, <1>3, <2>2
    <3> QED
      BY <3>1
  <2> QED
    BY <2>1, <2>2
<1>7. ~y.fatal => y.out \o y.buf = Text(y.i, End) /\ ~Joined(y.i, End)
  <2>1. SUFFICES ASSUME ~y.fatal
                 PROVE  y.out \o y.buf = Text(y.i, End) /\ ~Joined(y.i, End)
    OBVIOUS
  <2>2. ~s.fatal /\ y.i = s.i
    BY <2>1
  <2> QED
    BY <1>2, <1>3, <1>4, <2>2
<1> QED
  BY <1>6, <1>7, Zenon DEF ToldBy, Told

LEMMA Step ==
  ASSUME TypeOK, Ready, NEW s, Going(s)
  PROVE  /\ Going(Iterate(s))
         /\ (Rank(Iterate(s)) < Rank(s) \/ Rank(Iterate(s)) = 0)
         /\ LineKept /\ ToldBy(s) => ToldBy(Iterate(s))
<1>1. s \in ScanState /\ s.loop \in {"fast", "complex", "done"} /\ s.i <= have
  BY Fields, Views DEF Going
<1>2. busy
  BY DEF Ready
<1>3. CASE s.loop = "done"
  <2>1. Iterate(s) = s
    BY <1>3 DEF Iterate
  <2> QED
    BY <1>3, <2>1 DEF Rank
<1>4. CASE s.loop # "done"
  <2> DEFINE y == Iterate(s)
  <2>1. /\ y \in ScanState
        /\ Halts(s, y) \/ Switches(s, y) \/ Eats(s, y)
    <3>1. CASE s.loop = "fast"
      <4>1. Iterate(s) = Fast(s)
        BY <3>1 DEF Iterate
      <4> QED
        BY <1>1, <3>1, <4>1, FastStep
    <3>2. CASE s.loop = "complex"
      <4>1. Iterate(s) = Complex(s)
        BY <3>2 DEF Iterate
      <4> QED
        BY <1>1, <3>2, <4>1, ComplexStep
    <3> QED
      BY <1>1, <1>4, <3>1, <3>2
  <2> HIDE DEF y
  <2>2. CASE Halts(s, y)
    <3>1. Going(y) /\ Rank(y) < Rank(s)
      BY <1>4, <2>1, <2>2, HaltsGoing
    <3>2. ToldBy(s) => ToldBy(y)
      BY <1>1, <2>1, <2>2, KeptTold DEF Halts
    <3> QED
      BY <3>1, <3>2 DEF y
  <2>3. CASE Switches(s, y)
    <3>1. Judged(y.i, y.fatal)
      BY <2>3 DEF Switches, Going, Judged
    <3>2. Going(y)
      BY <2>1, <2>3, <3>1 DEF Going, Switches
    <3>3. s.i \in Nat /\ have \in Nat
      BY <1>1, Fields, Views
    <3>4. Rank(y) < Rank(s)
      BY <2>3, <3>3 DEF Switches, Rank
    <3>5. ToldBy(s) => ToldBy(y)
      BY <1>1, <2>1, <2>3, KeptTold DEF Switches
    <3> QED
      BY <3>2, <3>4, <3>5 DEF y
  <2>4. CASE Eats(s, y)
    <3>1. Going(y) /\ Rank(y) < Rank(s)
      BY <1>4, <2>1, <2>4, EatsGoing
    <3>2. LineKept /\ ToldBy(s) => ToldBy(y)
      BY <1>2, <2>1, <2>4, EatsTold
    <3> QED
      BY <3>1, <3>2 DEF y
  <2> QED
    BY <2>1, <2>2, <2>3, <2>4
<1> QED
  BY <1>3, <1>4

----------------------------------------------------------------------------
(* The whole scan.                                                         *)

Start == [loop |-> "fast", i |-> pos, buf |-> <<>>, out |-> out, fatal |-> FALSE]

IsScan(r, n) ==
  r = [k \in 0 .. n |-> IF k = 0 THEN [loop |-> "fast", i |-> pos, buf |-> <<>>,
                                       out |-> out, fatal |-> FALSE]
                        ELSE Iterate(r[k - 1])]

LEMMA ScanExists ==
  ASSUME NEW n \in Nat
  PROVE  \E r : IsScan(r, n)
<1> DEFINE T == {k \in Nat : ~\E r : IsScan(r, k)}
<1>1. SUFFICES ASSUME T # {} PROVE FALSE
  BY Zenon
<1>2. PICK m \in T : \A k \in T : m <= k
  BY <1>1, LeastNumber
<1>3. m \in Nat /\ ~\E r : IsScan(r, m)
  BY <1>2
<1>4. CASE m = 0
  <2>1. IsScan([i \in 0 .. 0 |-> Start], 0)
    BY DEF IsScan, Start
  <2> QED
    BY <1>3, <1>4, <2>1
<1>5. CASE m # 0
  <2>1. m - 1 \in Nat /\ m - 1 \notin T
    BY <1>2, <1>3, <1>5
  <2>2. PICK p : IsScan(p, m - 1)
    BY <2>1
  <2> DEFINE r == [i \in 0 .. m |-> IF i = m THEN Iterate(p[m - 1]) ELSE p[i]]
  <2>3. ASSUME NEW i \in 0 .. m
        PROVE  r[i] = IF i = 0 THEN Start ELSE Iterate(r[i - 1])
    <3>1. CASE i = m
      <4>1. r[i] = Iterate(p[m - 1]) /\ r[i - 1] = p[m - 1]
        BY <1>3, <1>5, <3>1
      <4> HIDE DEF r
      <4> QED
        BY <1>5, <3>1, <4>1
    <3>2. CASE i # m
      <4>1. /\ i \in 0 .. m - 1 /\ r[i] = p[i]
            /\ i # 0 => r[i - 1] = p[i - 1]
        BY <1>3, <3>2
      <4>2. p[i] = IF i = 0 THEN Start ELSE Iterate(p[i - 1])
        BY <2>2, <4>1, Zenon DEF IsScan, Start
      <4> HIDE DEF r
      <4> QED
        BY <4>1, <4>2
    <3> QED
      BY <3>1, <3>2
  <2>4. IsScan(r, m)
    BY <2>3, Zenon DEF IsScan, Start
  <2> QED
    BY <1>3, <2>4
<1> QED
  BY <1>4, <1>5

LEMMA ScanIsRun ==
  ASSUME have - pos + 2 \in Nat
  PROVE  \E r : /\ Scanned = r[have - pos + 2] /\ r[0] = Start
                /\ \A k \in 1 .. have - pos + 2 : r[k] = Iterate(r[k - 1])
<1> DEFINE r == CHOOSE r : IsScan(r, have - pos + 2)
<1>1. IsScan(r, have - pos + 2)
  BY ScanExists, Zenon
<1>2. Scanned = r[have - pos + 2]
  BY Zenon DEF Scanned, IsScan
<1> HIDE DEF r
<1>3. ASSUME NEW k \in 0 .. have - pos + 2
      PROVE  r[k] = IF k = 0 THEN Start ELSE Iterate(r[k - 1])
  BY <1>1, Zenon DEF IsScan, Start
<1>4. r[0] = Start
  BY <1>3
<1>5. \A k \in 1 .. have - pos + 2 : r[k] = Iterate(r[k - 1])
  BY <1>3
<1> QED
  BY <1>2, <1>4, <1>5

\* The scan leaves its loops, and what it consumed is judged and told.
LEMMA ScanEnds ==
  ASSUME TypeOK, Ready, Judged(pos, fatal)
  PROVE  /\ Going(Scanned) /\ Scanned.loop = "done"
         /\ Exact => ToldBy(Scanned)
<1> DEFINE N == have - pos + 2
<1>1. N \in Nat /\ N = have - pos + 2 /\ pos \in Nat /\ have \in Nat /\ pos < have
  BY Views DEF Ready
<1>2. PICK r : /\ Scanned = r[N] /\ r[0] = Start
               /\ \A k \in 1 .. N : r[k] = Iterate(r[k - 1])
  BY <1>1, ScanIsRun
<1> HIDE DEF N
<1>3. fatal = FALSE /\ out \in Seq(Glyph) /\ <<>> \in Seq(Glyph)
  BY DEF Ready, TypeOK
<1>4. Start \in ScanState
  BY <1>1, <1>3 DEF Start, ScanState
<1>5. Going(Start) /\ Rank(Start) = N /\ (Exact => ToldBy(Start))
  <2>1. /\ Start.loop = "fast" /\ Start.i = pos /\ Start.buf = <<>>
        /\ Start.out = out /\ Start.fatal = fatal
    BY <1>3 DEF Start
  <2>2. Going(Start)
    BY <1>1, <1>4, <2>1 DEF Going
  <2>3. Rank(Start) = N
    BY <1>1, <2>1 DEF Rank
  <2>4. Exact => ToldBy(Start)
    BY <2>1 DEF Exact, ToldBy
  <2> QED
    BY <2>2, <2>3, <2>4
<1> DEFINE Good(k) == /\ Going(r[k]) /\ Rank(r[k]) <= N - k
                      /\ Exact => ToldBy(r[k])
           T == {k \in 0 .. N : ~Good(k)}
<1>6. T = {}
  <2>1. SUFFICES ASSUME T # {} PROVE FALSE
    BY Zenon
  <2>2. PICK m \in T : \A k \in T : m <= k
    <3>1. T \in SUBSET Nat
      BY <1>1
    <3> QED
      BY <2>1, <3>1, LeastNumber, Zenon
  <2>3. m \in 0 .. N /\ ~Good(m)
    OBVIOUS
  <2>4. m # 0
    BY <1>1, <1>2, <1>5, <2>3
  <2>5. m - 1 \in 0 .. N /\ m \in 1 .. N /\ m - 1 \notin T
    BY <1>1, <2>2, <2>3, <2>4
  <2>6. Good(m - 1)
    BY <2>5
  <2> DEFINE s == r[m - 1]
             y == r[m]
  <2>7. y = Iterate(s)
    BY <1>2, <2>5
  <2>8. Going(s) /\ Rank(s) <= N - (m - 1) /\ (Exact => ToldBy(s))
    BY <2>6
  <2> HIDE DEF s, y
  <2>9. /\ (Rank(y) < Rank(s) \/ Rank(y) = 0)
        /\ Exact => ToldBy(y)
    BY <2>7, <2>8, Step DEF Exact
  <2>10. Going(y)
    BY <2>7, <2>8, Step
  <2>11. Rank(s) \in Int /\ Rank(y) \in Int
    BY <1>1, <2>8, <2>10, RankType
  <2>12. Rank(y) <= N - m
    BY <1>1, <2>5, <2>8, <2>9, <2>11
  <2> QED
    BY <2>3, <2>9, <2>10, <2>12 DEF y
<1>7. N \in 0 .. N /\ Good(N)
  BY <1>1, <1>6
<1> DEFINE z == r[N]
<1>8. Going(z) /\ Rank(z) <= N - N /\ (Exact => ToldBy(z)) /\ Scanned = z
  BY <1>2, <1>7
<1> HIDE DEF z
<1>9. z.loop = "done"
  <2>1. z.loop \in {"fast", "complex", "done"} /\ z.i \in Nat /\ z.i <= have
    BY <1>1, <1>8, Fields DEF Going
  <2> QED
    BY <1>1, <1>8, <2>1 DEF Rank
<1> QED
  BY <1>8, <1>9

----------------------------------------------------------------------------
(* What is wrong with a text stays so when it grows.                       *)

LEMMA WrongShrinks ==
  ASSUME doc \in Seq(Class), NEW k \in Nat, NEW end \in Nat, NEW end2 \in Nat,
         k < end2, end2 <= end, end <= Len(doc),
         doc[k + 1] = "lead" => k + 1 < end2, ~Wrong(k, end)
  PROVE  ~Wrong(k, end2)
<1>1. ByteIn(k, end2) = doc[k + 1] /\ ByteIn(k, end) = doc[k + 1]
  BY DEF ByteIn
<1>2. k > 0 => ByteIn(k - 1, end2) = ByteIn(k - 1, end)
  BY DEF ByteIn
<1>3. k + 1 < end2 => ByteIn(k + 1, end2) = ByteIn(k + 1, end)
  BY DEF ByteIn
<1>4. k + 1 >= end2 => ByteIn(k + 1, end2) = "nul"
  BY DEF ByteIn
<1>5. k + 2 < end2 => ByteIn(k + 2, end2) = ByteIn(k + 2, end)
  BY DEF ByteIn
<1>6. k + 2 >= end2 => ByteIn(k + 2, end2) = "nul"
  BY DEF ByteIn
<1>7. ByteIn(k, end2) = "ctl" => FALSE
  BY <1>1 DEF Wrong
<1>8. ByteIn(k, end2) = "]" /\ ByteIn(k + 1, end2) = "]" /\ ByteIn(k + 2, end2) = ">"
      => FALSE
  BY <1>1, <1>3, <1>4, <1>5, <1>6 DEF Wrong
<1>9. ByteIn(k, end2) = "lead" /\ ByteIn(k + 1, end2) # "cont" => FALSE
  BY <1>1, <1>3 DEF Wrong
<1>10. ByteIn(k, end2) = "cont" /\ (k = 0 \/ ByteIn(k - 1, end2) # "lead") => FALSE
  BY <1>1, <1>2 DEF Wrong
<1> QED
  BY <1>7, <1>8, <1>9, <1>10 DEF Wrong

\* Text that was judged whole is whole in every shorter document.
LEMMA JudgedWhole ==
  ASSUME TypeOK, Judged(pos, FALSE), NEW end \in Nat, pos <= end, end <= End,
         NEW k \in 0 .. pos - 1
  PROVE  ~Wrong(k, end)
<1>1. /\ doc \in Seq(Class) /\ pos \in Nat /\ End \in Nat /\ End <= Len(doc)
      /\ k \in Nat /\ k < pos /\ k < end
  BY Views
<1>2. ~Wrong(k, End) /\ doc[pos] # "lead"
  BY <1>1 DEF Judged
<1>3. doc[k + 1] = "lead" => k + 1 < end
  <2>1. k + 1 = pos \/ k + 1 < pos
    BY <1>1
  <2> QED
    BY <1>1, <1>2, <2>1
<1> QED
  BY <1>1, <1>2, <1>3, WrongShrinks

LEMMA TextPrime ==
  ASSUME doc' = doc
  PROVE  \A n, e : Text(n, e)' = Text(n, e)
BY SMT DEF Text, Joined, Char, ByteIn

LEMMA PlacePrime ==
  ASSUME doc' = doc
  PROVE  \A n, e : /\ Joined(n, e)' <=> Joined(n, e)
                   /\ Wrong(n, e)' <=> Wrong(n, e)
                   /\ ByteIn(n, e)' = ByteIn(n, e)
BY SMT DEF Joined, ByteIn, Wrong

----------------------------------------------------------------------------
(* The invariant, action by action.                                        *)

LEMMA InitInv == Init => IInv /\ Exact
<1> SUFFICES ASSUME Init PROVE IInv /\ Exact
  OBVIOUS
<1>1. /\ doc \in Docs /\ Len(doc) \in Nat /\ recv = 0 /\ have = 0 /\ pos = 0
      /\ out = <<>> /\ fatal = FALSE /\ busy = FALSE /\ term = FALSE
  BY CharDataAssumption DEF Init
<1>2. <<>> \in Seq(Glyph) /\ 0 .. 0 - 1 = {}
  OBVIOUS
<1>3. TypeOK
  <2>1. recv \in 0 .. Len(doc) /\ have \in 0 .. recv /\ recv <= have + 1 /\ pos \in 0 .. have
    BY <1>1
  <2>2. out \in Seq(Glyph) /\ fatal \in BOOLEAN /\ busy \in BOOLEAN /\ term \in BOOLEAN
    BY <1>1, <1>2
  <2> QED
    BY <1>1, <2>1, <2>2 DEF TypeOK
<1>4. Judged(pos, fatal)
  BY <1>1, <1>2 DEF Judged
<1>5. Backlog
  BY <1>1, CharDataAssumption DEF Backlog
<1>6. LineKept
  BY <1>1 DEF LineKept
<1>7. ~Joined(0, End)
  BY DEF Joined
<1>8. Text(0, End) = <<>>
  BY TextZero
<1>9. <<>> \o <<>> = <<>>
  OBVIOUS
<1>10. Told(0, FALSE, <<>>, <<>>)
  <2>1. 0 \in 0 .. 0
    OBVIOUS
  <2> QED
    BY <1>7, <1>8, <1>9, <2>1 DEF Told
<1> QED
  BY <1>1, <1>3, <1>4, <1>5, <1>6, <1>10 DEF IInv, Exact

LEMMA ChunkFacts ==
  ASSUME TypeOK, Chunk
  PROVE  /\ doc' = doc /\ pos' = pos /\ out' = out /\ fatal' = fatal
         /\ fatal = FALSE /\ term = FALSE /\ busy' = TRUE
         /\ End = Len(doc) /\ End' \in Nat /\ recv' <= End' /\ End' <= End
         /\ pos <= have' /\ have' <= recv' /\ recv' <= have' + 1
         /\ recv' \in 0 .. Len(doc) /\ have' \in Nat /\ term' \in BOOLEAN
         /\ term' => have' = recv'
         /\ ~EmptyCalls /\ have' > 0 /\ doc[have'] = "cr"
              => ByteIn(have', End') # "lf"
<1>1. PICK n \in recv .. Len(doc), t \in BOOLEAN :
         /\ n = recv => t \/ EmptyCalls
         /\ recv' = n /\ term' = t
         /\ have' = IF Withheld(n, t) THEN n - 1 ELSE n
  BY Zenon DEF Chunk
<1>2. /\ doc' = doc /\ pos' = pos /\ out' = out /\ fatal' = fatal
      /\ fatal = FALSE /\ term = FALSE /\ busy' = TRUE
  BY DEF Chunk, TypeOK
<1>3. /\ Len(doc) \in Nat /\ recv \in Nat /\ pos <= recv /\ n \in Nat /\ pos \in Nat
      /\ recv <= n /\ n <= Len(doc) /\ pos <= have /\ have <= recv
  BY Views
<1>4. Withheld(n, t) => n > recv /\ t = FALSE /\ doc[n] = "cr"
  BY DEF Withheld
<1>5. End = Len(doc)
  BY <1>2 DEF End
<1>6. End' = IF t THEN n ELSE Len(doc)
  BY <1>1, <1>2 DEF End
<1>7. /\ pos <= have' /\ have' <= recv' /\ recv' <= have' + 1
      /\ recv' \in 0 .. Len(doc) /\ have' \in Nat /\ term' \in BOOLEAN
      /\ term' => have' = recv'
  BY <1>1, <1>3, <1>4
<1>8. End' \in Nat /\ recv' <= End' /\ End' <= End
  BY <1>1, <1>3, <1>5, <1>6
<1>9. ASSUME ~EmptyCalls, have' > 0, doc[have'] = "cr"
      PROVE  ByteIn(have', End') # "lf"
  <2>1. CASE Withheld(n, t)
    <3>1. have' = n - 1 /\ End' = Len(doc) /\ doc[n] = "cr"
      BY <1>1, <1>4, <1>6, <2>1
    <3>2. (n - 1) + 1 = n
      BY <1>3
    <3> QED
      BY <1>3, <3>1, <3>2 DEF ByteIn
  <2>2. CASE ~Withheld(n, t)
    <3>1. have' = n /\ doc[n] = "cr"
      BY <1>1, <1>9, <2>2
    <3>2. n = recv \/ n > recv
      BY <1>3
    <3>3. t
      BY <1>1, <1>9, <2>2, <3>1, <3>2 DEF Withheld
    <3>4. End' = n
      BY <1>6, <3>3
    <3> QED
      BY <1>3, <3>1, <3>4 DEF ByteIn
  <2> QED
    BY <2>1, <2>2
<1> QED
  BY <1>2, <1>5, <1>7, <1>8, <1>9

LEMMA ChunkInv ==
  ASSUME IInv, Chunk
  PROVE  IInv' /\ (~EmptyCalls /\ Exact => Exact')
<1>0. TypeOK /\ Judged(pos, fatal)
  BY DEF IInv
<1>1. /\ doc' = doc /\ pos' = pos /\ out' = out /\ fatal' = fatal
      /\ fatal = FALSE /\ term = FALSE /\ busy' = TRUE
      /\ End = Len(doc) /\ End' \in Nat /\ recv' <= End' /\ End' <= End
      /\ pos <= have' /\ have' <= recv' /\ recv' <= have' + 1
      /\ recv' \in 0 .. Len(doc) /\ have' \in Nat /\ term' \in BOOLEAN
      /\ term' => have' = recv'
      /\ ~EmptyCalls /\ have' > 0 /\ doc[have'] = "cr"
           => ByteIn(have', End') # "lf"
  BY <1>0, ChunkFacts
<1>2. doc \in Seq(Class) /\ pos \in Nat /\ Len(doc) \in Nat
  BY <1>0, Views
<1>3. TypeOK'
  <2>1. doc \in Docs /\ out \in Seq(Glyph)
    BY <1>0 DEF TypeOK
  <2>2. /\ doc' \in Docs /\ recv' \in 0 .. Len(doc') /\ have' \in 0 .. recv'
        /\ pos' \in 0 .. have' /\ out' \in Seq(Glyph)
    BY <1>1, <1>2, <2>1
  <2>3. fatal' \in BOOLEAN /\ busy' \in BOOLEAN /\ (~busy' \/ term') => have' = recv'
    BY <1>1
  <2> QED
    BY <1>1, <2>2, <2>3 DEF TypeOK
<1>4. Judged(pos, FALSE)
  BY <1>0, <1>1
<1>5. pos > 0 => doc[pos] # "lead"
  BY <1>4 DEF Judged
<1>6. pos <= End'
  BY <1>1, <1>2
<1>7. \A k \in 0 .. pos - 1 : ~Wrong(k, End')
  BY <1>0, <1>1, <1>4, <1>6, JudgedWhole
<1>8. Judged(pos, fatal)'
  <2>1. \A k \in 0 .. pos - 1 : ~Wrong(k, End)'
    BY <1>1, <1>7, PlacePrime
  <2>2. (\A k \in 0 .. pos - 1 : ~Wrong(k, End))'
    BY <1>1, <2>1
  <2>3. (pos > 0 => doc[pos] # "lead")' /\ fatal' = FALSE
    BY <1>1, <1>5
  <2> QED
    BY <2>2, <2>3 DEF Judged
<1>9. Backlog'
  BY <1>1 DEF Backlog
<1>10. ASSUME ~EmptyCalls, Exact PROVE Exact'
  <2>1. out = Text(pos, End) /\ ~Joined(pos, End)
    <3>1. out \o <<>> = Text(pos, End) /\ ~Joined(pos, End)
      BY <1>1, <1>10 DEF Exact, Told
    <3>2. out \o <<>> = out
      BY <1>0 DEF TypeOK
    <3> QED
      BY <3>1, <3>2
  <2>2. Text(pos, End) = Text(pos, End')
    <3> DEFINE e == End
               f == End'
    <3>1. e \in Nat /\ f \in Nat /\ pos <= e /\ pos <= f /\ e <= Len(doc) /\ f <= Len(doc)
      BY <1>1, <1>2, <1>6
    <3> HIDE DEF e, f
    <3>2. Text(pos, e) = Text(pos, f)
      BY <1>2, <1>5, <3>1, TextAgrees
    <3> QED
      BY <3>2 DEF e, f
  <2>3. ~Joined(pos, End')
    <3> DEFINE e == End
               f == End'
    <3>1. /\ e \in Nat /\ f \in Nat /\ f <= e /\ pos <= f
          /\ ~Joined(pos, e)
      BY <1>1, <1>2, <1>6, <2>1
    <3> HIDE DEF e, f
    <3>2. pos > 0 => ByteIn(pos - 1, f) = ByteIn(pos - 1, e)
      BY <1>2, <3>1 DEF ByteIn
    <3>3. ByteIn(pos, f) \in {"nul", ByteIn(pos, e)}
      BY <1>2, <3>1 DEF ByteIn
    <3>4. ~Joined(pos, f)
      BY <3>1, <3>2, <3>3 DEF Joined
    <3> QED
      BY <3>4 DEF f
  <2>4. Text(pos, End)' = Text(pos, End') /\ (Joined(pos, End)' <=> Joined(pos, End'))
    BY <1>1, TextPrime, PlacePrime
  <2>5. out' = Text(pos, End)' /\ ~Joined(pos, End)'
    BY <1>1, <2>1, <2>2, <2>3, <2>4
  <2>6. Told(pos, fatal, out, <<>>)'
    <3>1. (out \o <<>>)' = out'
      BY <1>3 DEF TypeOK
    <3>2. pos' \in (0 .. pos)'
      BY <1>1, <1>2
    <3>3. (\E m \in 0 .. pos : out = Text(m, End))'
      BY <2>5, <3>2
    <3>4. (out \o <<>> = Text(pos, End))' /\ (~Joined(pos, End))'
      BY <2>5, <3>1
    <3> QED
      BY <3>3, <3>4 DEF Told
  <2>7. LineKept'
    <3>1. ByteIn(have, End)' = ByteIn(have', End')
      BY <1>1, PlacePrime
    <3> QED
      BY <1>1, <1>10, <3>1 DEF LineKept
  <2> QED
    BY <2>6, <2>7 DEF Exact
<1> QED
  BY <1>3, <1>8, <1>9, <1>10 DEF IInv

LEMMA ScanInv ==
  ASSUME IInv, Scan
  PROVE  IInv' /\ (Exact => Exact')
<1> DEFINE z == Scanned
<1>1. /\ TypeOK /\ Judged(pos, fatal) /\ Ready
      /\ pos' = z.i /\ out' = z.out /\ fatal' = z.fatal
      /\ doc' = doc /\ recv' = recv /\ have' = have /\ busy' = busy /\ term' = term
  BY DEF IInv, Scan
<1>2. Going(z) /\ z.loop = "done" /\ (Exact => ToldBy(z))
  BY <1>1, ScanEnds
<1> HIDE DEF z
<1>3. /\ z.i \in pos .. have /\ z.out \in Seq(Glyph) /\ z.fatal \in BOOLEAN
      /\ z.buf = <<>> /\ Judged(z.i, z.fatal)
  BY <1>2, Fields DEF Going
<1>4. TypeOK'
  <2>1. z.i \in 0 .. have
    BY <1>1, <1>3, Views
  <2> QED
    BY <1>1, <1>3, <2>1 DEF TypeOK
<1>5. End' = End
  BY <1>1 DEF End
<1>6. Judged(pos, fatal)'
  <2> DEFINE i == z.i
             f == z.fatal
  <2>1. pos' = i /\ fatal' = f /\ Judged(i, f)
    BY <1>1, <1>3
  <2> HIDE DEF i, f
  <2>2. ~f => /\ i > 0 => doc[i] # "lead"
              /\ \A k \in 0 .. i - 1 : ~Wrong(k, End)
    BY <2>1 DEF Judged
  <2>3. f => \E k \in 0 .. i - 1 : Wrong(k, recv)
    BY <2>1 DEF Judged
  <2>4. \A k : (Wrong(k, End)' <=> Wrong(k, End)) /\ (Wrong(k, recv)' <=> Wrong(k, recv))
    BY <1>1, <1>5, PlacePrime
  <2>5. (~fatal => /\ pos > 0 => doc[pos] # "lead"
                   /\ \A k \in 0 .. pos - 1 : ~Wrong(k, End))'
    BY <1>1, <2>1, <2>2, <2>4
  <2>6. (fatal => \E k \in 0 .. pos - 1 : Wrong(k, recv))'
    BY <2>1, <2>3, <2>4
  <2> QED
    BY <2>5, <2>6 DEF Judged
<1>7. Backlog'
  BY <1>1 DEF Backlog, Ready
<1>8. ASSUME Exact PROVE Exact'
  <2>1. Told(z.i, z.fatal, z.out, <<>>)
    BY <1>2, <1>3, <1>8 DEF ToldBy
  <2> DEFINE i == z.i
             f == z.fatal
             o == z.out
  <2>2. pos' = i /\ fatal' = f /\ out' = o /\ Told(i, f, o, <<>>)
    BY <1>1, <2>1
  <2> HIDE DEF i, f, o
  <2>3. \A m : Text(m, End)' = Text(m, End) /\ (Joined(m, End)' <=> Joined(m, End))
    BY <1>1, <1>5, TextPrime, PlacePrime
  <2>4. PICK m \in 0 .. i : o = Text(m, End)
    BY <2>2 DEF Told
  <2>5. (\E j \in 0 .. pos : out = Text(j, End))'
    BY <2>2, <2>3, <2>4
  <2>6. (~fatal => out \o <<>> = Text(pos, End) /\ ~Joined(pos, End))'
    <3>1. ~f => o \o <<>> = Text(i, End) /\ ~Joined(i, End)
      BY <2>2 DEF Told
    <3> QED
      BY <2>2, <2>3, <3>1
  <2>7. LineKept'
    <3>1. ByteIn(have, End)' = ByteIn(have, End)
      BY <1>1, <1>5, PlacePrime
    <3> QED
      BY <1>1, <1>8, <3>1 DEF LineKept, Exact
  <2> QED
    BY <2>5, <2>6, <2>7 DEF Exact, Told
<1> QED
  BY <1>4, <1>6, <1>7, <1>8 DEF IInv

LEMMA ReturnInv ==
  ASSUME IInv, Return
  PROVE  IInv' /\ (Exact => Exact')
<1>1. /\ TypeOK /\ Judged(pos, fatal) /\ busy = TRUE
      /\ busy' = FALSE /\ have' = recv /\ doc' = doc /\ recv' = recv
      /\ pos' = pos /\ out' = out /\ fatal' = fatal /\ term' = term
  BY DEF IInv, Return, TypeOK
<1>2. /\ pos \in Nat /\ have \in Nat /\ recv \in Nat /\ Len(doc) \in Nat
      /\ pos <= have /\ have <= recv /\ recv <= have + 1 /\ End' = End
  BY <1>1, Views DEF TypeOK, End
<1>3. TypeOK'
  <2>1. have' \in 0 .. recv' /\ pos' \in 0 .. have'
    BY <1>1, <1>2
  <2>2. doc \in Docs /\ recv \in 0 .. Len(doc) /\ out \in Seq(Glyph)
    BY <1>1 DEF TypeOK
  <2>3. doc' \in Docs /\ recv' \in 0 .. Len(doc') /\ out' \in Seq(Glyph)
    BY <1>1, <2>2
  <2>4. fatal \in BOOLEAN /\ term \in BOOLEAN
    BY <1>1 DEF TypeOK
  <2>5. have' = recv' /\ recv' <= have' + 1
    BY <1>1, <1>2
  <2>6. fatal' \in BOOLEAN /\ term' \in BOOLEAN /\ busy' \in BOOLEAN
    BY <1>1, <2>4, Zenon
  <2> QED
    BY <2>1, <2>3, <2>5, <2>6 DEF TypeOK
<1>4. Judged(pos, fatal)'
  <2>1. \A k : (Wrong(k, End)' <=> Wrong(k, End)) /\ (Wrong(k, recv)' <=> Wrong(k, recv))
    BY <1>1, <1>2, PlacePrime
  <2>2. (~fatal => /\ pos > 0 => doc[pos] # "lead"
                   /\ \A k \in 0 .. pos - 1 : ~Wrong(k, End))'
    BY <1>1, <2>1 DEF Judged
  <2>3. (fatal => \E k \in 0 .. pos - 1 : Wrong(k, recv))'
    BY <1>1, <2>1 DEF Judged
  <2> QED
    BY <2>2, <2>3 DEF Judged
<1>5. Backlog'
  <2>1. SUFFICES ASSUME ~fatal, ~Delimited'
                 PROVE  recv - pos <= IF Big > 3 THEN Big ELSE 3
    BY <1>1 DEF Backlog
  <2>2. Big \in Nat /\ fatal = FALSE
    BY <1>1, <2>1, CharDataAssumption DEF TypeOK
  <2>3. CASE Ready /\ Scanned.i = pos
    <3>1. ~term /\ have - pos <= 2
      <4>1. Going(Scanned) /\ Scanned.loop = "done"
        BY <1>1, <2>3, ScanEnds
      <4> QED
        BY <1>2, <2>3, <4>1 DEF Going
    <3> QED
      BY <1>2, <2>2, <3>1
  <2>4. CASE ~Ready
    <3>1. CASE pos >= have
      BY <1>2, <2>2, <3>1
    <3>2. CASE pos < have
      <4>1. \A k \in pos .. have - 1 : Byte(k)' = Byte(k) /\ k \in (pos .. have - 1)'
        <5>1. \A k \in pos .. have - 1 : Byte(k)' = doc'[k + 1] /\ Byte(k) = doc[k + 1]
          BY <1>1, <1>2 DEF Byte, ByteIn
        <5> QED
          BY <1>1, <1>2, <5>1
      <4>2. \A k \in pos .. have - 1 : Byte(k) # "<"
        BY <2>1, <4>1 DEF Delimited
      <4>3. ~Delimited /\ Byte(pos) # "<"
        BY <1>2, <3>2, <4>2 DEF Delimited
      <4>4. have - pos < Big
        BY <1>1, <1>2, <2>1, <2>2, <2>4, <3>2, <4>3 DEF Ready
      <4> QED
        BY <1>2, <2>2, <4>4
    <3> QED
      BY <1>2, <3>1, <3>2
  <2> QED
    BY <2>3, <2>4 DEF Return
<1>6. ASSUME Exact PROVE Exact'
  <2>1. Told(pos, fatal, out, <<>>)
    BY <1>6 DEF Exact
  <2>2. \A m : Text(m, End)' = Text(m, End) /\ (Joined(m, End)' <=> Joined(m, End))
    BY <1>1, <1>2, TextPrime, PlacePrime
  <2>3. (\E m \in 0 .. pos : out = Text(m, End))'
    BY <1>1, <2>1, <2>2 DEF Told
  <2>4. (~fatal => out \o <<>> = Text(pos, End) /\ ~Joined(pos, End))'
    BY <1>1, <2>1, <2>2 DEF Told
  <2>5. LineKept'
    BY <1>1 DEF LineKept
  <2> QED
    BY <2>3, <2>4, <2>5 DEF Exact, Told
<1> QED
  BY <1>3, <1>4, <1>5, <1>6 DEF IInv

LEMMA StutterInv ==
  ASSUME IInv, UNCHANGED vars
  PROVE  IInv' /\ (Exact => Exact')
<1>1. /\ doc' = doc /\ recv' = recv /\ have' = have /\ pos' = pos /\ out' = out
      /\ fatal' = fatal /\ busy' = busy /\ term' = term
  BY DEF vars
<1>2. End' = End
  BY <1>1 DEF End
<1>3. TypeOK'
  BY <1>1 DEF IInv, TypeOK
<1>4. \A m : /\ Wrong(m, End)' <=> Wrong(m, End)
             /\ Wrong(m, recv)' <=> Wrong(m, recv)
             /\ Text(m, End)' = Text(m, End)
             /\ Joined(m, End)' <=> Joined(m, End)
             /\ ByteIn(m, End)' = ByteIn(m, End)
             /\ Byte(m)' = Byte(m)
  BY <1>1, <1>2, TextPrime, PlacePrime DEF Byte
<1>5. Judged(pos, fatal)'
  BY <1>1, <1>4 DEF IInv, Judged
<1>6. Backlog'
  BY <1>1, <1>4 DEF IInv, Backlog, Delimited
<1>7. Exact => Exact'
  BY <1>1, <1>4 DEF Exact, Told, LineKept
<1> QED
  BY <1>3, <1>5, <1>6, <1>7 DEF IInv

LEMMA NextInv ==
  ASSUME IInv, [Next]_vars
  PROVE  IInv' /\ (~EmptyCalls /\ Exact => Exact')
<1>1. CASE Chunk
  BY <1>1, ChunkInv
<1>2. CASE Scan
  BY <1>2, ScanInv
<1>3. CASE Return
  BY <1>3, ReturnInv
<1>4. CASE UNCHANGED vars
  BY <1>4, StutterInv
<1> QED
  BY <1>1, <1>2, <1>3, <1>4 DEF Next

LEMMA Invariance == Spec => []IInv
<1>1. Init => IInv
  BY InitInv
<1>2. IInv /\ [Next]_vars => IInv'
  BY NextInv
<1> QED
  BY <1>1, <1>2, PTL DEF Spec

----------------------------------------------------------------------------
(* The variables keep their types: what is consumed was seen, what is seen *)
(* was received, and at most one received byte is withheld, only within a  *)
(* call (push_persistent_chunk).                                           *)
THEOREM TypeCorrect == Spec => []TypeOK
BY Invariance, PTL DEF IInv

(* Nothing wrong with the text is consumed without a fatal, and every      *)
(* fatal has a fault, for every stream and every way it is cut into calls  *)
(* (step_content's character data arm, scan_char_data and its fallback).   *)
THEOREM FaultsAreFound == Spec => []WrongTextIsFatal
<1>1. IInv => WrongTextIsFatal
  <2>1. SUFFICES ASSUME IInv, ~busy
                 PROVE  fatal <=> \E k \in 0 .. pos - 1 : Wrong(k, recv)
    BY DEF WrongTextIsFatal
  <2>2. TypeOK /\ Judged(pos, fatal) /\ have = recv /\ fatal \in BOOLEAN
    BY <2>1 DEF IInv, TypeOK
  <2>3. recv \in Nat /\ pos <= recv /\ recv <= End
    BY <2>2, Views
  <2>4. CASE fatal
    BY <2>2, <2>4 DEF Judged
  <2>5. CASE ~fatal
    <3>1. Judged(pos, FALSE)
      BY <2>2, <2>5 DEF Judged
    <3>2. \A k \in 0 .. pos - 1 : ~Wrong(k, recv)
      BY <2>2, <2>3, <3>1, JudgedWhole
    <3> QED
      BY <2>5, <3>2
  <2> QED
    BY <2>4, <2>5
<1> QED
  BY <1>1, Invariance, PTL

(* Text never piles up between calls: fewer than XML_PARSER_BIG_BUFFER_SIZE *)
(* bytes are left, or the three that an undecided `]]>' and a withheld `\r' *)
(* take, whatever that size is (lookup_char_data, the character data arm). *)
THEOREM TextNeverPilesUp == Spec => []Backlog
BY Invariance, PTL DEF IInv

(* A caller that hands over bytes in every call before the last gets the   *)
(* normalized text, whole and once, for every stream, every cut and every  *)
(* buffer size.  The hypothesis is needed: a call that brings nothing lets *)
(* a `\r' be read before its `\n' has come (push_persistent_chunk).        *)
THEOREM TextDeliveredExactly == EmptyCalls = FALSE => (Spec => []TextIsExact)
<1> SUFFICES ASSUME EmptyCalls = FALSE PROVE Spec => []TextIsExact
  OBVIOUS
<1>1. Init => IInv /\ Exact
  BY InitInv
<1>2. IInv /\ Exact /\ [Next]_vars => IInv' /\ Exact'
  BY NextInv
<1>3. IInv /\ Exact => TextIsExact
  <2>1. SUFFICES ASSUME IInv, Exact PROVE TextIsExact
    OBVIOUS
  <2>2. out \o <<>> = out
    BY <2>1 DEF IInv, TypeOK
  <2>3. Told(pos, fatal, out, <<>>)
    BY <2>1 DEF Exact
  <2> QED
    BY <2>2, <2>3 DEF Told, TextIsExact
<1> QED
  BY <1>1, <1>2, <1>3, PTL DEF Spec
=============================================================================
