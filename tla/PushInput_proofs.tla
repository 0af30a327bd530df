--------------------------- MODULE PushInput_proofs ---------------------------
(***************************************************************************)
(* Proofs about the input of a push parser, for all sources and chunks:    *)
(* the text is what one uninterrupted reading gives, what is malformed or  *)
(* cut is noticed by the right call, and the parser never waits for a `?>' *)
(* that it has.                                                            *)
(***************************************************************************)
EXTENDS PushInput, SequenceTheorems, WellFoundedInduction, NaturalsInduction, TLAPS

\* What is assumed of the sources.  A declaration that names another encoding
\* behind a byte order mark of UTF-8, a byte that the declared single-byte set
\* does not have, and an escape within a declaration each lead to a deviation,
\* shown with the model.
Unmarked ==
  \/ Declarable \subseteq {"utf8"}
  \/ \A s \in Sources :
        IsPrefix(<<"EF", "BB", "BF">>, s) => ~Names(SubSeq(s, 4, Len(s)))
Defined == "cp1252" \in Declarable => \A s \in Sources : "81" \notin ToSet(s)
EscapesBehind ==
  "stateful" \in Declarable =>
    \A s \in Sources : \A i \in DOMAIN s : s[i] = "1B" =>
      \E j \in 1..(i - 2) : s[j] = "3F" /\ s[j + 1] = "3E"

Part == [unit : Seq(Byte), part : 0..2]
Text == Seq(Part)
Decoder == [shift : BOOLEAN, held : Seq(Byte), finished : BOOLEAN]
Reader == [dec : Decoder, out : Text, bad : BOOLEAN]
Code == {"none", "utf8", "latin1", "cp1252", "stateful", "utf16", "ucs4", "ebcdic"}
Buffer == [decoding : {"parked", "decided"}, pending : Seq(Byte), data : Text,
           pos : Nat, enc : Code, converted : BOOLEAN, declPending : BOOLEAN,
           decoder : Decoder, invalid : BOOLEAN, truncated : BOOLEAN]

TypeOK ==
  /\ source \in Sources /\ declared \in Declarable
  /\ received \in 0..Len(source) /\ closed \in BOOLEAN
  /\ fatal \in BOOLEAN /\ errNo \in BOOLEAN
  /\ input \in Buffer /\ input.pos <= Len(input.data)
  /\ phase \in {"start", "xml_decl", "content"}
  /\ mark \in Nat \cup {NoMark}

\* The first n bytes of the source, their encoding, and whether it is final.
Pushed(n) == SubSeq(source, 1, n)
Enc(n) == Encoding(Pushed(n))[1]
Skip(n) == Encoding(Pushed(n))[2]
Bom(bytes) == IF IsPrefix(<<"EF", "BB", "BF">>, bytes) THEN 3 ELSE 0
Final(n) == \A k \in n..Len(source) : Encoding(Pushed(k)) = Encoding(Pushed(n))

\* Text that may yet become a declaration, as Sniff sees it.
Undeclared(rest) ==
  /\ rest # <<>>
  /\ IF Len(rest) < 5 THEN IsPrefix(rest, Declaration)
     ELSE IsPrefix(Declaration, rest) /\ ~HasEnd(rest, 0)

Wide == {"utf16", "ucs4"}
Tables == {"latin1", "cp1252", "ebcdic"}

\* UTF-8, as it came.
AsItCame(in, n, last) ==
  /\ Enc(n) = "utf8" /\ in.enc = "utf8" /\ ~in.converted
  /\ in.data = Raw(Pushed(n)) /\ in.pending = <<>>
  /\ ~in.invalid /\ ~in.truncated
  /\ ~last => IF in.declPending
              THEN /\ Undeclared(SubSeq(in.data, Bom(Pushed(n)) + 1, Len(in.data)))
                   /\ in.pos = Bom(Pushed(n))
              ELSE Final(n)

ReadingOf(n) == ReadBytes(Enc(n), FreshReader, SubSeq(source, Skip(n) + 1, n))

\* An encoding that is decoded, each by its own means.
AsDecoded(in, n, last) ==
  LET r == ReadingOf(n)
  IN /\ Enc(n) = in.enc /\ in.converted
     /\ last \/ Final(n)
     /\ in.invalid = r.bad
     /\ ~r.bad => /\ in.data = r.out
                  /\ in.truncated = (last /\ r.dec.held # <<>>)
     /\ r.bad => IsPrefix(r.out, in.data)
     /\ \/ in.enc \in Wide /\ (~r.bad => in.pending = r.dec.held)
        \/ /\ in.enc = "stateful"
           /\ in.decoder.finished => last
           /\ ~r.bad => [in.decoder EXCEPT !.finished = FALSE] = r.dec
        \/ in.enc \in Tables

Known(in, n, last) ==
  /\ in.decoding = "decided"
  /\ last \/ n >= 4
  /\ AsItCame(in, n, last) \/ AsDecoded(in, n, last)

Unknown(in, n) == in = [Skeleton EXCEPT !.pending = Pushed(n)]

\* No end lies before the parked offset.
MarkOK(in, m) ==
  m # NoMark => /\ m <= Max({Len(in.data) - 1, in.pos + 2})
                /\ \A i \in (in.pos + 2)..(m - 1) : ~EndsAt(in.data, i)

IInv ==
  /\ TypeOK
  /\ \/ Unknown(input, received) /\ ~closed /\ phase = "start" /\ mark = NoMark
     \/ Known(input, received, closed)
  /\ input.declPending /\ ~input.converted /\ ~closed => phase # "content"
  /\ closed /\ ~errNo => /\ ~input.invalid /\ ~input.truncated
                         /\ input.pos = Len(input.data)

Mark == (~fatal => MarkOK(input, mark)) /\ WaitsOnlyForTheEnd
----------------------------------------------------------------------------
(* Induction over a sequence, as membership in a set.                      *)

LEMMA Upward ==
  ASSUME NEW n \in Nat, NEW A, 0 \in A,
         \A k \in 0..(n - 1) : k \in A => k + 1 \in A
  PROVE  n \in A
<1> DEFINE T == {k \in 0..n : k \notin A}
<1>1. SUFFICES ASSUME T # {}
               PROVE  FALSE
  OBVIOUS
<1>2. T \in SUBSET Nat
  OBVIOUS
<1>3. PICK m \in T : \A k \in T : ~(k < m)
  <2>1. \E m \in T : \A k \in T : ~(<<k, m>> \in OpToRel(<, Nat))
    BY <1>1, <1>2, NatLessThanWellFounded, WFMin, Zenon
  <2> QED
    BY <2>1, <1>2 DEF OpToRel
<1>4. m \in 1..n
  BY <1>3
<1>5. m - 1 \in 0..(n - 1) /\ m - 1 \notin T
  <2>1. m - 1 < m /\ m - 1 \in 0..(n - 1)
    BY <1>4
  <2> HIDE DEF T
  <2> QED
    BY <1>3, <2>1
<1>6. m - 1 \in A /\ (m - 1) + 1 = m
  BY <1>4, <1>5
<1> QED
  BY <1>3, <1>5, <1>6

LEMMA PrefixFacts ==
  ASSUME NEW S, NEW t \in Seq(S), NEW k \in 0..(Len(t) - 1)
  PROVE  /\ SubSeq(t, 1, k) \in Seq(S) /\ t[k + 1] \in S
         /\ SubSeq(t, 1, k + 1) = Append(SubSeq(t, 1, k), t[k + 1])
<1>1. Len(t) \in Nat
  BY LenProperties
<1>2. k \in Nat /\ k + 1 \in 1..Len(t)
  BY <1>1
<1> QED
  BY <1>1, <1>2

LEMMA SequenceInduction ==
  ASSUME NEW S, NEW K, <<>> \in K,
         \A s \in K \cap Seq(S) : \A b \in S : Append(s, b) \in K,
         NEW t \in Seq(S)
  PROVE  t \in K
<1> DEFINE A == {k \in 0..Len(t) : SubSeq(t, 1, k) \in K}
<1>1. Len(t) \in Nat
  BY LenProperties
<1>2. 0 \in A
  <2>1. SubSeq(t, 1, 0) = <<>>
    OBVIOUS
  <2>2. SubSeq(t, 1, 0) \in K
    BY <2>1, Zenon
  <2>3. 0 \in 0..Len(t)
    BY <1>1
  <2> QED
    BY <2>2, <2>3, Zenon
<1>3. ASSUME NEW k \in 0..(Len(t) - 1), k \in A
      PROVE  k + 1 \in A
  <2>1. SubSeq(t, 1, k) \in K
    BY <1>3
  <2>2. /\ SubSeq(t, 1, k) \in Seq(S) /\ t[k + 1] \in S
        /\ SubSeq(t, 1, k + 1) = Append(SubSeq(t, 1, k), t[k + 1])
    BY ONLY t \in Seq(S), k \in 0..(Len(t) - 1), PrefixFacts
  <2>3. SubSeq(t, 1, k) \in K \cap Seq(S)
    BY ONLY <2>1, <2>2
  <2>4. Append(SubSeq(t, 1, k), t[k + 1]) \in K
    BY <2>2, <2>3, Zenon
  <2>5. SubSeq(t, 1, k + 1) \in K
    BY ONLY <2>2, <2>4, Zenon
  <2> QED
    BY <1>1, <2>5
<1> HIDE DEF A
<1>4. Len(t) \in A
  BY <1>1, <1>2, <1>3, Upward
<1>5. SubSeq(t, 1, Len(t)) = t
  OBVIOUS
<1> QED
  BY <1>4, <1>5 DEF A

----------------------------------------------------------------------------
(* The reading of a sequence of bytes.                                     *)

IsReading(f, enc, r, bytes, n) ==
  f = [k \in 0..n |-> IF k = 0 THEN r ELSE ReadByte(enc, f[k - 1], bytes[k])]

LEMMA ReadingExists ==
  ASSUME NEW enc, NEW r, NEW bytes, NEW n \in Nat
  PROVE  \E f : IsReading(f, enc, r, bytes, n)
<1> DEFINE A == {k \in Nat : \E f : IsReading(f, enc, r, bytes, k)}
<1>1. 0 \in A
  <2>1. IsReading([k \in 0..0 |-> r], enc, r, bytes, 0)
    BY DEF IsReading
  <2> QED
    BY <2>1
<1>2. ASSUME NEW m \in Nat, m \in A
      PROVE  m + 1 \in A
  <2>1. PICK p : IsReading(p, enc, r, bytes, m)
    BY <1>2
  <2> DEFINE f == [k \in 0..(m + 1) |-> IF k = m + 1 THEN ReadByte(enc, p[m], bytes[m + 1])
                                                     ELSE p[k]]
  <2>2. ASSUME NEW k \in 0..(m + 1)
        PROVE  f[k] = IF k = 0 THEN r ELSE ReadByte(enc, f[k - 1], bytes[k])
    <3>1. CASE k = m + 1
      BY <3>1
    <3>2. CASE k # m + 1
      <4>1. /\ k \in 0..m /\ f[k] = p[k]
            /\ k # 0 => k - 1 \in 0..(m + 1) /\ k - 1 # m + 1
        BY <3>2
      <4>2. p[k] = IF k = 0 THEN r ELSE ReadByte(enc, p[k - 1], bytes[k])
        BY <2>1, <4>1, Zenon DEF IsReading
      <4> QED
        BY <4>1, <4>2
    <3> QED
      BY <3>1, <3>2
  <2>3. IsReading(f, enc, r, bytes, m + 1)
    BY <2>2, Zenon DEF IsReading
  <2>4. \E g : IsReading(g, enc, r, bytes, m + 1)
    BY <2>3, Zenon
  <2> QED
    BY <2>4
<1> HIDE DEF A
<1>3. n \in A
  BY <1>1, <1>2, Upward
<1> QED
  BY <1>3 DEF A

LEMMA ReadBytesIs ==
  ASSUME NEW enc, NEW r, NEW bytes, Len(bytes) \in Nat
  PROVE  \E f : /\ f[0] = r
                /\ \A k \in 1..Len(bytes) : f[k] = ReadByte(enc, f[k - 1], bytes[k])
                /\ ReadBytes(enc, r, bytes) = f[Len(bytes)]
<1> DEFINE f == CHOOSE f : IsReading(f, enc, r, bytes, Len(bytes))
<1>1. IsReading(f, enc, r, bytes, Len(bytes))
  BY ReadingExists, Zenon
<1>2. ReadBytes(enc, r, bytes) = f[Len(bytes)]
  BY Zenon DEF ReadBytes, IsReading
<1> HIDE DEF f
<1>3. ASSUME NEW k \in 0..Len(bytes)
      PROVE  f[k] = IF k = 0 THEN r ELSE ReadByte(enc, f[k - 1], bytes[k])
  BY <1>1, Zenon DEF IsReading
<1>4. f[0] = r /\ \A k \in 1..Len(bytes) : f[k] = ReadByte(enc, f[k - 1], bytes[k])
  BY <1>3
<1> QED
  BY <1>2, <1>4

LEMMA ReadNothing ==
  ASSUME NEW enc, NEW r
  PROVE  ReadBytes(enc, r, <<>>) = r
<1>1. PICK f : f[0] = r /\ ReadBytes(enc, r, <<>>) = f[Len(<<>>)]
  BY ReadBytesIs
<1> QED
  BY <1>1

LEMMA ReadAppend ==
  ASSUME NEW enc, NEW r, NEW S, NEW s \in Seq(S), NEW b \in S
  PROVE  ReadBytes(enc, r, Append(s, b)) = ReadByte(enc, ReadBytes(enc, r, s), b)
<1> DEFINE n == Len(s)
           t == Append(s, b)
<1>1. /\ n \in Nat /\ Len(t) = n + 1 /\ t[n + 1] = b
      /\ \A i \in 1..n : t[i] = s[i]
  OBVIOUS
<1> HIDE DEF n, t
<1>2. PICK f : /\ f[0] = r
               /\ \A k \in 1..n : f[k] = ReadByte(enc, f[k - 1], s[k])
               /\ ReadBytes(enc, r, s) = f[n]
  BY <1>1, ReadBytesIs DEF n
<1>3. PICK g : /\ g[0] = r
               /\ \A k \in 1..Len(t) : g[k] = ReadByte(enc, g[k - 1], t[k])
               /\ ReadBytes(enc, r, t) = g[Len(t)]
  <2>1. Len(t) \in Nat
    BY <1>1
  <2> QED
    BY <2>1, ReadBytesIs
<1> DEFINE A == {k \in 0..n : f[k] = g[k]}
<1>4. 0 \in A
  BY <1>1, <1>2, <1>3
<1>5. ASSUME NEW k \in 0..(n - 1), k \in A
      PROVE  k + 1 \in A
  <2>1. k + 1 \in 1..n /\ k + 1 \in 1..Len(t) /\ (k + 1) - 1 = k /\ t[k + 1] = s[k + 1]
    BY <1>1
  <2>2. f[k] = g[k]
    BY <1>5
  <2>3. f[k + 1] = g[k + 1]
    BY <1>2, <1>3, <2>1, <2>2
  <2> QED
    BY <2>1, <2>3
<1> HIDE DEF A
<1>6. n \in A
  BY <1>1, <1>4, <1>5, Upward
<1>7. f[n] = g[n]
  BY <1>6 DEF A
<1>8. n + 1 \in 1..Len(t) /\ (n + 1) - 1 = n
  BY <1>1
<1>9. g[n + 1] = ReadByte(enc, g[n], b)
  BY <1>1, <1>3, <1>8
<1> QED
  BY <1>1, <1>2, <1>3, <1>7, <1>9 DEF t

LEMMA ReadConcat ==
  ASSUME NEW enc, NEW r, NEW S, NEW s \in Seq(S), NEW t \in Seq(S)
  PROVE  ReadBytes(enc, r, s \o t) = ReadBytes(enc, ReadBytes(enc, r, s), t)
<1> DEFINE q == ReadBytes(enc, r, s)
           K == {v \in Seq(S) : ReadBytes(enc, r, s \o v) = ReadBytes(enc, q, v)}
<1>1. <<>> \in K
  <2>1. s \o <<>> = s /\ <<>> \in Seq(S)
    OBVIOUS
  <2> QED
    BY <2>1, ReadNothing
<1>2. ASSUME NEW v \in K \cap Seq(S), NEW b \in S
      PROVE  Append(v, b) \in K
  <2>1. /\ v \in Seq(S) /\ Append(v, b) \in Seq(S) /\ s \o v \in Seq(S)
        /\ s \o Append(v, b) = Append(s \o v, b)
    OBVIOUS
  <2>2. ReadBytes(enc, r, s \o v) = ReadBytes(enc, q, v)
    BY <1>2
  <2>3. ReadBytes(enc, r, Append(s \o v, b)) = ReadByte(enc, ReadBytes(enc, r, s \o v), b)
    <3> DEFINE w == s \o v
    <3>1. w \in Seq(S)
      BY <2>1
    <3> HIDE DEF w
    <3>2. ReadBytes(enc, r, Append(w, b)) = ReadByte(enc, ReadBytes(enc, r, w), b)
      BY <3>1, ReadAppend
    <3> QED
      BY <3>2 DEF w
  <2>5. ReadBytes(enc, q, Append(v, b)) = ReadByte(enc, ReadBytes(enc, q, v), b)
    BY <2>1, ReadAppend
  <2>4. ReadBytes(enc, r, s \o Append(v, b)) = ReadBytes(enc, q, Append(v, b))
    BY ONLY <2>1, <2>2, <2>3, <2>5, Zenon
  <2> QED
    BY <2>1, <2>4
<1> HIDE DEF K
<1>3. t \in K
  BY <1>1, <1>2, SequenceInduction
<1> QED
  BY <1>3 DEF K
----------------------------------------------------------------------------
(* Prefixes.                                                               *)

LEMMA Joined ==
  ASSUME NEW S, NEW x \in Seq(S), NEW y \in Seq(S)
  PROVE  /\ x \o y \in Seq(S) /\ Len(x \o y) = Len(x) + Len(y)
         /\ Len(x) \in Nat /\ Len(y) \in Nat
         /\ \A i \in 1..(Len(x) + Len(y)) :
              (x \o y)[i] = IF i <= Len(x) THEN x[i] ELSE y[i - Len(x)]
BY ConcatProperties, LenProperties

LEMMA Cut ==
  ASSUME NEW S, NEW s \in Seq(S), NEW i \in 1..(Len(s) + 1), NEW j \in (i - 1)..Len(s)
  PROVE  LET u == SubSeq(s, i, j) IN
         /\ u \in Seq(S) /\ Len(u) = j - i + 1
         /\ \A k \in 1..(j - i + 1) : u[k] = s[i + k - 1]
<1>1. Len(s) \in Nat
  OBVIOUS
<1>2. i \in Nat /\ j \in Nat /\ j - i + 1 \in Nat
  BY <1>1
<1>3. SubSeq(s, i, j) \in Seq(S) /\ Len(SubSeq(s, i, j)) = j - i + 1
  BY <1>1, <1>2
<1>4. \A k \in 1..(j - i + 1) : SubSeq(s, i, j)[k] = s[i + k - 1]
  BY <1>1, <1>2
<1> QED
  BY <1>3, <1>4

LEMMA PrefixIs ==
  ASSUME NEW S, NEW s \in Seq(S), NEW t \in Seq(S)
  PROVE  IsPrefix(s, t) <=> /\ Len(s) <= Len(t)
                            /\ \A i \in 1..Len(s) : s[i] = t[i]
<1>1. Len(s) \in Nat /\ Len(t) \in Nat
  BY LenProperties
<1>2. ASSUME Len(s) <= Len(t)
      PROVE  (SubSeq(s, 1, Len(s)) = SubSeq(t, 1, Len(s))) <=> \A i \in 1..Len(s) : s[i] = t[i]
  <2> DEFINE u == SubSeq(t, 1, Len(s))
  <2>1. /\ u \in Seq(S) /\ Len(u) = Len(s) /\ \A i \in 1..Len(s) : u[i] = t[i]
        /\ SubSeq(s, 1, Len(s)) = s
    BY <1>1, <1>2
  <2> HIDE DEF u
  <2>2. (s = u) <=> \A i \in 1..Len(s) : s[i] = t[i]
    BY <2>1, SeqEqual
  <2> QED
    BY <2>1, <2>2 DEF u
<1> QED
  BY <1>2, Zenon DEF IsPrefix

LEMMA PrefixOn ==
  ASSUME NEW S, NEW s \in Seq(S), NEW t \in Seq(S)
  PROVE  IsPrefix(s, s \o t)
<1>1. /\ s \o t \in Seq(S) /\ Len(s) <= Len(s \o t)
      /\ \A i \in 1..Len(s) : s[i] = (s \o t)[i]
  OBVIOUS
<1> QED
  BY <1>1, PrefixIs

LEMMA PrefixSelf == ASSUME NEW S, NEW s \in Seq(S) PROVE IsPrefix(s, s)
BY DEF IsPrefix

LEMMA PrefixThen ==
  ASSUME NEW S, NEW s \in Seq(S), NEW t \in Seq(S), NEW u \in Seq(S),
         IsPrefix(s, t), IsPrefix(t, u)
  PROVE  IsPrefix(s, u)
<1>1. /\ Len(s) \in Nat /\ Len(t) \in Nat /\ Len(u) \in Nat
      /\ Len(s) <= Len(t) /\ \A i \in 1..Len(s) : s[i] = t[i]
      /\ Len(t) <= Len(u) /\ \A i \in 1..Len(t) : t[i] = u[i]
  BY PrefixIs, LenProperties
<1>2. ASSUME NEW i \in 1..Len(s)
      PROVE  s[i] = u[i]
  <2>1. i \in 1..Len(t)
    BY <1>1
  <2> QED
    BY <1>1, <2>1
<1>3. Len(s) <= Len(u)
  BY <1>1
<1> QED
  BY <1>2, <1>3, PrefixIs

----------------------------------------------------------------------------
(* What a unit materializes as.                                            *)

LEMMA RawType ==
  ASSUME NEW s \in Seq(Byte)
  PROVE  /\ Raw(s) \in Text /\ Len(Raw(s)) = Len(s)
         /\ \A i \in 1..Len(s) : /\ Raw(s)[i].unit = <<s[i]>>
                                 /\ Raw(s)[i].part = IF s[i] \in ASCII THEN 1 ELSE 0
<1>1. Len(s) \in Nat /\ \A i \in 1..Len(s) : s[i] \in Byte
  OBVIOUS
<1> DEFINE p(i) == [unit |-> <<s[i]>>, part |-> IF s[i] \in ASCII THEN 1 ELSE 0]
<1>2. \A i \in 1..Len(s) : p(i) \in Part
  BY <1>1 DEF Part
<1>3. Raw(s) = [i \in 1..Len(s) |-> p(i)]
  BY DEF Raw
<1> HIDE DEF p
<1>4. Raw(s) \in Seq(Part) /\ Len(Raw(s)) = Len(s) /\ \A i \in 1..Len(s) : Raw(s)[i] = p(i)
  BY <1>1, <1>2, <1>3, IsASeq
<1>5. \A i \in 1..Len(s) : /\ p(i).unit = <<s[i]>>
                           /\ p(i).part = IF s[i] \in ASCII THEN 1 ELSE 0
  BY DEF p
<1>6. Raw(s) \in Text
  BY <1>4 DEF Text
<1> QED
  BY <1>4, <1>5, <1>6

LEMMA RawOne ==
  ASSUME NEW b \in Byte
  PROVE  /\ Raw(<<b>>) \in Text
         /\ Raw(<<b>>) = <<[unit |-> <<b>>, part |-> IF b \in ASCII THEN 1 ELSE 0]>>
<1> DEFINE e == [unit |-> <<b>>, part |-> IF b \in ASCII THEN 1 ELSE 0]
<1>1. <<b>> \in Seq(Byte) /\ Len(<<b>>) = 1 /\ <<b>>[1] = b
  OBVIOUS
<1>2. Raw(<<b>>) = [i \in 1..1 |-> [unit |-> <<<<b>>[i]>>, part |-> IF <<b>>[i] \in ASCII THEN 1 ELSE 0]]
  BY <1>1 DEF Raw
<1>3. Raw(<<b>>) = [i \in 1..1 |-> e]
  BY <1>1, <1>2
<1>4. e \in Part
  BY DEF Part
<1> HIDE DEF e
<1>5. [i \in 1..1 |-> e] = <<e>>
  OBVIOUS
<1>6. Raw(<<b>>) = <<e>> /\ <<e>> \in Seq(Part)
  BY <1>3, <1>4, <1>5
<1> QED
  BY <1>6 DEF e, Text

LEMMA RawConcat ==
  ASSUME NEW s \in Seq(Byte), NEW t \in Seq(Byte)
  PROVE  Raw(s \o t) = Raw(s) \o Raw(t)
<1>1. /\ s \o t \in Seq(Byte) /\ Len(s) \in Nat /\ Len(t) \in Nat
      /\ Len(s \o t) = Len(s) + Len(t)
      /\ \A i \in 1..(Len(s) + Len(t)) : (s \o t)[i] = IF i <= Len(s) THEN s[i] ELSE t[i - Len(s)]
  OBVIOUS
<1> DEFINE x == Raw(s)
           y == Raw(t)
           z == Raw(s \o t)
           w == x \o y
           e(b) == [unit |-> <<b>>, part |-> IF b \in ASCII THEN 1 ELSE 0]
<1>2. /\ x \in Seq(Part) /\ y \in Seq(Part) /\ z \in Seq(Part)
      /\ Len(x) = Len(s) /\ Len(y) = Len(t) /\ Len(z) = Len(s) + Len(t)
  BY <1>1, RawType DEF Text
<1>3. /\ \A i \in 1..Len(s) : x[i] = e(s[i])
      /\ \A i \in 1..Len(t) : y[i] = e(t[i])
      /\ \A i \in 1..(Len(s) + Len(t)) : z[i] = e((s \o t)[i])
  BY <1>1 DEF Raw
<1> HIDE DEF x, y, z, e
<1>4. /\ w \in Seq(Part) /\ Len(w) = Len(s) + Len(t)
      /\ \A i \in 1..(Len(s) + Len(t)) : w[i] = IF i <= Len(s) THEN x[i] ELSE y[i - Len(s)]
  <2>1. /\ x \o y \in Seq(Part) /\ Len(x \o y) = Len(x) + Len(y)
        /\ \A i \in 1..(Len(x) + Len(y)) :
              (x \o y)[i] = IF i <= Len(x) THEN x[i] ELSE y[i - Len(x)]
    <3>1. x \in Seq(Part) /\ y \in Seq(Part)
      BY <1>2
    <3> QED
      BY ONLY <3>1, Joined
  <2> QED
    BY <1>2, <2>1 DEF w
<1> HIDE DEF w
<1>5. ASSUME NEW i \in 1..(Len(s) + Len(t))
      PROVE  z[i] = w[i]
  <2>1. CASE i <= Len(s)
    <3>1. i \in 1..Len(s)
      BY <1>1, <2>1
    <3> QED
      BY <1>1, <1>3, <1>4, <2>1, <3>1
  <2>2. CASE ~(i <= Len(s))
    <3>1. i - Len(s) \in 1..Len(t)
      BY <1>1, <2>2
    <3> QED
      BY <1>1, <1>3, <1>4, <2>2, <3>1
  <2> QED
    BY <2>1, <2>2
<1>6. z = w
  BY <1>1, <1>2, <1>4, <1>5, SeqEqual
<1> QED
  BY <1>6 DEF x, y, z, w

LEMMA SourceOfRaw ==
  ASSUME NEW s \in Seq(Byte)
  PROVE  SourceOf(Raw(s)) = s
<1>1. /\ Len(s) \in Nat /\ Len(Raw(s)) = Len(s)
      /\ \A i \in 1..Len(s) : Raw(s)[i].unit = <<s[i]>>
  BY RawType, LenProperties
<1>2. \A i \in 1..Len(s) : Raw(s)[i].unit[1] = s[i]
  BY <1>1
<1>3. SourceOf(Raw(s)) = [i \in 1..Len(s) |-> s[i]]
  BY <1>1, <1>2 DEF SourceOf
<1>4. [i \in 1..Len(s) |-> s[i]] = s
  OBVIOUS
<1> QED
  BY <1>3, <1>4

LEMMA Utf8Type ==
  ASSUME NEW u \in Seq(Byte), u # <<>>
  PROVE  Utf8(u) \in Text
<1>1. Last(u) \in Byte
  BY DEF Last
<1>2. Raw(<<Last(u)>>) \in Text
  BY <1>1, RawOne
<1>3. <<[unit |-> u, part |-> 1], [unit |-> u, part |-> 2]>> \in Text
  <2>1. [unit |-> u, part |-> 1] \in Part /\ [unit |-> u, part |-> 2] \in Part
    BY DEF Part
  <2> QED
    BY <2>1 DEF Text
<1> QED
  BY <1>2, <1>3 DEF Utf8

LEMMA Utf8One ==
  ASSUME NEW b \in Byte
  PROVE  Utf8(<<b>>) = IF b \in ASCII THEN <<[unit |-> <<b>>, part |-> 1]>>
                       ELSE <<[unit |-> <<b>>, part |-> 1], [unit |-> <<b>>, part |-> 2]>>
<1>1. Last(<<b>>) = b
  BY DEF Last
<1>2. ToSet(Front(<<b>>)) = {}
  <2>1. Front(<<b>>) = <<>>
    BY DEF Front
  <2>2. ToSet(<<>>) = {}
    BY DEF ToSet
  <2> QED
    BY <2>1, <2>2
<1>3. Utf8(<<b>>) = IF b \in ASCII THEN Raw(<<b>>)
                    ELSE <<[unit |-> <<b>>, part |-> 1], [unit |-> <<b>>, part |-> 2]>>
  BY <1>1, <1>2 DEF Utf8
<1> QED
  BY <1>3, RawOne
----------------------------------------------------------------------------
(* One byte.                                                               *)

Rd(d, t, g) == [dec |-> d, out |-> t, bad |-> g]

LEMMA ReaderFields ==
  ASSUME NEW x \in Reader
  PROVE  /\ x.dec \in Decoder /\ x.out \in Text /\ x.bad \in BOOLEAN
         /\ x.dec.held \in Seq(Byte) /\ x.dec.shift \in BOOLEAN /\ x.dec.finished \in BOOLEAN
         /\ x = Rd(x.dec, x.out, x.bad)
BY DEF Reader, Decoder, Rd

LEMMA RdFields ==
  ASSUME NEW d, NEW t, NEW g
  PROVE  /\ Rd(d, t, g).dec = d /\ Rd(d, t, g).out = t /\ Rd(d, t, g).bad = g
         /\ d \in Decoder /\ t \in Text /\ g \in BOOLEAN => Rd(d, t, g) \in Reader
BY DEF Rd, Reader

LEMMA FreshType ==
  /\ FreshDecoder \in Decoder /\ FreshReader \in Reader /\ <<>> \in Text
  /\ FreshReader = Rd(FreshDecoder, <<>>, FALSE)
  /\ FreshDecoder.held = <<>> /\ FreshDecoder.shift = FALSE /\ FreshDecoder.finished = FALSE
<1>1. FreshDecoder \in Decoder
  BY DEF FreshDecoder, Decoder
<1>2. <<>> \in Text
  BY DEF Text
<1>3. FreshReader = Rd(FreshDecoder, <<>>, FALSE)
  BY DEF FreshReader, Rd
<1> QED
  BY <1>1, <1>2, <1>3, RdFields DEF FreshDecoder

LEMMA RdBad == \A d, t, g, v : [Rd(d, t, g) EXCEPT !.bad = v] = Rd(d, t, v)
BY DEF Rd

LEMMA RdOut == \A d, t, g, v : [Rd(d, t, g) EXCEPT !.out = v] = Rd(d, v, g)
BY DEF Rd

LEMMA ByteAfterBad ==
  ASSUME NEW enc, NEW d, NEW t, NEW b
  PROVE  ReadByte(enc, Rd(d, t, TRUE), b) = Rd(d, t, TRUE)
BY DEF ReadByte, Rd

LEMMA ByteOfUtf8 ==
  ASSUME NEW d, NEW t, NEW b
  PROVE  ReadByte("utf8", Rd(d, t, FALSE), b) = Rd(d, t \o Raw(<<b>>), FALSE)
BY DEF ReadByte, Rd

LEMMA ByteOfTable ==
  ASSUME NEW enc \in Tables, NEW d \in Decoder, NEW t \in Text, NEW b
  PROVE  ReadByte(enc, Rd(d, t, FALSE), b) = Rd(d, t \o Utf8(<<b>>), FALSE)
BY DEF ReadByte, Tables, Rd

LEMMA ByteOfWide ==
  ASSUME NEW enc \in Wide, NEW d \in Decoder, NEW t \in Text, NEW b
  PROVE  LET unit == Append(d.held, b) IN
         ReadByte(enc, Rd(d, t, FALSE), b) =
           IF Len(unit) < UnitWidth(enc, unit[1]) THEN Rd([d EXCEPT !.held = unit], t, FALSE)
           ELSE IF Malformed(enc, unit) THEN Rd(d, t, TRUE)
           ELSE Rd([d EXCEPT !.held = <<>>], t \o Utf8(unit), FALSE)
<1>0. PICK g : g = FALSE
  OBVIOUS
<1> DEFINE x == Rd(d, t, g)
           unit == Append(d.held, b)
           v == t \o Utf8(unit)
<1>1. x.bad = FALSE /\ x.dec = d /\ x.out = t
  BY <1>0 DEF Rd
<1>2. /\ [x EXCEPT !.dec.held = unit] = Rd([d EXCEPT !.held = unit], t, g)
      /\ [x EXCEPT !.bad = TRUE] = Rd(d, t, TRUE)
      /\ [x EXCEPT !.dec.held = <<>>, !.out = v] = Rd([d EXCEPT !.held = <<>>], v, g)
  <2> HIDE DEF unit, v
  <2>1. [x EXCEPT !.dec.held = unit] = Rd([d EXCEPT !.held = unit], t, g)
    BY DEF Rd, Decoder
  <2>2. [x EXCEPT !.bad = TRUE] = Rd(d, t, TRUE)
    <3> DEFINE yes == TRUE
    <3> HIDE DEF yes
    <3>1. [x EXCEPT !.bad = yes] = Rd(d, t, yes)
      BY RdBad
    <3> QED
      BY <3>1, Zenon DEF yes
  <2>5. [x EXCEPT !.dec.held = <<>>] = Rd([d EXCEPT !.held = <<>>], t, g)
    BY DEF Rd, Decoder
  <2>6. [x EXCEPT !.dec.held = <<>>, !.out = v] = [[x EXCEPT !.dec.held = <<>>] EXCEPT !.out = v]
    BY Zenon
  <2>7. [Rd([d EXCEPT !.held = <<>>], t, g) EXCEPT !.out = v] = Rd([d EXCEPT !.held = <<>>], v, g)
    BY RdOut
  <2>8. [x EXCEPT !.dec.held = <<>>, !.out = v] = Rd([d EXCEPT !.held = <<>>], v, g)
    BY ONLY <2>5, <2>6, <2>7, Zenon
  <2> HIDE DEF x
  <2> QED
    BY <2>1, <2>2, <2>8
<1>3. enc \in {"utf16", "ucs4"} /\ enc # "utf8" /\ enc # "stateful"
  BY DEF Wide
<1> HIDE DEF x
<1>4. ReadByte(enc, x, b) =
        IF Len(unit) < UnitWidth(enc, unit[1]) THEN [x EXCEPT !.dec.held = unit]
        ELSE IF Malformed(enc, unit) THEN [x EXCEPT !.bad = TRUE]
        ELSE [x EXCEPT !.dec.held = <<>>, !.out = v]
  BY <1>1, <1>3, Zenon DEF ReadByte
<1> HIDE DEF unit, v
<1>5. ReadByte(enc, x, b) =
        IF Len(unit) < UnitWidth(enc, unit[1]) THEN Rd([d EXCEPT !.held = unit], t, g)
        ELSE IF Malformed(enc, unit) THEN Rd(d, t, TRUE)
        ELSE Rd([d EXCEPT !.held = <<>>], v, g)
  BY <1>2, <1>4
<1> QED
  BY <1>0, <1>5 DEF x, unit, v

LEMMA ByteOfStateful ==
  ASSUME NEW d \in Decoder, NEW t \in Text, NEW b
  PROVE  ReadByte("stateful", Rd(d, t, FALSE), b) =
           IF d.held # <<>>
           THEN IF b \in {"61", "A0"}
                THEN Rd([d EXCEPT !.held = <<>>], t \o Utf8(Append(d.held, b)), FALSE)
                ELSE Rd(d, t, TRUE)
           ELSE IF b = "1B" THEN Rd([d EXCEPT !.shift = ~d.shift], t, FALSE)
           ELSE IF d.shift \/ b = "82" THEN Rd([d EXCEPT !.held = <<b>>], t, FALSE)
           ELSE IF b \in ASCII THEN Rd(d, t \o Utf8(<<b>>), FALSE)
           ELSE Rd(d, t, TRUE)
<1>0. PICK g : g = FALSE
  OBVIOUS
<1> DEFINE x == Rd(d, t, g)
           v == t \o Utf8(Append(d.held, b))
           w == t \o Utf8(<<b>>)
           n == ~d.shift
           h == <<b>>
<1>1. x.bad = FALSE /\ x.dec = d /\ x.out = t
  BY <1>0 DEF Rd
<1>2. /\ [x EXCEPT !.dec.held = h] = Rd([d EXCEPT !.held = h], t, g)
      /\ [x EXCEPT !.dec.shift = n] = Rd([d EXCEPT !.shift = n], t, g)
      /\ [x EXCEPT !.bad = TRUE] = Rd(d, t, TRUE)
      /\ [x EXCEPT !.out = w] = Rd(d, w, g)
      /\ [x EXCEPT !.dec.held = <<>>, !.out = v] = Rd([d EXCEPT !.held = <<>>], v, g)
  <2> HIDE DEF v, w, n, h
  <2>1. [x EXCEPT !.dec.held = h] = Rd([d EXCEPT !.held = h], t, g)
    BY DEF Rd, Decoder
  <2>2. [x EXCEPT !.bad = TRUE] = Rd(d, t, TRUE)
    <3> DEFINE yes == TRUE
    <3> HIDE DEF yes
    <3>1. [x EXCEPT !.bad = yes] = Rd(d, t, yes)
      BY RdBad
    <3> QED
      BY <3>1, Zenon DEF yes
  <2>3. [x EXCEPT !.dec.shift = n] = Rd([d EXCEPT !.shift = n], t, g)
    BY DEF Rd, Decoder
  <2>4. [x EXCEPT !.out = w] = Rd(d, w, g)
    BY RdOut
  <2>5. [x EXCEPT !.dec.held = <<>>] = Rd([d EXCEPT !.held = <<>>], t, g)
    BY DEF Rd, Decoder
  <2>6. [x EXCEPT !.dec.held = <<>>, !.out = v] = [[x EXCEPT !.dec.held = <<>>] EXCEPT !.out = v]
    BY Zenon
  <2>7. [Rd([d EXCEPT !.held = <<>>], t, g) EXCEPT !.out = v] = Rd([d EXCEPT !.held = <<>>], v, g)
    BY RdOut
  <2>8. [x EXCEPT !.dec.held = <<>>, !.out = v] = Rd([d EXCEPT !.held = <<>>], v, g)
    BY ONLY <2>5, <2>6, <2>7, Zenon
  <2> HIDE DEF x
  <2> QED
    BY <2>1, <2>2, <2>3, <2>4, <2>8
<1> HIDE DEF x
<1>3. ReadByte("stateful", x, b) = StreamByte(x, b)
  BY <1>1 DEF ReadByte
<1>4. StreamByte(x, b) =
        IF d.held # <<>>
        THEN IF b \in {"61", "A0"} THEN [x EXCEPT !.dec.held = <<>>, !.out = v]
             ELSE [x EXCEPT !.bad = TRUE]
        ELSE IF b = "1B" THEN [x EXCEPT !.dec.shift = n]
        ELSE IF d.shift \/ b = "82" THEN [x EXCEPT !.dec.held = h]
        ELSE IF b \in ASCII THEN [x EXCEPT !.out = w]
        ELSE [x EXCEPT !.bad = TRUE]
  BY <1>1, Zenon DEF StreamByte
<1> HIDE DEF v, w, n, h
<1>5. ReadByte("stateful", x, b) =
        IF d.held # <<>>
        THEN IF b \in {"61", "A0"} THEN Rd([d EXCEPT !.held = <<>>], v, g) ELSE Rd(d, t, TRUE)
        ELSE IF b = "1B" THEN Rd([d EXCEPT !.shift = n], t, g)
        ELSE IF d.shift \/ b = "82" THEN Rd([d EXCEPT !.held = h], t, g)
        ELSE IF b \in ASCII THEN Rd(d, w, g)
        ELSE Rd(d, t, TRUE)
  BY <1>2, <1>3, <1>4
<1> QED
  BY <1>0, <1>5 DEF x, v, w, n, h

\* A step appends to the text what the codec and the byte say.
Adds(enc, dec, bad, b, d, o, g) ==
  /\ d \in Decoder /\ o \in Text /\ g \in BOOLEAN
  /\ \A t \in Text : ReadByte(enc, Rd(dec, t, bad), b) = Rd(d, t \o o, g)

LEMMA AddsNothing ==
  ASSUME NEW enc, NEW dec, NEW bad, NEW b, NEW d \in Decoder, NEW g \in BOOLEAN,
         \A t \in Text : ReadByte(enc, Rd(dec, t, bad), b) = Rd(d, t, g)
  PROVE  Adds(enc, dec, bad, b, d, <<>>, g)
<1>1. <<>> \in Text /\ \A t \in Text : t \o <<>> = t
  BY DEF Text
<1> QED
  BY <1>1 DEF Adds

LEMMA ByteAdds ==
  ASSUME NEW enc \in Code \ {"none"}, NEW dec \in Decoder, NEW bad \in BOOLEAN, NEW b \in Byte
  PROVE  \E d, o, g : Adds(enc, dec, bad, b, d, o, g)
<1> DEFINE u == Append(dec.held, b)
<1>1. /\ dec.held \in Seq(Byte) /\ dec.shift \in BOOLEAN
      /\ u \in Seq(Byte) /\ u # <<>> /\ <<b>> \in Seq(Byte) /\ <<b>> # <<>>
  <2>1. dec.held \in Seq(Byte) /\ dec.shift \in BOOLEAN
    BY DEF Decoder
  <2> QED
    BY <2>1
<1>2. Utf8(u) \in Text /\ Utf8(<<b>>) \in Text /\ Raw(<<b>>) \in Text
  BY <1>1, Utf8Type, RawOne
<1> DEFINE d1 == [dec EXCEPT !.held = u]
           d2 == [dec EXCEPT !.held = <<>>]
           d3 == [dec EXCEPT !.held = <<b>>]
           d4 == [dec EXCEPT !.shift = ~dec.shift]
<1>3. d1 \in Decoder /\ d2 \in Decoder /\ d3 \in Decoder /\ d4 \in Decoder
  <2>1. \A h \in Seq(Byte) : [dec EXCEPT !.held = h] \in Decoder
    BY DEF Decoder
  <2>2. \A n \in BOOLEAN : [dec EXCEPT !.shift = n] \in Decoder
    BY DEF Decoder
  <2>3. <<>> \in Seq(Byte) /\ (~dec.shift) \in BOOLEAN
    OBVIOUS
  <2> QED
    BY <1>1, <2>1, <2>2, <2>3, Zenon
<1>4. CASE bad
  <2>1. bad = TRUE
    BY <1>4
  <2>2. \A t \in Text : ReadByte(enc, Rd(dec, t, bad), b) = Rd(dec, t, TRUE)
    BY <2>1, ByteAfterBad
  <2> QED
    BY <2>2, AddsNothing
<1>5. CASE bad = FALSE /\ enc = "utf8"
  <2>1. Adds(enc, dec, bad, b, dec, Raw(<<b>>), FALSE)
    BY <1>2, <1>5, ByteOfUtf8 DEF Adds
  <2> QED
    BY <2>1
<1>6. CASE bad = FALSE /\ enc \in Tables
  <2>2. \A t \in Text : ReadByte(enc, Rd(dec, t, bad), b) = Rd(dec, t \o Utf8(<<b>>), FALSE)
    BY <1>6, ByteOfTable
  <2>1. Adds(enc, dec, bad, b, dec, Utf8(<<b>>), FALSE)
    BY <1>2, <2>2, Zenon DEF Adds
  <2> QED
    BY <2>1
<1>7. CASE bad = FALSE /\ enc \in Wide
  <2> DEFINE w == UnitWidth(enc, u[1])
             m == Malformed(enc, u)
  <2>1. \A t \in Text : ReadByte(enc, Rd(dec, t, bad), b) =
          IF Len(u) < w THEN Rd(d1, t, FALSE)
          ELSE IF m THEN Rd(dec, t, TRUE) ELSE Rd(d2, t \o Utf8(u), FALSE)
    BY <1>7, ByteOfWide
  <2> HIDE DEF u, w, m, d1, d2
  <2>2. CASE Len(u) < w
    <3>1. \A t \in Text : ReadByte(enc, Rd(dec, t, bad), b) = Rd(d1, t, FALSE)
      BY <2>1, <2>2
    <3> QED
      BY <1>3, <3>1, AddsNothing
  <2>3. CASE ~(Len(u) < w) /\ m
    <3>1. \A t \in Text : ReadByte(enc, Rd(dec, t, bad), b) = Rd(dec, t, TRUE)
      BY <2>1, <2>3
    <3> QED
      BY <3>1, AddsNothing
  <2>4. CASE ~(Len(u) < w) /\ ~m
    <3>1. Adds(enc, dec, bad, b, d2, Utf8(u), FALSE)
      BY <1>2, <1>3, <2>1, <2>4 DEF Adds
    <3> QED
      BY <3>1
  <2> QED
    BY <2>2, <2>3, <2>4
<1>8. CASE bad = FALSE /\ enc = "stateful"
  <2>1. \A t \in Text : ReadByte(enc, Rd(dec, t, bad), b) =
          IF dec.held # <<>>
          THEN IF b \in {"61", "A0"} THEN Rd(d2, t \o Utf8(u), FALSE) ELSE Rd(dec, t, TRUE)
          ELSE IF b = "1B" THEN Rd(d4, t, FALSE)
          ELSE IF dec.shift \/ b = "82" THEN Rd(d3, t, FALSE)
          ELSE IF b \in ASCII THEN Rd(dec, t \o Utf8(<<b>>), FALSE)
          ELSE Rd(dec, t, TRUE)
    BY <1>8, ByteOfStateful
  <2> HIDE DEF u, d2, d3, d4
  <2>2. CASE dec.held # <<>> /\ b \in {"61", "A0"}
    <3>1. Adds(enc, dec, bad, b, d2, Utf8(u), FALSE)
      BY <1>2, <1>3, <2>1, <2>2 DEF Adds
    <3> QED
      BY <3>1
  <2>3. CASE dec.held = <<>> /\ b = "1B"
    <3>1. \A t \in Text : ReadByte(enc, Rd(dec, t, bad), b) = Rd(d4, t, FALSE)
      BY <2>1, <2>3
    <3> QED
      BY <1>3, <3>1, AddsNothing
  <2>4. CASE dec.held = <<>> /\ b # "1B" /\ (dec.shift \/ b = "82")
    <3>1. \A t \in Text : ReadByte(enc, Rd(dec, t, bad), b) = Rd(d3, t, FALSE)
      BY <2>1, <2>4
    <3> QED
      BY <1>3, <3>1, AddsNothing
  <2>5. CASE dec.held = <<>> /\ b # "1B" /\ ~(dec.shift \/ b = "82") /\ b \in ASCII
    <3>1. Adds(enc, dec, bad, b, dec, Utf8(<<b>>), FALSE)
      BY <1>2, <2>1, <2>5 DEF Adds
    <3> QED
      BY <3>1
  <2>6. CASE \/ dec.held # <<>> /\ b \notin {"61", "A0"}
             \/ dec.held = <<>> /\ b # "1B" /\ ~(dec.shift \/ b = "82") /\ b \notin ASCII
    <3>1. \A t \in Text : ReadByte(enc, Rd(dec, t, bad), b) = Rd(dec, t, TRUE)
      BY <2>1, <2>6
    <3> QED
      BY <3>1, AddsNothing
  <2> QED
    BY <2>2, <2>3, <2>4, <2>5, <2>6
<1>9. enc \in {"utf8", "stateful"} \cup Tables \cup Wide
  BY DEF Code, Tables, Wide
<1> QED
  BY <1>4, <1>5, <1>6, <1>7, <1>8, <1>9
----------------------------------------------------------------------------
(* Many bytes.                                                             *)

LEMMA ReadStep ==
  \A enc, r : \A s \in Seq(Byte) : \A b \in Byte :
    ReadBytes(enc, r, Append(s, b)) = ReadByte(enc, ReadBytes(enc, r, s), b)
BY ReadAppend

LEMMA ReadBoth ==
  \A enc, r : \A s, t \in Seq(Byte) :
    ReadBytes(enc, r, s \o t) = ReadBytes(enc, ReadBytes(enc, r, s), t)
BY ReadConcat

LEMMA TextThrice ==
  \A t, u, v \in Text : t \o u \in Text /\ (t \o u) \o v = t \o (u \o v)
BY DEF Text

AddsAll(enc, dec, bad, s, d, o, g) ==
  /\ d \in Decoder /\ o \in Text /\ g \in BOOLEAN
  /\ \A t \in Text : ReadBytes(enc, Rd(dec, t, bad), s) = Rd(d, t \o o, g)

LEMMA AddsThen ==
  ASSUME NEW enc, NEW dec, NEW bad, NEW s \in Seq(Byte), NEW b \in Byte,
         NEW d1, NEW o1, NEW g1, AddsAll(enc, dec, bad, s, d1, o1, g1),
         NEW d2, NEW o2, NEW g2, Adds(enc, d1, g1, b, d2, o2, g2)
  PROVE  AddsAll(enc, dec, bad, Append(s, b), d2, o1 \o o2, g2)
<1>1. /\ d2 \in Decoder /\ o1 \in Text /\ o2 \in Text /\ g2 \in BOOLEAN
      /\ o1 \o o2 \in Text
  <2>1. o1 \in Text /\ o2 \in Text /\ d2 \in Decoder /\ g2 \in BOOLEAN
    BY Zenon DEF AddsAll, Adds
  <2> QED
    BY <2>1 DEF Text
<1>2. ASSUME NEW t \in Text
      PROVE  ReadBytes(enc, Rd(dec, t, bad), Append(s, b)) = Rd(d2, t \o (o1 \o o2), g2)
  <2>1. ReadBytes(enc, Rd(dec, t, bad), s) = Rd(d1, t \o o1, g1)
    BY Zenon DEF AddsAll
  <2>2. t \o o1 \in Text /\ (t \o o1) \o o2 = t \o (o1 \o o2)
    BY <1>1 DEF Text
  <2>3. ReadByte(enc, Rd(d1, t \o o1, g1), b) = Rd(d2, (t \o o1) \o o2, g2)
    BY <2>2, Zenon DEF Adds
  <2>4. ReadBytes(enc, Rd(dec, t, bad), Append(s, b))
          = ReadByte(enc, ReadBytes(enc, Rd(dec, t, bad), s), b)
    BY ReadStep, Zenon
  <2> QED
    BY ONLY <2>1, <2>2, <2>3, <2>4, Zenon
<1> QED
  BY <1>1, <1>2, Zenon DEF AddsAll

LEMMA ReadAdds ==
  ASSUME NEW enc \in Code \ {"none"}, NEW dec \in Decoder, NEW bad \in BOOLEAN,
         NEW s \in Seq(Byte)
  PROVE  \E d, o, g : AddsAll(enc, dec, bad, s, d, o, g)
<1> DEFINE K == {v \in Seq(Byte) : \E d, o, g : AddsAll(enc, dec, bad, v, d, o, g)}
<1>1. <<>> \in K
  <2>1. \A t \in Text : ReadBytes(enc, Rd(dec, t, bad), <<>>) = Rd(dec, t, bad)
    BY ReadNothing, Zenon
  <2>2. <<>> \in Text /\ \A t \in Text : t \o <<>> = t
    BY DEF Text
  <2>3. AddsAll(enc, dec, bad, <<>>, dec, <<>>, bad)
    BY <2>1, <2>2 DEF AddsAll
  <2> QED
    BY <2>3
<1>2. ASSUME NEW v \in K \cap Seq(Byte), NEW b \in Byte
      PROVE  Append(v, b) \in K
  <2>1. PICK d1, o1, g1 : AddsAll(enc, dec, bad, v, d1, o1, g1)
    BY <1>2
  <2>2. d1 \in Decoder /\ g1 \in BOOLEAN
    BY <2>1, Zenon DEF AddsAll
  <2>3. PICK d2, o2, g2 : Adds(enc, d1, g1, b, d2, o2, g2)
    BY <2>2, ByteAdds
  <2>4. AddsAll(enc, dec, bad, Append(v, b), d2, o1 \o o2, g2)
    BY <2>1, <2>3, AddsThen
  <2>5. \E d, o, g : AddsAll(enc, dec, bad, Append(v, b), d, o, g)
    BY <2>4, Zenon
  <2>6. Append(v, b) \in Seq(Byte)
    OBVIOUS
  <2> QED
    BY <2>5, <2>6, Zenon
<1> HIDE DEF K
<1>3. s \in K
  BY <1>1, <1>2, SequenceInduction
<1> QED
  BY <1>3 DEF K

LEMMA ReadBad ==
  ASSUME NEW enc, NEW d, NEW t, NEW s \in Seq(Byte)
  PROVE  ReadBytes(enc, Rd(d, t, TRUE), s) = Rd(d, t, TRUE)
<1> DEFINE x == Rd(d, t, TRUE)
           K == {v \in Seq(Byte) : ReadBytes(enc, x, v) = x}
<1>1. <<>> \in K
  <2>1. ReadBytes(enc, x, <<>>) = x
    BY ReadNothing, Zenon
  <2>2. <<>> \in Seq(Byte)
    OBVIOUS
  <2> QED
    BY <2>1, <2>2, Zenon
<1>2. ASSUME NEW v \in K \cap Seq(Byte), NEW b \in Byte
      PROVE  Append(v, b) \in K
  <2>4. ReadBytes(enc, x, v) = x
    BY <1>2, Zenon
  <2>5. v \in Seq(Byte) /\ Append(v, b) \in Seq(Byte)
    OBVIOUS
  <2>1. ReadBytes(enc, x, v) = x /\ v \in Seq(Byte) /\ Append(v, b) \in Seq(Byte)
    BY <2>4, <2>5, Zenon
  <2>2. ReadBytes(enc, x, Append(v, b)) = ReadByte(enc, ReadBytes(enc, x, v), b)
    BY <2>1, ReadStep, Zenon
  <2>3. ReadByte(enc, x, b) = x
    BY ByteAfterBad, Zenon
  <2> HIDE DEF x
  <2> QED
    BY <2>1, <2>2, <2>3
<1> HIDE DEF K
<1>3. s \in K
  BY <1>1, <1>2, SequenceInduction
<1> QED
  BY <1>3 DEF K

LEMMA ReadingGrows ==
  ASSUME NEW enc \in Code \ {"none"}, NEW x \in Reader, NEW s \in Seq(Byte)
  PROVE  LET r == ReadBytes(enc, x, s) IN
         r \in Reader /\ IsPrefix(x.out, r.out) /\ (x.bad => r = x)
<1>1. x.dec \in Decoder /\ x.out \in Text /\ x.bad \in BOOLEAN /\ x = Rd(x.dec, x.out, x.bad)
  BY ReaderFields
<1>2. PICK d, o, g : AddsAll(enc, x.dec, x.bad, s, d, o, g)
  BY <1>1, ReadAdds
<1> DEFINE r == ReadBytes(enc, x, s)
<1>3. /\ d \in Decoder /\ o \in Text /\ g \in BOOLEAN
      /\ r = Rd(d, x.out \o o, g)
  BY <1>1, <1>2, Zenon DEF AddsAll
<1>4. ASSUME x.bad PROVE r = x
  <2>1. x = Rd(x.dec, x.out, TRUE)
    BY <1>1, <1>4
  <2> QED
    BY <2>1, ReadBad
<1> HIDE DEF r
<1>5. x.out \o o \in Text /\ IsPrefix(x.out, x.out \o o)
  BY <1>1, <1>3, PrefixOn DEF Text
<1>6. r \in Reader /\ r.out = x.out \o o
  <2> DEFINE y == x.out \o o
  <2>1. y \in Text /\ r = Rd(d, y, g)
    BY <1>3, <1>5
  <2> HIDE DEF y
  <2>2. r \in Reader /\ r.out = y
    BY <1>3, <2>1, RdFields
  <2> QED
    BY <2>2 DEF y
<1> QED
  BY <1>4, <1>5, <1>6, Zenon DEF r

----------------------------------------------------------------------------
(* UTF-8 and the single-byte sets.                                         *)

LEMMA ReadUtf8 ==
  ASSUME NEW d \in Decoder, NEW t \in Text, NEW s \in Seq(Byte)
  PROVE  ReadBytes("utf8", Rd(d, t, FALSE), s) = Rd(d, t \o Raw(s), FALSE)
<1> DEFINE K == {v \in Seq(Byte) :
                   ReadBytes("utf8", Rd(d, t, FALSE), v) = Rd(d, t \o Raw(v), FALSE)}
<1>1. <<>> \in K
  <2>1. Raw(<<>>) = <<>> /\ t \o <<>> = t /\ <<>> \in Seq(Byte)
    BY DEF Raw, Text
  <2>2. ReadBytes("utf8", Rd(d, t, FALSE), <<>>) = Rd(d, t, FALSE)
    BY ReadNothing, Zenon
  <2>3. ReadBytes("utf8", Rd(d, t, FALSE), <<>>) = Rd(d, t \o Raw(<<>>), FALSE)
    BY ONLY <2>1, <2>2, Zenon
  <2> QED
    BY <2>1, <2>3, Zenon
<1>2. ASSUME NEW v \in K \cap Seq(Byte), NEW b \in Byte
      PROVE  Append(v, b) \in K
  <2>1. /\ v \in Seq(Byte) /\ Append(v, b) \in Seq(Byte)
        /\ Append(v, b) = v \o <<b>> /\ <<b>> \in Seq(Byte)
    OBVIOUS
  <2>2. ReadBytes("utf8", Rd(d, t, FALSE), v) = Rd(d, t \o Raw(v), FALSE)
    BY <1>2
  <2>3. ReadBytes("utf8", Rd(d, t, FALSE), Append(v, b))
          = ReadByte("utf8", ReadBytes("utf8", Rd(d, t, FALSE), v), b)
    BY <2>1, ReadStep, Zenon
  <2>4. ReadByte("utf8", Rd(d, t \o Raw(v), FALSE), b) = Rd(d, (t \o Raw(v)) \o Raw(<<b>>), FALSE)
    BY ByteOfUtf8, Zenon
  <2>5. (t \o Raw(v)) \o Raw(<<b>>) = t \o (Raw(v) \o Raw(<<b>>))
    <3>1. Raw(v) \in Text /\ Raw(<<b>>) \in Text
      BY <2>1, RawType, RawOne
    <3> QED
      BY <3>1 DEF Text
  <2>6. Raw(Append(v, b)) = Raw(v) \o Raw(<<b>>)
    BY <2>1, RawConcat
  <2>7. ReadBytes("utf8", Rd(d, t, FALSE), Append(v, b)) = Rd(d, t \o Raw(Append(v, b)), FALSE)
    BY ONLY <2>2, <2>3, <2>4, <2>5, <2>6, Zenon
  <2> QED
    BY <2>1, <2>7, Zenon
<1> HIDE DEF K
<1>3. s \in K
  BY <1>1, <1>2, SequenceInduction
<1> QED
  BY <1>3 DEF K

\* Every byte of a single-byte set is a character: nothing is held or bad.
LEMMA ReadTable ==
  ASSUME NEW enc \in Tables, NEW d \in Decoder, NEW s \in Seq(Byte)
  PROVE  \E o \in Text : \A t \in Text :
           ReadBytes(enc, Rd(d, t, FALSE), s) = Rd(d, t \o o, FALSE)
<1> DEFINE K == {v \in Seq(Byte) : \E o \in Text : \A t \in Text :
                   ReadBytes(enc, Rd(d, t, FALSE), v) = Rd(d, t \o o, FALSE)}
<1>1. <<>> \in K
  <2>1. \A t \in Text : ReadBytes(enc, Rd(d, t, FALSE), <<>>) = Rd(d, t, FALSE)
    BY ReadNothing, Zenon
  <2>2. <<>> \in Text /\ \A t \in Text : t \o <<>> = t
    BY DEF Text
  <2>3. \A t \in Text : ReadBytes(enc, Rd(d, t, FALSE), <<>>) = Rd(d, t \o <<>>, FALSE)
    BY ONLY <2>1, <2>2, Zenon
  <2>4. <<>> \in Seq(Byte)
    OBVIOUS
  <2> QED
    BY <2>2, <2>3, <2>4, Zenon
<1>2. ASSUME NEW v \in K \cap Seq(Byte), NEW b \in Byte
      PROVE  Append(v, b) \in K
  <2>1. v \in Seq(Byte) /\ Append(v, b) \in Seq(Byte) /\ <<b>> \in Seq(Byte) /\ <<b>> # <<>>
    OBVIOUS
  <2>2. PICK o \in Text : \A t \in Text :
          ReadBytes(enc, Rd(d, t, FALSE), v) = Rd(d, t \o o, FALSE)
    BY <1>2
  <2> DEFINE u == Utf8(<<b>>)
  <2>3. u \in Text
    BY <2>1, Utf8Type
  <2>4. ASSUME NEW t \in Text
        PROVE  ReadBytes(enc, Rd(d, t, FALSE), Append(v, b)) = Rd(d, t \o (o \o u), FALSE)
    <3>1. ReadBytes(enc, Rd(d, t, FALSE), v) = Rd(d, t \o o, FALSE)
      BY <2>2, Zenon
    <3>2. ReadBytes(enc, Rd(d, t, FALSE), Append(v, b))
            = ReadByte(enc, ReadBytes(enc, Rd(d, t, FALSE), v), b)
      BY <2>1, ReadStep, Zenon
    <3>3. t \o o \in Text
      BY DEF Text
    <3>4. ReadByte(enc, Rd(d, t \o o, FALSE), b) = Rd(d, (t \o o) \o u, FALSE)
      BY <3>3, ByteOfTable
    <3> HIDE DEF u
    <3>5. (t \o o) \o u = t \o (o \o u)
      BY <2>3, SMTT(30) DEF Text
    <3> QED
      BY ONLY <3>1, <3>2, <3>4, <3>5, Zenon
  <2> HIDE DEF u
  <2>5. o \o u \in Text
    BY <2>3 DEF Text
  <2> QED
    BY <2>1, <2>4, <2>5, Zenon
<1> HIDE DEF K
<1>3. s \in K
  BY <1>1, <1>2, SequenceInduction
<1> QED
  BY <1>3 DEF K

LEMMA ReadByteWise ==
  ASSUME NEW enc \in Tables, NEW t \in Text, NEW s \in Seq(Byte)
  PROVE  /\ ByteWise(enc, s) \in Text
         /\ ReadBytes(enc, Rd(FreshDecoder, t, FALSE), s)
              = Rd(FreshDecoder, t \o ByteWise(enc, s), FALSE)
<1>1. FreshDecoder \in Decoder /\ FreshReader = Rd(FreshDecoder, <<>>, FALSE) /\ <<>> \in Text
  BY FreshType
<1>2. PICK o \in Text : \A v \in Text :
        ReadBytes(enc, Rd(FreshDecoder, v, FALSE), s) = Rd(FreshDecoder, v \o o, FALSE)
  BY <1>1, ReadTable
<1>3. <<>> \o o = o
  BY DEF Text
<1>4. ReadBytes(enc, FreshReader, s) = Rd(FreshDecoder, o, FALSE)
  BY ONLY <1>1, <1>2, <1>3, Zenon
<1>5. ByteWise(enc, s) = o
  <2>1. Rd(FreshDecoder, o, FALSE).out = o
    BY DEF Rd
  <2> QED
    BY <1>4, <2>1, Zenon DEF ByteWise
<1> QED
  BY <1>2, <1>5, Zenon
----------------------------------------------------------------------------
(* Units of two and four bytes, read whole and byte by byte.               *)

Hold(h) == [FreshDecoder EXCEPT !.held = h]
Partial(enc, h) == h = <<>> \/ Len(h) < UnitWidth(enc, h[1])

LEMMA HoldFacts ==
  ASSUME NEW h \in Seq(Byte)
  PROVE  /\ Hold(h) \in Decoder /\ Hold(h).held = h
         /\ Hold(<<>>) = FreshDecoder
         /\ \A u : [Hold(h) EXCEPT !.held = u] = Hold(u)
<1>1. Hold(h) \in Decoder /\ Hold(h).held = h
  BY DEF Hold, FreshDecoder, Decoder
<1>2. Hold(<<>>) = FreshDecoder
  BY DEF Hold, FreshDecoder
<1>3. \A u : [Hold(h) EXCEPT !.held = u] = Hold(u)
  BY DEF Hold, FreshDecoder
<1> QED
  BY <1>1, <1>2, <1>3

LEMMA Widths == \A enc, b : UnitWidth(enc, b) \in {2, 4}
BY DEF UnitWidth

LEMMA AppendFacts ==
  ASSUME NEW s \in Seq(Byte), NEW b \in Byte
  PROVE  /\ Append(s, b) \in Seq(Byte) /\ Append(s, b) # <<>>
         /\ Len(s) \in Nat /\ Len(Append(s, b)) = Len(s) + 1
         /\ Append(s, b)[Len(s) + 1] = b
         /\ \A i \in 1..Len(s) : Append(s, b)[i] = s[i]
         /\ s # <<>> => Len(s) > 0 /\ Append(s, b)[1] = s[1]
         /\ s = <<>> => Append(s, b)[1] = b
<1> DEFINE t == Append(s, b)
<1>1. /\ t \in Seq(Byte) /\ Len(s) \in Nat /\ Len(t) = Len(s) + 1
      /\ t[Len(s) + 1] = b /\ \A i \in 1..Len(s) : t[i] = s[i]
  OBVIOUS
<1> HIDE DEF t
<1>2. t # <<>> /\ (s # <<>> => Len(s) > 0) /\ (s = <<>> => Len(s) = 0)
  BY <1>1
<1>3. (s # <<>> => t[1] = s[1]) /\ (s = <<>> => t[1] = b)
  BY <1>1, <1>2
<1> QED
  BY <1>1, <1>2, <1>3 DEF t

\* A byte that leaves the unit incomplete is held, the last one decodes it.
LEMMA WideByte ==
  ASSUME NEW enc \in Wide, NEW h \in Seq(Byte), NEW t \in Text, NEW b \in Byte
  PROVE  LET u == Append(h, b) IN
         ReadByte(enc, Rd(Hold(h), t, FALSE), b) =
           IF Len(u) < UnitWidth(enc, u[1]) THEN Rd(Hold(u), t, FALSE)
           ELSE IF Malformed(enc, u) THEN Rd(Hold(h), t, TRUE)
           ELSE Rd(FreshDecoder, t \o Utf8(u), FALSE)
<1> DEFINE u == Append(h, b)
           d == Hold(h)
<1>1. /\ d \in Decoder /\ d.held = h
      /\ [d EXCEPT !.held = u] = Hold(u)
      /\ [d EXCEPT !.held = <<>>] = FreshDecoder
  BY HoldFacts
<1>2. LET unit == Append(d.held, b) IN
      ReadByte(enc, Rd(d, t, FALSE), b) =
           IF Len(unit) < UnitWidth(enc, unit[1]) THEN Rd([d EXCEPT !.held = unit], t, FALSE)
           ELSE IF Malformed(enc, unit) THEN Rd(d, t, TRUE)
           ELSE Rd([d EXCEPT !.held = <<>>], t \o Utf8(unit), FALSE)
  <2> HIDE DEF d
  <2> QED
    BY <1>1, ByteOfWide
<1> HIDE DEF d
<1>3. ReadByte(enc, Rd(d, t, FALSE), b) =
        IF Len(u) < UnitWidth(enc, u[1]) THEN Rd(Hold(u), t, FALSE)
        ELSE IF Malformed(enc, u) THEN Rd(d, t, TRUE)
        ELSE Rd(FreshDecoder, t \o Utf8(u), FALSE)
  BY ONLY <1>1, <1>2, Zenon
<1> QED
  BY <1>3, Zenon DEF d

LEMMA WideHold ==
  ASSUME NEW enc \in Wide, NEW t \in Text, NEW h \in Seq(Byte), Partial(enc, h)
  PROVE  ReadBytes(enc, Rd(FreshDecoder, t, FALSE), h) = Rd(Hold(h), t, FALSE)
<1> DEFINE P(v) == Partial(enc, v) =>
                     ReadBytes(enc, Rd(FreshDecoder, t, FALSE), v) = Rd(Hold(v), t, FALSE)
           K == {v \in Seq(Byte) : P(v)}
<1>1. <<>> \in K
  <2>1. ReadBytes(enc, Rd(FreshDecoder, t, FALSE), <<>>) = Rd(FreshDecoder, t, FALSE)
    BY ReadNothing, Zenon
  <2>2. Hold(<<>>) = FreshDecoder /\ <<>> \in Seq(Byte)
    BY HoldFacts
  <2> QED
    BY <2>1, <2>2, Zenon
<1>2. ASSUME NEW v \in K \cap Seq(Byte), NEW b \in Byte
      PROVE  Append(v, b) \in K
  <2>1. v \in Seq(Byte) /\ P(v)
    BY <1>2, Zenon
  <2>2. ASSUME Partial(enc, Append(v, b))
        PROVE  ReadBytes(enc, Rd(FreshDecoder, t, FALSE), Append(v, b))
                 = Rd(Hold(Append(v, b)), t, FALSE)
    <3>1. Len(Append(v, b)) < UnitWidth(enc, Append(v, b)[1])
      BY <2>1, <2>2, AppendFacts DEF Partial
    <3>2. Partial(enc, v)
      <4>1. CASE v = <<>>
        BY <4>1 DEF Partial
      <4>2. CASE v # <<>>
        <5>1. Append(v, b)[1] = v[1] /\ Len(v) \in Nat /\ Len(Append(v, b)) = Len(v) + 1
          BY <2>1, <4>2, AppendFacts
        <5>2. UnitWidth(enc, v[1]) \in {2, 4}
          BY Widths
        <5> QED
          BY <3>1, <5>1, <5>2 DEF Partial
      <4> QED
        BY <4>1, <4>2
    <3>3. ReadBytes(enc, Rd(FreshDecoder, t, FALSE), v) = Rd(Hold(v), t, FALSE)
      BY <2>1, <3>2, Zenon
    <3>4. ReadBytes(enc, Rd(FreshDecoder, t, FALSE), Append(v, b))
            = ReadByte(enc, ReadBytes(enc, Rd(FreshDecoder, t, FALSE), v), b)
      BY <2>1, ReadStep, Zenon
    <3>5. ReadByte(enc, Rd(Hold(v), t, FALSE), b) = Rd(Hold(Append(v, b)), t, FALSE)
      BY <2>1, <3>1, WideByte
    <3> QED
      BY ONLY <3>3, <3>4, <3>5, Zenon
  <2>3. Append(v, b) \in Seq(Byte)
    BY <2>1
  <2> QED
    BY <2>2, <2>3, Zenon
<1> HIDE DEF K
<1>3. h \in K
  BY <1>1, <1>2, SequenceInduction
<1> QED
  BY <1>3, Zenon DEF K

LEMMA FrontFacts ==
  ASSUME NEW u \in Seq(Byte), u # <<>>
  PROVE  LET h == SubSeq(u, 1, Len(u) - 1)
             b == u[Len(u)]
         IN /\ h \in Seq(Byte) /\ b \in Byte /\ Append(h, b) = u
            /\ Len(u) \in Nat \ {0} /\ Len(h) = Len(u) - 1
            /\ h # <<>> => h[1] = u[1]
<1> DEFINE h == SubSeq(u, 1, Len(u) - 1)
           b == u[Len(u)]
<1>1. Len(u) \in Nat \ {0}
  OBVIOUS
<1>2. /\ h \in Seq(Byte) /\ b \in Byte /\ Len(h) = Len(u) - 1
      /\ \A i \in 1..Len(h) : h[i] = u[i]
  <2>1. 1 \in 1..(Len(u) + 1) /\ Len(u) - 1 \in (1 - 1)..Len(u)
    BY <1>1
  <2>2. /\ h \in Seq(Byte) /\ Len(h) = (Len(u) - 1) - 1 + 1
        /\ \A k \in 1..((Len(u) - 1) - 1 + 1) : h[k] = u[1 + k - 1]
    BY <2>1, Cut
  <2>3. b \in Byte
    BY <1>1
  <2> HIDE DEF h, b
  <2> QED
    BY <1>1, <2>2, <2>3
<1>3. Append(h, b) \in Seq(Byte) /\ Len(Append(h, b)) = Len(u)
  BY <1>1, <1>2
<1>4. \A i \in 1..Len(u) : Append(h, b)[i] = u[i]
  BY <1>1, <1>2
<1>5. Append(h, b) = u
  BY <1>3, <1>4, SeqEqual
<1>6. h # <<>> => h[1] = u[1]
  BY <1>2
<1> QED
  BY <1>1, <1>2, <1>5, <1>6

LEMMA WideUnit ==
  ASSUME NEW enc \in Wide, NEW t \in Text, NEW u \in Seq(Byte), u # <<>>,
         Len(u) = UnitWidth(enc, u[1])
  PROVE  \E d \in Decoder :
           ReadBytes(enc, Rd(FreshDecoder, t, FALSE), u) =
             IF Malformed(enc, u) THEN Rd(d, t, TRUE)
             ELSE Rd(FreshDecoder, t \o Utf8(u), FALSE)
<1> DEFINE h == SubSeq(u, 1, Len(u) - 1)
           b == u[Len(u)]
<1>1. /\ h \in Seq(Byte) /\ b \in Byte /\ Append(h, b) = u
      /\ Len(u) \in Nat \ {0} /\ Len(h) = Len(u) - 1
      /\ h # <<>> => h[1] = u[1]
  BY FrontFacts
<1> HIDE DEF h, b
<1>2. Partial(enc, h)
  BY <1>1 DEF Partial
<1>3. ReadBytes(enc, Rd(FreshDecoder, t, FALSE), h) = Rd(Hold(h), t, FALSE)
  BY <1>1, <1>2, WideHold
<1>4. ReadBytes(enc, Rd(FreshDecoder, t, FALSE), Append(h, b))
        = ReadByte(enc, ReadBytes(enc, Rd(FreshDecoder, t, FALSE), h), b)
  BY <1>1, ReadStep, Zenon
<1>5. LET v == Append(h, b) IN
      ReadByte(enc, Rd(Hold(h), t, FALSE), b) =
        IF Len(v) < UnitWidth(enc, v[1]) THEN Rd(Hold(v), t, FALSE)
        ELSE IF Malformed(enc, v) THEN Rd(Hold(h), t, TRUE)
        ELSE Rd(FreshDecoder, t \o Utf8(v), FALSE)
  BY <1>1, WideByte
<1>6. ~(Len(u) < UnitWidth(enc, u[1]))
  BY <1>1
<1>7. ReadBytes(enc, Rd(FreshDecoder, t, FALSE), u) =
        IF Malformed(enc, u) THEN Rd(Hold(h), t, TRUE)
        ELSE Rd(FreshDecoder, t \o Utf8(u), FALSE)
  BY ONLY <1>1, <1>3, <1>4, <1>5, <1>6, Zenon
<1> QED
  BY <1>1, <1>7, HoldFacts

\* Reading leaves a partial unit held, and the rest of the decoder fresh.
LEMMA WideState ==
  ASSUME NEW enc \in Wide, NEW s \in Seq(Byte)
  PROVE  \E h \in Seq(Byte), o \in Text, g \in BOOLEAN :
           ReadBytes(enc, FreshReader, s) = Rd(Hold(h), o, g) /\ Partial(enc, h)
<1> DEFINE P(v) == \E h \in Seq(Byte), o \in Text, g \in BOOLEAN :
                     ReadBytes(enc, FreshReader, v) = Rd(Hold(h), o, g) /\ Partial(enc, h)
           K == {v \in Seq(Byte) : P(v)}
<1>1. <<>> \in K
  <2>1. ReadBytes(enc, FreshReader, <<>>) = FreshReader
    BY ReadNothing, Zenon
  <2>2. /\ <<>> \in Seq(Byte) /\ Hold(<<>>) = FreshDecoder /\ <<>> \in Text
        /\ FreshReader = Rd(FreshDecoder, <<>>, FALSE) /\ Partial(enc, <<>>)
        /\ FALSE \in BOOLEAN
    BY HoldFacts, FreshType DEF Partial
  <2> QED
    BY <2>1, <2>2, Zenon
<1>2. ASSUME NEW v \in K \cap Seq(Byte), NEW b \in Byte
      PROVE  Append(v, b) \in K
  <2>1. PICK h \in Seq(Byte), o \in Text, g \in BOOLEAN :
          ReadBytes(enc, FreshReader, v) = Rd(Hold(h), o, g) /\ Partial(enc, h)
    BY <1>2, Zenon
  <2>2. v \in Seq(Byte) /\ Append(v, b) \in Seq(Byte)
    OBVIOUS
  <2>6. ReadBytes(enc, FreshReader, Append(v, b))
          = ReadByte(enc, ReadBytes(enc, FreshReader, v), b)
    BY <2>2, ReadStep, Zenon
  <2>3. ReadBytes(enc, FreshReader, Append(v, b)) = ReadByte(enc, Rd(Hold(h), o, g), b)
    BY ONLY <2>1, <2>6, Zenon
  <2> DEFINE u == Append(h, b)
  <2>4. CASE g
    <3>1. g = TRUE
      BY <2>4
    <3>2. ReadByte(enc, Rd(Hold(h), o, g), b) = Rd(Hold(h), o, g)
      BY <3>1, ByteAfterBad, Zenon
    <3> QED
      BY <2>1, <2>2, <2>3, <3>2, Zenon
  <2>5. CASE ~g
    <3>1. g = FALSE
      BY <2>5
    <3>2. ReadByte(enc, Rd(Hold(h), o, FALSE), b) =
            IF Len(u) < UnitWidth(enc, u[1]) THEN Rd(Hold(u), o, FALSE)
            ELSE IF Malformed(enc, u) THEN Rd(Hold(h), o, TRUE)
            ELSE Rd(FreshDecoder, o \o Utf8(u), FALSE)
      BY WideByte
    <3>3. ReadBytes(enc, FreshReader, Append(v, b)) = ReadByte(enc, Rd(Hold(h), o, FALSE), b)
      BY <2>3, <3>1, Zenon
    <3>4. /\ u \in Seq(Byte) /\ u # <<>> /\ <<>> \in Seq(Byte)
          /\ Hold(<<>>) = FreshDecoder /\ Partial(enc, <<>>)
          /\ TRUE \in BOOLEAN /\ FALSE \in BOOLEAN
      <4>1. u \in Seq(Byte) /\ u # <<>> /\ <<>> \in Seq(Byte)
        BY AppendFacts
      <4> HIDE DEF u
      <4>2. Hold(<<>>) = FreshDecoder /\ Partial(enc, <<>>)
        BY <4>1, HoldFacts DEF Partial
      <4> QED
        BY <4>1, <4>2
    <3>5. o \o Utf8(u) \in Text
      <4>1. Utf8(u) \in Text
        BY <3>4, Utf8Type
      <4> QED
        BY <4>1 DEF Text
    <3>6. CASE Len(u) < UnitWidth(enc, u[1])
      <4>1. ReadBytes(enc, FreshReader, Append(v, b)) = Rd(Hold(u), o, FALSE)
        BY <3>2, <3>3, <3>6, Zenon
      <4>2. Partial(enc, u)
        BY <3>6 DEF Partial
      <4> QED
        BY <2>2, <3>4, <4>1, <4>2, Zenon
    <3>7. CASE ~(Len(u) < UnitWidth(enc, u[1])) /\ Malformed(enc, u)
      <4>1. ReadBytes(enc, FreshReader, Append(v, b)) = Rd(Hold(h), o, TRUE)
        BY <3>2, <3>3, <3>7, Zenon
      <4> QED
        BY <2>1, <2>2, <3>4, <4>1, Zenon
    <3>8. CASE ~(Len(u) < UnitWidth(enc, u[1])) /\ ~Malformed(enc, u)
      <4>1. ReadBytes(enc, FreshReader, Append(v, b)) = Rd(FreshDecoder, o \o Utf8(u), FALSE)
        BY <3>2, <3>3, <3>8, Zenon
      <4> QED
        BY <2>2, <3>4, <3>5, <4>1, Zenon
    <3> QED
      BY <3>6, <3>7, <3>8
  <2> QED
    BY <2>4, <2>5
<1> HIDE DEF K
<1>3. s \in K
  BY <1>1, <1>2, SequenceInduction
<1> QED
  BY <1>3, Zenon DEF K
----------------------------------------------------------------------------
(* What DecodeUnits decodes, and what it leaves, is what a reading decodes *)
(* and holds.                                                              *)

Units == [out : Text, used : Nat, bad : BOOLEAN]
UnitsAt(f, enc, src, i) ==
  IF i = Len(src) \/ i + UnitWidth(enc, src[i + 1]) > Len(src)
  THEN [out |-> <<>>, used |-> i, bad |-> FALSE]
  ELSE LET unit == SubSeq(src, i + 1, i + UnitWidth(enc, src[i + 1]))
       IN IF Malformed(enc, unit)
          THEN [out |-> <<>>, used |-> i, bad |-> TRUE]
          ELSE [f[i + Len(unit)] EXCEPT !.out = Utf8(unit) \o @]
IsUnits(f, enc, src, a) == f = [i \in a..Len(src) |-> UnitsAt(f, enc, src, i)]

LEMMA CutUnit ==
  ASSUME NEW enc, NEW src \in Seq(Byte), NEW i \in 0..Len(src),
         ~(i = Len(src) \/ i + UnitWidth(enc, src[i + 1]) > Len(src))
  PROVE  LET w == UnitWidth(enc, src[i + 1])
             unit == SubSeq(src, i + 1, i + w)
         IN /\ w \in Nat \ {0} /\ i + w \in (i + 1)..Len(src)
            /\ unit \in Seq(Byte) /\ Len(unit) = w /\ unit # <<>> /\ unit[1] = src[i + 1]
<1> DEFINE w == UnitWidth(enc, src[i + 1])
           unit == SubSeq(src, i + 1, i + w)
<1>1. w \in {2, 4}
  BY Widths
<1> HIDE DEF w
<1>2. Len(src) \in Nat /\ i \in Nat /\ i # Len(src) /\ i + w <= Len(src)
  BY <1>1 DEF w
<1>3. i + 1 \in 1..(Len(src) + 1) /\ i + w \in ((i + 1) - 1)..Len(src)
  BY <1>1, <1>2
<1>4. /\ unit \in Seq(Byte) /\ Len(unit) = (i + w) - (i + 1) + 1
      /\ \A k \in 1..((i + w) - (i + 1) + 1) : unit[k] = src[(i + 1) + k - 1]
  BY <1>3, Cut
<1> HIDE DEF unit
<1>5. Len(unit) = w /\ unit[1] = src[i + 1] /\ unit # <<>>
  BY <1>1, <1>2, <1>4
<1>6. w \in Nat \ {0} /\ i + w \in (i + 1)..Len(src)
  BY <1>1, <1>2
<1>7. Len(unit) = w
  BY <1>5
<1> QED
  BY <1>4, <1>5, <1>6, <1>7, Zenon DEF w, unit

LEMMA UnitsExist ==
  ASSUME NEW enc, NEW src \in Seq(Byte)
  PROVE  \E f : IsUnits(f, enc, src, 0)
<1> DEFINE n == Len(src)
           A == {d \in 0..n : \E f : IsUnits(f, enc, src, n - d)}
<1>1. n \in Nat
  OBVIOUS
<1>2. 0 \in A
  <2> DEFINE e == [out |-> <<>>, used |-> n, bad |-> FALSE]
             f == [i \in n..n |-> e]
  <2>1. \A i \in n..n : UnitsAt(f, enc, src, i) = e
    <3>1. \A i \in n..n : i = n
      BY <1>1
    <3> QED
      BY <3>1 DEF UnitsAt
  <2> HIDE DEF e
  <2>2. f = [i \in n..n |-> UnitsAt(f, enc, src, i)]
    BY <2>1
  <2>3. \E g : IsUnits(g, enc, src, n)
    BY <2>2, Zenon DEF IsUnits
  <2>4. n - 0 = n /\ 0 \in 0..n
    BY <1>1
  <2> QED
    BY <2>3, <2>4, Zenon
<1>3. ASSUME NEW d \in 0..(n - 1), d \in A
      PROVE  d + 1 \in A
  <2> DEFINE b == n - d
             a == n - (d + 1)
  <2>1. a \in Nat /\ b = a + 1 /\ b \in Nat /\ b <= n /\ a < n /\ d + 1 \in 0..n
    BY <1>1
  <2>2. PICK p : IsUnits(p, enc, src, b)
    BY <1>3
  <2> HIDE DEF a, b, A, n
  <2> DEFINE r == [i \in a..n |-> IF i = a THEN UnitsAt(p, enc, src, a) ELSE p[i]]
  <2>3. ASSUME NEW i \in a..n
        PROVE  UnitsAt(r, enc, src, i) = UnitsAt(p, enc, src, i)
    <3>1. CASE i = Len(src) \/ i + UnitWidth(enc, src[i + 1]) > Len(src)
      BY <3>1, Zenon DEF UnitsAt
    <3>2. CASE ~(i = Len(src) \/ i + UnitWidth(enc, src[i + 1]) > Len(src))
      <4> DEFINE w == UnitWidth(enc, src[i + 1])
                 unit == SubSeq(src, i + 1, i + w)
      <4>1. i \in 0..Len(src)
        BY <1>1, <2>1 DEF n
      <4>2. w \in Nat \ {0} /\ i + w \in (i + 1)..Len(src) /\ Len(unit) = w
        BY <3>2, <4>1, CutUnit
      <4> HIDE DEF w, unit, r
      <4>3. i + Len(unit) \in a..n /\ i + Len(unit) # a
        BY <2>1, <4>1, <4>2 DEF n
      <4>4. r[i + Len(unit)] = p[i + Len(unit)]
        BY <4>3, Zenon DEF r
      <4>5. UnitsAt(r, enc, src, i) =
              IF Malformed(enc, unit) THEN [out |-> <<>>, used |-> i, bad |-> TRUE]
              ELSE [r[i + Len(unit)] EXCEPT !.out = Utf8(unit) \o @]
        BY <3>2, Zenon DEF UnitsAt, w, unit
      <4>6. UnitsAt(p, enc, src, i) =
              IF Malformed(enc, unit) THEN [out |-> <<>>, used |-> i, bad |-> TRUE]
              ELSE [p[i + Len(unit)] EXCEPT !.out = Utf8(unit) \o @]
        BY <3>2, Zenon DEF UnitsAt, w, unit
      <4> QED
        BY <4>4, <4>5, <4>6
    <3> QED
      BY <3>1, <3>2
  <2>4. ASSUME NEW i \in a..n
        PROVE  r[i] = UnitsAt(p, enc, src, i)
    <3>1. CASE i = a
      BY <3>1, Zenon
    <3>2. CASE i # a
      <4>1. i \in b..n
        BY <1>1, <2>1, <3>2
      <4>2. p[i] = UnitsAt(p, enc, src, i)
        BY <2>2, <4>1, Zenon DEF IsUnits, n
      <4> QED
        BY <3>2, <4>2, Zenon
    <3> QED
      BY <3>1, <3>2
  <2>5. \A i \in a..n : r[i] = UnitsAt(r, enc, src, i)
    <3> HIDE DEF r
    <3> QED
      BY <2>3, <2>4
  <2>6. r = [i \in a..n |-> r[i]]
    BY DEF r
  <2> HIDE DEF r
  <2>7. r = [i \in a..n |-> UnitsAt(r, enc, src, i)]
    BY <2>5, <2>6
  <2>8. \E f : IsUnits(f, enc, src, n - (d + 1))
    BY <2>7, Zenon DEF IsUnits, n, a
  <2> QED
    BY <2>1, <2>8, Zenon DEF A
<1> HIDE DEF A
<1>4. n \in A
  <2> HIDE DEF n
  <2> QED
    BY <1>1, <1>2, <1>3, Upward
<1>5. n - n = 0
  BY <1>1
<1>6. \E f : IsUnits(f, enc, src, n - n)
  BY <1>4, Zenon DEF A
<1> QED
  BY ONLY <1>5, <1>6, Zenon

LEMMA DecodeUnitsIs ==
  ASSUME NEW enc, NEW src \in Seq(Byte)
  PROVE  \E f : /\ \A i \in 0..Len(src) : f[i] = UnitsAt(f, enc, src, i)
                /\ DecodeUnits(enc, src) = f[0]
<1> DEFINE f == CHOOSE f : IsUnits(f, enc, src, 0)
<1>1. IsUnits(f, enc, src, 0)
  BY UnitsExist, Zenon
<1>2. DecodeUnits(enc, src) = f[0]
  BY Zenon DEF DecodeUnits, IsUnits, UnitsAt
<1> HIDE DEF f
<1>3. \A i \in 0..Len(src) : f[i] = UnitsAt(f, enc, src, i)
  BY <1>1, Zenon DEF IsUnits
<1> QED
  BY <1>2, <1>3

\* From position i on, for any text before it.
Reads(enc, src, i, x) ==
  /\ x \in Units /\ x.used \in i..Len(src)
  /\ \A t \in Text : \E d \in Decoder :
       ReadBytes(enc, Rd(FreshDecoder, t, FALSE), SubSeq(src, i + 1, Len(src))) =
         IF x.bad THEN Rd(d, t \o x.out, TRUE)
         ELSE Rd(Hold(SubSeq(src, x.used + 1, Len(src))), t \o x.out, FALSE)

LEMMA ReadsTail ==
  ASSUME NEW enc \in Wide, NEW src \in Seq(Byte), NEW i \in 0..Len(src),
         i = Len(src) \/ i + UnitWidth(enc, src[i + 1]) > Len(src)
  PROVE  Reads(enc, src, i, [out |-> <<>>, used |-> i, bad |-> FALSE])
<1> DEFINE s == SubSeq(src, i + 1, Len(src))
           x == [out |-> <<>>, used |-> i, bad |-> FALSE]
<1>1. Len(src) \in Nat /\ i \in Nat /\ i + 1 \in 1..(Len(src) + 1)
      /\ Len(src) \in ((i + 1) - 1)..Len(src)
  OBVIOUS
<1>2. /\ s \in Seq(Byte) /\ Len(s) = Len(src) - (i + 1) + 1
      /\ \A k \in 1..(Len(src) - (i + 1) + 1) : s[k] = src[(i + 1) + k - 1]
  BY <1>1, Cut
<1> HIDE DEF s
<1>3. Partial(enc, s)
  <2>1. CASE i = Len(src)
    <3>1. s = <<>>
      BY <1>1, <1>2, <2>1
    <3> QED
      BY <3>1 DEF Partial
  <2>2. CASE i # Len(src)
    <3>1. s[1] = src[i + 1] /\ Len(s) = Len(src) - i
      BY <1>1, <1>2, <2>2
    <3>2. UnitWidth(enc, src[i + 1]) \in {2, 4}
      BY Widths
    <3> QED
      BY <1>1, <2>2, <3>1, <3>2 DEF Partial
  <2> QED
    BY <2>1, <2>2
<1>4. x \in Units /\ x.used = i /\ x.out = <<>> /\ x.bad = FALSE
  BY <1>1, FreshType DEF Units
<1>5. ASSUME NEW t \in Text
      PROVE  ReadBytes(enc, Rd(FreshDecoder, t, FALSE), s) = Rd(Hold(s), t \o <<>>, FALSE)
  <2>1. t \o <<>> = t
    BY DEF Text
  <2>2. ReadBytes(enc, Rd(FreshDecoder, t, FALSE), s) = Rd(Hold(s), t, FALSE)
    BY <1>2, <1>3, WideHold
  <2> QED
    BY <2>1, <2>2, Zenon
<1>6. FreshDecoder \in Decoder
  BY FreshType
<1>7. x.used \in i..Len(src)
  BY <1>1, <1>4
<1> HIDE DEF x
<1>8. Reads(enc, src, i, x)
  BY <1>4, <1>5, <1>6, <1>7, Zenon DEF Reads, s
<1> QED
  BY <1>8 DEF x

LEMMA CutRest ==
  ASSUME NEW src \in Seq(Byte), NEW i \in 0..Len(src), NEW j \in i..Len(src)
  PROVE  /\ SubSeq(src, i + 1, j) \in Seq(Byte) /\ SubSeq(src, j + 1, Len(src)) \in Seq(Byte)
         /\ SubSeq(src, i + 1, Len(src))
              = SubSeq(src, i + 1, j) \o SubSeq(src, j + 1, Len(src))
<1> DEFINE x == SubSeq(src, i + 1, j)
           y == SubSeq(src, j + 1, Len(src))
           z == SubSeq(src, i + 1, Len(src))
           n == Len(src)
<1>1. /\ n \in Nat /\ i \in Nat /\ j \in Nat /\ i <= j /\ j <= n
      /\ i + 1 \in 1..(n + 1) /\ j \in ((i + 1) - 1)..n
      /\ n \in ((i + 1) - 1)..n /\ j + 1 \in 1..(n + 1) /\ n \in ((j + 1) - 1)..n
  OBVIOUS
<1>2. /\ x \in Seq(Byte) /\ Len(x) = j - (i + 1) + 1
      /\ \A k \in 1..(j - (i + 1) + 1) : x[k] = src[(i + 1) + k - 1]
  BY <1>1, Cut
<1>3. /\ y \in Seq(Byte) /\ Len(y) = n - (j + 1) + 1
      /\ \A k \in 1..(n - (j + 1) + 1) : y[k] = src[(j + 1) + k - 1]
  BY <1>1, Cut
<1>4. /\ z \in Seq(Byte) /\ Len(z) = n - (i + 1) + 1
      /\ \A k \in 1..(n - (i + 1) + 1) : z[k] = src[(i + 1) + k - 1]
  BY <1>1, Cut
<1> HIDE DEF x, y, z, n
<1>5. /\ x \o y \in Seq(Byte) /\ Len(x \o y) = Len(x) + Len(y)
      /\ \A k \in 1..(Len(x) + Len(y)) :
           (x \o y)[k] = IF k <= Len(x) THEN x[k] ELSE y[k - Len(x)]
  BY <1>2, <1>3, Joined
<1>6. Len(x \o y) = Len(z)
  BY <1>1, <1>2, <1>3, <1>4, <1>5
<1>7. ASSUME NEW k \in 1..Len(z)
      PROVE  z[k] = (x \o y)[k]
  <2>0. Len(x) = j - i /\ Len(y) = n - j /\ Len(z) = n - i /\ k \in 1..(n - i)
    BY <1>1, <1>2, <1>3, <1>4
  <2>1. z[k] = src[i + k]
    <3>1. k \in 1..(n - (i + 1) + 1) /\ (i + 1) + k - 1 = i + k
      BY <1>1, <2>0
    <3> QED
      BY <1>4, <3>1
  <2>2. CASE k <= Len(x)
    <3>1. k \in 1..(j - (i + 1) + 1) /\ (i + 1) + k - 1 = i + k
      BY <1>1, <2>0, <2>2
    <3>2. x[k] = src[i + k]
      BY <1>2, <3>1
    <3> QED
      BY <1>1, <1>5, <2>0, <2>1, <2>2, <3>2
  <2>3. CASE ~(k <= Len(x))
    <3>1. k - Len(x) \in 1..(n - (j + 1) + 1) /\ (j + 1) + (k - Len(x)) - 1 = i + k
      BY <1>1, <2>0, <2>3
    <3>2. y[k - Len(x)] = src[i + k]
      BY <1>3, <3>1
    <3> QED
      BY <1>1, <1>5, <2>0, <2>1, <2>3, <3>2
  <2> QED
    BY <2>2, <2>3
<1>8. z = x \o y
  BY <1>4, <1>5, <1>6, <1>7, SeqEqual
<1> QED
  BY <1>2, <1>3, <1>8 DEF x, y, z, n

LEMMA ReadsUnit ==
  ASSUME NEW enc \in Wide, NEW src \in Seq(Byte), NEW i \in 0..Len(src),
         ~(i = Len(src) \/ i + UnitWidth(enc, src[i + 1]) > Len(src)),
         NEW unit, unit = SubSeq(src, i + 1, i + UnitWidth(enc, src[i + 1])),
         NEW x, ~Malformed(enc, unit) => Reads(enc, src, i + Len(unit), x)
  PROVE  Reads(enc, src, i, IF Malformed(enc, unit)
                            THEN [out |-> <<>>, used |-> i, bad |-> TRUE]
                            ELSE [x EXCEPT !.out = Utf8(unit) \o @])
<1> DEFINE w == UnitWidth(enc, src[i + 1])
           n == Len(src)
           s == SubSeq(src, i + 1, n)
           rest == SubSeq(src, (i + w) + 1, n)
<1>1. /\ w \in Nat \ {0} /\ i + w \in (i + 1)..n
      /\ unit \in Seq(Byte) /\ Len(unit) = w /\ unit # <<>> /\ unit[1] = src[i + 1]
  BY CutUnit
<1>2. n \in Nat /\ i \in Nat /\ i + w \in i..n /\ i \in i..n
  <2> HIDE DEF w
  <2>1. n \in Nat /\ i \in Nat
    OBVIOUS
  <2> QED
    BY <1>1, <2>1
<1>3. rest \in Seq(Byte) /\ s = unit \o rest
  <2> HIDE DEF w
  <2>1. rest \in Seq(Byte) /\ s = SubSeq(src, i + 1, i + w) \o rest
    BY <1>2, CutRest
  <2>2. unit = SubSeq(src, i + 1, i + w)
    BY DEF w
  <2> QED
    BY ONLY <2>1, <2>2, Zenon
<1> HIDE DEF s, rest
<1>4. \A t \in Text : ReadBytes(enc, Rd(FreshDecoder, t, FALSE), s)
                        = ReadBytes(enc, ReadBytes(enc, Rd(FreshDecoder, t, FALSE), unit), rest)
  <2>1. ASSUME NEW t \in Text
        PROVE  ReadBytes(enc, Rd(FreshDecoder, t, FALSE), unit \o rest)
                 = ReadBytes(enc, ReadBytes(enc, Rd(FreshDecoder, t, FALSE), unit), rest)
    <3>1. unit \in Seq(Byte) /\ rest \in Seq(Byte)
      BY <1>1, <1>3
    <3>2. \A r : ReadBytes(enc, r, unit \o rest) = ReadBytes(enc, ReadBytes(enc, r, unit), rest)
      BY ONLY <3>1, ReadConcat
    <3> QED
      BY ONLY <3>2, Zenon
  <2> QED
    BY ONLY <1>3, <2>1, Zenon
<1>5. \A t \in Text : \E d \in Decoder :
        ReadBytes(enc, Rd(FreshDecoder, t, FALSE), unit) =
          IF Malformed(enc, unit) THEN Rd(d, t, TRUE)
          ELSE Rd(FreshDecoder, t \o Utf8(unit), FALSE)
  BY <1>1, WideUnit
<1>6. CASE Malformed(enc, unit)
  <2> DEFINE y == [out |-> <<>>, used |-> i, bad |-> TRUE]
  <2>1. y \in Units /\ y.used \in i..n /\ y.out = <<>> /\ y.bad = TRUE
    BY <1>2, FreshType DEF Units
  <2>2. ASSUME NEW t \in Text
        PROVE  \E d \in Decoder :
                 ReadBytes(enc, Rd(FreshDecoder, t, FALSE), s) = Rd(d, t \o <<>>, TRUE)
    <3>1. PICK d \in Decoder : ReadBytes(enc, Rd(FreshDecoder, t, FALSE), unit) = Rd(d, t, TRUE)
      BY <1>5, <1>6, Zenon
    <3>2. ReadBytes(enc, Rd(d, t, TRUE), rest) = Rd(d, t, TRUE)
      BY <1>3, ReadBad
    <3>3. t \o <<>> = t
      BY DEF Text
    <3>4. ReadBytes(enc, Rd(FreshDecoder, t, FALSE), s) = Rd(d, t \o <<>>, TRUE)
      BY <1>4, <3>1, <3>2, <3>3, Zenon
    <3> QED
      BY <3>4, Zenon
  <2> HIDE DEF y
  <2>3. Reads(enc, src, i, y)
    BY <2>1, <2>2, Zenon DEF Reads, s, n
  <2> QED
    BY <1>6, <2>3, Zenon DEF y
<1>7. CASE ~Malformed(enc, unit)
  <2> DEFINE u == Utf8(unit)
             y == [x EXCEPT !.out = u \o @]
  <2>1. /\ x \in Units /\ x.used \in (i + w)..n
        /\ \A t \in Text : \E d \in Decoder :
             ReadBytes(enc, Rd(FreshDecoder, t, FALSE), rest) =
               IF x.bad THEN Rd(d, t \o x.out, TRUE)
               ELSE Rd(Hold(SubSeq(src, x.used + 1, n)), t \o x.out, FALSE)
    BY <1>1, <1>7, Zenon DEF Reads, rest, n
  <2>2. u \in Text /\ x.out \in Text
    BY <1>1, <2>1, Utf8Type DEF Units
  <2> HIDE DEF u
  <2>3. /\ y \in Units /\ y.used = x.used /\ y.bad = x.bad /\ y.out = u \o x.out
        /\ u \o x.out \in Text
    <3>1. u \o x.out \in Text
      BY <2>2, TextThrice, Zenon
    <3> DEFINE v == u \o x.out
    <3>2. y = [x EXCEPT !.out = v] /\ x \in Units
      BY <2>1, Zenon
    <3> HIDE DEF v, y
    <3>3. v \in Text
      BY <3>1, Zenon DEF v
    <3>4. y \in Units /\ y.used = x.used /\ y.bad = x.bad /\ y.out = v
      BY <3>2, <3>3 DEF Units
    <3> QED
      BY <3>1, <3>4, Zenon DEF v
  <2> HIDE DEF y
  <2>4. ASSUME NEW t \in Text
        PROVE  \E d \in Decoder :
                 ReadBytes(enc, Rd(FreshDecoder, t, FALSE), s) =
                   IF x.bad THEN Rd(d, t \o (u \o x.out), TRUE)
                   ELSE Rd(Hold(SubSeq(src, x.used + 1, n)), t \o (u \o x.out), FALSE)
    <3>1. ReadBytes(enc, Rd(FreshDecoder, t, FALSE), unit) = Rd(FreshDecoder, t \o u, FALSE)
      BY <1>5, <1>7, Zenon DEF u
    <3>2. t \o u \in Text /\ (t \o u) \o x.out = t \o (u \o x.out)
      BY <2>2, TextThrice, Zenon
    <3>3. \E d \in Decoder :
            ReadBytes(enc, Rd(FreshDecoder, t \o u, FALSE), rest) =
              IF x.bad THEN Rd(d, (t \o u) \o x.out, TRUE)
              ELSE Rd(Hold(SubSeq(src, x.used + 1, n)), (t \o u) \o x.out, FALSE)
      BY <2>1, <3>2, Zenon
    <3>4. ReadBytes(enc, Rd(FreshDecoder, t, FALSE), s)
            = ReadBytes(enc, Rd(FreshDecoder, t \o u, FALSE), rest)
      BY <1>4, <3>1, Zenon
    <3> QED
      BY ONLY <3>2, <3>3, <3>4, Zenon
  <2>5. y.used \in i..n
    <3> HIDE DEF w, n
    <3> QED
      BY <1>1, <1>2, <2>1, <2>3
  <2>6. Reads(enc, src, i, y)
    BY <2>3, <2>4, <2>5, Zenon DEF Reads, s, n
  <2> QED
    BY <1>7, <2>6, Zenon DEF y, u
<1> QED
  BY <1>6, <1>7

LEMMA DecodeUnitsReads ==
  ASSUME NEW enc \in Wide, NEW src \in Seq(Byte)
  PROVE  Reads(enc, src, 0, DecodeUnits(enc, src))
<1>1. PICK f : /\ \A i \in 0..Len(src) : f[i] = UnitsAt(f, enc, src, i)
               /\ DecodeUnits(enc, src) = f[0]
  BY DecodeUnitsIs
<1> DEFINE n == Len(src)
           A == {d \in 0..n : \A e \in 0..d : Reads(enc, src, n - e, f[n - e])}
<1>2. n \in Nat
  OBVIOUS
<1>3. ASSUME NEW i \in 0..n, \A j \in (i + 1)..n : Reads(enc, src, j, f[j])
      PROVE  Reads(enc, src, i, f[i])
  <2>1. f[i] = UnitsAt(f, enc, src, i)
    BY <1>1
  <2>2. CASE i = Len(src) \/ i + UnitWidth(enc, src[i + 1]) > Len(src)
    <3>1. f[i] = [out |-> <<>>, used |-> i, bad |-> FALSE]
      BY <2>1, <2>2, Zenon DEF UnitsAt
    <3>2. Reads(enc, src, i, [out |-> <<>>, used |-> i, bad |-> FALSE])
      BY <2>2, ReadsTail
    <3> QED
      BY <3>1, <3>2, Zenon
  <2>3. CASE ~(i = Len(src) \/ i + UnitWidth(enc, src[i + 1]) > Len(src))
    <3>1. PICK unit : unit = SubSeq(src, i + 1, i + UnitWidth(enc, src[i + 1]))
      BY Zenon
    <3>2. i + Len(unit) \in (i + 1)..n
      <4>1. i + UnitWidth(enc, src[i + 1]) \in (i + 1)..Len(src)
            /\ Len(unit) = UnitWidth(enc, src[i + 1])
        BY <2>3, <3>1, CutUnit
      <4> QED
        BY <4>1
    <3>3. PICK x : x = f[i + Len(unit)]
      BY Zenon
    <3>4. Reads(enc, src, i + Len(unit), x)
      BY <1>3, <3>2, <3>3
    <3>5. f[i] = IF Malformed(enc, unit) THEN [out |-> <<>>, used |-> i, bad |-> TRUE]
                 ELSE [x EXCEPT !.out = Utf8(unit) \o @]
      BY <2>1, <2>3, <3>1, <3>3 DEF UnitsAt
    <3>6. Reads(enc, src, i, IF Malformed(enc, unit)
                             THEN [out |-> <<>>, used |-> i, bad |-> TRUE]
                             ELSE [x EXCEPT !.out = Utf8(unit) \o @])
      BY <2>3, <3>1, <3>4, ReadsUnit
    <3> QED
      BY ONLY <3>5, <3>6, Zenon
  <2> QED
    BY <2>2, <2>3
<1>4. ASSUME NEW d \in 0..n, \A e \in 0..(d - 1) : Reads(enc, src, n - e, f[n - e])
      PROVE  Reads(enc, src, n - d, f[n - d])
  <2>1. n - d \in 0..n
    BY <1>2
  <2>2. ASSUME NEW j \in ((n - d) + 1)..n
        PROVE  Reads(enc, src, j, f[j])
    <3>1. n - j \in 0..(d - 1) /\ n - (n - j) = j
      BY <1>2
    <3> QED
      BY <1>4, <3>1
  <2> QED
    BY <1>3, <2>1, <2>2
<1>5. 0 \in A
  <2>1. Reads(enc, src, n - 0, f[n - 0])
    BY <1>2, <1>4
  <2> QED
    BY <1>2, <2>1
<1>6. ASSUME NEW d \in 0..(n - 1), d \in A
      PROVE  d + 1 \in A
  <2>1. \A e \in 0..((d + 1) - 1) : Reads(enc, src, n - e, f[n - e])
    BY <1>6
  <2>2. d + 1 \in 0..n
    BY <1>2
  <2>3. Reads(enc, src, n - (d + 1), f[n - (d + 1)])
    BY <1>4, <2>1, <2>2
  <2>4. \A e \in 0..(d + 1) : e = d + 1 \/ e \in 0..((d + 1) - 1)
    BY <1>2
  <2>5. \A e \in 0..(d + 1) : Reads(enc, src, n - e, f[n - e])
    BY <2>1, <2>3, <2>4
  <2> QED
    BY <2>2, <2>5
<1> HIDE DEF A
<1>7. n \in A
  BY <1>2, <1>5, <1>6, Upward
<1>8. n \in 0..n /\ n - n = 0
  BY <1>2
<1>9. Reads(enc, src, n - n, f[n - n])
  BY <1>7, <1>8 DEF A
<1> QED
  BY <1>1, <1>8, <1>9, Zenon
----------------------------------------------------------------------------
(* One more chunk, for each kind of encoding.                              *)

LEMMA RdIs ==
  ASSUME NEW d, NEW t, NEW g
  PROVE  Rd(d, t, g).dec = d /\ Rd(d, t, g).out = t /\ Rd(d, t, g).bad = g
BY DEF Rd

LEMMA ReadOn ==
  ASSUME NEW enc, NEW s \in Seq(Byte), NEW b \in Seq(Byte)
  PROVE  ReadBytes(enc, FreshReader, s \o b) = ReadBytes(enc, ReadBytes(enc, FreshReader, s), b)
<1>1. \A r : ReadBytes(enc, r, s \o b) = ReadBytes(enc, ReadBytes(enc, r, s), b)
  BY ReadConcat
<1> QED
  BY <1>1, Zenon

WideSteps(r0, p, u, r1) ==
  /\ p \in Seq(Byte) /\ u \in Units /\ u.used \in 0..Len(p)
  /\ r1.bad = u.bad /\ r1.out = r0.out \o u.out
  /\ ~u.bad => r1.dec.held = SubSeq(p, u.used + 1, Len(p))

LEMMA WideStep ==
  ASSUME NEW enc \in Wide, NEW s \in Seq(Byte), NEW b \in Seq(Byte),
         ~ReadBytes(enc, FreshReader, s).bad
  PROVE  LET r0 == ReadBytes(enc, FreshReader, s)
             p == r0.dec.held \o b
         IN WideSteps(r0, p, DecodeUnits(enc, p), ReadBytes(enc, FreshReader, s \o b))
<1> DEFINE r0 == ReadBytes(enc, FreshReader, s)
           p == r0.dec.held \o b
           u == DecodeUnits(enc, p)
           r1 == ReadBytes(enc, FreshReader, s \o b)
<1>a. r0 = ReadBytes(enc, FreshReader, s) /\ r1 = ReadBytes(enc, FreshReader, s \o b) /\ ~r0.bad
  OBVIOUS
<1>b. p = r0.dec.held \o b
  OBVIOUS
<1>c. u = DecodeUnits(enc, p)
  OBVIOUS
<1> HIDE DEF r0, p, u, r1
<1>d. SUFFICES WideSteps(r0, p, u, r1)
  BY Zenon DEF r0, p, u, r1
<1>1. PICK h \in Seq(Byte), o \in Text, g \in BOOLEAN : r0 = Rd(Hold(h), o, g) /\ Partial(enc, h)
  BY <1>a, WideState, Zenon
<1>2. r0.bad = g /\ r0.out = o /\ r0.dec = Hold(h) /\ Hold(h).held = h
  BY <1>1, RdIs, HoldFacts
<1>3. r0 = Rd(Hold(h), o, FALSE)
  <2>1. g = FALSE
    BY <1>2, <1>a
  <2> QED
    BY <1>1, <2>1, Zenon
<1>4. p = h \o b /\ p \in Seq(Byte)
  <2>1. p = h \o b
    BY ONLY <1>2, <1>b, Zenon
  <2> QED
    BY <2>1
<1>5. r0 = ReadBytes(enc, Rd(FreshDecoder, o, FALSE), h)
  BY <1>1, <1>3, WideHold
<1>6. r1 = ReadBytes(enc, ReadBytes(enc, Rd(FreshDecoder, o, FALSE), h), b)
  <2>1. ReadBytes(enc, FreshReader, s \o b) = ReadBytes(enc, ReadBytes(enc, FreshReader, s), b)
    BY ReadOn
  <2> QED
    BY <1>5, <1>a, <2>1, Zenon
<1>7. \A r : ReadBytes(enc, r, h \o b) = ReadBytes(enc, ReadBytes(enc, r, h), b)
  BY ReadConcat
<1>8. r1 = ReadBytes(enc, Rd(FreshDecoder, o, FALSE), p)
  BY ONLY <1>4, <1>6, <1>7, Zenon
<1>9. Reads(enc, p, 0, u)
  BY <1>4, <1>c, DecodeUnitsReads
<1>10. SubSeq(p, 0 + 1, Len(p)) = p
  BY <1>4
<1>11. PICK d \in Decoder :
         ReadBytes(enc, Rd(FreshDecoder, o, FALSE), SubSeq(p, 0 + 1, Len(p))) =
           IF u.bad THEN Rd(d, o \o u.out, TRUE)
           ELSE Rd(Hold(SubSeq(p, u.used + 1, Len(p))), o \o u.out, FALSE)
  BY <1>9, Zenon DEF Reads
<1>12. r1 = IF u.bad THEN Rd(d, o \o u.out, TRUE)
            ELSE Rd(Hold(SubSeq(p, u.used + 1, Len(p))), o \o u.out, FALSE)
  BY ONLY <1>8, <1>10, <1>11, Zenon
<1>13. u \in Units /\ u.used \in 0..Len(p) /\ u.bad \in BOOLEAN
  <2>1. u \in Units /\ u.used \in 0..Len(p)
    BY <1>9, Zenon DEF Reads
  <2> QED
    BY <2>1 DEF Units
<1> DEFINE q == SubSeq(p, u.used + 1, Len(p))
           v == o \o u.out
<1>14. CASE u.bad
  <2>1. r1 = Rd(d, v, TRUE)
    BY <1>12, <1>14, Zenon
  <2>2. r1.bad = TRUE /\ r1.out = v
    <3> HIDE DEF v
    <3> QED
      BY <2>1 DEF Rd
  <2>3. u.bad = TRUE
    BY <1>13, <1>14
  <2> QED
    BY ONLY <1>2, <1>4, <1>13, <1>14, <2>2, <2>3, Zenon DEF WideSteps
<1>15. CASE ~u.bad
  <2>1. r1 = Rd(Hold(q), v, FALSE)
    BY <1>12, <1>15, Zenon
  <2>2. r1.bad = FALSE /\ r1.out = v /\ r1.dec = Hold(q)
    <3> HIDE DEF v, q
    <3> QED
      BY <2>1 DEF Rd
  <2>3. u.bad = FALSE
    BY <1>13, <1>15
  <2>4. q \in Seq(Byte)
    <3>1. 0 \in 0..Len(p) /\ u.used \in 0..Len(p)
      BY <1>4, <1>13
    <3> QED
      BY <1>4, <3>1, CutRest
  <2>5. Hold(q).held = q
    <3> HIDE DEF q
    <3> QED
      BY <2>4, HoldFacts
  <2> QED
    BY ONLY <1>2, <1>4, <1>13, <1>15, <2>2, <2>3, <2>5, Zenon DEF WideSteps
<1> QED
  BY <1>14, <1>15

LEMMA WideFirst ==
  ASSUME NEW enc \in Wide, NEW s \in Seq(Byte)
  PROVE  WideSteps(FreshReader, s, DecodeUnits(enc, s), ReadBytes(enc, FreshReader, s))
<1>1. <<>> \in Seq(Byte) /\ <<>> \o s = s
  OBVIOUS
<1>2. ReadBytes(enc, FreshReader, <<>>) = FreshReader
  BY ReadNothing
<1>3. FreshReader.bad = FALSE /\ FreshReader.dec.held = <<>>
  BY DEF FreshReader, FreshDecoder
<1>4. ~ReadBytes(enc, FreshReader, <<>>).bad
  BY <1>2, <1>3
<1> DEFINE r0 == ReadBytes(enc, FreshReader, <<>>)
           p == r0.dec.held \o s
<1>5. WideSteps(r0, p, DecodeUnits(enc, p), ReadBytes(enc, FreshReader, <<>> \o s))
  BY ONLY <1>1, <1>4, enc \in Wide, s \in Seq(Byte), WideStep
<1> QED
  BY ONLY <1>1, <1>2, <1>3, <1>5, Zenon

LEMMA TableStep ==
  ASSUME NEW enc \in Tables, NEW s \in Seq(Byte), NEW b \in Seq(Byte)
  PROVE  /\ ByteWise(enc, b) \in Text
         /\ ReadBytes(enc, FreshReader, s) = Rd(FreshDecoder, ByteWise(enc, s), FALSE)
         /\ ReadBytes(enc, FreshReader, s \o b)
              = Rd(FreshDecoder, ByteWise(enc, s) \o ByteWise(enc, b), FALSE)
<1>1. FreshReader = Rd(FreshDecoder, <<>>, FALSE) /\ <<>> \in Text
  BY FreshType
<1>2. /\ ByteWise(enc, s) \in Text
      /\ ReadBytes(enc, Rd(FreshDecoder, <<>>, FALSE), s)
           = Rd(FreshDecoder, <<>> \o ByteWise(enc, s), FALSE)
  BY <1>1, ReadByteWise
<1>3. <<>> \o ByteWise(enc, s) = ByteWise(enc, s)
  BY <1>2 DEF Text
<1>4. ReadBytes(enc, FreshReader, s) = Rd(FreshDecoder, ByteWise(enc, s), FALSE)
  BY ONLY <1>1, <1>2, <1>3, Zenon
<1>5. /\ ByteWise(enc, b) \in Text
      /\ ReadBytes(enc, Rd(FreshDecoder, ByteWise(enc, s), FALSE), b)
           = Rd(FreshDecoder, ByteWise(enc, s) \o ByteWise(enc, b), FALSE)
  BY <1>2, ReadByteWise
<1>6. ReadBytes(enc, FreshReader, s \o b) = ReadBytes(enc, ReadBytes(enc, FreshReader, s), b)
  BY ReadOn
<1> QED
  BY ONLY <1>4, <1>5, <1>6, Zenon

LEMMA StatefulByteDecoder ==
  ASSUME NEW x \in Reader, NEW b \in Byte
  PROVE  ReadByte("stateful", x, b).dec.finished = x.dec.finished
<1>1. x.dec \in Decoder /\ x.out \in Text /\ x.bad \in BOOLEAN /\ x = Rd(x.dec, x.out, x.bad)
  BY ReaderFields
<1> DEFINE d == x.dec
           t == x.out
<1>2. CASE x.bad
  <2>1. x.bad = TRUE
    BY <1>1, <1>2
  <2>2. ReadByte("stateful", x, b) = x
    BY ONLY <1>1, <2>1, ByteAfterBad, ZenonT(30)
  <2> QED
    BY <2>2
<1>3. CASE ~x.bad
  <2>1. x = Rd(d, t, FALSE)
    BY <1>1, <1>3
  <2>2. ReadByte("stateful", Rd(d, t, FALSE), b) =
           IF d.held # <<>>
           THEN IF b \in {"61", "A0"}
                THEN Rd([d EXCEPT !.held = <<>>], t \o Utf8(Append(d.held, b)), FALSE)
                ELSE Rd(d, t, TRUE)
           ELSE IF b = "1B" THEN Rd([d EXCEPT !.shift = ~d.shift], t, FALSE)
           ELSE IF d.shift \/ b = "82" THEN Rd([d EXCEPT !.held = <<b>>], t, FALSE)
           ELSE IF b \in ASCII THEN Rd(d, t \o Utf8(<<b>>), FALSE)
           ELSE Rd(d, t, TRUE)
    BY <1>1, ByteOfStateful
  <2>3. \A h : [d EXCEPT !.held = h].finished = d.finished
    BY <1>1 DEF Decoder
  <2>4. [d EXCEPT !.shift = ~d.shift].finished = d.finished
    BY <1>1 DEF Decoder
  <2> HIDE DEF d, t
  <2>5. \E e, v, g : ReadByte("stateful", Rd(d, t, FALSE), b) = Rd(e, v, g)
                     /\ e.finished = d.finished
    <3>1. CASE d.held # <<>>
      BY ONLY <2>2, <2>3, <3>1, Zenon
    <3>2. CASE d.held = <<>>
      <4>1. CASE b = "1B"
        BY ONLY <2>2, <2>4, <3>2, <4>1, Zenon
      <4>2. CASE b # "1B" /\ (d.shift \/ b = "82")
        BY ONLY <2>2, <2>3, <3>2, <4>2, ZenonT(30)
      <4>3. CASE b # "1B" /\ ~(d.shift \/ b = "82")
        BY ONLY <2>2, <3>2, <4>3, Zenon
      <4> QED
        BY <4>1, <4>2, <4>3
    <3> QED
      BY <3>1, <3>2
  <2>6. PICK e, v, g : ReadByte("stateful", x, b) = Rd(e, v, g)
                       /\ e.finished = d.finished
    BY ONLY <2>1, <2>5, Zenon
  <2>7. ReadByte("stateful", x, b).dec = e
    BY <2>6, RdIs
  <2> QED
    BY <2>6, <2>7 DEF d
<1> QED
  BY <1>2, <1>3

LEMMA StatefulReader ==
  ASSUME NEW s \in Seq(Byte)
  PROVE  /\ ReadBytes("stateful", FreshReader, s) \in Reader
         /\ ReadBytes("stateful", FreshReader, s).dec.finished = FALSE
<1> DEFINE K == {v \in Seq(Byte) : /\ ReadBytes("stateful", FreshReader, v) \in Reader
                                   /\ ReadBytes("stateful", FreshReader, v).dec.finished = FALSE}
<1>0. \A v \in Seq(Byte) : ReadBytes("stateful", FreshReader, v) \in Reader
  <2>1. "stateful" \in Code \ {"none"} /\ FreshReader \in Reader
    BY FreshType DEF Code
  <2> QED
    BY <2>1, ReadingGrows
<1>1. <<>> \in K
  <2>1. ReadBytes("stateful", FreshReader, <<>>) = FreshReader
    BY ReadNothing, Zenon
  <2>2. FreshReader.dec.finished = FALSE /\ <<>> \in Seq(Byte)
    BY DEF FreshReader, FreshDecoder
  <2> QED
    BY <1>0, <2>1, <2>2
<1>2. ASSUME NEW v \in K \cap Seq(Byte), NEW b \in Byte
      PROVE  Append(v, b) \in K
  <2> DEFINE x == ReadBytes("stateful", FreshReader, v)
  <2>1. v \in Seq(Byte) /\ Append(v, b) \in Seq(Byte)
    OBVIOUS
  <2>2. x \in Reader /\ x.dec.finished = FALSE
    BY <1>2
  <2>3. ReadBytes("stateful", FreshReader, Append(v, b)) = ReadByte("stateful", x, b)
    BY <2>1, ReadStep, Zenon
  <2> HIDE DEF x
  <2>4. ReadByte("stateful", x, b).dec.finished = FALSE
    BY <2>2, StatefulByteDecoder
  <2> QED
    BY <1>0, <2>1, <2>3, <2>4
<1> HIDE DEF K
<1>3. s \in K
  BY <1>1, <1>2, SequenceInduction
<1> QED
  BY <1>3, Zenon DEF K

\* The persistent decoder goes on where it was, whether or not it was flushed.
StatefulSteps(d, b, last, r0, q, r1) ==
  /\ q.dec \in Decoder /\ q.out \in Text
  /\ q.invalid = r1.bad /\ q.truncated \in BOOLEAN
  /\ r1.out = r0.out \o q.out
  /\ q.dec.finished => last
  /\ ~r1.bad => /\ [q.dec EXCEPT !.finished = FALSE] = r1.dec
                /\ d.finished => r1 = r0 /\ ~q.truncated
                /\ ~d.finished => q.truncated = (last /\ r1.dec.held # <<>>)

LEMMA StatefulStep ==
  ASSUME NEW s \in Seq(Byte), NEW b \in Seq(Byte), NEW last \in BOOLEAN,
         ~ReadBytes("stateful", FreshReader, s).bad,
         NEW d \in Decoder,
         [d EXCEPT !.finished = FALSE] = ReadBytes("stateful", FreshReader, s).dec,
         d.finished => last /\ b = <<>>
  PROVE  StatefulSteps(d, b, last, ReadBytes("stateful", FreshReader, s),
                       RegistryDecode(d, b, last), ReadBytes("stateful", FreshReader, s \o b))
<1> DEFINE r0 == ReadBytes("stateful", FreshReader, s)
           q == RegistryDecode(d, b, last)
           r1 == ReadBytes("stateful", FreshReader, s \o b)
<1>a. r0 = ReadBytes("stateful", FreshReader, s) /\ r1 = ReadBytes("stateful", FreshReader, s \o b)
  OBVIOUS
<1>b. ~r0.bad /\ [d EXCEPT !.finished = FALSE] = r0.dec
  OBVIOUS
<1>c. q = RegistryDecode(d, b, last)
  OBVIOUS
<1> HIDE DEF r0, q, r1
<1>d. SUFFICES StatefulSteps(d, b, last, r0, q, r1)
  BY Zenon DEF r0, q, r1
<1>1. /\ r0 \in Reader /\ r0.dec \in Decoder /\ r0.out \in Text /\ r0.bad = FALSE
      /\ r0.dec.finished = FALSE
      /\ r0 = Rd(r0.dec, r0.out, FALSE)
  <2>1. r0 \in Reader /\ r0.dec.finished = FALSE
    BY <1>a, StatefulReader
  <2>2. r0.dec \in Decoder /\ r0.out \in Text /\ r0.bad \in BOOLEAN
        /\ r0 = Rd(r0.dec, r0.out, r0.bad)
    BY <2>1, ReaderFields
  <2>3. r0.bad = FALSE
    BY <1>b, <2>2
  <2> QED
    BY ONLY <2>1, <2>2, <2>3, Zenon
<1>2. r1 = ReadBytes("stateful", r0, b)
  BY <1>a, ReadOn
<1>3. CASE d.finished
  <2>1. b = <<>> /\ last
    BY <1>3
  <2>2. r1 = r0
    BY <1>2, <2>1, ReadNothing, Zenon
  <2>3. q = [dec |-> d, out |-> <<>>, invalid |-> FALSE, truncated |-> FALSE]
    BY <1>3, <1>c, <2>1, Zenon DEF RegistryDecode
  <2>4. <<>> \in Text /\ r0.out \o <<>> = r0.out
    BY <1>1 DEF Text
  <2>5. q.dec = d /\ q.out = <<>> /\ q.invalid = FALSE /\ q.truncated = FALSE
    BY <2>3
  <2>6. r1.bad = FALSE
    BY <1>1, <2>2
  <2>7. r1.dec = [d EXCEPT !.finished = FALSE]
    BY <1>b, <2>2
  <2> QED
    BY ONLY <1>3, <2>1, <2>2, <2>4, <2>5, <2>6, <2>7, d \in Decoder DEF StatefulSteps
<1>4. CASE ~d.finished
  <2>1. d = r0.dec
    <3>1. d.finished = FALSE
      BY <1>4 DEF Decoder
    <3>2. [d EXCEPT !.finished = FALSE] = d
      BY <3>1 DEF Decoder
    <3> QED
      BY <1>b, <3>2
  <2>2. PICK e, o, g : AddsAll("stateful", d, FALSE, b, e, o, g)
    BY ReadAdds DEF Code
  <2>3. /\ e \in Decoder /\ o \in Text /\ g \in BOOLEAN
        /\ \A t \in Text : ReadBytes("stateful", Rd(d, t, FALSE), b) = Rd(e, t \o o, g)
    BY <2>2, Zenon DEF AddsAll
  <2>4. r1 = Rd(e, r0.out \o o, g)
    BY <1>1, <1>2, <2>1, <2>3, Zenon
  <2>5. [FreshReader EXCEPT !.dec = d] = Rd(d, <<>>, FALSE)
    <3> DEFINE no == FALSE
    <3>1. FreshReader = Rd(FreshDecoder, <<>>, no)
      BY FreshType, Zenon
    <3> HIDE DEF no
    <3>2. [Rd(FreshDecoder, <<>>, no) EXCEPT !.dec = d] = Rd(d, <<>>, no)
      BY DEF Rd
    <3> QED
      BY ONLY <3>1, <3>2, Zenon DEF no
  <2>6. ReadBytes("stateful", [FreshReader EXCEPT !.dec = d], b) = Rd(e, o, g)
    <3>1. <<>> \in Text /\ <<>> \o o = o
      BY <2>3 DEF Text
    <3> QED
      BY ONLY <2>3, <2>5, <3>1, Zenon
  <2> DEFINE x == Rd(e, o, g)
  <2>7. x.dec = e /\ x.out = o /\ x.bad = g
    BY RdIs
  <2> HIDE DEF x
  <2>8. q = [dec |-> [x.dec EXCEPT !.finished = last /\ ~x.bad],
             out |-> x.out, invalid |-> x.bad,
             truncated |-> ~x.bad /\ last /\ x.dec.held # <<>>]
    BY <1>4, <1>c, <2>6, Zenon DEF RegistryDecode, x
  <2> DEFINE f == last /\ ~g
             h == ~g /\ last /\ e.held # <<>>
             c == [e EXCEPT !.finished = f]
  <2>9. q = [dec |-> c, out |-> o, invalid |-> g, truncated |-> h]
    BY ONLY <2>7, <2>8, Zenon
  <2>10. f \in BOOLEAN /\ h \in BOOLEAN /\ (f => last) /\ (~g => h = (last /\ e.held # <<>>))
    BY <2>3
  <2> HIDE DEF f, h
  <2>11. /\ c \in Decoder /\ c.finished = f
         /\ [c EXCEPT !.finished = FALSE] = [e EXCEPT !.finished = FALSE]
    BY <2>3, <2>10 DEF Decoder
  <2> HIDE DEF c
  <2>12. q.dec = c /\ q.out = o /\ q.invalid = g /\ q.truncated = h
    BY <2>9
  <2>13. r1.dec = e /\ r1.out = r0.out \o o /\ r1.bad = g
    <3> DEFINE v == r0.out \o o
    <3> HIDE DEF v
    <3>1. r1 = Rd(e, v, g)
      BY <2>4 DEF v
    <3>2. r1.dec = e /\ r1.out = v /\ r1.bad = g
      BY <3>1, RdIs
    <3> QED
      BY <3>2 DEF v
  <2>14. e.finished = FALSE
    <3>1. s \o b \in Seq(Byte)
      OBVIOUS
    <3>2. r1.dec.finished = FALSE
      <4> DEFINE z == s \o b
      <4>1. r1 = ReadBytes("stateful", FreshReader, z)
        BY <1>a
      <4> HIDE DEF z
      <4>2. z \in Seq(Byte)
        BY <3>1 DEF z
      <4> QED
        BY <4>1, <4>2, StatefulReader
    <3> QED
      BY <2>13, <3>2
  <2>15. [e EXCEPT !.finished = FALSE] = e
    BY <2>3, <2>14 DEF Decoder
  <2> QED
    BY ONLY <1>4, <2>3, <2>10, <2>11, <2>12, <2>13, <2>15, Zenon DEF StatefulSteps
<1> QED
  BY <1>3, <1>4
----------------------------------------------------------------------------
(* What begins the source, and where a declaration ends.                   *)

LEMMA PrefixOfBytes ==
  \A s, t \in Seq(Byte) :
    IsPrefix(s, t) <=> /\ Len(s) <= Len(t)
                       /\ \A i \in 1..Len(s) : s[i] = t[i]
BY PrefixIs

LEMMA PrefixOfText ==
  \A s, t \in Seq(Part) :
    IsPrefix(s, t) <=> /\ Len(s) <= Len(t)
                       /\ \A i \in 1..Len(s) : s[i] = t[i]
BY PrefixIs

LEMMA Begins2 ==
  ASSUME NEW a \in Byte, NEW b \in Byte, NEW s \in Seq(Byte)
  PROVE  IsPrefix(<<a, b>>, s) <=> Len(s) >= 2 /\ s[1] = a /\ s[2] = b
<1> DEFINE p == <<a, b>>
<1>1. p \in Seq(Byte) /\ Len(p) = 2 /\ p[1] = a /\ p[2] = b /\ Len(s) \in Nat
  OBVIOUS
<1> HIDE DEF p
<1>2. IsPrefix(p, s) <=> /\ Len(p) <= Len(s)
                         /\ \A i \in 1..Len(p) : p[i] = s[i]
  BY <1>1, PrefixOfBytes, Zenon
<1>3. (\A i \in 1..2 : p[i] = s[i]) <=> p[1] = s[1] /\ p[2] = s[2]
  OBVIOUS
<1> QED
  BY <1>1, <1>2, <1>3 DEF p

LEMMA Begins3 ==
  ASSUME NEW a \in Byte, NEW b \in Byte, NEW c \in Byte, NEW s \in Seq(Byte)
  PROVE  IsPrefix(<<a, b, c>>, s) <=> Len(s) >= 3 /\ s[1] = a /\ s[2] = b /\ s[3] = c
<1> DEFINE p == <<a, b, c>>
<1>1. p \in Seq(Byte) /\ Len(p) = 3 /\ p[1] = a /\ p[2] = b /\ p[3] = c /\ Len(s) \in Nat
  OBVIOUS
<1> HIDE DEF p
<1>2. IsPrefix(p, s) <=> /\ Len(p) <= Len(s)
                         /\ \A i \in 1..Len(p) : p[i] = s[i]
  BY <1>1, PrefixOfBytes, Zenon
<1>3. (\A i \in 1..3 : p[i] = s[i]) <=> p[1] = s[1] /\ p[2] = s[2] /\ p[3] = s[3]
  OBVIOUS
<1> QED
  BY <1>1, <1>2, <1>3 DEF p

LEMMA Begins4 ==
  ASSUME NEW a \in Byte, NEW b \in Byte, NEW c \in Byte, NEW d \in Byte, NEW s \in Seq(Byte)
  PROVE  IsPrefix(<<a, b, c, d>>, s)
           <=> Len(s) >= 4 /\ s[1] = a /\ s[2] = b /\ s[3] = c /\ s[4] = d
<1> DEFINE p == <<a, b, c, d>>
<1>1. /\ p \in Seq(Byte) /\ Len(p) = 4 /\ Len(s) \in Nat
      /\ p[1] = a /\ p[2] = b /\ p[3] = c /\ p[4] = d
  OBVIOUS
<1> HIDE DEF p
<1>2. IsPrefix(p, s) <=> /\ Len(p) <= Len(s)
                         /\ \A i \in 1..Len(p) : p[i] = s[i]
  BY <1>1, PrefixOfBytes, Zenon
<1>3. (\A i \in 1..4 : p[i] = s[i])
        <=> p[1] = s[1] /\ p[2] = s[2] /\ p[3] = s[3] /\ p[4] = s[4]
  OBVIOUS
<1> QED
  BY <1>1, <1>2, <1>3 DEF p

\* The five bytes of a declaration's beginning.
Xml == <<"3C", "3F", "78", "6D", "6C">>

LEMMA XmlFacts ==
  /\ Xml \in Seq(Byte) /\ Len(Xml) = 5
  /\ Xml[1] = "3C" /\ Xml[2] = "3F" /\ Xml[3] = "78" /\ Xml[4] = "6D" /\ Xml[5] = "6C"
BY DEF Xml, Byte, ASCII

LEMMA BeginsXml ==
  ASSUME NEW s \in Seq(Byte)
  PROVE  IsPrefix(Xml, s) <=> /\ Len(s) >= 5
                              /\ s[1] = "3C" /\ s[2] = "3F" /\ s[3] = "78"
                              /\ s[4] = "6D" /\ s[5] = "6C"
<1>1. Len(s) \in Nat
  OBVIOUS
<1>2. IsPrefix(Xml, s) <=> /\ Len(Xml) <= Len(s)
                           /\ \A i \in 1..Len(Xml) : Xml[i] = s[i]
  BY XmlFacts, PrefixOfBytes, Zenon
<1>3. (\A i \in 1..5 : Xml[i] = s[i])
        <=> /\ Xml[1] = s[1] /\ Xml[2] = s[2] /\ Xml[3] = s[3]
            /\ Xml[4] = s[4] /\ Xml[5] = s[5]
  OBVIOUS
<1> QED
  BY <1>1, <1>2, <1>3, XmlFacts

LEMMA RawPrefix ==
  ASSUME NEW s \in Seq(Byte), NEW t \in Seq(Byte)
  PROVE  IsPrefix(Raw(s), Raw(t)) <=> IsPrefix(s, t)
<1> DEFINE x == Raw(s)
           y == Raw(t)
<1>1. /\ x \in Seq(Part) /\ Len(x) = Len(s) /\ y \in Seq(Part) /\ Len(y) = Len(t)
      /\ Len(s) \in Nat /\ Len(t) \in Nat
  BY RawType DEF Text
<1>2. ASSUME NEW i \in 1..Len(s), i \in 1..Len(t)
      PROVE  (x[i] = y[i]) <=> s[i] = t[i]
  <2> DEFINE e(b) == [unit |-> <<b>>, part |-> IF b \in ASCII THEN 1 ELSE 0]
  <2>1. x[i] = e(s[i]) /\ y[i] = e(t[i])
    BY <1>2 DEF Raw
  <2>2. \A b, c : e(b) = e(c) <=> b = c
    <3>1. \A b : e(b).unit = <<b>> /\ <<b>>[1] = b
      OBVIOUS
    <3> HIDE DEF e
    <3> QED
      BY <3>1
  <2> HIDE DEF e, x, y
  <2> QED
    BY <2>1, <2>2
<1> HIDE DEF x, y
<1>3. /\ IsPrefix(x, y) <=> Len(x) <= Len(y) /\ \A i \in 1..Len(x) : x[i] = y[i]
      /\ IsPrefix(s, t) <=> Len(s) <= Len(t) /\ \A i \in 1..Len(s) : s[i] = t[i]
  BY <1>1, PrefixOfBytes, PrefixOfText, Zenon
<1>4. CASE Len(s) <= Len(t)
  <2>1. \A i \in 1..Len(s) : i \in 1..Len(t)
    BY <1>1, <1>4
  <2>2. (\A i \in 1..Len(s) : x[i] = y[i]) <=> \A i \in 1..Len(s) : s[i] = t[i]
    BY <1>2, <2>1
  <2> QED
    BY <1>1, <1>3, <1>4, <2>2 DEF x, y
<1>5. CASE ~(Len(s) <= Len(t))
  BY <1>1, <1>3, <1>5 DEF x, y
<1> QED
  BY <1>4, <1>5

LEMMA DeclarationIs == Declaration = Raw(Xml)
BY DEF Declaration, Xml

\* The end of a declaration in any text, and in text as it came.
LEMMA EndsAtIs ==
  ASSUME NEW x \in Text, NEW i \in 0..(Len(x) - 2)
  PROVE  EndsAt(x, i) <=> /\ x[i + 1] = [unit |-> <<"3F">>, part |-> 1]
                          /\ x[i + 2] = [unit |-> <<"3E">>, part |-> 1]
<1> DEFINE e == [unit |-> <<"3F">>, part |-> 1]
           f == [unit |-> <<"3E">>, part |-> 1]
           u == SubSeq(x, i + 1, i + 2)
           v == Raw(<<"3F", "3E">>)
<1>1. v \in Seq(Part) /\ Len(v) = 2 /\ v[1] = e /\ v[2] = f
  <2> DEFINE s == <<"3F", "3E">>
  <2>1. s \in Seq(Byte) /\ Len(s) = 2 /\ s[1] = "3F" /\ s[2] = "3E"
    BY DEF Byte, ASCII
  <2>2. v = [k \in 1..Len(s) |-> [unit |-> <<s[k]>>, part |-> IF s[k] \in ASCII THEN 1 ELSE 0]]
    BY DEF Raw
  <2> HIDE DEF s
  <2>3. v[1] = e /\ v[2] = f
    BY <2>1, <2>2 DEF ASCII
  <2>4. v \in Seq(Part) /\ Len(v) = 2
    BY <2>1, RawType DEF Text, s
  <2> QED
    BY <2>3, <2>4
<1>2. u \in Seq(Part) /\ Len(u) = 2 /\ u[1] = x[i + 1] /\ u[2] = x[i + 2]
  <2>1. x \in Seq(Part) /\ Len(x) \in Nat /\ i \in Nat
    BY DEF Text
  <2>2. i + 1 \in 1..(Len(x) + 1) /\ i + 2 \in ((i + 1) - 1)..Len(x)
    BY <2>1
  <2>3. /\ u \in Seq(Part) /\ Len(u) = (i + 2) - (i + 1) + 1
        /\ \A k \in 1..((i + 2) - (i + 1) + 1) : u[k] = x[(i + 1) + k - 1]
    BY <2>1, <2>2, Cut
  <2> HIDE DEF u
  <2> QED
    BY <2>1, <2>3
<1> HIDE DEF u, v, e, f
<1>3. u = v <=> u[1] = v[1] /\ u[2] = v[2]
  <2>1. u = v <=> \A k \in 1..2 : u[k] = v[k]
    BY <1>1, <1>2, SeqEqual
  <2> QED
    BY <2>1
<1> QED
  BY <1>1, <1>2, <1>3 DEF u, v, e, f, EndsAt

LEMMA EndsAtRaw ==
  ASSUME NEW s \in Seq(Byte), NEW i \in 0..(Len(s) - 2)
  PROVE  EndsAt(Raw(s), i) <=> Ends(s, i + 1)
<1> DEFINE x == Raw(s)
           e(b) == [unit |-> <<b>>, part |-> IF b \in ASCII THEN 1 ELSE 0]
<1>1. /\ Len(s) \in Nat /\ i \in Nat /\ i + 1 \in 1..Len(s) /\ i + 2 \in 1..Len(s)
      /\ (i + 1) + 1 = i + 2
  OBVIOUS
<1>2. x \in Text /\ Len(x) = Len(s)
  BY RawType
<1>3. x[i + 1] = e(s[i + 1]) /\ x[i + 2] = e(s[i + 2])
  BY <1>1 DEF Raw
<1>4. \A b : /\ e(b) = [unit |-> <<"3F">>, part |-> 1] <=> b = "3F"
             /\ e(b) = [unit |-> <<"3E">>, part |-> 1] <=> b = "3E"
  <2>1. \A b : e(b).unit = <<b>> /\ <<b>>[1] = b
    OBVIOUS
  <2>2. e("3F") = [unit |-> <<"3F">>, part |-> 1] /\ e("3E") = [unit |-> <<"3E">>, part |-> 1]
    BY DEF ASCII
  <2>3. \A b, c : e(b) = e(c) <=> b = c
    <3> HIDE DEF e
    <3> QED
      BY <2>1
  <2> HIDE DEF e
  <2> QED
    BY <2>2, <2>3, Zenon
<1> HIDE DEF e, x
<1>5. EndsAt(x, i) <=> /\ x[i + 1] = [unit |-> <<"3F">>, part |-> 1]
                       /\ x[i + 2] = [unit |-> <<"3E">>, part |-> 1]
  BY <1>2, EndsAtIs
<1>6. EndsAt(x, i) <=> s[i + 1] = "3F" /\ s[i + 2] = "3E"
  BY ONLY <1>3, <1>4, <1>5, Zenon
<1>7. Ends(s, i + 1) <=> s[i + 1] = "3F" /\ s[i + 2] = "3E"
  BY <1>1 DEF Ends
<1> QED
  BY <1>6, <1>7 DEF x
----------------------------------------------------------------------------
(* The encoding of what was pushed so far, and when it is final.           *)

LEMMA PushedIs ==
  ASSUME source \in Seq(Byte), NEW n \in 0..Len(source)
  PROVE  /\ Len(source) \in Nat /\ n \in Nat
         /\ Pushed(n) \in Seq(Byte) /\ Len(Pushed(n)) = n
         /\ \A i \in 1..n : Pushed(n)[i] = source[i]
<1>1. Len(source) \in Nat /\ n \in Nat /\ 1 \in 1..(Len(source) + 1) /\ n \in (1 - 1)..Len(source)
  OBVIOUS
<1>2. /\ Pushed(n) \in Seq(Byte) /\ Len(Pushed(n)) = n - 1 + 1
      /\ \A k \in 1..(n - 1 + 1) : Pushed(n)[k] = source[1 + k - 1]
  BY <1>1, Cut DEF Pushed
<1> QED
  BY <1>1, <1>2

LEMMA PushedMore ==
  ASSUME source \in Seq(Byte), NEW n \in 0..Len(source), NEW k \in 0..(Len(source) - n)
  PROVE  /\ n + k \in 0..Len(source)
         /\ SubSeq(source, n + 1, n + k) \in Seq(Byte)
         /\ Len(SubSeq(source, n + 1, n + k)) = k
         /\ Pushed(n + k) = Pushed(n) \o SubSeq(source, n + 1, n + k)
<1> DEFINE b == SubSeq(source, n + 1, n + k)
<1>1. /\ Len(source) \in Nat /\ n \in Nat /\ k \in Nat /\ n + k \in 0..Len(source)
      /\ n + 1 \in 1..(Len(source) + 1) /\ n + k \in ((n + 1) - 1)..Len(source)
  OBVIOUS
<1>2. /\ b \in Seq(Byte) /\ Len(b) = (n + k) - (n + 1) + 1
      /\ \A i \in 1..((n + k) - (n + 1) + 1) : b[i] = source[(n + 1) + i - 1]
  BY <1>1, Cut
<1> DEFINE p == Pushed(n)
           q == Pushed(n + k)
<1>3. p \in Seq(Byte) /\ Len(p) = n /\ \A i \in 1..n : p[i] = source[i]
  BY PushedIs
<1>4. q \in Seq(Byte) /\ Len(q) = n + k /\ \A i \in 1..(n + k) : q[i] = source[i]
  BY <1>1, PushedIs
<1> HIDE DEF b, p, q
<1>5. /\ p \o b \in Seq(Byte) /\ Len(p \o b) = n + k
      /\ \A i \in 1..(n + k) : (p \o b)[i] = IF i <= n THEN p[i] ELSE b[i - n]
  <2>1. Len(b) = k
    BY <1>1, <1>2
  <2>2. /\ p \o b \in Seq(Byte) /\ Len(p \o b) = Len(p) + Len(b)
        /\ \A i \in 1..(Len(p) + Len(b)) : (p \o b)[i] = IF i <= Len(p) THEN p[i] ELSE b[i - Len(p)]
    BY <1>2, <1>3, Joined
  <2> QED
    BY <1>3, <2>1, <2>2
<1>6. ASSUME NEW i \in 1..(n + k)
      PROVE  q[i] = (p \o b)[i]
  <2>1. CASE i <= n
    <3>1. i \in 1..n
      BY <1>1, <2>1
    <3> QED
      BY <1>3, <1>4, <1>5, <2>1, <3>1
  <2>2. CASE ~(i <= n)
    <3>1. i - n \in 1..((n + k) - (n + 1) + 1) /\ (n + 1) + (i - n) - 1 = i
      BY <1>1, <2>2
    <3>2. b[i - n] = source[i]
      BY <1>2, <3>1
    <3> QED
      BY <1>4, <1>5, <2>2, <3>2
  <2> QED
    BY <2>1, <2>2
<1>7. q = p \o b
  BY <1>1, <1>4, <1>5, <1>6, SeqEqual
<1>8. Len(b) = k
  BY <1>1, <1>2
<1> QED
  BY <1>1, <1>2, <1>7, <1>8 DEF b, p, q

\* The declaration and its end, in the source.
XmlAt == /\ source[1] = "3C" /\ source[2] = "3F" /\ source[3] = "78"
         /\ source[4] = "6D" /\ source[5] = "6C"
EndOf(k) == source[k] = "3F" /\ source[k + 1] = "3E"
NamedBy(n, e, k) ==
  /\ e \in 1..n /\ k \in 1..n /\ e < k /\ k < n
  /\ source[e] = "E" /\ EndOf(k) /\ \A j \in 1..e : ~EndOf(j)
NamedIn(n) == n >= 5 /\ XmlAt /\ \E e, k : NamedBy(n, e, k)

LEMMA EndsIs ==
  ASSUME source \in Seq(Byte), NEW n \in 0..Len(source), NEW k \in 1..n
  PROVE  Ends(Pushed(n), k) <=> k < n /\ EndOf(k)
<1>1. /\ Len(Pushed(n)) = n /\ n \in Nat /\ k \in Nat
      /\ \A i \in 1..n : Pushed(n)[i] = source[i]
  BY PushedIs
<1>2. CASE k < n
  <2>1. k + 1 \in 1..n
    BY <1>1, <1>2
  <2> QED
    BY <1>1, <1>2, <2>1 DEF Ends, EndOf
<1>3. CASE ~(k < n)
  BY <1>1, <1>3 DEF Ends
<1> QED
  BY <1>2, <1>3

LEMMA NamesIs ==
  ASSUME source \in Seq(Byte), NEW n \in 0..Len(source)
  PROVE  Names(Pushed(n)) <=> NamedIn(n)
<1> DEFINE s == Pushed(n)
<1>1. s \in Seq(Byte) /\ Len(s) = n /\ n \in Nat /\ \A i \in 1..n : s[i] = source[i]
  BY PushedIs
<1>2. IsPrefix(Xml, s) <=> n >= 5 /\ XmlAt
  <2>1. IsPrefix(Xml, s) <=> /\ Len(s) >= 5
                             /\ s[1] = "3C" /\ s[2] = "3F" /\ s[3] = "78"
                             /\ s[4] = "6D" /\ s[5] = "6C"
    BY <1>1, BeginsXml
  <2> HIDE DEF s
  <2>2. CASE n >= 5
    BY <1>1, <2>1, <2>2 DEF XmlAt
  <2>3. CASE ~(n >= 5)
    BY <1>1, <2>1, <2>3
  <2> QED
    BY <2>2, <2>3
<1>3. \A k \in 1..n : Ends(s, k) <=> k < n /\ EndOf(k)
  BY EndsIs
<1> HIDE DEF s
<1>4. ASSUME NEW e \in 1..n, NEW k \in 1..n
      PROVE  (e < k /\ s[e] = "E" /\ Ends(s, k) /\ \A j \in 1..e : ~Ends(s, j))
               <=> NamedBy(n, e, k)
  <2>1. s[e] = source[e]
    BY <1>1
  <2>2. ASSUME e < k, k < n
        PROVE  (\A j \in 1..e : ~Ends(s, j)) <=> \A j \in 1..e : ~EndOf(j)
    <3>1. \A j \in 1..e : j \in 1..n /\ j < n
      BY <1>1, <2>2
    <3> QED
      BY <1>3, <3>1
  <2>3. Ends(s, k) <=> k < n /\ EndOf(k)
    BY <1>3
  <2> QED
    BY <2>1, <2>2, <2>3, Zenon DEF NamedBy
<1>5. (\E e, k \in 1..n : e < k /\ s[e] = "E" /\ Ends(s, k) /\ \A j \in 1..e : ~Ends(s, j))
        <=> \E e, k : NamedBy(n, e, k)
  <2>1. \A e, k : NamedBy(n, e, k) => e \in 1..n /\ k \in 1..n
    BY Zenon DEF NamedBy
  <2> QED
    BY <1>4, <2>1, Zenon
<1>6. Names(s) <=> /\ IsPrefix(Xml, s)
                   /\ \E e, k \in 1..n : /\ e < k /\ s[e] = "E" /\ Ends(s, k)
                                         /\ \A j \in 1..e : ~Ends(s, j)
  BY <1>1, Zenon DEF Names, Xml
<1> QED
  BY <1>2, <1>5, <1>6, Zenon DEF s, NamedIn

LEMMA NamedStays ==
  ASSUME NEW n \in Nat, NEW k \in Nat, n <= k
  PROVE  /\ NamedIn(n) => NamedIn(k)
         /\ (NamedIn(k) /\ \E j \in 1..(n - 1) : EndOf(j)) => NamedIn(n)
<1>1. ASSUME NamedIn(n) PROVE NamedIn(k)
  <2>1. PICK e, c : NamedBy(n, e, c)
    BY <1>1 DEF NamedIn
  <2>2. NamedBy(k, e, c)
    BY <2>1 DEF NamedBy
  <2> QED
    BY <1>1, <2>2 DEF NamedIn
<1>2. ASSUME NamedIn(k), NEW j \in 1..(n - 1), EndOf(j)
      PROVE  NamedIn(n)
  <2>1. PICK e, c : NamedBy(k, e, c)
    BY <1>2 DEF NamedIn
  <2>2. e \in 1..k /\ source[e] = "E" /\ \A i \in 1..e : ~EndOf(i)
    BY <2>1 DEF NamedBy
  <2>3. e < j
    BY <1>2, <2>2
  <2>4. NamedBy(n, e, j)
    BY <1>2, <2>2, <2>3 DEF NamedBy
  <2>5. n >= 5
    <3>1. XmlAt
      BY <1>2 DEF NamedIn
    <3>2. j # 1 /\ j # 3 /\ j # 4
      BY <1>2, <3>1 DEF XmlAt, EndOf
    <3>3. j # 2
      BY <1>2, <3>1 DEF XmlAt, EndOf
    <3> QED
      BY <3>2, <3>3
  <2> QED
    BY <1>2, <2>4, <2>5 DEF NamedIn
<1> QED
  BY <1>1, <1>2

LEMMA EncodingIs ==
  ASSUME source \in Seq(Byte), NEW n \in 0..Len(source)
  PROVE  Encoding(Pushed(n)) =
           IF n < 4 THEN <<"utf8", 0>>
           ELSE IF source[1] = "FE" /\ source[2] = "FF" THEN <<"utf16", 2>>
           ELSE IF /\ source[1] = "00" /\ source[2] = "3C"
                   /\ source[3] = "00" /\ source[4] = "3F" THEN <<"utf16", 0>>
           ELSE IF /\ source[1] = "00" /\ source[2] = "00"
                   /\ source[3] = "00" /\ source[4] = "3C" THEN <<"ucs4", 0>>
           ELSE IF /\ source[1] = "4C" /\ source[2] = "6F"
                   /\ source[3] = "A7" /\ source[4] = "94" THEN <<"ebcdic", 0>>
           ELSE IF NamedIn(n) THEN <<declared, 0>>
           ELSE <<"utf8", 0>>
<1> DEFINE s == Pushed(n)
<1>1. s \in Seq(Byte) /\ Len(s) = n /\ n \in Nat /\ \A i \in 1..n : s[i] = source[i]
  BY PushedIs
<1>2. Names(s) <=> NamedIn(n)
  BY NamesIs
<1> HIDE DEF s
<1>3. CASE n < 4
  BY <1>1, <1>3, Zenon DEF Encoding, s
<1>4. CASE ~(n < 4)
  <2>1. s[1] = source[1] /\ s[2] = source[2] /\ s[3] = source[3] /\ s[4] = source[4]
    BY <1>1, <1>4
  <2>2. /\ "FE" \in Byte /\ "FF" \in Byte /\ "00" \in Byte /\ "3C" \in Byte /\ "3F" \in Byte
        /\ "4C" \in Byte /\ "6F" \in Byte /\ "A7" \in Byte /\ "94" \in Byte
    BY DEF Byte, ASCII, NonASCII
  <2>3. Len(s) >= 2 /\ Len(s) >= 4
    BY <1>1, <1>4
  <2>4. IsPrefix(<<"FE", "FF">>, s) <=> source[1] = "FE" /\ source[2] = "FF"
    BY ONLY <1>1, <2>1, <2>2, <2>3, Begins2
  <2>5. IsPrefix(<<"00", "3C", "00", "3F">>, s)
          <=> source[1] = "00" /\ source[2] = "3C" /\ source[3] = "00" /\ source[4] = "3F"
    BY ONLY <1>1, <2>1, <2>2, <2>3, Begins4, SMTT(30)
  <2>6. IsPrefix(<<"00", "00", "00", "3C">>, s)
          <=> source[1] = "00" /\ source[2] = "00" /\ source[3] = "00" /\ source[4] = "3C"
    BY ONLY <1>1, <2>1, <2>2, <2>3, Begins4, SMTT(30)
  <2>7. IsPrefix(<<"4C", "6F", "A7", "94">>, s)
          <=> source[1] = "4C" /\ source[2] = "6F" /\ source[3] = "A7" /\ source[4] = "94"
    BY ONLY <1>1, <2>1, <2>2, <2>3, Begins4, SMTT(30)
  <2>8. Encoding(s) =
          IF IsPrefix(<<"FE", "FF">>, s) THEN <<"utf16", 2>>
          ELSE IF IsPrefix(<<"00", "3C", "00", "3F">>, s) THEN <<"utf16", 0>>
          ELSE IF IsPrefix(<<"00", "00", "00", "3C">>, s) THEN <<"ucs4", 0>>
          ELSE IF IsPrefix(<<"4C", "6F", "A7", "94">>, s) THEN <<"ebcdic", 0>>
          ELSE IF Names(s) THEN <<declared, 0>>
          ELSE <<"utf8", 0>>
    BY <1>1, <1>4, Zenon DEF Encoding
  <2> QED
    BY ONLY <1>2, <1>4, <2>4, <2>5, <2>6, <2>7, <2>8, Zenon DEF s
<1> QED
  BY <1>3, <1>4
-----------------------------------------------------------------------------
(* What is known for good.                                                 *)

Signed ==
  \/ source[1] = "FE" /\ source[2] = "FF"
  \/ source[1] = "00" /\ source[2] = "3C" /\ source[3] = "00" /\ source[4] = "3F"
  \/ source[1] = "00" /\ source[2] = "00" /\ source[3] = "00" /\ source[4] = "3C"
  \/ source[1] = "4C" /\ source[2] = "6F" /\ source[3] = "A7" /\ source[4] = "94"

LEMMA FinalWhen ==
  ASSUME source \in Seq(Byte), NEW n \in 0..Len(source), n >= 4,
         Signed \/ \A k \in n..Len(source) : NamedIn(k) => NamedIn(n)
  PROVE  Final(n)
<1> SUFFICES ASSUME NEW k \in n..Len(source)
             PROVE  Encoding(Pushed(k)) = Encoding(Pushed(n))
  BY Zenon DEF Final
<1>1. /\ n \in Nat /\ k \in Nat /\ k \in 0..Len(source) /\ n <= k /\ ~(n < 4) /\ ~(k < 4)
      /\ Len(source) \in Nat
  OBVIOUS
<1>2. NamedIn(n) => NamedIn(k)
  BY ONLY <1>1, NamedStays
<1>3. Encoding(Pushed(n)) =
           IF n < 4 THEN <<"utf8", 0>>
           ELSE IF source[1] = "FE" /\ source[2] = "FF" THEN <<"utf16", 2>>
           ELSE IF /\ source[1] = "00" /\ source[2] = "3C"
                   /\ source[3] = "00" /\ source[4] = "3F" THEN <<"utf16", 0>>
           ELSE IF /\ source[1] = "00" /\ source[2] = "00"
                   /\ source[3] = "00" /\ source[4] = "3C" THEN <<"ucs4", 0>>
           ELSE IF /\ source[1] = "4C" /\ source[2] = "6F"
                   /\ source[3] = "A7" /\ source[4] = "94" THEN <<"ebcdic", 0>>
           ELSE IF NamedIn(n) THEN <<declared, 0>>
           ELSE <<"utf8", 0>>
  BY EncodingIs
<1>4. Encoding(Pushed(k)) =
           IF k < 4 THEN <<"utf8", 0>>
           ELSE IF source[1] = "FE" /\ source[2] = "FF" THEN <<"utf16", 2>>
           ELSE IF /\ source[1] = "00" /\ source[2] = "3C"
                   /\ source[3] = "00" /\ source[4] = "3F" THEN <<"utf16", 0>>
           ELSE IF /\ source[1] = "00" /\ source[2] = "00"
                   /\ source[3] = "00" /\ source[4] = "3C" THEN <<"ucs4", 0>>
           ELSE IF /\ source[1] = "4C" /\ source[2] = "6F"
                   /\ source[3] = "A7" /\ source[4] = "94" THEN <<"ebcdic", 0>>
           ELSE IF NamedIn(k) THEN <<declared, 0>>
           ELSE <<"utf8", 0>>
  BY <1>1, EncodingIs
<1>5. CASE Signed
  BY ONLY <1>1, <1>3, <1>4, <1>5, Z3 DEF Signed
<1>6. CASE \A j \in n..Len(source) : NamedIn(j) => NamedIn(n)
  <2>1. NamedIn(k) <=> NamedIn(n)
    BY <1>2, <1>6
  <2> QED
    BY ONLY <1>1, <1>3, <1>4, <2>1, Z3
<1> QED
  BY <1>5, <1>6

\* The encoding of a source without a signature.
LEMMA Unsigned ==
  ASSUME source \in Seq(Byte), NEW n \in 0..Len(source), n < 4 \/ ~Signed
  PROVE  /\ Enc(n) = IF Names(Pushed(n)) THEN declared ELSE "utf8"
         /\ Skip(n) = 0
<1>1. Names(Pushed(n)) <=> NamedIn(n)
  BY NamesIs
<1>2. n < 4 => ~NamedIn(n)
  BY DEF NamedIn
<1>3. Encoding(Pushed(n)) = IF NamedIn(n) THEN <<declared, 0>> ELSE <<"utf8", 0>>
  <2>1. Encoding(Pushed(n)) =
           IF n < 4 THEN <<"utf8", 0>>
           ELSE IF source[1] = "FE" /\ source[2] = "FF" THEN <<"utf16", 2>>
           ELSE IF /\ source[1] = "00" /\ source[2] = "3C"
                   /\ source[3] = "00" /\ source[4] = "3F" THEN <<"utf16", 0>>
           ELSE IF /\ source[1] = "00" /\ source[2] = "00"
                   /\ source[3] = "00" /\ source[4] = "3C" THEN <<"ucs4", 0>>
           ELSE IF /\ source[1] = "4C" /\ source[2] = "6F"
                   /\ source[3] = "A7" /\ source[4] = "94" THEN <<"ebcdic", 0>>
           ELSE IF NamedIn(n) THEN <<declared, 0>>
           ELSE <<"utf8", 0>>
    BY EncodingIs
  <2> QED
    BY ONLY <1>2, <2>1, n < 4 \/ ~Signed, Zenon DEF Signed
<1>4. CASE NamedIn(n)
  BY <1>1, <1>3, <1>4 DEF Enc, Skip
<1>5. CASE ~NamedIn(n)
  BY <1>1, <1>3, <1>5 DEF Enc, Skip
<1> QED
  BY <1>4, <1>5

\* The encoding of a source with one, which nothing changes.
LEMMA SignedIs ==
  ASSUME source \in Seq(Byte), NEW n \in 0..Len(source), n >= 4, Signed
  PROVE  /\ Final(n)
         /\ Enc(n) = IF source[1] = "FE" THEN "utf16"
                     ELSE IF source[1] = "4C" THEN "ebcdic"
                     ELSE IF source[2] = "3C" THEN "utf16" ELSE "ucs4"
         /\ Skip(n) = IF source[1] = "FE" THEN 2 ELSE 0
<1>1. Final(n)
  BY FinalWhen
<1>2. ~(n < 4)
  OBVIOUS
<1>3. Encoding(Pushed(n)) =
           IF n < 4 THEN <<"utf8", 0>>
           ELSE IF source[1] = "FE" /\ source[2] = "FF" THEN <<"utf16", 2>>
           ELSE IF /\ source[1] = "00" /\ source[2] = "3C"
                   /\ source[3] = "00" /\ source[4] = "3F" THEN <<"utf16", 0>>
           ELSE IF /\ source[1] = "00" /\ source[2] = "00"
                   /\ source[3] = "00" /\ source[4] = "3C" THEN <<"ucs4", 0>>
           ELSE IF /\ source[1] = "4C" /\ source[2] = "6F"
                   /\ source[3] = "A7" /\ source[4] = "94" THEN <<"ebcdic", 0>>
           ELSE IF NamedIn(n) THEN <<declared, 0>>
           ELSE <<"utf8", 0>>
  BY EncodingIs
<1>4. CASE source[1] = "FE"
  <2>1. source[2] = "FF"
    BY <1>4 DEF Signed
  <2>2. Encoding(Pushed(n)) = <<"utf16", 2>>
    BY ONLY <1>2, <1>3, <1>4, <2>1, Zenon
  <2> QED
    BY <1>1, <1>4, <2>2 DEF Enc, Skip
<1>5. CASE source[1] = "4C"
  <2>1. source[2] = "6F" /\ source[3] = "A7" /\ source[4] = "94"
    BY <1>5 DEF Signed
  <2>2. Encoding(Pushed(n)) = <<"ebcdic", 0>>
    BY ONLY <1>2, <1>3, <1>5, <2>1
  <2> QED
    BY <1>1, <1>5, <2>2 DEF Enc, Skip
<1>6. CASE source[1] # "FE" /\ source[1] # "4C"
  <2>1. CASE source[2] = "3C"
    <3>1. source[1] = "00" /\ source[3] = "00" /\ source[4] = "3F"
      BY <1>6, <2>1 DEF Signed
    <3>2. Encoding(Pushed(n)) = <<"utf16", 0>>
      BY ONLY <1>2, <1>3, <3>1, <2>1
    <3> QED
      BY <1>1, <1>6, <2>1, <3>2 DEF Enc, Skip
  <2>2. CASE source[2] # "3C"
    <3>1. source[1] = "00" /\ source[2] = "00" /\ source[3] = "00" /\ source[4] = "3C"
      BY <1>6, <2>2 DEF Signed
    <3>2. Encoding(Pushed(n)) = <<"ucs4", 0>>
      BY ONLY <1>2, <1>3, <3>1
    <3> QED
      BY <1>1, <1>6, <2>2, <3>2 DEF Enc, Skip
  <2> QED
    BY <2>1, <2>2
<1> QED
  BY <1>4, <1>5, <1>6

-----------------------------------------------------------------------------
(* What the first bytes and a declaration say of the text.                 *)

LEMMA RawCut ==
  ASSUME NEW s \in Seq(Byte), NEW i \in 1..(Len(s) + 1)
  PROVE  /\ SubSeq(s, i, Len(s)) \in Seq(Byte)
         /\ SubSeq(Raw(s), i, Len(s)) = Raw(SubSeq(s, i, Len(s)))
<1> DEFINE v == SubSeq(s, i, Len(s))
           x == Raw(s)
           u == SubSeq(x, i, Len(s))
<1>1. Len(s) \in Nat /\ i \in Nat /\ i >= 1 /\ i <= Len(s) + 1 /\ Len(s) \in (i - 1)..Len(s)
  OBVIOUS
<1>2. /\ v \in Seq(Byte) /\ Len(v) = Len(s) - i + 1
      /\ \A k \in 1..(Len(s) - i + 1) : v[k] = s[i + k - 1]
  BY <1>1, Cut
<1>3. /\ x \in Seq(Part) /\ Len(x) = Len(s)
      /\ \A k \in 1..Len(s) : x[k] = [unit |-> <<s[k]>>, part |-> IF s[k] \in ASCII THEN 1 ELSE 0]
  <2>1. x \in Text /\ Len(x) = Len(s)
    BY RawType
  <2> QED
    BY <2>1 DEF Raw, Text
<1> HIDE DEF x
<1>4. /\ u \in Seq(Part) /\ Len(u) = Len(s) - i + 1
      /\ \A k \in 1..(Len(s) - i + 1) : u[k] = x[i + k - 1]
  BY <1>1, <1>3, Cut
<1> HIDE DEF v, u
<1>5. /\ Raw(v) \in Seq(Part) /\ Len(Raw(v)) = Len(v)
      /\ \A k \in 1..Len(v) :
           Raw(v)[k] = [unit |-> <<v[k]>>, part |-> IF v[k] \in ASCII THEN 1 ELSE 0]
  <2>1. Raw(v) \in Text /\ Len(Raw(v)) = Len(v)
    BY <1>2, RawType
  <2> QED
    BY <2>1 DEF Raw, Text
<1>6. ASSUME NEW k \in 1..Len(u)
      PROVE  u[k] = Raw(v)[k]
  <2>1. k \in 1..(Len(s) - i + 1) /\ i + k - 1 \in 1..Len(s) /\ k \in 1..Len(v)
    BY <1>1, <1>2, <1>4
  <2> QED
    BY <1>2, <1>3, <1>4, <1>5, <2>1
<1>7. u = Raw(v)
  BY <1>1, <1>2, <1>4, <1>5, <1>6, SeqEqual
<1> QED
  BY <1>2, <1>7 DEF u, v, x

LEMMA HasEndRaw ==
  ASSUME NEW v \in Seq(Byte)
  PROVE  HasEnd(Raw(v), 0) <=> \E k \in 1..(Len(v) - 1) : Ends(v, k)
<1>1. Len(v) \in Nat /\ Len(Raw(v)) = Len(v)
  BY RawType
<1>2. \A i \in 0..(Len(v) - 2) : EndsAt(Raw(v), i) <=> Ends(v, i + 1)
  BY EndsAtRaw
<1>3. HasEnd(Raw(v), 0) <=> \E i \in 0..(Len(v) - 2) : Ends(v, i + 1)
  BY <1>1, <1>2 DEF HasEnd
<1>4. ASSUME NEW i \in 0..(Len(v) - 2), Ends(v, i + 1)
      PROVE  \E k \in 1..(Len(v) - 1) : Ends(v, k)
  <2>1. i + 1 \in 1..(Len(v) - 1)
    BY <1>1
  <2> QED
    BY <1>4, <2>1
<1>5. ASSUME NEW k \in 1..(Len(v) - 1), Ends(v, k)
      PROVE  \E i \in 0..(Len(v) - 2) : Ends(v, i + 1)
  <2>1. k - 1 \in 0..(Len(v) - 2) /\ (k - 1) + 1 = k
    BY <1>1
  <2> QED
    BY <1>5, <2>1
<1> QED
  BY <1>3, <1>4, <1>5

Sniffed(in, p, e) == [in EXCEPT !.declPending = p, !.enc = e]

LEMMA SniffedIs ==
  ASSUME NEW in \in Buffer, NEW p \in BOOLEAN
  PROVE  [in EXCEPT !.declPending = p] = Sniffed(in, p, in.enc)
BY DEF Sniffed, Buffer

LEMMA NamesIn ==
  ASSUME NEW v \in Seq(Byte)
  PROVE  Names(v) => /\ Len(v) >= 5 /\ IsPrefix(Declaration, Raw(v)) /\ HasEnd(Raw(v), 0)
<1> SUFFICES ASSUME Names(v)
             PROVE  Len(v) >= 5 /\ IsPrefix(Declaration, Raw(v)) /\ HasEnd(Raw(v), 0)
  OBVIOUS
<1>1. IsPrefix(Xml, v)
  BY Zenon DEF Names, Xml
<1>2. Len(v) >= 5
  BY <1>1, BeginsXml
<1>3. IsPrefix(Declaration, Raw(v))
  BY <1>1, RawPrefix, XmlFacts, DeclarationIs
<1>4. PICK k \in 1..Len(v) : Ends(v, k)
  BY Zenon DEF Names
<1>5. k \in 1..(Len(v) - 1)
  BY <1>4 DEF Ends
<1>6. HasEnd(Raw(v), 0)
  BY <1>4, <1>5, HasEndRaw
<1> QED
  BY <1>2, <1>3, <1>6

\* The offsets that Sniff takes for the inside of a whole declaration.
LEMMA BeforeIs ==
  ASSUME NEW v \in Seq(Byte), IsPrefix(Declaration, Raw(v)), HasEnd(Raw(v), 0),
         NEW before,
         before = {i \in 1..Len(Raw(v)) : ~\E j \in 0..(i - 1) : EndsAt(Raw(v), j)}
  PROVE  (\E i \in before : Raw(v)[i].unit = <<"E">>) <=> Names(v)
<1>1. /\ Len(v) \in Nat /\ Len(Raw(v)) = Len(v)
      /\ \A i \in 1..Len(v) : Raw(v)[i].unit = <<v[i]>>
  BY RawType
<1>2. \A i \in 0..(Len(v) - 2) : EndsAt(Raw(v), i) <=> Ends(v, i + 1)
  BY EndsAtRaw
<1>3. IsPrefix(Xml, v)
  BY RawPrefix, XmlFacts, DeclarationIs
<1>4. PICK h \in 0..(Len(v) - 2) : EndsAt(Raw(v), h)
  BY <1>1 DEF HasEnd
<1>5. ASSUME NEW i \in before, Raw(v)[i].unit = <<"E">>
      PROVE  Names(v)
  <2>1. i \in 1..Len(v) /\ \A j \in 0..(i - 1) : ~EndsAt(Raw(v), j)
    BY <1>1
  <2>2. v[i] = "E"
    BY <1>1, <1>5, <2>1
  <2>3. h + 1 \in 1..Len(v) /\ i < h + 1
    <3>1. ~(h \in 0..(i - 1))
      BY <1>4, <2>1
    <3> QED
      BY <1>1, <1>4, <2>1, <3>1
  <2>4. Ends(v, h + 1)
    BY <1>2, <1>4
  <2>5. ASSUME NEW j \in 1..i
        PROVE  ~Ends(v, j)
    <3>1. j - 1 \in 0..(i - 1) /\ j - 1 \in 0..(Len(v) - 2) /\ (j - 1) + 1 = j
      BY <1>1, <2>1, <2>3
    <3> QED
      BY <1>2, <2>1, <3>1
  <2>6. \E e, k \in 1..Len(v) : e < k /\ v[e] = "E" /\ Ends(v, k) /\ \A j \in 1..e : ~Ends(v, j)
    BY <2>1, <2>2, <2>3, <2>4, <2>5
  <2> QED
    BY <1>3, <2>6, Zenon DEF Names, Xml
<1>6. ASSUME Names(v)
      PROVE  \E i \in before : Raw(v)[i].unit = <<"E">>
  <2>1. PICK e \in 1..Len(v) : \E k \in 1..Len(v) :
          e < k /\ v[e] = "E" /\ Ends(v, k) /\ \A j \in 1..e : ~Ends(v, j)
    BY <1>6, Zenon DEF Names
  <2>2. PICK k \in 1..Len(v) :
          e < k /\ v[e] = "E" /\ Ends(v, k) /\ \A j \in 1..e : ~Ends(v, j)
    BY <2>1
  <2>3. ASSUME NEW j \in 0..(e - 1)
        PROVE  ~EndsAt(Raw(v), j)
    <3>1. j + 1 \in 1..e /\ j \in 0..(Len(v) - 2)
      BY <1>1, <2>2, k < Len(v) DEF Ends
    <3> QED
      BY <1>2, <2>2, <3>1
  <2>4. e \in before
    BY <1>1, <2>3
  <2>5. Raw(v)[e].unit = <<"E">>
    BY <1>1, <2>2
  <2> QED
    BY <2>4, <2>5
<1> QED
  BY <1>5, <1>6

LEMMA SniffIs ==
  ASSUME NEW in \in Buffer, NEW v \in Seq(Byte), Rest(in) = Raw(v)
  PROVE  /\ Sniff(in) = Sniffed(in, Undeclared(Raw(v)), IF Names(v) THEN declared ELSE in.enc)
         /\ Names(v) => ~Undeclared(Raw(v))
         /\ Undeclared(Raw(v)) \in BOOLEAN
<1> DEFINE x == Raw(v)
           before == {i \in 1..Len(x) : ~\E j \in 0..(i - 1) : EndsAt(x, j)}
<1>1. x \in Text /\ Len(x) = Len(v) /\ Len(v) \in Nat
  BY RawType
<1>2. Names(v) => Len(v) >= 5 /\ IsPrefix(Declaration, x) /\ HasEnd(x, 0)
  BY NamesIn
<1>3. IsPrefix(Declaration, x) /\ HasEnd(x, 0)
        => ((\E i \in before : x[i].unit = <<"E">>) <=> Names(v))
  BY BeforeIs
<1>4. Rest(in) = x
  OBVIOUS
<1>5. Sniff(in) =
        IF Len(x) < 5
        THEN [in EXCEPT !.declPending = x # <<>> /\ IsPrefix(x, Declaration)]
        ELSE IF ~IsPrefix(Declaration, x) THEN [in EXCEPT !.declPending = FALSE]
        ELSE IF ~HasEnd(x, 0) THEN [in EXCEPT !.declPending = TRUE]
        ELSE [in EXCEPT !.declPending = FALSE,
                        !.enc = IF \E i \in before : x[i].unit = <<"E">>
                                THEN declared ELSE in.enc]
  BY <1>4, Zenon DEF Sniff
<1> HIDE DEF x, before
<1>6. /\ \A p \in BOOLEAN : [in EXCEPT !.declPending = p] = Sniffed(in, p, in.enc)
      /\ \A p \in BOOLEAN : p = TRUE \/ p = FALSE
  BY SniffedIs
<1> DEFINE u == Undeclared(x)
<1>7. u <=> x # <<>> /\ IF Len(x) < 5 THEN IsPrefix(x, Declaration)
                        ELSE IsPrefix(Declaration, x) /\ ~HasEnd(x, 0)
  BY Zenon DEF Undeclared
<1>8. u \in BOOLEAN
  BY <1>7 DEF Undeclared
<1>9. Len(x) >= 5 => x # <<>>
  BY <1>1
<1> HIDE DEF u
<1>10. CASE Len(x) < 5
  <2>1. u = (x # <<>> /\ IsPrefix(x, Declaration))
    BY <1>7, <1>8, <1>10
  <2>2. ~Names(v)
    BY <1>1, <1>2, <1>10
  <2>3. Sniff(in) = [in EXCEPT !.declPending = u]
    BY <1>5, <1>10, <2>1, Zenon
  <2>4. Sniff(in) = Sniffed(in, u, in.enc)
    BY <1>6, <1>8, <2>3, Zenon
  <2> QED
    BY <1>8, <2>2, <2>4, Zenon DEF u, x
<1>11. CASE ~(Len(x) < 5) /\ ~IsPrefix(Declaration, x)
  <2>1. u = FALSE /\ ~Names(v)
    BY <1>2, <1>7, <1>8, <1>11
  <2>2. Sniff(in) = [in EXCEPT !.declPending = u]
    BY <1>5, <1>11, <2>1, Zenon
  <2>3. Sniff(in) = Sniffed(in, u, in.enc)
    BY <1>6, <1>8, <2>2, Zenon
  <2> QED
    BY <1>8, <2>1, <2>3, Zenon DEF u, x
<1>12. CASE ~(Len(x) < 5) /\ IsPrefix(Declaration, x) /\ ~HasEnd(x, 0)
  <2>1. u = TRUE /\ ~Names(v)
    BY <1>1, <1>2, <1>7, <1>8, <1>9, <1>12
  <2>2. Sniff(in) = [in EXCEPT !.declPending = u]
    BY <1>5, <1>12, <2>1, Zenon
  <2>3. Sniff(in) = Sniffed(in, u, in.enc)
    BY <1>6, <1>8, <2>2, Zenon
  <2> QED
    BY <1>8, <2>1, <2>3, Zenon DEF u, x
<1>13. CASE ~(Len(x) < 5) /\ IsPrefix(Declaration, x) /\ HasEnd(x, 0)
  <2>1. u = FALSE
    BY <1>7, <1>8, <1>13
  <2>2. (IF \E i \in before : x[i].unit = <<"E">> THEN declared ELSE in.enc)
          = IF Names(v) THEN declared ELSE in.enc
    BY <1>3, <1>13
  <2>3. Sniff(in) = [in EXCEPT !.declPending = FALSE,
                               !.enc = IF Names(v) THEN declared ELSE in.enc]
    BY <1>5, <1>13, <2>2, Zenon
  <2>4. Sniff(in) = Sniffed(in, u, IF Names(v) THEN declared ELSE in.enc)
    BY <2>1, <2>3, Zenon DEF Sniffed
  <2> QED
    BY <1>8, <2>1, <2>4, Zenon DEF u, x
<1> QED
  BY <1>10, <1>11, <1>12, <1>13

LEMMA FirstBytes ==
  ASSUME source \in Seq(Byte), NEW n \in 0..Len(source)
  PROVE  LET s == Pushed(n) IN
         /\ n >= 4 =>
              /\ IsPrefix(<<"FE", "FF">>, s) <=> source[1] = "FE" /\ source[2] = "FF"
              /\ IsPrefix(<<"00", "3C", "00", "3F">>, s)
                   <=> source[1] = "00" /\ source[2] = "3C" /\ source[3] = "00" /\ source[4] = "3F"
              /\ IsPrefix(<<"00", "00", "00", "3C">>, s)
                   <=> source[1] = "00" /\ source[2] = "00" /\ source[3] = "00" /\ source[4] = "3C"
              /\ IsPrefix(<<"4C", "6F", "A7", "94">>, s)
                   <=> source[1] = "4C" /\ source[2] = "6F" /\ source[3] = "A7" /\ source[4] = "94"
         /\ IsPrefix(<<"EF", "BB", "BF">>, s)
              <=> n >= 3 /\ source[1] = "EF" /\ source[2] = "BB" /\ source[3] = "BF"
<1> DEFINE s == Pushed(n)
<1>1. s \in Seq(Byte) /\ Len(s) = n /\ n \in Nat /\ \A i \in 1..n : s[i] = source[i]
  BY PushedIs
<1>2. /\ "FE" \in Byte /\ "FF" \in Byte /\ "00" \in Byte /\ "3C" \in Byte /\ "3F" \in Byte
      /\ "4C" \in Byte /\ "6F" \in Byte /\ "A7" \in Byte /\ "94" \in Byte
      /\ "EF" \in Byte /\ "BB" \in Byte /\ "BF" \in Byte
  BY DEF Byte, ASCII, NonASCII
<1> HIDE DEF s
<1>3. ASSUME n >= 4
      PROVE  /\ IsPrefix(<<"FE", "FF">>, s) <=> source[1] = "FE" /\ source[2] = "FF"
             /\ IsPrefix(<<"00", "3C", "00", "3F">>, s)
                  <=> source[1] = "00" /\ source[2] = "3C" /\ source[3] = "00" /\ source[4] = "3F"
             /\ IsPrefix(<<"00", "00", "00", "3C">>, s)
                  <=> source[1] = "00" /\ source[2] = "00" /\ source[3] = "00" /\ source[4] = "3C"
             /\ IsPrefix(<<"4C", "6F", "A7", "94">>, s)
                  <=> source[1] = "4C" /\ source[2] = "6F" /\ source[3] = "A7" /\ source[4] = "94"
  <2>1. s[1] = source[1] /\ s[2] = source[2] /\ s[3] = source[3] /\ s[4] = source[4]
    BY <1>1, <1>3
  <2>3. Len(s) >= 2 /\ Len(s) >= 4
    BY <1>1, <1>3
  <2>4. IsPrefix(<<"FE", "FF">>, s) <=> source[1] = "FE" /\ source[2] = "FF"
    BY ONLY <1>1, <1>2, <2>1, <2>3, Begins2
  <2>5. IsPrefix(<<"00", "3C", "00", "3F">>, s)
          <=> source[1] = "00" /\ source[2] = "3C" /\ source[3] = "00" /\ source[4] = "3F"
    BY ONLY <1>1, <1>2, <2>1, <2>3, Begins4, SMTT(30)
  <2>6. IsPrefix(<<"00", "00", "00", "3C">>, s)
          <=> source[1] = "00" /\ source[2] = "00" /\ source[3] = "00" /\ source[4] = "3C"
    BY ONLY <1>1, <1>2, <2>1, <2>3, Begins4, SMTT(30)
  <2>7. IsPrefix(<<"4C", "6F", "A7", "94">>, s)
          <=> source[1] = "4C" /\ source[2] = "6F" /\ source[3] = "A7" /\ source[4] = "94"
    BY ONLY <1>1, <1>2, <2>1, <2>3, Begins4, SMTT(30)
  <2> QED
    BY ONLY <2>4, <2>5, <2>6, <2>7, Zenon
<1>4. IsPrefix(<<"EF", "BB", "BF">>, s)
        <=> n >= 3 /\ source[1] = "EF" /\ source[2] = "BB" /\ source[3] = "BF"
  <2>1. IsPrefix(<<"EF", "BB", "BF">>, s)
          <=> Len(s) >= 3 /\ s[1] = "EF" /\ s[2] = "BB" /\ s[3] = "BF"
    BY ONLY <1>1, <1>2, Begins3
  <2>2. n >= 3 => s[1] = source[1] /\ s[2] = source[2] /\ s[3] = source[3]
    BY <1>1
  <2> QED
    BY ONLY <1>1, <2>1, <2>2
<1> QED
  BY ONLY <1>3, <1>4, Zenon DEF s

\* A declaration that names an encoding is there for good,
LEMMA NamedFinal ==
  ASSUME source \in Seq(Byte), NEW n \in 0..Len(source), Names(Pushed(n))
  PROVE  n >= 5 /\ Final(n)
<1>1. NamedIn(n)
  BY NamesIs
<1>2. n >= 5
  BY <1>1 DEF NamedIn
<1> QED
  BY <1>1, <1>2, FinalWhen

\* and text that cannot become one will not.
LEMMA PlainFinal ==
  ASSUME source \in Seq(Byte), NEW n \in 0..Len(source), n >= 4,
         ~Undeclared(Raw(Pushed(n)))
  PROVE  Final(n)
<1> DEFINE s == Pushed(n)
           x == Raw(s)
<1>1. s \in Seq(Byte) /\ Len(s) = n /\ n \in Nat /\ \A i \in 1..n : s[i] = source[i]
  BY PushedIs
<1>2. x \in Text /\ Len(x) = n
  BY <1>1, RawType
<1>3. ~(x # <<>> /\ IF Len(x) < 5 THEN IsPrefix(x, Declaration)
                    ELSE IsPrefix(Declaration, x) /\ ~HasEnd(x, 0))
  BY Zenon DEF Undeclared
<1>4. x # <<>>
  BY <1>2
<1>5. IsPrefix(s, Xml) => IsPrefix(x, Declaration)
  BY <1>1, XmlFacts, RawPrefix, DeclarationIs
<1>6. IsPrefix(Xml, s) => IsPrefix(Declaration, x)
  BY <1>1, XmlFacts, RawPrefix, DeclarationIs
<1>7. \A k \in 1..n : Ends(s, k) <=> k < n /\ EndOf(k)
  BY EndsIs
<1>8. HasEnd(x, 0) => \E k \in 1..(n - 1) : Ends(s, k)
  BY <1>1, HasEndRaw
<1> HIDE DEF s, x
<1>9. XmlAt => IF n < 5 THEN IsPrefix(s, Xml) ELSE IsPrefix(Xml, s)
  <2>1. IsPrefix(s, Xml) <=> /\ Len(s) <= Len(Xml)
                             /\ \A i \in 1..Len(s) : s[i] = Xml[i]
    BY ONLY <1>1, XmlFacts, PrefixOfBytes
  <2>2. IsPrefix(Xml, s) <=> /\ Len(s) >= 5
                             /\ s[1] = "3C" /\ s[2] = "3F" /\ s[3] = "78"
                             /\ s[4] = "6D" /\ s[5] = "6C"
    BY <1>1, BeginsXml
  <2>3. CASE n < 5
    <3>1. n = 4
      BY <1>1, <2>3
    <3>2. s[1] = source[1] /\ s[2] = source[2] /\ s[3] = source[3] /\ s[4] = source[4]
      BY <1>1, <3>1
    <3>3. XmlAt => \A i \in 1..4 : s[i] = Xml[i]
      BY <3>2, XmlFacts DEF XmlAt
    <3> QED
      BY <1>1, <2>1, <2>3, <3>1, <3>3, XmlFacts
  <2>4. CASE ~(n < 5)
    <3>1. /\ s[1] = source[1] /\ s[2] = source[2] /\ s[3] = source[3]
          /\ s[4] = source[4] /\ s[5] = source[5]
      BY <1>1, <2>4
    <3> QED
      BY <1>1, <2>2, <2>4, <3>1 DEF XmlAt
  <2> QED
    BY <2>3, <2>4
<1>10. ASSUME NEW k \in n..Len(source), NamedIn(k)
       PROVE  NamedIn(n)
  <2>1. XmlAt /\ k \in Nat /\ n <= k
    BY <1>1, <1>10 DEF NamedIn
  <2>2. ~(n < 5)
    BY <1>2, <1>3, <1>4, <1>5, <1>9, <2>1
  <2>3. HasEnd(x, 0)
    BY <1>2, <1>3, <1>4, <1>6, <1>9, <2>1, <2>2
  <2>4. \E j \in 1..(n - 1) : EndOf(j)
    <3>1. PICK j \in 1..(n - 1) : Ends(s, j)
      BY <1>8, <2>3
    <3>2. j \in 1..n
      BY <1>1
    <3> QED
      BY <1>7, <3>1, <3>2
  <2> QED
    BY ONLY <1>1, <1>10, <2>1, <2>4, NamedStays
<1> QED
  BY <1>10, FinalWhen

\* Behind a byte order mark of UTF-8 a declaration changes nothing.
LEMMA MarkedFinal ==
  ASSUME Unmarked, source \in Sources, declared \in Declarable, NEW n \in 0..Len(source),
         IsPrefix(<<"EF", "BB", "BF">>, Pushed(n))
  PROVE  /\ ~Names(Pushed(n))
         /\ Names(SubSeq(Pushed(n), 4, n)) => declared = "utf8"
         /\ n >= 4 => Final(n) /\ ~Signed
<1> DEFINE s == Pushed(n)
           v == SubSeq(s, 4, n)
           w == SubSeq(source, 4, Len(source))
           m == <<"EF", "BB", "BF">>
<1>1. source \in Seq(Byte)
  BY InputConstants
<1>2. /\ s \in Seq(Byte) /\ Len(s) = n /\ n \in Nat /\ \A i \in 1..n : s[i] = source[i]
      /\ Len(source) \in Nat /\ n <= Len(source)
  BY <1>1, PushedIs
<1>3. n >= 3 /\ source[1] = "EF" /\ source[2] = "BB" /\ source[3] = "BF"
  BY ONLY <1>1, FirstBytes, IsPrefix(<<"EF", "BB", "BF">>, Pushed(n)), n \in 0..Len(source)
<1>4. \A k : ~NamedIn(k)
  BY <1>3 DEF NamedIn, XmlAt
<1>5. ~Names(s)
  BY <1>1, <1>4, NamesIs
<1> HIDE DEF s
<1>6. v \in Seq(Byte) /\ Len(v) = n - 3 /\ \A i \in 1..(n - 3) : v[i] = s[i + 3]
  <2>1. 4 \in 1..(Len(s) + 1) /\ n \in (4 - 1)..Len(s)
    BY <1>2, <1>3
  <2>2. /\ v \in Seq(Byte) /\ Len(v) = n - 4 + 1
        /\ \A i \in 1..(n - 4 + 1) : v[i] = s[4 + i - 1]
    BY ONLY <1>2, <2>1, Cut
  <2> QED
    BY <1>2, <1>3, <2>2
<1>7. /\ w \in Seq(Byte) /\ Len(w) = Len(source) - 3
      /\ \A i \in 1..(Len(source) - 3) : w[i] = source[i + 3]
  <2>1. 4 \in 1..(Len(source) + 1) /\ Len(source) \in (4 - 1)..Len(source)
    BY <1>2, <1>3
  <2>2. /\ w \in Seq(Byte) /\ Len(w) = Len(source) - 4 + 1
        /\ \A i \in 1..(Len(source) - 4 + 1) : w[i] = source[4 + i - 1]
    BY ONLY <1>1, <2>1, Cut
  <2> QED
    BY <1>2, <1>3, <2>2
<1> HIDE DEF v, w
<1>8. Len(v) \in Nat /\ Len(w) \in Nat /\ Len(v) <= Len(w)
  BY <1>2, <1>3, <1>6, <1>7
<1>9. \A i \in 1..Len(v) : v[i] = w[i]
  <2> SUFFICES ASSUME NEW i \in 1..Len(v)
               PROVE  v[i] = w[i]
    OBVIOUS
  <2>1. i \in 1..(n - 3) /\ i \in 1..(Len(source) - 3) /\ i + 3 \in 1..n
    BY <1>2, <1>6
  <2>2. v[i] = s[i + 3] /\ w[i] = source[i + 3] /\ s[i + 3] = source[i + 3]
    BY ONLY <1>2, <1>6, <1>7, <2>1
  <2> QED
    BY ONLY <2>2, Zenon
<1>10. \A k \in Nat : Ends(v, k) /\ k >= 1 => Ends(w, k)
  <2> SUFFICES ASSUME NEW k \in Nat, Ends(v, k), k >= 1
               PROVE  Ends(w, k)
    OBVIOUS
  <2>1. k \in 1..Len(v) /\ k + 1 \in 1..Len(v) /\ k < Len(w)
    BY <1>8 DEF Ends
  <2>2. v[k] = w[k] /\ v[k + 1] = w[k + 1]
    BY ONLY <1>9, <2>1
  <2> QED
    BY <2>1, <2>2, Zenon DEF Ends
<1>11. \A k \in Nat : k >= 1 /\ k < Len(v) /\ Ends(w, k) => Ends(v, k)
  <2> SUFFICES ASSUME NEW k \in Nat, k >= 1, k < Len(v), Ends(w, k)
               PROVE  Ends(v, k)
    OBVIOUS
  <2>1. k \in 1..Len(v) /\ k + 1 \in 1..Len(v)
    BY <1>8
  <2>2. v[k] = w[k] /\ v[k + 1] = w[k + 1]
    BY ONLY <1>9, <2>1
  <2> QED
    BY <2>1, <2>2, Zenon DEF Ends
<1>12. Names(v) => Names(w)
  <2> SUFFICES ASSUME Names(v)
               PROVE  Names(w)
    OBVIOUS
  <2>1. PICK e \in 1..Len(v), k \in 1..Len(v) :
               /\ e < k /\ v[e] = "E" /\ Ends(v, k)
               /\ \A j \in 1..e : ~Ends(v, j)
    BY Zenon DEF Names
  <2>2. IsPrefix(Xml, v)
    BY Zenon DEF Names, Xml
  <2>3. IsPrefix(Xml, w)
    <3>1. /\ Len(v) >= 5 /\ v[1] = "3C" /\ v[2] = "3F" /\ v[3] = "78"
          /\ v[4] = "6D" /\ v[5] = "6C"
      BY ONLY <1>6, <2>2, BeginsXml
    <3>2. /\ v[1] = w[1] /\ v[2] = w[2] /\ v[3] = w[3] /\ v[4] = w[4] /\ v[5] = w[5]
      <4>1. /\ 1 \in 1..Len(v) /\ 2 \in 1..Len(v) /\ 3 \in 1..Len(v)
            /\ 4 \in 1..Len(v) /\ 5 \in 1..Len(v)
        BY <1>8, <3>1
      <4> QED
        BY ONLY <1>9, <4>1, Zenon
    <3>3. /\ w[1] = "3C" /\ w[2] = "3F" /\ w[3] = "78" /\ w[4] = "6D" /\ w[5] = "6C"
      BY ONLY <3>1, <3>2, Zenon
    <3>4. Len(w) >= 5
      BY <1>8, <3>1
    <3>5. w \in Seq(Byte)
      BY <1>7
    <3> QED
      BY ONLY <3>3, <3>4, <3>5, BeginsXml
  <2>4. e \in 1..Len(w) /\ k \in 1..Len(w) /\ k \in Nat /\ k >= 1
    BY <1>8
  <2>5. w[e] = "E" /\ Ends(w, k)
    BY <1>9, <1>10, <2>1, <2>4, Zenon
  <2>6. \A j \in 1..e : ~Ends(w, j)
    <3> SUFFICES ASSUME NEW j \in 1..e
                 PROVE  ~Ends(w, j)
      OBVIOUS
    <3>1. j \in Nat /\ j >= 1 /\ j < Len(v)
      BY ONLY <1>8, <2>1, e \in 1..Len(v), k \in 1..Len(v), j \in 1..e
    <3>2. ~Ends(v, j)
      BY <2>1
    <3> QED
      BY ONLY <1>11, <3>1, <3>2, Zenon
  <2> QED
    BY <2>1, <2>3, <2>4, <2>5, <2>6, Zenon DEF Names, Xml
<1>13. IsPrefix(m, source)
  <2>1. "EF" \in Byte /\ "BB" \in Byte /\ "BF" \in Byte /\ Len(source) >= 3
    BY <1>2, <1>3 DEF Byte, NonASCII
  <2> QED
    BY ONLY <1>1, <1>3, <2>1, Begins3
<1>14. Names(v) => declared = "utf8"
  <2>1. CASE Declarable \subseteq {"utf8"}
    BY ONLY <2>1, declared \in Declarable
  <2>2. CASE \A t \in Sources :
               IsPrefix(<<"EF", "BB", "BF">>, t) => ~Names(SubSeq(t, 4, Len(t)))
    <3>1. ~Names(SubSeq(source, 4, Len(source)))
      BY ONLY <1>13, <2>2, source \in Sources, Zenon
    <3> QED
      BY ONLY <1>12, <3>1, Zenon DEF w
  <2> QED
    BY <2>1, <2>2, Zenon DEF Unmarked
<1>15. n >= 4 => Final(n)
  BY <1>1, <1>4, FinalWhen
<1>16. ~Signed
  BY <1>3 DEF Signed
<1> QED
  BY <1>5, <1>14, <1>15, <1>16, Zenon DEF s, v

-----------------------------------------------------------------------------
(* What each way of taking bytes changes.                                  *)

LEMMA BufferFields ==
  ASSUME NEW in \in Buffer
  PROVE  /\ in.decoding \in {"parked", "decided"} /\ in.pending \in Seq(Byte)
         /\ in.data \in Text /\ in.pos \in Nat /\ in.enc \in Code
         /\ in.converted \in BOOLEAN /\ in.declPending \in BOOLEAN
         /\ in.decoder \in Decoder /\ in.invalid \in BOOLEAN /\ in.truncated \in BOOLEAN
BY DEF Buffer

LEMMA SkeletonType == Skeleton \in Buffer
<1>1. <<>> \in Seq(Byte) /\ <<>> \in Text /\ FreshDecoder \in Decoder
  BY FreshType
<1> QED
  BY <1>1 DEF Skeleton, Buffer, Code

\* What stays as it was when a decided input takes more.
Stays(in, out) ==
  /\ out.decoding = in.decoding /\ out.pos = in.pos /\ out.enc = in.enc
  /\ out.converted = in.converted /\ out.declPending = in.declPending

LEMMA DataWritten ==
  ASSUME NEW in \in Buffer, NEW d \in Text
  PROVE  LET out == [in EXCEPT !.data = d] IN
         /\ out \in Buffer /\ Stays(in, out) /\ out.data = d /\ out.pending = in.pending
         /\ out.decoder = in.decoder
         /\ out.invalid = in.invalid /\ out.truncated = in.truncated
BY DEF Buffer, Stays

LEMMA PendingWritten ==
  ASSUME NEW in \in Buffer, NEW p \in Seq(Byte)
  PROVE  LET out == [in EXCEPT !.pending = p] IN
         /\ out \in Buffer /\ Stays(in, out) /\ out.data = in.data /\ out.pending = p
         /\ out.decoder = in.decoder
         /\ out.invalid = in.invalid /\ out.truncated = in.truncated
BY DEF Buffer, Stays

LEMMA DecidedWritten ==
  ASSUME NEW in \in Buffer
  PROVE  LET out == [in EXCEPT !.decoding = "decided"] IN
         /\ out \in Buffer /\ out.data = in.data /\ out.pos = in.pos /\ out.enc = in.enc
         /\ out.converted = in.converted /\ out.decoding = "decided"
         /\ out.pending = in.pending /\ out.declPending = in.declPending
         /\ out.decoder = in.decoder /\ out.invalid = in.invalid
         /\ out.truncated = in.truncated
BY DEF Buffer

LEMMA CursorWritten ==
  ASSUME NEW in \in Buffer, NEW p \in Nat
  PROVE  LET out == [in EXCEPT !.pos = p] IN
         /\ out \in Buffer /\ out.data = in.data /\ out.pos = p /\ out.enc = in.enc
         /\ out.converted = in.converted /\ out.decoding = in.decoding
         /\ out.pending = in.pending /\ out.declPending = in.declPending
         /\ out.decoder = in.decoder /\ out.invalid = in.invalid
         /\ out.truncated = in.truncated
BY DEF Buffer

-----------------------------------------------------------------------------
(* The reading of one more chunk.                                          *)

LEMMA EncFacts ==
  ASSUME source \in Sources, declared \in Declarable, NEW n \in 0..Len(source)
  PROVE  /\ source \in Seq(Byte)
         /\ Enc(n) \in Code \ {"none"}
         /\ Skip(n) \in 0..n /\ Skip(n) \in {0, 2}
         /\ Enc(n) \in {"utf8", "latin1", "cp1252", "stateful", "ebcdic"} => Skip(n) = 0
         /\ Enc(n) \in {"utf8", "latin1", "cp1252", "stateful"} => n < 4 \/ ~Signed
         /\ n < 4 => Enc(n) = "utf8"
<1>1. source \in Seq(Byte) /\ declared \in {"utf8", "latin1", "cp1252", "stateful"}
  BY InputConstants
<1>2. CASE n < 4 \/ ~Signed
  <2>1. Enc(n) = (IF Names(Pushed(n)) THEN declared ELSE "utf8") /\ Skip(n) = 0
    BY <1>1, <1>2, Unsigned
  <2>2. n < 4 => ~Names(Pushed(n))
    BY <1>1, NamedFinal
  <2>3. Enc(n) \in {"utf8", "latin1", "cp1252", "stateful"} /\ (n < 4 => Enc(n) = "utf8")
    BY <1>1, <2>1, <2>2
  <2>4. 0 \in 0..n
    OBVIOUS
  <2> QED
    BY <1>1, <1>2, <2>1, <2>3, <2>4 DEF Code
<1>3. CASE n >= 4 /\ Signed
  <2>1. /\ Enc(n) = IF source[1] = "FE" THEN "utf16"
                    ELSE IF source[1] = "4C" THEN "ebcdic"
                    ELSE IF source[2] = "3C" THEN "utf16" ELSE "ucs4"
        /\ Skip(n) = IF source[1] = "FE" THEN 2 ELSE 0
    BY <1>1, <1>3, SignedIs
  <2>2. Skip(n) \in {0, 2} /\ Skip(n) \in 0..n
    BY <1>3, <2>1
  <2>3. CASE source[1] = "FE"
    BY <1>1, <1>3, <2>1, <2>2, <2>3 DEF Code
  <2>4. CASE source[1] # "FE"
    BY <1>1, <1>3, <2>1, <2>2, <2>4 DEF Code
  <2> QED
    BY <2>3, <2>4
<1> QED
  BY <1>2, <1>3

LEMMA SkipOn ==
  ASSUME source \in Seq(Byte), NEW n \in 0..Len(source), NEW k \in 0..(Len(source) - n),
         NEW j \in 0..n
  PROVE  /\ SubSeq(source, j + 1, n) \in Seq(Byte)
         /\ SubSeq(source, n + 1, n + k) \in Seq(Byte)
         /\ SubSeq(source, j + 1, n + k)
              = SubSeq(source, j + 1, n) \o SubSeq(source, n + 1, n + k)
<1>1. /\ Len(source) \in Nat /\ n \in Nat /\ k \in Nat /\ j \in Nat /\ j <= n
      /\ n + k <= Len(source)
  OBVIOUS
<1> DEFINE x == SubSeq(source, j + 1, n)
           y == SubSeq(source, n + 1, n + k)
           z == SubSeq(source, j + 1, n + k)
<1>2. x \in Seq(Byte) /\ Len(x) = n - j /\ \A i \in 1..(n - j) : x[i] = source[j + i]
  <2>1. j + 1 \in 1..(Len(source) + 1) /\ n \in ((j + 1) - 1)..Len(source)
    BY <1>1
  <2>2. /\ x \in Seq(Byte) /\ Len(x) = n - (j + 1) + 1
        /\ \A i \in 1..(n - (j + 1) + 1) : x[i] = source[(j + 1) + i - 1]
    BY ONLY <2>1, source \in Seq(Byte), Cut
  <2> QED
    BY <1>1, <2>2
<1>3. y \in Seq(Byte) /\ Len(y) = k /\ \A i \in 1..k : y[i] = source[n + i]
  <2>1. n + 1 \in 1..(Len(source) + 1) /\ n + k \in ((n + 1) - 1)..Len(source)
    BY <1>1
  <2>2. /\ y \in Seq(Byte) /\ Len(y) = (n + k) - (n + 1) + 1
        /\ \A i \in 1..((n + k) - (n + 1) + 1) : y[i] = source[(n + 1) + i - 1]
    BY ONLY <2>1, source \in Seq(Byte), Cut
  <2> QED
    BY <1>1, <2>2
<1>4. z \in Seq(Byte) /\ Len(z) = n + k - j /\ \A i \in 1..(n + k - j) : z[i] = source[j + i]
  <2>1. j + 1 \in 1..(Len(source) + 1) /\ n + k \in ((j + 1) - 1)..Len(source)
    BY <1>1
  <2>2. /\ z \in Seq(Byte) /\ Len(z) = (n + k) - (j + 1) + 1
        /\ \A i \in 1..((n + k) - (j + 1) + 1) : z[i] = source[(j + 1) + i - 1]
    BY ONLY <2>1, source \in Seq(Byte), Cut
  <2> QED
    BY <1>1, <2>2
<1> HIDE DEF x, y, z
<1>5. /\ x \o y \in Seq(Byte) /\ Len(x \o y) = Len(x) + Len(y)
      /\ \A i \in 1..(Len(x) + Len(y)) : (x \o y)[i] = IF i <= Len(x) THEN x[i] ELSE y[i - Len(x)]
  BY <1>2, <1>3, Joined
<1>6. ASSUME NEW i \in 1..Len(z)
      PROVE  z[i] = (x \o y)[i]
  <2>1. CASE i <= Len(x)
    <3>1. i \in 1..(n - j) /\ i \in 1..(Len(x) + Len(y)) /\ i \in 1..(n + k - j)
      BY <1>1, <1>2, <1>3, <1>4, <2>1
    <3> QED
      BY <1>2, <1>4, <1>5, <2>1, <3>1
  <2>2. CASE ~(i <= Len(x))
    <3>1. i - Len(x) \in 1..k /\ i \in 1..(Len(x) + Len(y)) /\ i \in 1..(n + k - j)
      BY <1>1, <1>2, <1>3, <1>4, <2>2
    <3>2. n + (i - Len(x)) = j + i
      BY <1>1, <1>2, <3>1
    <3>3. y[i - Len(x)] = source[j + i]
      BY <1>3, <3>1, <3>2
    <3> QED
      BY <1>4, <1>5, <2>2, <3>1, <3>3
  <2> QED
    BY <2>1, <2>2
<1>7. z = x \o y
  <2>1. Len(z) = Len(x \o y)
    BY <1>1, <1>2, <1>3, <1>4, <1>5
  <2> QED
    BY <1>4, <1>5, <1>6, <2>1, SeqEqual
<1> QED
  BY <1>2, <1>3, <1>7 DEF x, y, z

\* A chunk that changes nothing of the encoding is read on.
LEMMA ReadingMore ==
  ASSUME source \in Sources, declared \in Declarable,
         NEW n \in 0..Len(source), NEW k \in 0..(Len(source) - n), k = 0 \/ Final(n),
         NEW s, s = SubSeq(source, Skip(n) + 1, n),
         NEW b, b = SubSeq(source, n + 1, n + k)
  PROVE  /\ n + k \in 0..Len(source) /\ s \in Seq(Byte) /\ b \in Seq(Byte)
         /\ Enc(n + k) = Enc(n) /\ Skip(n + k) = Skip(n)
         /\ ReadingOf(n) = ReadBytes(Enc(n), FreshReader, s)
         /\ ReadingOf(n) \in Reader
         /\ ReadingOf(n + k) = ReadBytes(Enc(n), FreshReader, s \o b)
         /\ ReadingOf(n + k) = ReadBytes(Enc(n), ReadingOf(n), b)
         /\ ReadingOf(n + k) \in Reader
         /\ k = 0 => ReadingOf(n + k) = ReadingOf(n)
         /\ Final(n) => Final(n + k)
<1>1. /\ n + k \in 0..Len(source) /\ n + k \in n..Len(source)
      /\ (k = 0 => n + k = n) /\ n + k \in Nat /\ Len(source) \in Nat /\ n \in Nat /\ n <= n + k
  OBVIOUS
<1>2. source \in Seq(Byte) /\ Enc(n) \in Code \ {"none"} /\ Skip(n) \in 0..n
  BY EncFacts
<1>3. Encoding(Pushed(n + k)) = Encoding(Pushed(n))
  <2>1. CASE k = 0
    BY <1>1, <2>1
  <2>2. CASE Final(n)
    BY <1>1, <2>2, Zenon DEF Final
  <2> QED
    BY <2>1, <2>2
<1>4. Enc(n + k) = Enc(n) /\ Skip(n + k) = Skip(n)
  BY <1>3, Zenon DEF Enc, Skip
<1>5. /\ s \in Seq(Byte) /\ b \in Seq(Byte)
      /\ SubSeq(source, Skip(n) + 1, n + k) = s \o b
  BY ONLY <1>2, SkipOn, n \in 0..Len(source), k \in 0..(Len(source) - n),
     s = SubSeq(source, Skip(n) + 1, n), b = SubSeq(source, n + 1, n + k)
<1>6. ReadingOf(n) = ReadBytes(Enc(n), FreshReader, s)
  BY Zenon DEF ReadingOf
<1>7. ReadingOf(n + k) = ReadBytes(Enc(n), FreshReader, s \o b)
  BY ONLY <1>4, <1>5, Zenon DEF ReadingOf
<1>8. ReadingOf(n + k) = ReadBytes(Enc(n), ReadingOf(n), b)
  BY ONLY <1>5, <1>6, <1>7, ReadOn
<1>9. ReadingOf(n) \in Reader
  BY ONLY <1>2, <1>5, <1>6, FreshType, ReadingGrows
<1>10. ReadingOf(n + k) \in Reader
  BY ONLY <1>2, <1>5, <1>8, <1>9, ReadingGrows
<1>11. k = 0 => ReadingOf(n + k) = ReadingOf(n)
  BY <1>1
<1>12. ASSUME Final(n)
       PROVE  Final(n + k)
  <2>1. \A j \in (n + k)..Len(source) : j \in n..Len(source)
    BY <1>1
  <2>2. \A j \in n..Len(source) : Encoding(Pushed(j)) = Encoding(Pushed(n))
    BY <1>12, Zenon DEF Final
  <2> QED
    BY ONLY <1>3, <2>1, <2>2, Zenon DEF Final
<1> QED
  BY ONLY <1>1, <1>4, <1>5, <1>6, <1>7, <1>8, <1>9, <1>10, <1>11, <1>12, Zenon

-----------------------------------------------------------------------------
(* Appending to what is decoded as it comes.                               *)

TailOf(in, term, u, out) ==
  LET tail == SubSeq(in.pending, u.used + 1, Len(in.pending)) IN
  /\ u \in Units /\ u.used \in 0..Len(in.pending)
  /\ out \in Buffer /\ Stays(in, out)
  /\ out.data = in.data \o u.out /\ out.pending = tail
  /\ out.invalid = (in.invalid \/ u.bad)
  /\ out.truncated = (in.truncated \/ (~u.bad /\ term /\ tail # <<>>))

LEMMA TailIs ==
  ASSUME NEW in \in Buffer, in.enc \in Wide, NEW term \in BOOLEAN
  PROVE  TailOf(in, term, DecodeUnits(in.enc, in.pending), DecodeTail(in, term))
<1> DEFINE u == DecodeUnits(in.enc, in.pending)
           tail == SubSeq(in.pending, u.used + 1, Len(in.pending))
           out == DecodeTail(in, term)
<1>1. in.pending \in Seq(Byte) /\ in.data \in Text /\ in.invalid \in BOOLEAN /\ in.truncated \in BOOLEAN
  BY BufferFields
<1>2. Reads(in.enc, in.pending, 0, u)
  BY <1>1, DecodeUnitsReads
<1> DEFINE d == in.data \o u.out
           i == in.invalid \/ u.bad
           t == in.truncated \/ (~u.bad /\ term /\ tail # <<>>)
<1>8. out = [in EXCEPT !.data = d, !.pending = tail, !.invalid = i, !.truncated = t]
  BY Zenon DEF DecodeTail
<1> HIDE DEF u, out
<1>3. u \in Units /\ u.used \in 0..Len(in.pending)
  BY ONLY <1>2, Zenon DEF Reads
<1>4. tail \in Seq(Byte)
  BY <1>1, <1>3, CutRest, 0 \in 0..Len(in.pending)
<1> HIDE DEF tail
<1>5. u.out \in Text /\ u.bad \in BOOLEAN
  BY <1>3 DEF Units
<1>6. d \in Text
  BY <1>1, <1>5 DEF Text
<1>7. i \in BOOLEAN /\ t \in BOOLEAN
  OBVIOUS
<1> HIDE DEF d, i, t
<1>10. /\ out \in Buffer /\ Stays(in, out) /\ out.data = d /\ out.pending = tail
       /\ out.invalid = i /\ out.truncated = t
  BY ONLY <1>4, <1>6, <1>7, <1>8, in \in Buffer DEF Buffer, Stays
<1> QED
  BY ONLY <1>3, <1>10, Zenon DEF d, i, t, tail, u, out, TailOf

LEMMA AppendWide ==
  ASSUME NEW in \in Buffer, in.enc \in Wide, in.converted,
         NEW b \in Seq(Byte), NEW term \in BOOLEAN
  PROVE  /\ in.pending \o b \in Seq(Byte)
         /\ TailOf([in EXCEPT !.pending = in.pending \o b], term,
                   DecodeUnits(in.enc, in.pending \o b), AppendDecided(in, b, term))
<1> DEFINE p == in.pending \o b
           h == [in EXCEPT !.pending = p]
<1>1. p \in Seq(Byte)
  BY BufferFields
<1>2. AppendDecided(in, b, term) = DecodeTail(h, term)
  BY in.enc \in {"utf16", "ucs4"}, Zenon DEF AppendDecided, Wide
<1> HIDE DEF p
<1>3. h \in Buffer /\ Stays(in, h) /\ h.pending = p
  BY <1>1, PendingWritten
<1> HIDE DEF h
<1>4. h.enc = in.enc /\ h.enc \in Wide
  BY <1>3 DEF Stays
<1>5. TailOf(h, term, DecodeUnits(h.enc, h.pending), DecodeTail(h, term))
  BY <1>3, <1>4, TailIs
<1>6. TailOf(h, term, DecodeUnits(in.enc, p), AppendDecided(in, b, term))
  BY ONLY <1>2, <1>3, <1>4, <1>5, Zenon
<1> QED
  BY ONLY <1>1, <1>6, Zenon DEF h, p

LEMMA RegistryType ==
  ASSUME NEW d \in Decoder, NEW b \in Seq(Byte), NEW last \in BOOLEAN,
         NEW q, q = RegistryDecode(d, b, last)
  PROVE  /\ q.dec \in Decoder /\ q.out \in Text
         /\ q.invalid \in BOOLEAN /\ q.truncated \in BOOLEAN
<1> DEFINE start == IF d.finished THEN FreshDecoder ELSE d
           x == [FreshReader EXCEPT !.dec = start]
           r == ReadBytes("stateful", x, b)
<1>1. start \in Decoder
  BY FreshType
<1> HIDE DEF start
<1>2. x \in Reader
  BY <1>1, FreshType DEF Reader, FreshReader
<1> HIDE DEF x
<1>3. r \in Reader
  BY ONLY <1>2, b \in Seq(Byte), ReadingGrows, "stateful" \in Code \ {"none"} DEF Code
<1>4. q = IF d.finished /\ b = <<>>
          THEN [dec |-> d, out |-> <<>>, invalid |-> FALSE, truncated |-> FALSE]
          ELSE [dec |-> [r.dec EXCEPT !.finished = last /\ ~r.bad],
                out |-> r.out, invalid |-> r.bad,
                truncated |-> ~r.bad /\ last /\ r.dec.held # <<>>]
  BY Zenon DEF RegistryDecode, r, x, start
<1> HIDE DEF r
<1>5. r.dec \in Decoder /\ r.out \in Text /\ r.bad \in BOOLEAN
  BY <1>3, ReaderFields
<1> DEFINE g == last /\ ~r.bad
<1>6. g \in BOOLEAN
  BY <1>5
<1> HIDE DEF g
<1>7. [r.dec EXCEPT !.finished = g] \in Decoder
  BY <1>5, <1>6 DEF Decoder
<1>8. CASE d.finished /\ b = <<>>
  BY <1>4, <1>8, FreshType
<1>9. CASE ~(d.finished /\ b = <<>>)
  <2>1. q = [dec |-> [r.dec EXCEPT !.finished = g],
             out |-> r.out, invalid |-> r.bad,
             truncated |-> ~r.bad /\ last /\ r.dec.held # <<>>]
    BY <1>4, <1>9, Zenon DEF g
  <2>2. q.dec = [r.dec EXCEPT !.finished = g]
    BY ONLY <2>1
  <2>3. q.dec \in Decoder
    BY <1>7, <2>2, Zenon
  <2>4. q.out = r.out /\ q.invalid = r.bad /\ q.truncated \in BOOLEAN
    BY <2>1
  <2> QED
    BY <1>5, <2>3, <2>4
<1> QED
  BY <1>8, <1>9

StreamOf(in, q, out) ==
  /\ out \in Buffer /\ Stays(in, out)
  /\ q.out \in Text /\ out.data = in.data \o q.out
  /\ q.dec \in Decoder /\ out.decoder = q.dec
  /\ out.invalid = (in.invalid \/ q.invalid)
  /\ out.truncated = (in.truncated \/ q.truncated)

LEMMA AppendStateful ==
  ASSUME NEW in \in Buffer, in.enc = "stateful", in.converted,
         NEW b \in Seq(Byte), NEW term \in BOOLEAN
  PROVE  StreamOf(in, RegistryDecode(in.decoder, b, term), AppendDecided(in, b, term))
<1> DEFINE q == RegistryDecode(in.decoder, b, term)
           out == AppendDecided(in, b, term)
           d == in.data \o q.out
           i == in.invalid \/ q.invalid
           t == in.truncated \/ q.truncated
<1>1. in.data \in Text /\ in.decoder \in Decoder
  BY BufferFields
<1>2. q.dec \in Decoder /\ q.out \in Text
  BY <1>1, RegistryType
<1>3. d \in Text /\ i \in BOOLEAN /\ t \in BOOLEAN
  BY <1>1, <1>2 DEF Text
<1>4. out = [in EXCEPT !.data = d, !.decoder = q.dec, !.invalid = i, !.truncated = t]
  <2>1. ~(in.enc \in {"utf16", "ucs4"})
    OBVIOUS
  <2> QED
    BY <2>1, Zenon DEF AppendDecided
<1> HIDE DEF d, i, t, q, out
<1>5. /\ out \in Buffer /\ Stays(in, out) /\ out.data = d
      /\ out.decoder = q.dec /\ out.invalid = i /\ out.truncated = t
  BY ONLY <1>2, <1>3, <1>4, in \in Buffer DEF Buffer, Stays
<1> QED
  BY ONLY <1>2, <1>5, Zenon DEF d, i, t, q, out, StreamOf

TableOf(in, w, out) ==
  /\ out \in Buffer /\ Stays(in, out)
  /\ w \in Text /\ out.data = in.data \o w
  /\ out.invalid = in.invalid /\ out.truncated = in.truncated

LEMMA AppendTable ==
  ASSUME NEW in \in Buffer, in.enc \in Tables, in.converted,
         NEW b \in Seq(Byte), ~Undefined(in.enc, b), NEW term \in BOOLEAN
  PROVE  TableOf(in, ByteWise(in.enc, b), AppendDecided(in, b, term))
<1> DEFINE out == AppendDecided(in, b, term)
           w == ByteWise(in.enc, b)
           d == in.data \o w
<1>1. in.data \in Text
  BY BufferFields
<1>2. w \in Text
  BY FreshType, ReadByteWise
<1> HIDE DEF w
<1>3. d \in Text
  BY <1>1, <1>2 DEF Text
<1>4. out = [in EXCEPT !.data = d]
  <2>1. /\ ~(in.enc \in {"utf16", "ucs4"}) /\ in.enc # "stateful"
        /\ in.enc \in {"latin1", "cp1252", "ebcdic"}
    BY DEF Tables
  <2> QED
    BY <2>1, Zenon DEF AppendDecided, d, w
<1> HIDE DEF d, out
<1>5. /\ out \in Buffer /\ Stays(in, out) /\ out.data = d
      /\ out.invalid = in.invalid /\ out.truncated = in.truncated
  BY ONLY <1>3, <1>4, in \in Buffer, DataWritten
<1> QED
  BY ONLY <1>2, <1>5, Zenon DEF d, w, out, TableOf

\* One more chunk of a source in a double-byte, a stateful or a single-byte encoding.
LEMMA WideMore ==
  ASSUME source \in Sources, declared \in Declarable, NEW in \in Buffer,
         NEW n \in 0..Len(source), NEW k \in 0..(Len(source) - n),
         NEW last \in BOOLEAN, NEW term \in BOOLEAN, last => k = 0 /\ term,
         AsDecoded(in, n, last), in.enc \in Wide,
         NEW b, b = SubSeq(source, n + 1, n + k),
         NEW out, out = AppendDecided(in, b, term)
  PROVE  /\ out \in Buffer /\ Stays(in, out) /\ IsPrefix(in.data, out.data)
         /\ AsDecoded(out, n + k, term)
<1> DEFINE m == n + k
           s == SubSeq(source, Skip(n) + 1, n)
           r0 == ReadingOf(n)
           r1 == ReadingOf(m)
           p == in.pending \o b
           u == DecodeUnits(in.enc, p)
           h == [in EXCEPT !.pending = p]
<1>1. /\ Enc(n) = in.enc /\ in.converted
      /\ last \/ Final(n)
      /\ in.invalid = r0.bad
      /\ ~r0.bad => in.data = r0.out /\ in.truncated = (last /\ r0.dec.held # <<>>)
      /\ r0.bad => IsPrefix(r0.out, in.data)
      /\ ~r0.bad => in.pending = r0.dec.held
  <2>1. /\ Enc(n) = in.enc /\ in.converted
        /\ last \/ Final(n)
        /\ in.invalid = r0.bad
        /\ ~r0.bad => in.data = r0.out /\ in.truncated = (last /\ r0.dec.held # <<>>)
        /\ r0.bad => IsPrefix(r0.out, in.data)
        /\ \/ in.enc \in Wide /\ (~r0.bad => in.pending = r0.dec.held)
           \/ in.enc = "stateful"
           \/ in.enc \in Tables
    BY Zenon DEF AsDecoded
  <2>2. in.enc # "stateful" /\ in.enc \notin Tables
    BY DEF Wide, Tables
  <2> QED
    BY <2>1, <2>2
<1>2. k = 0 \/ Final(n)
  BY <1>1
<1>3. /\ n + k \in 0..Len(source) /\ s \in Seq(Byte) /\ b \in Seq(Byte)
      /\ Enc(n + k) = Enc(n) /\ Skip(n + k) = Skip(n)
      /\ ReadingOf(n) = ReadBytes(Enc(n), FreshReader, s)
      /\ ReadingOf(n) \in Reader
      /\ ReadingOf(n + k) = ReadBytes(Enc(n), FreshReader, s \o b)
      /\ ReadingOf(n + k) = ReadBytes(Enc(n), ReadingOf(n), b)
      /\ ReadingOf(n + k) \in Reader
      /\ k = 0 => ReadingOf(n + k) = ReadingOf(n)
      /\ Final(n) => Final(n + k)
  BY <1>2, ReadingMore
<1>4. Enc(m) = in.enc
  BY <1>1, <1>3
<1>5. r0 = ReadBytes(in.enc, FreshReader, s) /\ r1 = ReadBytes(in.enc, FreshReader, s \o b)
  BY <1>1, <1>3
<1>6. r0 \in Reader /\ r1 \in Reader /\ (k = 0 => r1 = r0)
  BY <1>3
<1>7. term \/ Final(m)
  BY <1>1, <1>3
<1>8. r0.bad => r1 = r0
  BY <1>1, <1>3, <1>6, ReadingGrows DEF Wide, Code
<1>9. p \in Seq(Byte) /\ TailOf(h, term, u, out)
  BY <1>1, <1>3, AppendWide
<1>10. /\ h \in Buffer /\ Stays(in, h) /\ h.data = in.data /\ h.pending = p
       /\ h.invalid = in.invalid /\ h.truncated = in.truncated
  BY <1>9, PendingWritten
<1> HIDE DEF m, s, r0, r1, p, u, h
<1>11. /\ u \in Units
       /\ out \in Buffer /\ Stays(h, out)
       /\ out.data = in.data \o u.out /\ out.pending = SubSeq(p, u.used + 1, Len(p))
       /\ out.invalid = (in.invalid \/ u.bad)
       /\ out.truncated = (in.truncated \/ (~u.bad /\ term /\ SubSeq(p, u.used + 1, Len(p)) # <<>>))
  BY ONLY <1>9, <1>10, Zenon DEF TailOf
<1>12. Stays(in, out)
  BY <1>10, <1>11 DEF Stays
<1>13. in.data \in Text /\ u.out \in Text /\ u.bad \in BOOLEAN /\ out.data \in Text
  <2>1. in.data \in Text /\ out.data \in Text
    BY <1>11, BufferFields
  <2> QED
    BY <1>11, <2>1 DEF Units
<1>14. IsPrefix(in.data, out.data)
  BY <1>11, <1>13, PrefixOn DEF Text
<1>15. r0.out \in Text /\ r1.out \in Text /\ r0.bad \in BOOLEAN /\ r1.bad \in BOOLEAN
  BY <1>6, ReaderFields
<1>16. /\ out.invalid = r1.bad
       /\ ~r1.bad => out.data = r1.out /\ out.truncated = (term /\ r1.dec.held # <<>>)
       /\ r1.bad => IsPrefix(r1.out, out.data)
       /\ ~r1.bad => out.pending = r1.dec.held
  <2>1. CASE r0.bad
    <3>1. r1 = r0 /\ IsPrefix(r0.out, in.data) /\ in.invalid = TRUE
      BY <1>1, <1>8, <2>1
    <3>2. IsPrefix(r1.out, out.data)
      BY ONLY <1>13, <1>14, <1>15, <3>1, PrefixThen DEF Text
    <3> QED
      BY <1>11, <2>1, <3>1, <3>2
  <2>2. CASE ~r0.bad
    <3>1. p = r0.dec.held \o b /\ u = DecodeUnits(in.enc, p)
      BY <1>1, <2>2 DEF p, u
    <3>2. WideSteps(r0, p, u, r1)
      BY ONLY <1>3, <1>5, <2>2, <3>1, in.enc \in Wide, WideStep
    <3>3. /\ r1.bad = u.bad /\ r1.out = r0.out \o u.out
          /\ ~u.bad => r1.dec.held = SubSeq(p, u.used + 1, Len(p))
      BY ONLY <3>2, Zenon DEF WideSteps
    <3>4. out.data = r1.out
      BY <1>1, <1>11, <2>2, <3>3
    <3>5. out.invalid = r1.bad
      <4>1. in.invalid = FALSE
        BY <1>1, <1>15, <2>2
      <4>2. out.invalid = u.bad
        BY ONLY <1>11, <1>13, <4>1
      <4> QED
        BY <3>3, <4>2
    <3>6. IsPrefix(r1.out, out.data)
      BY <1>13, <3>4, PrefixSelf DEF Text
    <3>7. ASSUME ~r1.bad
          PROVE  out.pending = r1.dec.held /\ out.truncated = (term /\ r1.dec.held # <<>>)
      <4>1. out.pending = r1.dec.held /\ SubSeq(p, u.used + 1, Len(p)) = r1.dec.held
        BY <1>11, <3>3, <3>7
      <4>2. out.truncated = (in.truncated \/ (term /\ r1.dec.held # <<>>))
        BY <1>11, <3>3, <3>7, <4>1
      <4>3. in.truncated = (last /\ r0.dec.held # <<>>)
        BY <1>1, <2>2
      <4>4. last => r1 = r0 /\ term
        BY <1>6
      <4> QED
        BY <4>1, <4>2, <4>3, <4>4
    <3> QED
      BY <3>4, <3>5, <3>6, <3>7
  <2> QED
    BY <2>1, <2>2
<1>17. out.enc = in.enc /\ out.converted
  BY <1>1, <1>12 DEF Stays
<1>18. AsDecoded(out, m, term)
  BY ONLY <1>4, <1>7, <1>16, <1>17, in.enc \in Wide, Zenon DEF AsDecoded, r1
<1> QED
  BY <1>11, <1>12, <1>14, <1>18 DEF m

LEMMA StatefulMore ==
  ASSUME source \in Sources, declared \in Declarable, NEW in \in Buffer,
         NEW n \in 0..Len(source), NEW k \in 0..(Len(source) - n),
         NEW last \in BOOLEAN, NEW term \in BOOLEAN, last => k = 0 /\ term,
         AsDecoded(in, n, last), in.enc = "stateful",
         NEW b, b = SubSeq(source, n + 1, n + k),
         NEW out, out = AppendDecided(in, b, term)
  PROVE  /\ out \in Buffer /\ Stays(in, out) /\ IsPrefix(in.data, out.data)
         /\ AsDecoded(out, n + k, term)
<1> DEFINE m == n + k
           s == SubSeq(source, Skip(n) + 1, n)
           r0 == ReadingOf(n)
           r1 == ReadingOf(m)
           d == in.decoder
           q == RegistryDecode(d, b, term)
<1>1. /\ Enc(n) = in.enc /\ in.converted
      /\ last \/ Final(n)
      /\ in.invalid = r0.bad
      /\ ~r0.bad => in.data = r0.out /\ in.truncated = (last /\ r0.dec.held # <<>>)
      /\ r0.bad => IsPrefix(r0.out, in.data)
      /\ d.finished => last
      /\ ~r0.bad => [d EXCEPT !.finished = FALSE] = r0.dec
  <2>1. /\ Enc(n) = in.enc /\ in.converted
        /\ last \/ Final(n)
        /\ in.invalid = r0.bad
        /\ ~r0.bad => in.data = r0.out /\ in.truncated = (last /\ r0.dec.held # <<>>)
        /\ r0.bad => IsPrefix(r0.out, in.data)
        /\ \/ in.enc \in Wide
           \/ /\ in.enc = "stateful"
              /\ d.finished => last
              /\ ~r0.bad => [d EXCEPT !.finished = FALSE] = r0.dec
           \/ in.enc \in Tables
    BY Zenon DEF AsDecoded
  <2>2. in.enc \notin Wide /\ in.enc \notin Tables
    BY DEF Wide, Tables
  <2> QED
    BY ONLY <2>1, <2>2, Zenon
<1>2. k = 0 \/ Final(n)
  BY <1>1
<1>3. /\ n + k \in 0..Len(source) /\ s \in Seq(Byte) /\ b \in Seq(Byte)
      /\ Enc(n + k) = Enc(n) /\ Skip(n + k) = Skip(n)
      /\ ReadingOf(n) = ReadBytes(Enc(n), FreshReader, s)
      /\ ReadingOf(n) \in Reader
      /\ ReadingOf(n + k) = ReadBytes(Enc(n), FreshReader, s \o b)
      /\ ReadingOf(n + k) = ReadBytes(Enc(n), ReadingOf(n), b)
      /\ ReadingOf(n + k) \in Reader
      /\ k = 0 => ReadingOf(n + k) = ReadingOf(n)
      /\ Final(n) => Final(n + k)
  BY <1>2, ReadingMore
<1>4. Enc(m) = in.enc
  BY <1>1, <1>3
<1>5. r0 = ReadBytes("stateful", FreshReader, s) /\ r1 = ReadBytes("stateful", FreshReader, s \o b)
  BY <1>1, <1>3
<1>6. r0 \in Reader /\ r1 \in Reader /\ (k = 0 => r1 = r0)
  BY <1>3
<1>7. term \/ Final(m)
  BY <1>1, <1>3
<1>8. r0.bad => r1 = r0
  <2>1. Enc(n) \in Code \ {"none"}
    BY <1>1 DEF Code
  <2> QED
    BY ONLY <1>3, <2>1, ReadingGrows
<1>9. StreamOf(in, q, out)
  BY <1>1, <1>3, AppendStateful
<1>10. d \in Decoder /\ in.data \in Text
  BY BufferFields
<1>11. k = 0 => b = <<>>
  BY <1>3
<1> HIDE DEF m, s, r0, r1, d, q
<1>12. /\ out \in Buffer /\ Stays(in, out)
       /\ q.out \in Text /\ out.data = in.data \o q.out
       /\ q.dec \in Decoder /\ out.decoder = q.dec
       /\ out.invalid = (in.invalid \/ q.invalid)
       /\ out.truncated = (in.truncated \/ q.truncated)
  BY ONLY <1>9, Zenon DEF StreamOf
<1>13. out.data \in Text
  BY <1>12, BufferFields
<1>14. IsPrefix(in.data, out.data)
  BY <1>10, <1>12, PrefixOn DEF Text
<1>15. r0.out \in Text /\ r1.out \in Text /\ r0.bad \in BOOLEAN /\ r1.bad \in BOOLEAN
  BY <1>6, ReaderFields
<1>16. q.dec.finished => term
  <2>1. q = RegistryDecode(d, b, term)
    BY DEF q
  <2> DEFINE start == IF d.finished THEN FreshDecoder ELSE d
             x == ReadBytes("stateful", [FreshReader EXCEPT !.dec = start], b)
             g == term /\ ~x.bad
             c == [x.dec EXCEPT !.finished = g]
  <2>2. CASE d.finished
    BY <1>1, <2>2
  <2>3. CASE ~d.finished
    <3>1. q = [dec |-> c, out |-> x.out, invalid |-> x.bad,
               truncated |-> ~x.bad /\ term /\ x.dec.held # <<>>]
      BY <2>1, <2>3, Zenon DEF RegistryDecode
    <3>2. start \in Decoder
      BY <1>10, FreshType
    <3> HIDE DEF start
    <3>3. [FreshReader EXCEPT !.dec = start] \in Reader
      BY <3>2, FreshType DEF Reader, FreshReader
    <3>4. x \in Reader
      BY <1>3, <3>3, ReadingGrows DEF Code
    <3> HIDE DEF x
    <3>5. x.dec \in Decoder
      BY <3>4, ReaderFields
    <3>6. g \in BOOLEAN /\ (g => term)
      OBVIOUS
    <3> HIDE DEF g
    <3>7. c.finished = g
      BY <3>5, <3>6 DEF Decoder
    <3> HIDE DEF c
    <3>8. q.dec = c
      BY <3>1
    <3> QED
      BY <3>6, <3>7, <3>8
  <2> QED
    BY <2>2, <2>3
<1>17. /\ out.invalid = r1.bad
       /\ ~r1.bad => out.data = r1.out /\ out.truncated = (term /\ r1.dec.held # <<>>)
       /\ r1.bad => IsPrefix(r1.out, out.data)
       /\ ~r1.bad => [out.decoder EXCEPT !.finished = FALSE] = r1.dec
  <2>1. CASE r0.bad
    <3>1. r1 = r0 /\ IsPrefix(r0.out, in.data) /\ in.invalid = TRUE
      BY <1>1, <1>8, <2>1
    <3>2. IsPrefix(r1.out, out.data)
      BY ONLY <1>10, <1>13, <1>14, <1>15, <3>1, PrefixThen DEF Text
    <3> QED
      BY <1>12, <2>1, <3>1, <3>2
  <2>2. CASE ~r0.bad
    <3>1. ~ReadBytes("stateful", FreshReader, s).bad
      BY <1>5, <2>2
    <3>2. [d EXCEPT !.finished = FALSE] = ReadBytes("stateful", FreshReader, s).dec
      BY <1>1, <1>5, <2>2, Zenon
    <3>3. d.finished => term /\ b = <<>>
      BY <1>1, <1>11
    <3>4. StatefulSteps(d, b, term, ReadBytes("stateful", FreshReader, s),
                        RegistryDecode(d, b, term), ReadBytes("stateful", FreshReader, s \o b))
      BY ONLY <1>3, <1>10, <3>1, <3>2, <3>3, term \in BOOLEAN, StatefulStep
    <3>5. StatefulSteps(d, b, term, r0, q, r1)
      BY ONLY <1>5, <3>4, Zenon DEF q
    <3>6. /\ q.invalid = r1.bad /\ q.truncated \in BOOLEAN
          /\ r1.out = r0.out \o q.out
          /\ ~r1.bad => /\ [q.dec EXCEPT !.finished = FALSE] = r1.dec
                        /\ d.finished => r1 = r0 /\ ~q.truncated
                        /\ ~d.finished => q.truncated = (term /\ r1.dec.held # <<>>)
      BY ONLY <3>5, Zenon DEF StatefulSteps
    <3>7. out.data = r1.out
      BY <1>1, <1>12, <2>2, <3>6
    <3>8. out.invalid = r1.bad
      <4>1. in.invalid = FALSE
        BY <1>1, <1>15, <2>2
      <4>2. q.invalid \in BOOLEAN
        BY <1>15, <3>6
      <4>3. out.invalid = q.invalid
        BY ONLY <1>12, <4>1, <4>2
      <4> QED
        BY <3>6, <4>3
    <3>9. IsPrefix(r1.out, out.data)
      BY <1>13, <3>7, PrefixSelf DEF Text
    <3>10. ASSUME ~r1.bad
           PROVE  out.truncated = (term /\ r1.dec.held # <<>>)
      <4>1. in.truncated = (last /\ r0.dec.held # <<>>)
        BY <1>1, <2>2
      <4>2. last => r1 = r0 /\ term
        BY <1>6
      <4>3. CASE d.finished
        <5>1. last /\ r1 = r0 /\ term /\ ~q.truncated
          BY <1>1, <3>6, <3>10, <4>2, <4>3
        <5> QED
          BY <1>12, <3>6, <4>1, <5>1
      <4>4. CASE ~d.finished
        <5>1. q.truncated = (term /\ r1.dec.held # <<>>)
          BY <3>6, <3>10, <4>4
        <5> QED
          BY <1>12, <4>1, <4>2, <5>1
      <4> QED
        BY <4>3, <4>4
    <3>11. ~r1.bad => [out.decoder EXCEPT !.finished = FALSE] = r1.dec
      BY ONLY <1>12, <3>6, Zenon
    <3> QED
      BY ONLY <3>7, <3>8, <3>9, <3>10, <3>11, Zenon
  <2> QED
    BY <2>1, <2>2
<1>18. out.enc = in.enc /\ out.converted
  BY <1>1, <1>12 DEF Stays
<1>19. out.decoder.finished => term
  BY <1>12, <1>16
<1>20. AsDecoded(out, m, term)
  BY ONLY <1>4, <1>7, <1>17, <1>18, <1>19, in.enc = "stateful", Zenon DEF AsDecoded, r1
<1> QED
  BY <1>12, <1>14, <1>20 DEF m

LEMMA TableMore ==
  ASSUME Defined, source \in Sources, declared \in Declarable, NEW in \in Buffer,
         NEW n \in 0..Len(source), NEW k \in 0..(Len(source) - n),
         NEW last \in BOOLEAN, NEW term \in BOOLEAN, last => k = 0 /\ term,
         AsDecoded(in, n, last), in.enc \in Tables,
         NEW b, b = SubSeq(source, n + 1, n + k), ~Undefined(in.enc, b),
         NEW out, out = AppendDecided(in, b, term)
  PROVE  /\ out \in Buffer /\ Stays(in, out) /\ IsPrefix(in.data, out.data)
         /\ AsDecoded(out, n + k, term)
<1> DEFINE m == n + k
           s == SubSeq(source, Skip(n) + 1, n)
           r0 == ReadingOf(n)
           r1 == ReadingOf(m)
           w == ByteWise(in.enc, b)
<1>1. /\ Enc(n) = in.enc /\ in.converted
      /\ last \/ Final(n)
      /\ in.invalid = r0.bad
      /\ ~r0.bad => in.data = r0.out /\ in.truncated = (last /\ r0.dec.held # <<>>)
  BY Zenon DEF AsDecoded
<1>2. k = 0 \/ Final(n)
  BY <1>1
<1>3. /\ n + k \in 0..Len(source) /\ s \in Seq(Byte) /\ b \in Seq(Byte)
      /\ Enc(n + k) = Enc(n) /\ Skip(n + k) = Skip(n)
      /\ ReadingOf(n) = ReadBytes(Enc(n), FreshReader, s)
      /\ ReadingOf(n) \in Reader
      /\ ReadingOf(n + k) = ReadBytes(Enc(n), FreshReader, s \o b)
      /\ ReadingOf(n + k) = ReadBytes(Enc(n), ReadingOf(n), b)
      /\ ReadingOf(n + k) \in Reader
      /\ k = 0 => ReadingOf(n + k) = ReadingOf(n)
      /\ Final(n) => Final(n + k)
  BY <1>2, ReadingMore
<1>4. Enc(m) = in.enc
  BY <1>1, <1>3
<1>5. r0 = ReadBytes(in.enc, FreshReader, s) /\ r1 = ReadBytes(in.enc, FreshReader, s \o b)
  BY <1>1, <1>3
<1>6. term \/ Final(m)
  BY <1>1, <1>3
<1>7. TableOf(in, w, out)
  BY <1>1, <1>3, AppendTable
<1>8. in.data \in Text
  BY BufferFields
<1>9. /\ ReadBytes(in.enc, FreshReader, s) = Rd(FreshDecoder, ByteWise(in.enc, s), FALSE)
      /\ ReadBytes(in.enc, FreshReader, s \o b)
           = Rd(FreshDecoder, ByteWise(in.enc, s) \o ByteWise(in.enc, b), FALSE)
  BY <1>3, TableStep
<1> HIDE DEF m, s, r0, r1
<1> DEFINE v == ByteWise(in.enc, s)
           x == v \o w
<1>10. r0 = Rd(FreshDecoder, v, FALSE) /\ r1 = Rd(FreshDecoder, x, FALSE)
  BY <1>5, <1>9, Zenon
<1> HIDE DEF v, w
<1>11. r0.bad = FALSE /\ r0.out = v /\ r0.dec = FreshDecoder
  BY <1>10 DEF Rd
<1> HIDE DEF x
<1>12. r1.bad = FALSE /\ r1.out = x /\ r1.dec = FreshDecoder
  BY <1>10 DEF Rd
<1>13. FreshDecoder.held = <<>>
  BY FreshType
<1>14. /\ out \in Buffer /\ Stays(in, out)
       /\ w \in Text /\ out.data = in.data \o w
       /\ out.invalid = in.invalid /\ out.truncated = in.truncated
  BY ONLY <1>7, Zenon DEF TableOf
<1>15. IsPrefix(in.data, out.data)
  BY <1>8, <1>14, PrefixOn DEF Text
<1>16. in.invalid = FALSE /\ in.truncated = FALSE /\ in.data = v
  BY <1>1, <1>11, <1>13
<1>17. /\ out.invalid = r1.bad /\ ~r1.bad
       /\ out.data = r1.out /\ out.truncated = (term /\ r1.dec.held # <<>>)
  BY <1>12, <1>13, <1>14, <1>16 DEF x
<1>18. out.enc = in.enc /\ out.converted
  BY <1>1, <1>14 DEF Stays
<1>19. AsDecoded(out, m, term)
  BY ONLY <1>4, <1>6, <1>17, <1>18, in.enc \in Tables, Zenon DEF AsDecoded, r1
<1> QED
  BY <1>14, <1>15, <1>19 DEF m

-----------------------------------------------------------------------------
(* Applying what is known of the encoding to what there is.                *)

Rebuilt(x, n, term, out) ==
  /\ out \in Buffer /\ out.decoding = x.decoding
  /\ AsItCame(out, n, term) \/ AsDecoded(out, n, term)
  /\ x.pos = 0 => out.pos = 0
  /\ x.pos # 0 => out.pos = x.pos /\ out.data = x.data

LEMMA RebuiltTable ==
  ASSUME source \in Sources, declared \in Declarable,
         NEW x \in Buffer, NEW n \in 0..Len(source), NEW term \in BOOLEAN,
         NEW e \in Tables, x.enc = e, Enc(n) = e, term \/ Final(n), x.pos = 0,
         ~x.invalid, ~x.truncated,
         NEW out \in Buffer, out.decoding = x.decoding, out.pos = 0, out.enc = x.enc,
         out.converted, out.data = ByteWise(e, Pushed(n)),
         out.invalid = x.invalid, out.truncated = x.truncated
  PROVE  Rebuilt(x, n, term, out)
<1> DEFINE t == Pushed(n)
           w == ByteWise(e, t)
           r == ReadingOf(n)
<1>1. source \in Seq(Byte) /\ Skip(n) = 0
  BY EncFacts DEF Tables
<1>2. t \in Seq(Byte) /\ t \o <<>> = t /\ <<>> \in Seq(Byte)
  BY <1>1, PushedIs
<1>3. r = ReadBytes(e, FreshReader, t)
  <2>1. SubSeq(source, Skip(n) + 1, n) = t
    <3>1. Skip(n) + 1 = 1
      BY <1>1
    <3> QED
      BY <3>1, Zenon DEF Pushed
  <2> QED
    BY <2>1, Zenon DEF ReadingOf
<1>4. ReadBytes(e, FreshReader, t) = Rd(FreshDecoder, w, FALSE)
  BY ONLY <1>2, e \in Tables, TableStep
<1> HIDE DEF t, w, r
<1>5. r.bad = FALSE /\ r.out = w /\ r.dec = FreshDecoder
  BY <1>3, <1>4 DEF Rd
<1>6. r.dec.held = <<>>
  BY <1>5, FreshType
<1>7. out.data = w
  BY DEF w, t
<1>8. x.invalid = FALSE /\ x.truncated = FALSE
  BY BufferFields
<1>9. /\ out.invalid = r.bad /\ ~r.bad
      /\ out.data = r.out /\ out.truncated = (term /\ r.dec.held # <<>>)
  BY <1>5, <1>6, <1>7, <1>8
<1>10. Enc(n) = out.enc /\ out.enc \in Tables
  OBVIOUS
<1>11. AsDecoded(out, n, term)
  BY ONLY <1>9, <1>10, term \/ Final(n), out.converted, Zenon DEF AsDecoded, r
<1>12. x.pos = 0 /\ out.pos = 0 /\ ~(x.pos # 0)
  OBVIOUS
<1> QED
  BY ONLY <1>11, <1>12, out \in Buffer, out.decoding = x.decoding, Zenon DEF Rebuilt

LEMMA RebuiltStream ==
  ASSUME source \in Sources, declared \in Declarable,
         NEW x \in Buffer, NEW n \in 0..Len(source), NEW term \in BOOLEAN,
         x.enc = "stateful", Enc(n) = "stateful", term \/ Final(n), x.pos = 0,
         ~x.invalid, ~x.truncated, x.data = Raw(Pushed(n))
  PROVE  Rebuilt(x, n, term, InstallDecoder(x, term))
<1> DEFINE t == Pushed(n)
           q == RegistryDecode(FreshDecoder, t, term)
           r == ReadingOf(n)
           out == InstallDecoder(x, term)
           i == x.invalid \/ q.invalid
           c == x.truncated \/ q.truncated
           yes == TRUE
<1>1. source \in Seq(Byte) /\ Skip(n) = 0
  BY EncFacts
<1>2. t \in Seq(Byte) /\ <<>> \o t = t /\ <<>> \in Seq(Byte)
  BY <1>1, PushedIs
<1>3. r = ReadBytes("stateful", FreshReader, t)
  <2>1. SubSeq(source, Skip(n) + 1, n) = t
    <3>1. Skip(n) + 1 = 1
      BY <1>1
    <3> QED
      BY <3>1, Zenon DEF Pushed
  <2> QED
    BY <2>1, Zenon DEF ReadingOf
<1>4. SourceOf(x.data) = t
  BY <1>2, SourceOfRaw
<1>5. out = [x EXCEPT !.data = q.out, !.pos = 0, !.converted = yes, !.decoder = q.dec,
                      !.invalid = i, !.truncated = c]
  BY <1>4, Zenon DEF InstallDecoder
<1>6. ReadBytes("stateful", FreshReader, <<>>) = FreshReader
  BY ReadNothing
<1>7. FreshReader.bad = FALSE /\ FreshReader.dec = FreshDecoder /\ FreshReader.out = <<>>
  BY DEF FreshReader
<1>8. /\ ~ReadBytes("stateful", FreshReader, <<>>).bad
      /\ [FreshDecoder EXCEPT !.finished = FALSE] = ReadBytes("stateful", FreshReader, <<>>).dec
      /\ FreshDecoder \in Decoder /\ ~FreshDecoder.finished
  <2>1. [FreshDecoder EXCEPT !.finished = FALSE] = FreshDecoder
    BY FreshType DEF Decoder
  <2> QED
    BY <1>6, <1>7, <2>1, FreshType
<1>9. StatefulSteps(FreshDecoder, t, term, ReadBytes("stateful", FreshReader, <<>>), q,
                    ReadBytes("stateful", FreshReader, <<>> \o t))
  BY ONLY <1>2, <1>8, term \in BOOLEAN, StatefulStep
<1>10. StatefulSteps(FreshDecoder, t, term, FreshReader, q, r)
  BY ONLY <1>2, <1>3, <1>6, <1>9, Zenon
<1> HIDE DEF t, q, r, out, i, c, yes
<1>11. /\ q.dec \in Decoder /\ q.out \in Text
       /\ q.invalid = r.bad /\ q.truncated \in BOOLEAN
       /\ r.out = FreshReader.out \o q.out
       /\ q.dec.finished => term
       /\ ~r.bad => /\ [q.dec EXCEPT !.finished = FALSE] = r.dec
                    /\ q.truncated = (term /\ r.dec.held # <<>>)
  BY ONLY <1>8, <1>10, Zenon DEF StatefulSteps
<1>12. r.out = q.out
  <2>1. r.out = <<>> \o q.out
    BY <1>7, <1>11, Zenon
  <2> QED
    BY <1>11, <2>1 DEF Text
<1>13. x.invalid = FALSE /\ x.truncated = FALSE /\ r.bad \in BOOLEAN
  <2>1. r \in Reader
    BY <1>2, <1>3, StatefulReader
  <2> QED
    BY <2>1, BufferFields, ReaderFields
<1>14. i = q.invalid /\ c = q.truncated /\ i \in BOOLEAN /\ c \in BOOLEAN /\ yes \in BOOLEAN
  BY <1>11, <1>13 DEF i, c, yes
<1>15. /\ out \in Buffer /\ out.data = q.out /\ out.pos = 0 /\ out.converted = yes
       /\ out.decoding = x.decoding /\ out.enc = x.enc
       /\ out.decoder = q.dec /\ out.invalid = i /\ out.truncated = c
  BY ONLY <1>5, <1>11, <1>14, x \in Buffer DEF Buffer
<1>16. /\ out.invalid = r.bad
       /\ ~r.bad => out.data = r.out /\ out.truncated = (term /\ r.dec.held # <<>>)
       /\ ~r.bad => [out.decoder EXCEPT !.finished = FALSE] = r.dec
       /\ out.decoder.finished => term
  BY ONLY <1>11, <1>12, <1>14, <1>15, Zenon
<1>17. r.bad => IsPrefix(r.out, out.data)
  <2>1. r.out \in Seq(Part)
    BY <1>11, <1>12 DEF Text
  <2> QED
    BY <1>12, <1>15, <2>1, PrefixSelf
<1>18. Enc(n) = out.enc /\ out.enc = "stateful" /\ out.converted
  BY <1>15 DEF yes
<1>19. AsDecoded(out, n, term)
  BY ONLY <1>16, <1>17, <1>18, term \/ Final(n), Zenon DEF AsDecoded, r
<1>20. x.pos = 0 /\ out.pos = 0 /\ ~(x.pos # 0)
  BY <1>15
<1> QED
  BY ONLY <1>15, <1>19, <1>20, Zenon DEF Rebuilt, out

LEMMA NothingUndefined ==
  ASSUME Defined, source \in Sources, declared \in Declarable, NEW n \in 0..Len(source),
         NEW b \in Seq(Byte), \A i \in DOMAIN b : \E j \in DOMAIN source : b[i] = source[j]
  PROVE  ~Undefined(Enc(n), b)
<1> SUFFICES ASSUME Undefined(Enc(n), b)
             PROVE  FALSE
  OBVIOUS
<1>1. Enc(n) = "cp1252" /\ "81" \in ToSet(b)
  BY Zenon DEF Undefined
<1>2. "cp1252" \in Declarable
  <2>1. n < 4 \/ ~Signed
    BY <1>1, EncFacts
  <2>2. Enc(n) = IF Names(Pushed(n)) THEN declared ELSE "utf8"
    BY <2>1, EncFacts, Unsigned
  <2> QED
    BY <1>1, <2>2
<1>3. "81" \notin ToSet(source)
  BY <1>2, Zenon DEF Defined
<1>4. PICK i \in DOMAIN b : b[i] = "81"
  BY <1>1 DEF ToSet
<1>5. PICK j \in DOMAIN source : b[i] = source[j]
  BY <1>4
<1> QED
  BY <1>3, <1>4, <1>5 DEF ToSet

LEMMA NothingUndefinedIn ==
  ASSUME Defined, source \in Sources, declared \in Declarable,
         NEW n \in 0..Len(source), NEW k \in 0..(Len(source) - n), NEW m \in 0..Len(source)
  PROVE  /\ ~Undefined(Enc(m), Pushed(n))
         /\ ~Undefined(Enc(m), SubSeq(source, n + 1, n + k))
<1>1. source \in Seq(Byte)
  BY InputConstants
<1>2. Pushed(n) \in Seq(Byte) /\ Len(Pushed(n)) = n /\ \A i \in 1..n : Pushed(n)[i] = source[i]
  BY <1>1, PushedIs
<1>3. \A i \in DOMAIN Pushed(n) : \E j \in DOMAIN source : Pushed(n)[i] = source[j]
  <2> SUFFICES ASSUME NEW i \in DOMAIN Pushed(n)
               PROVE  \E j \in DOMAIN source : Pushed(n)[i] = source[j]
    OBVIOUS
  <2>1. i \in 1..n /\ i \in DOMAIN source
    BY <1>1, <1>2
  <2> QED
    BY <1>2, <2>1
<1> DEFINE b == SubSeq(source, n + 1, n + k)
<1>4. b \in Seq(Byte) /\ Len(b) = k /\ \A i \in 1..k : b[i] = source[n + i]
  <2>1. n + 1 \in 1..(Len(source) + 1) /\ n + k \in ((n + 1) - 1)..Len(source)
    BY <1>1
  <2>2. /\ b \in Seq(Byte) /\ Len(b) = (n + k) - (n + 1) + 1
        /\ \A i \in 1..((n + k) - (n + 1) + 1) : b[i] = source[(n + 1) + i - 1]
    BY ONLY <1>1, <2>1, Cut
  <2> QED
    BY <2>2
<1> HIDE DEF b
<1>5. \A i \in DOMAIN b : \E j \in DOMAIN source : b[i] = source[j]
  <2> SUFFICES ASSUME NEW i \in DOMAIN b
               PROVE  \E j \in DOMAIN source : b[i] = source[j]
    OBVIOUS
  <2>1. i \in 1..k /\ n + i \in DOMAIN source
    BY <1>1, <1>4
  <2> QED
    BY <1>4, <2>1
<1>6. ~Undefined(Enc(m), Pushed(n))
  BY <1>2, <1>3, NothingUndefined
<1>7. ~Undefined(Enc(m), b)
  BY <1>4, <1>5, NothingUndefined
<1> QED
  BY <1>6, <1>7 DEF b

\* convert_declared_native_encoding, with the encoding that the bytes say.
LEMMA ConvertIs ==
  ASSUME Defined, source \in Sources, declared \in Declarable,
         NEW x \in Buffer, NEW n \in 0..Len(source), NEW term \in BOOLEAN,
         x.data = Raw(Pushed(n)), x.pending = <<>>, ~x.converted, ~x.invalid, ~x.truncated,
         x.enc = Enc(n), Enc(n) \in {"utf8", "latin1", "cp1252", "stateful", "ebcdic"},
         x.enc # "utf8" => (term \/ Final(n)) /\ x.pos = 0,
         ~term => IF x.declPending
                  THEN /\ Undeclared(SubSeq(x.data, Bom(Pushed(n)) + 1, Len(x.data)))
                       /\ x.pos = Bom(Pushed(n))
                  ELSE Final(n)
  PROVE  Rebuilt(x, n, term, ConvertDeclared(x, term))
<1> DEFINE t == Pushed(n)
           w == ByteWise(x.enc, t)
           out == ConvertDeclared(x, term)
           yes == TRUE
<1>1. source \in Seq(Byte) /\ n \in Nat
  BY InputConstants
<1>2. t \in Seq(Byte) /\ Len(t) = n
  BY <1>1, PushedIs
<1>3. SourceOf(x.data) = t
  BY <1>2, SourceOfRaw
<1>4. ~Undefined(x.enc, t)
  BY NothingUndefinedIn, 0 \in 0..(Len(source) - n), <1>1
<1>5. x.enc # "utf8" => x.data # <<>>
  <2>1. x.enc # "utf8" => n >= 4
    BY EncFacts
  <2>2. Len(x.data) = n
    BY <1>2, RawType
  <2> QED
    BY <2>1, <2>2
<1>6. yes \in BOOLEAN
  BY DEF yes
<1>7. CASE x.enc = "utf8"
  <2>1. out = x
    BY <1>7, Zenon DEF ConvertDeclared
  <2>2. AsItCame(x, n, term)
    <3>1. Enc(n) = "utf8"
      BY <1>7
    <3> QED
      BY <1>7, <3>1, Zenon DEF AsItCame
  <2> QED
    BY ONLY <2>1, <2>2, x \in Buffer, Zenon DEF Rebuilt
<1>8. CASE x.enc = "stateful"
  <2>1. out = InstallDecoder(x, term)
    BY <1>8, Zenon DEF ConvertDeclared
  <2>2. Rebuilt(x, n, term, InstallDecoder(x, term))
    BY <1>8, RebuiltStream
  <2> QED
    BY <2>1, <2>2, Zenon
<1>9. CASE x.enc = "latin1"
  <2>1. x.enc \in Tables /\ x.pos = 0 /\ (term \/ Final(n))
    BY <1>9 DEF Tables
  <2>2. out = [x EXCEPT !.data = w, !.converted = yes]
    <3>1. out = [x EXCEPT !.data = ByteWise(x.enc, SourceOf(x.data)), !.converted = TRUE]
      BY <1>9, Zenon DEF ConvertDeclared
    <3> QED
      BY <1>3, <3>1, Zenon DEF yes, w
  <2>3. w \in Text
    BY <1>2, <2>1, ReadByteWise, FreshType
  <2> HIDE DEF w, out, yes
  <2>4. /\ out \in Buffer /\ out.data = w /\ out.converted = yes
        /\ out.decoding = x.decoding /\ out.pos = x.pos /\ out.enc = x.enc
        /\ out.invalid = x.invalid /\ out.truncated = x.truncated
    BY ONLY <1>6, <2>2, <2>3, x \in Buffer DEF Buffer
  <2>5. out.converted /\ out.pos = 0 /\ out.data = ByteWise(x.enc, Pushed(n))
    BY <2>1, <2>4 DEF yes, w, t
  <2>6. Rebuilt(x, n, term, out)
    BY <2>1, <2>4, <2>5, RebuiltTable
  <2> QED
    BY <2>6 DEF out
<1>10. CASE x.enc \in {"cp1252", "ebcdic"}
  <2>1. x.enc \in Tables /\ x.pos = 0 /\ (term \/ Final(n)) /\ x.data # <<>>
    BY <1>5, <1>10 DEF Tables
  <2>2. out = [x EXCEPT !.data = w, !.pos = 0, !.converted = yes]
    <3>1. out = ConvertViaRegistry(x)
      <4>1. x.enc # "latin1" /\ x.enc # "stateful"
        BY <1>10
      <4> QED
        BY <1>10, <4>1, Zenon DEF ConvertDeclared
    <3>2. out = [x EXCEPT !.data = ByteWise(x.enc, SourceOf(x.data)), !.pos = 0, !.converted = TRUE]
      BY <1>3, <1>4, <2>1, <3>1, Zenon DEF ConvertViaRegistry
    <3> QED
      BY <1>3, <3>2, Zenon DEF yes, w
  <2>3. w \in Text
    BY <1>2, <2>1, ReadByteWise, FreshType
  <2> HIDE DEF w, out, yes
  <2>4. /\ out \in Buffer /\ out.data = w /\ out.converted = yes
        /\ out.decoding = x.decoding /\ out.pos = 0 /\ out.enc = x.enc
        /\ out.invalid = x.invalid /\ out.truncated = x.truncated
    BY ONLY <1>6, <2>2, <2>3, x \in Buffer DEF Buffer
  <2>5. out.converted /\ out.pos = 0 /\ out.data = ByteWise(x.enc, Pushed(n))
    BY <2>1, <2>4 DEF yes, w, t
  <2>6. Rebuilt(x, n, term, out)
    BY <2>1, <2>4, <2>5, RebuiltTable
  <2> QED
    BY <2>6 DEF out
<1> QED
  BY <1>7, <1>8, <1>9, <1>10

\* Text without a signature: a declaration is looked for, and applied.
LEMMA SniffConvert ==
  ASSUME Defined, Unmarked, source \in Sources, declared \in Declarable,
         NEW x \in Buffer, NEW n \in 0..Len(source), NEW term \in BOOLEAN,
         x.data = Raw(Pushed(n)), x.pending = <<>>, ~x.converted, ~x.invalid, ~x.truncated,
         x.enc = "utf8",
         \/ n >= 4 /\ ~Signed /\ x.pos = Bom(Pushed(n))
         \/ n < 4 /\ term /\ x.pos = 0
  PROVE  Rebuilt(x, n, term, ConvertDeclared(Sniff(x), term))
<1> DEFINE t == Pushed(n)
           v == SubSeq(t, x.pos + 1, n)
           y == Sniff(x)
           e == IF Names(v) THEN declared ELSE "utf8"
           pending == Undeclared(Raw(v))
<1>1. source \in Seq(Byte) /\ n \in Nat /\ declared \in {"utf8", "latin1", "cp1252", "stateful"}
  BY InputConstants
<1>2. t \in Seq(Byte) /\ Len(t) = n /\ \A i \in 1..n : t[i] = source[i]
  BY <1>1, PushedIs
<1>3. Bom(t) \in {0, 3} /\ (Bom(t) = 3 <=> IsPrefix(<<"EF", "BB", "BF">>, t))
  BY DEF Bom
<1>4. x.pos = 3 => IsPrefix(<<"EF", "BB", "BF">>, t) /\ n >= 4
  BY <1>3
<1>5. x.pos \in {0, 3} /\ x.pos + 1 \in 1..(Len(t) + 1)
  BY <1>2, <1>3
<1>6. v \in Seq(Byte) /\ SubSeq(Raw(t), x.pos + 1, n) = Raw(v)
  BY <1>2, <1>5, RawCut
<1>7. Rest(x) = Raw(v) /\ Rest(x) = SubSeq(x.data, x.pos + 1, Len(x.data))
  <2>1. Len(x.data) = n
    BY <1>2, RawType
  <2> QED
    BY <1>6, <2>1, Zenon DEF Rest
<1>8. /\ y = Sniffed(x, pending, IF Names(v) THEN declared ELSE x.enc)
      /\ Names(v) => ~pending
      /\ pending \in BOOLEAN
  BY <1>6, <1>7, SniffIs
<1>9. y = Sniffed(x, pending, e)
  BY <1>8, Zenon
<1>10. e \in Code
  BY <1>1 DEF Code
<1>11. x.pos = 0 => v = t
  BY <1>2
<1>12. x.pos = 3 => ~Names(t) /\ (Names(v) => declared = "utf8") /\ Final(n)
  <2> SUFFICES ASSUME x.pos = 3
               PROVE  ~Names(t) /\ (Names(v) => declared = "utf8") /\ Final(n)
    OBVIOUS
  <2>1. IsPrefix(<<"EF", "BB", "BF">>, Pushed(n)) /\ n >= 4
    BY <1>4
  <2>2. /\ ~Names(Pushed(n))
        /\ Names(SubSeq(Pushed(n), 4, n)) => declared = "utf8"
        /\ n >= 4 => Final(n) /\ ~Signed
    BY <2>1, MarkedFinal
  <2>3. v = SubSeq(Pushed(n), 4, n)
    OBVIOUS
  <2> QED
    BY ONLY <2>1, <2>2, <2>3, Zenon DEF t
<1>13. Enc(n) = (IF Names(t) THEN declared ELSE "utf8")
  BY <1>1, Unsigned
<1>14. Enc(n) = e /\ (e # "utf8" => Names(t))
  BY <1>5, <1>11, <1>12, <1>13
<1>15. Names(t) => Final(n) /\ x.pos = 0
  BY <1>1, <1>5, <1>12, NamedFinal
<1>16. /\ y \in Buffer /\ y.data = x.data /\ y.pos = x.pos
       /\ y.converted = x.converted
       /\ y.decoding = x.decoding /\ y.pending = x.pending
       /\ y.enc = e /\ y.declPending = pending
       /\ y.invalid = x.invalid /\ y.truncated = x.truncated
  <2> HIDE DEF e, pending, y, v
  <2> QED
    BY ONLY <1>8, <1>9, <1>10, x \in Buffer DEF Buffer, Sniffed
<1>17. ~pending /\ n >= 4 => Final(n)
  <2> SUFFICES ASSUME ~pending, n >= 4
               PROVE  Final(n)
    OBVIOUS
  <2>1. CASE x.pos = 3
    BY <1>12, <2>1
  <2>2. CASE x.pos = 0
    <3>1. ~Undeclared(Raw(Pushed(n)))
      BY <1>11, <2>2
    <3> QED
      BY <1>1, <3>1, PlainFinal
  <2> QED
    BY <1>5, <2>1, <2>2
<1>18. ~term => n >= 4 /\ x.pos = Bom(t)
  OBVIOUS
<1>19. Raw(v) = SubSeq(y.data, x.pos + 1, Len(y.data))
  BY <1>7, <1>16
<1>20. ~term => IF y.declPending
                THEN /\ Undeclared(SubSeq(y.data, Bom(t) + 1, Len(y.data)))
                     /\ y.pos = Bom(t)
                ELSE Final(n)
  <2> SUFFICES ASSUME ~term
               PROVE  IF y.declPending
                      THEN /\ Undeclared(SubSeq(y.data, Bom(t) + 1, Len(y.data)))
                           /\ y.pos = Bom(t)
                      ELSE Final(n)
    OBVIOUS
  <2>1. n >= 4 /\ x.pos = Bom(t)
    BY <1>18
  <2>2. SubSeq(y.data, Bom(t) + 1, Len(y.data)) = Raw(v)
    BY <1>19, <2>1
  <2> HIDE DEF y, t, v
  <2> QED
    BY ONLY <1>16, <1>17, <2>1, <2>2, Zenon DEF pending
<1>21. y.enc # "utf8" => (term \/ Final(n)) /\ y.pos = 0
  <2> HIDE DEF y, t, v
  <2> QED
    BY ONLY <1>14, <1>15, <1>16, Zenon DEF e
<1>22. Enc(n) \in {"utf8", "latin1", "cp1252", "stateful", "ebcdic"}
  BY <1>1, <1>13
<1>23. /\ y.data = Raw(Pushed(n)) /\ y.pending = <<>> /\ ~y.converted /\ ~y.invalid
       /\ ~y.truncated /\ y.enc = Enc(n)
  BY <1>14, <1>16
<1> HIDE DEF y, t, v, e, pending
<1>24. Rebuilt(y, n, term, ConvertDeclared(y, term))
  BY ONLY <1>16, <1>20, <1>21, <1>22, <1>23, Defined, source \in Sources,
     declared \in Declarable, n \in 0..Len(source), term \in BOOLEAN, ConvertIs DEF t
<1>25. Rebuilt(x, n, term, ConvertDeclared(y, term))
  BY ONLY <1>16, <1>24, Zenon DEF Rebuilt
<1> QED
  BY <1>25, Zenon DEF y

-----------------------------------------------------------------------------
(* The first decision.                                                     *)

DecidedAs(n, term, out) ==
  /\ out \in Buffer /\ out.pos <= Len(out.data)
  /\ AsItCame(out, n, term) \/ AsDecoded(out, n, term)

LEMMA HeldBack ==
  ASSUME NEW t \in Seq(Byte), NEW h, h = [Skeleton EXCEPT !.pending = t]
  PROVE  /\ h \in Buffer /\ h.pending = t /\ h.decoding = "parked" /\ h.data = <<>>
         /\ h.pos = 0 /\ h.enc = "none" /\ h.converted = FALSE /\ h.declPending = FALSE
         /\ h.decoder = FreshDecoder /\ h.invalid = FALSE /\ h.truncated = FALSE
<1>1. /\ Skeleton.decoding = "parked" /\ Skeleton.data = <<>> /\ Skeleton.pos = 0
      /\ Skeleton.enc = "none" /\ Skeleton.decoder = FreshDecoder
      /\ Skeleton.converted = FALSE /\ Skeleton.declPending = FALSE
      /\ Skeleton.invalid = FALSE /\ Skeleton.truncated = FALSE
  BY DEF Skeleton
<1>2. Skeleton \in Buffer
  BY SkeletonType
<1>3. /\ h \in Buffer /\ Stays(Skeleton, h) /\ h.data = Skeleton.data /\ h.pending = t
      /\ h.decoder = Skeleton.decoder
      /\ h.invalid = Skeleton.invalid /\ h.truncated = Skeleton.truncated
  BY <1>2, PendingWritten
<1> QED
  BY ONLY <1>1, <1>3, Zenon DEF Stays

LEMMA HeldPlain ==
  ASSUME NEW t \in Seq(Byte)
  PROVE  /\ [Skeleton EXCEPT !.pending = t].declPending = FALSE
         /\ [Skeleton EXCEPT !.pending = t].pos = 0
         /\ [Skeleton EXCEPT !.pending = t].data = <<>>
<1> DEFINE h == [Skeleton EXCEPT !.pending = t]
<1>1. h = [Skeleton EXCEPT !.pending = t]
  OBVIOUS
<1> HIDE DEF h
<1>2. h.declPending = FALSE /\ h.pos = 0 /\ h.data = <<>>
  BY ONLY <1>1, t \in Seq(Byte), HeldBack
<1> QED
  BY ONLY <1>1, <1>2, Zenon

LEMMA Utf8Decides ==
  ASSUME Defined, Unmarked, source \in Sources, declared \in Declarable,
         NEW n \in 0..Len(source), NEW term \in BOOLEAN,
         NEW h, h = [Skeleton EXCEPT !.pending = Pushed(n)], NEW bom \in {0, 3},
         \/ n >= 4 /\ ~Signed /\ bom = Bom(Pushed(n))
         \/ n < 4 /\ term /\ bom = 0
  PROVE  DecidedAs(n, term, DecideUtf8(h, bom, term))
<1> DEFINE t == Pushed(n)
           e == "utf8"
           p == <<>>
           d == Raw(t)
           z == [h EXCEPT !.enc = e, !.pending = p, !.data = d, !.pos = bom]
           out == ConvertDeclared(Sniff(z), term)
<1>1. source \in Seq(Byte) /\ n \in Nat
  BY InputConstants
<1>2. t \in Seq(Byte) /\ Len(t) = n
  BY <1>1, PushedIs
<1>3. /\ h \in Buffer /\ h.pending = t /\ h.converted = FALSE
      /\ h.invalid = FALSE /\ h.truncated = FALSE
  BY ONLY <1>2, h = [Skeleton EXCEPT !.pending = Pushed(n)], HeldBack
<1>4. DecideUtf8(h, bom, term) = out
  BY <1>3, Zenon DEF DecideUtf8
<1>5. e \in Code /\ p \in Seq(Byte) /\ d \in Text /\ bom \in Nat /\ Len(d) = n
  BY <1>2, RawType DEF Code
<1> HIDE DEF e, p, d
<1>6. /\ z \in Buffer /\ z.data = d /\ z.pos = bom /\ z.enc = e
      /\ z.converted = h.converted /\ z.pending = p
      /\ z.invalid = h.invalid /\ z.truncated = h.truncated
  BY ONLY <1>3, <1>5 DEF Buffer
<1> HIDE DEF z
<1>7. /\ z.data = Raw(Pushed(n)) /\ z.pending = <<>> /\ ~z.converted /\ ~z.invalid /\ ~z.truncated
      /\ z.enc = "utf8"
  BY <1>3, <1>6 DEF e, p, d
<1>8. \/ n >= 4 /\ ~Signed /\ z.pos = Bom(Pushed(n))
      \/ n < 4 /\ term /\ z.pos = 0
  BY ONLY <1>6, Zenon, \/ n >= 4 /\ ~Signed /\ bom = Bom(Pushed(n))
                       \/ n < 4 /\ term /\ bom = 0
<1>9. Rebuilt(z, n, term, out)
  BY ONLY <1>6, <1>7, <1>8, Defined, Unmarked, source \in Sources, declared \in Declarable,
     n \in 0..Len(source), term \in BOOLEAN, SniffConvert
<1> HIDE DEF out
<1>10. /\ out \in Buffer
       /\ AsItCame(out, n, term) \/ AsDecoded(out, n, term)
       /\ z.pos = 0 => out.pos = 0
       /\ z.pos # 0 => out.pos = z.pos /\ out.data = z.data
  BY ONLY <1>9, Zenon DEF Rebuilt
<1>11. out.pos <= Len(out.data)
  <2>1. Len(out.data) \in Nat
    BY <1>10, BufferFields DEF Text
  <2>2. CASE z.pos = 0
    BY <1>10, <2>1, <2>2
  <2>3. CASE z.pos # 0
    <3>1. z.pos = 3 /\ n >= 4 /\ Len(z.data) = n
      BY <1>5, <1>6, <1>8, <2>3
    <3>2. out.pos = z.pos /\ out.data = z.data
      BY ONLY <1>10, <2>3
    <3> QED
      BY ONLY <1>1, <3>1, <3>2
  <2> QED
    BY <2>2, <2>3
<1>12. DecidedAs(n, term, out)
  BY ONLY <1>10, <1>11, Zenon DEF DecidedAs
<1> QED
  BY <1>4, <1>12, Zenon

LEMMA PushedRest ==
  ASSUME source \in Seq(Byte), NEW n \in 0..Len(source), NEW j \in 0..n
  PROVE  /\ SubSeq(source, j + 1, n) \in Seq(Byte)
         /\ SubSeq(Pushed(n), j + 1, Len(Pushed(n))) = SubSeq(source, j + 1, n)
<1> DEFINE t == Pushed(n)
           x == SubSeq(t, j + 1, Len(t))
           y == SubSeq(source, j + 1, n)
<1>1. /\ Len(source) \in Nat /\ n \in Nat /\ j \in Nat /\ j <= n
      /\ j + 1 \in 1..(Len(source) + 1) /\ n \in ((j + 1) - 1)..Len(source)
  OBVIOUS
<1>2. t \in Seq(Byte) /\ Len(t) = n /\ \A i \in 1..n : t[i] = source[i]
  BY PushedIs
<1>3. /\ y \in Seq(Byte) /\ Len(y) = n - (j + 1) + 1
      /\ \A i \in 1..(n - (j + 1) + 1) : y[i] = source[(j + 1) + i - 1]
  BY ONLY <1>1, source \in Seq(Byte), Cut
<1> HIDE DEF t
<1>4. j + 1 \in 1..(Len(t) + 1) /\ Len(t) \in ((j + 1) - 1)..Len(t)
  BY <1>1, <1>2
<1>5. /\ x \in Seq(Byte) /\ Len(x) = Len(t) - (j + 1) + 1
      /\ \A i \in 1..(Len(t) - (j + 1) + 1) : x[i] = t[(j + 1) + i - 1]
  BY ONLY <1>2, <1>4, Cut
<1> HIDE DEF x, y
<1>6. ASSUME NEW i \in 1..Len(x)
      PROVE  x[i] = y[i]
  <2>1. i \in 1..(n - (j + 1) + 1) /\ i \in 1..(Len(t) - (j + 1) + 1) /\ (j + 1) + i - 1 \in 1..n
    BY <1>1, <1>2, <1>5, SMTT(30)
  <2> QED
    BY <1>2, <1>3, <1>5, <2>1
<1>7. Len(x) = Len(y)
  BY <1>2, <1>3, <1>5
<1>8. x = y
  BY <1>3, <1>5, <1>6, <1>7, SeqEqual
<1> QED
  BY <1>3, <1>8 DEF x, y, t

LEMMA UnitsDecide ==
  ASSUME source \in Sources, declared \in Declarable,
         NEW n \in 0..Len(source), NEW term \in BOOLEAN,
         NEW h, h = [Skeleton EXCEPT !.pending = Pushed(n)],
         NEW e \in Wide, NEW skip \in 0..n, Enc(n) = e, Skip(n) = skip, Final(n)
  PROVE  DecidedAs(n, term, InstallUnits(h, e, skip, term))
<1> DEFINE t == Pushed(n)
           yes == TRUE
           none == <<>>
           s == SubSeq(t, skip + 1, Len(t))
           z == [h EXCEPT !.enc = e, !.converted = yes, !.data = none, !.pos = 0, !.pending = s]
           u == DecodeUnits(e, s)
           r == ReadingOf(n)
           out == DecodeTail(z, term)
<1>1. source \in Seq(Byte) /\ n \in Nat
  BY InputConstants
<1>2. t \in Seq(Byte) /\ Len(t) = n
  BY <1>1, PushedIs
<1>3. /\ h \in Buffer /\ h.pending = t /\ h.converted = FALSE
      /\ h.invalid = FALSE /\ h.truncated = FALSE
  BY ONLY <1>2, h = [Skeleton EXCEPT !.pending = Pushed(n)], HeldBack
<1>4. s \in Seq(Byte) /\ s = SubSeq(source, skip + 1, n)
  BY <1>1, PushedRest
<1>5. InstallUnits(h, e, skip, term) = out
  BY <1>3, Zenon DEF InstallUnits
<1>6. r = ReadBytes(e, FreshReader, s)
  BY <1>4, Zenon DEF ReadingOf
<1>7. WideSteps(FreshReader, s, u, ReadBytes(e, FreshReader, s))
  BY ONLY <1>4, e \in Wide, WideFirst
<1>8. e \in Code /\ yes \in BOOLEAN /\ none \in Text
  BY FreshType DEF Code, Wide
<1> HIDE DEF yes, none, s
<1>9. /\ z \in Buffer /\ z.data = none /\ z.pos = 0 /\ z.enc = e
      /\ z.converted = yes /\ z.pending = s
      /\ z.invalid = h.invalid /\ z.truncated = h.truncated
  BY ONLY <1>3, <1>4, <1>8 DEF Buffer
<1> HIDE DEF z, out, r
<1>10. TailOf(z, term, u, out)
  <2>1. z.enc \in Wide
    BY <1>9
  <2>2. TailOf(z, term, DecodeUnits(z.enc, z.pending), DecodeTail(z, term))
    BY ONLY <1>9, <2>1, term \in BOOLEAN, TailIs
  <2> QED
    BY ONLY <1>9, <2>2, Zenon DEF out
<1> HIDE DEF u
<1>11. /\ u \in Units
       /\ out \in Buffer /\ Stays(z, out)
       /\ out.data = none \o u.out /\ out.pending = SubSeq(s, u.used + 1, Len(s))
       /\ out.invalid = (z.invalid \/ u.bad)
       /\ out.truncated = (z.truncated \/ (~u.bad /\ term /\ SubSeq(s, u.used + 1, Len(s)) # <<>>))
  BY ONLY <1>9, <1>10, Zenon DEF TailOf
<1>12. u.out \in Text /\ u.bad \in BOOLEAN
  BY <1>11 DEF Units
<1>13. none \o u.out = u.out
  BY <1>12 DEF none, Text
<1>14. /\ r.bad = u.bad /\ r.out = FreshReader.out \o u.out
       /\ ~u.bad => r.dec.held = SubSeq(s, u.used + 1, Len(s))
  BY ONLY <1>6, <1>7, Zenon DEF WideSteps
<1>15. r.out = u.out
  BY <1>12, <1>14 DEF FreshReader, Text
<1>16. z.invalid = FALSE /\ z.truncated = FALSE
  BY <1>3, <1>9
<1>17. /\ out.invalid = r.bad
       /\ ~r.bad => /\ out.data = r.out /\ out.truncated = (term /\ r.dec.held # <<>>)
                    /\ out.pending = r.dec.held
       /\ r.bad => out.data = r.out
  <2>1. out.invalid = u.bad
    BY ONLY <1>11, <1>12, <1>16
  <2>2. out.data = r.out
    BY ONLY <1>11, <1>13, <1>15, Zenon
  <2>3. ~u.bad => out.truncated = (term /\ SubSeq(s, u.used + 1, Len(s)) # <<>>)
    BY ONLY <1>11, <1>12, <1>16
  <2> QED
    BY ONLY <1>11, <1>14, <2>1, <2>2, <2>3, Zenon
<1>18. r.bad => IsPrefix(r.out, out.data)
  <2>1. r.out \in Seq(Part)
    BY <1>12, <1>15 DEF Text
  <2> QED
    BY <1>17, <2>1, PrefixSelf
<1>19. out.enc = e /\ out.converted /\ out.pos = 0
  <2>1. out.enc = z.enc /\ out.converted = z.converted /\ out.pos = z.pos
    BY ONLY <1>11, Zenon DEF Stays
  <2> QED
    BY <1>9, <2>1 DEF yes
<1>20. AsDecoded(out, n, term)
  <2>1. Enc(n) = out.enc /\ out.enc \in Wide
    BY <1>19
  <2> QED
    BY ONLY <1>17, <1>18, <1>19, <2>1, Final(n), Zenon DEF AsDecoded, r
<1>21. out.pos <= Len(out.data)
  BY <1>11, <1>19, BufferFields DEF Text
<1>22. DecidedAs(n, term, out)
  BY ONLY <1>11, <1>20, <1>21, Zenon DEF DecidedAs
<1> QED
  BY <1>5, <1>22, Zenon

LEMMA EbcdicDecides ==
  ASSUME Defined, source \in Sources, declared \in Declarable,
         NEW n \in 0..Len(source), NEW term \in BOOLEAN,
         NEW h, h = [Skeleton EXCEPT !.pending = Pushed(n)],
         Enc(n) = "ebcdic", Final(n),
         NEW out, out = ConvertDeclared([h EXCEPT !.enc = "ebcdic", !.pending = <<>>,
                                                  !.data = Raw(h.pending)], term)
  PROVE  DecidedAs(n, term, out)
<1> DEFINE t == Pushed(n)
           e == "ebcdic"
           p == <<>>
           d == Raw(t)
           z == [h EXCEPT !.enc = e, !.pending = p, !.data = d]
           w == ConvertDeclared(z, term)
<1>1. source \in Seq(Byte) /\ n \in Nat
  BY InputConstants
<1>2. t \in Seq(Byte) /\ Len(t) = n
  BY <1>1, PushedIs
<1>3. /\ h \in Buffer /\ h.pending = t /\ h.converted = FALSE /\ h.pos = 0
      /\ h.invalid = FALSE /\ h.truncated = FALSE
  BY ONLY <1>2, h = [Skeleton EXCEPT !.pending = Pushed(n)], HeldBack
<1>4. out = w
  BY <1>3, Zenon
<1>5. e \in Code /\ p \in Seq(Byte) /\ d \in Text
  BY <1>2, RawType DEF Code
<1> HIDE DEF e, p, d
<1>6. /\ z \in Buffer /\ z.data = d /\ z.pos = h.pos /\ z.enc = e
      /\ z.converted = h.converted /\ z.pending = p
      /\ z.invalid = h.invalid /\ z.truncated = h.truncated
  BY ONLY <1>3, <1>5 DEF Buffer
<1> HIDE DEF z
<1>7. /\ z.data = Raw(Pushed(n)) /\ z.pending = <<>> /\ ~z.converted /\ ~z.invalid /\ ~z.truncated
      /\ z.enc = Enc(n) /\ z.pos = 0
  BY <1>3, <1>6 DEF e, p, d
<1>8. /\ Enc(n) \in {"utf8", "latin1", "cp1252", "stateful", "ebcdic"}
      /\ z.enc # "utf8" => (term \/ Final(n)) /\ z.pos = 0
  BY <1>7
<1>9. ~term => IF z.declPending
               THEN /\ Undeclared(SubSeq(z.data, Bom(Pushed(n)) + 1, Len(z.data)))
                    /\ z.pos = Bom(Pushed(n))
               ELSE Final(n)
  <2>1. z.declPending = h.declPending
    BY ONLY <1>3, <1>5 DEF Buffer, z
  <2>2. h.declPending = FALSE
    BY ONLY <1>2, h = [Skeleton EXCEPT !.pending = Pushed(n)], HeldPlain, Zenon
  <2>3. ~z.declPending
    BY ONLY <2>1, <2>2
  <2> QED
    BY ONLY <2>3, Final(n), Zenon
<1>10. Rebuilt(z, n, term, w)
  BY ONLY <1>6, <1>7, <1>8, <1>9, Defined, source \in Sources, declared \in Declarable,
     n \in 0..Len(source), term \in BOOLEAN, ConvertIs
<1> HIDE DEF w
<1>11. /\ w \in Buffer /\ w.pos = 0
       /\ AsItCame(w, n, term) \/ AsDecoded(w, n, term)
  BY ONLY <1>7, <1>10, Zenon DEF Rebuilt
<1>12. w.pos <= Len(w.data)
  BY <1>11, BufferFields DEF Text
<1> QED
  BY ONLY <1>4, <1>11, <1>12, Zenon DEF DecidedAs

\* decide, and below four bytes only decide_utf8.
LEMMA Decides ==
  ASSUME Defined, Unmarked, source \in Sources, declared \in Declarable,
         NEW n \in 0..Len(source), NEW term \in BOOLEAN, term \/ n >= 4,
         NEW h, h = [Skeleton EXCEPT !.pending = Pushed(n)]
  PROVE  DecidedAs(n, term, IF n < 4 THEN DecideUtf8(h, 0, term) ELSE Decide(h, term))
<1> DEFINE t == Pushed(n)
<1>1. source \in Seq(Byte) /\ n \in Nat
  BY InputConstants
<1>2. t \in Seq(Byte) /\ Len(t) = n
  BY <1>1, PushedIs
<1>3. h.pending = t
  BY ONLY <1>2, h = [Skeleton EXCEPT !.pending = Pushed(n)], HeldBack
<1>4. /\ n >= 4 =>
           /\ IsPrefix(<<"FE", "FF">>, t) <=> source[1] = "FE" /\ source[2] = "FF"
           /\ IsPrefix(<<"00", "3C", "00", "3F">>, t)
                <=> source[1] = "00" /\ source[2] = "3C" /\ source[3] = "00" /\ source[4] = "3F"
           /\ IsPrefix(<<"00", "00", "00", "3C">>, t)
                <=> source[1] = "00" /\ source[2] = "00" /\ source[3] = "00" /\ source[4] = "3C"
           /\ IsPrefix(<<"4C", "6F", "A7", "94">>, t)
                <=> source[1] = "4C" /\ source[2] = "6F" /\ source[3] = "A7" /\ source[4] = "94"
      /\ IsPrefix(<<"EF", "BB", "BF">>, t)
           <=> n >= 3 /\ source[1] = "EF" /\ source[2] = "BB" /\ source[3] = "BF"
  BY ONLY <1>1, n \in 0..Len(source), FirstBytes
<1>5. CASE n < 4
  <2>1. term
    BY <1>1, <1>5
  <2>2. DecidedAs(n, term, DecideUtf8(h, 0, term))
    BY <1>5, <2>1, Utf8Decides
  <2> QED
    BY <1>5, <2>2, Zenon
<1>6. CASE ~(n < 4)
  <2> HIDE DEF t
  <2>0. n >= 4
    BY <1>1, <1>6
  <2>1. SUFFICES DecidedAs(n, term, Decide(h, term))
    BY <1>6, Zenon
  <2>2. Decide(h, term) =
          IF IsPrefix(<<"00", "00", "00", "3C">>, t) THEN InstallUnits(h, "ucs4", 0, term)
          ELSE IF IsPrefix(<<"00", "3C", "00", "3F">>, t) THEN InstallUnits(h, "utf16", 0, term)
          ELSE IF IsPrefix(<<"4C", "6F", "A7", "94">>, t)
          THEN ConvertDeclared([h EXCEPT !.enc = "ebcdic", !.pending = <<>>,
                                         !.data = Raw(h.pending)], term)
          ELSE IF IsPrefix(<<"EF", "BB", "BF">>, t) THEN DecideUtf8(h, 3, term)
          ELSE IF IsPrefix(<<"FE", "FF">>, t) THEN InstallUnits(h, "utf16", 2, term)
          ELSE DecideUtf8(h, 0, term)
    BY ONLY <1>3, Zenon DEF Decide
  <2>3. Signed => /\ Final(n)
                  /\ Enc(n) = IF source[1] = "FE" THEN "utf16"
                              ELSE IF source[1] = "4C" THEN "ebcdic"
                              ELSE IF source[2] = "3C" THEN "utf16" ELSE "ucs4"
                  /\ Skip(n) = IF source[1] = "FE" THEN 2 ELSE 0
    BY <1>1, <2>0, SignedIs
  <2>4. "ucs4" \in Wide /\ "utf16" \in Wide /\ 0 \in 0..n /\ 2 \in 0..n
    BY <1>1, <2>0 DEF Wide
  <2>5. CASE IsPrefix(<<"00", "00", "00", "3C">>, t)
    <3>1. source[1] = "00" /\ source[2] = "00" /\ source[3] = "00" /\ source[4] = "3C"
      BY ONLY <1>4, <2>0, <2>5
    <3>2. Final(n) /\ Enc(n) = "ucs4" /\ Skip(n) = 0
      BY ONLY <2>3, <3>1 DEF Signed
    <3>3. DecidedAs(n, term, InstallUnits(h, "ucs4", 0, term))
      BY <2>4, <3>2, UnitsDecide
    <3> QED
      BY ONLY <2>2, <2>5, <3>3, Zenon
  <2>6. CASE /\ ~IsPrefix(<<"00", "00", "00", "3C">>, t)
             /\ IsPrefix(<<"00", "3C", "00", "3F">>, t)
    <3>1. source[1] = "00" /\ source[2] = "3C" /\ source[3] = "00" /\ source[4] = "3F"
      BY ONLY <1>4, <2>0, <2>6
    <3>2. Final(n) /\ Enc(n) = "utf16" /\ Skip(n) = 0
      BY ONLY <2>3, <3>1 DEF Signed
    <3>3. DecidedAs(n, term, InstallUnits(h, "utf16", 0, term))
      BY <2>4, <3>2, UnitsDecide
    <3> QED
      BY ONLY <2>2, <2>6, <3>3, Zenon
  <2>7. CASE /\ ~IsPrefix(<<"00", "00", "00", "3C">>, t)
             /\ ~IsPrefix(<<"00", "3C", "00", "3F">>, t)
             /\ IsPrefix(<<"4C", "6F", "A7", "94">>, t)
    <3>1. source[1] = "4C" /\ source[2] = "6F" /\ source[3] = "A7" /\ source[4] = "94"
      BY ONLY <1>4, <2>0, <2>7
    <3>2. Final(n) /\ Enc(n) = "ebcdic" /\ Skip(n) = 0
      BY ONLY <2>3, <3>1 DEF Signed
    <3> DEFINE out == ConvertDeclared([h EXCEPT !.enc = "ebcdic", !.pending = <<>>,
                                                !.data = Raw(h.pending)], term)
    <3>3. DecidedAs(n, term, out)
      BY <3>2, EbcdicDecides
    <3> QED
      BY ONLY <2>2, <2>7, <3>3, Zenon
  <2>8. CASE /\ ~IsPrefix(<<"00", "00", "00", "3C">>, t)
             /\ ~IsPrefix(<<"00", "3C", "00", "3F">>, t)
             /\ ~IsPrefix(<<"4C", "6F", "A7", "94">>, t)
             /\ IsPrefix(<<"EF", "BB", "BF">>, t)
    <3>1. source[1] = "EF"
      BY ONLY <1>4, <2>8
    <3>2. ~Signed
      BY <3>1 DEF Signed
    <3>3. Bom(Pushed(n)) = 3
      BY <2>8 DEF Bom, t
    <3>4. DecidedAs(n, term, DecideUtf8(h, 3, term))
      BY <2>0, <3>2, <3>3, Utf8Decides
    <3> QED
      BY ONLY <2>2, <2>8, <3>4, Zenon
  <2>9. CASE /\ ~IsPrefix(<<"00", "00", "00", "3C">>, t)
             /\ ~IsPrefix(<<"00", "3C", "00", "3F">>, t)
             /\ ~IsPrefix(<<"4C", "6F", "A7", "94">>, t)
             /\ ~IsPrefix(<<"EF", "BB", "BF">>, t)
             /\ IsPrefix(<<"FE", "FF">>, t)
    <3>1. source[1] = "FE" /\ source[2] = "FF"
      BY ONLY <1>4, <2>0, <2>9
    <3>2. Final(n) /\ Enc(n) = "utf16" /\ Skip(n) = 2
      BY ONLY <2>3, <3>1 DEF Signed
    <3>3. DecidedAs(n, term, InstallUnits(h, "utf16", 2, term))
      BY <2>4, <3>2, UnitsDecide
    <3> QED
      BY ONLY <2>2, <2>9, <3>3, Zenon
  <2>10. CASE /\ ~IsPrefix(<<"00", "00", "00", "3C">>, t)
              /\ ~IsPrefix(<<"00", "3C", "00", "3F">>, t)
              /\ ~IsPrefix(<<"4C", "6F", "A7", "94">>, t)
              /\ ~IsPrefix(<<"EF", "BB", "BF">>, t)
              /\ ~IsPrefix(<<"FE", "FF">>, t)
    <3>1. ~Signed
      BY ONLY <1>4, <2>0, <2>10, Zenon DEF Signed
    <3>2. Bom(Pushed(n)) = 0
      BY <2>10 DEF Bom, t
    <3>3. DecidedAs(n, term, DecideUtf8(h, 0, term))
      BY <2>0, <3>1, <3>2, Utf8Decides
    <3> QED
      BY ONLY <2>2, <2>10, <3>3, Zenon
  <2> QED
    BY ONLY <2>5, <2>6, <2>7, <2>8, <2>9, <2>10, Zenon
<1> QED
  BY <1>5, <1>6

-----------------------------------------------------------------------------
(* One push.                                                               *)

LEMMA DecidedKnown ==
  ASSUME NEW n \in Nat, NEW term \in BOOLEAN, NEW x, DecidedAs(n, term, x), term \/ n >= 4,
         NEW out, out = [x EXCEPT !.decoding = "decided"]
  PROVE  /\ out \in Buffer /\ out.pos <= Len(out.data) /\ Known(out, n, term)
         /\ out.pos = x.pos /\ out.data = x.data
<1>1. x \in Buffer /\ x.pos <= Len(x.data) /\ (AsItCame(x, n, term) \/ AsDecoded(x, n, term))
  BY Zenon DEF DecidedAs
<1>2. /\ out \in Buffer /\ out.data = x.data /\ out.pos = x.pos /\ out.enc = x.enc
      /\ out.converted = x.converted /\ out.decoding = "decided"
      /\ out.pending = x.pending /\ out.declPending = x.declPending
      /\ out.decoder = x.decoder /\ out.invalid = x.invalid
      /\ out.truncated = x.truncated
  BY <1>1, DecidedWritten
<1>3. AsItCame(x, n, term) => AsItCame(out, n, term)
  BY ONLY <1>2, Zenon DEF AsItCame
<1>4. AsDecoded(x, n, term) => AsDecoded(out, n, term)
  BY ONLY <1>2, Zenon DEF AsDecoded
<1> QED
  BY ONLY <1>1, <1>2, <1>3, <1>4, term \/ n >= 4, Zenon DEF Known

\* What a push leaves: the text goes on, unless nothing of it was read.
Extends(in, out) == out.pos = in.pos /\ IsPrefix(in.data, out.data)
Awaiting(in, n, last) == AsItCame(in, n, last) /\ in.declPending /\ ~last

CameTo(in, n, m, last, term, out) ==
  /\ out \in Buffer /\ out.decoding = in.decoding
  /\ AsItCame(out, m, term) \/ AsDecoded(out, m, term)
  /\ Extends(in, out) \/ (Awaiting(in, n, last) /\ in.pos = 0 /\ out.pos = 0)
  /\ out.declPending /\ ~out.converted => in.declPending

LEMMA CameMore ==
  ASSUME Defined, Unmarked, source \in Sources, declared \in Declarable, NEW in \in Buffer,
         NEW n \in 0..Len(source), NEW k \in 0..(Len(source) - n),
         NEW last \in BOOLEAN, NEW term \in BOOLEAN, last => k = 0 /\ term,
         AsItCame(in, n, last), last \/ n >= 4,
         NEW b, b = SubSeq(source, n + 1, n + k)
  PROVE  CameTo(in, n, n + k, last, term, AppendDecided(in, b, term))
<1> DEFINE m == n + k
           d == in.data \o Raw(b)
           raw == [in EXCEPT !.data = d]
           out == AppendDecided(in, b, term)
<1>1. /\ source \in Seq(Byte) /\ n \in Nat /\ k \in Nat /\ m \in Nat
      /\ m \in 0..Len(source) /\ m \in n..Len(source) /\ (k = 0 => m = n) /\ n <= m
  BY InputConstants
<1>2. /\ Enc(n) = "utf8" /\ in.enc = "utf8" /\ ~in.converted
      /\ in.data = Raw(Pushed(n)) /\ in.pending = <<>>
      /\ ~in.invalid /\ ~in.truncated
      /\ ~last => IF in.declPending
                  THEN /\ Undeclared(SubSeq(in.data, Bom(Pushed(n)) + 1, Len(in.data)))
                       /\ in.pos = Bom(Pushed(n))
                  ELSE Final(n)
  BY Zenon DEF AsItCame
<1>3. /\ b \in Seq(Byte) /\ Len(b) = k /\ Pushed(m) = Pushed(n) \o b
      /\ Pushed(n) \in Seq(Byte)
  BY <1>1, PushedIs, PushedMore
<1>4. d = Raw(Pushed(m)) /\ d \in Text /\ in.data \in Text
  <2>1. Raw(Pushed(n) \o b) = Raw(Pushed(n)) \o Raw(b)
    BY <1>3, RawConcat
  <2>2. Raw(Pushed(n)) \in Text /\ Raw(b) \in Text
    BY <1>3, RawType
  <2>3. d = Raw(Pushed(n)) \o Raw(b)
    BY ONLY <1>2, Zenon
  <2>4. Raw(Pushed(n)) \o Raw(b) \in Text
    BY <2>2 DEF Text
  <2> QED
    BY ONLY <1>2, <1>3, <2>1, <2>2, <2>3, <2>4, Zenon
<1>5. IsPrefix(in.data, d)
  BY <1>3, <1>4, RawType, PrefixOn DEF Text
<1>6. out = IF b # <<>> /\ in.declPending THEN ConvertDeclared(Sniff(raw), term) ELSE raw
  <2>1. AppendRaw(in, b) = raw
    BY Zenon DEF AppendRaw
  <2> QED
    BY <1>2, <2>1, Zenon DEF AppendDecided
<1> HIDE DEF m, d
<1>7. /\ raw \in Buffer /\ raw.data = d /\ raw.pending = in.pending /\ raw.pos = in.pos
      /\ raw.enc = in.enc /\ raw.converted = in.converted /\ raw.declPending = in.declPending
      /\ raw.invalid = in.invalid /\ raw.truncated = in.truncated
      /\ raw.decoding = in.decoding
  BY ONLY <1>4, in \in Buffer DEF Buffer
<1> HIDE DEF raw, out
<1>8. k = 0 => b = <<>>
  BY <1>3
<1>9. CASE b # <<>> /\ in.declPending
  <2>1. ~last /\ n >= 4 /\ m >= 4 /\ in.pos = Bom(Pushed(n))
    BY <1>1, <1>2, <1>8, <1>9
  <2>2. ~Signed
    BY <1>2, <2>1, EncFacts
  <2>3. Bom(Pushed(m)) = Bom(Pushed(n))
    <3>1. IsPrefix(<<"EF", "BB", "BF">>, Pushed(m))
            <=> m >= 3 /\ source[1] = "EF" /\ source[2] = "BB" /\ source[3] = "BF"
      BY ONLY <1>1, FirstBytes
    <3>2. IsPrefix(<<"EF", "BB", "BF">>, Pushed(n))
            <=> n >= 3 /\ source[1] = "EF" /\ source[2] = "BB" /\ source[3] = "BF"
      BY ONLY <1>1, n \in 0..Len(source), FirstBytes
    <3>3. n >= 3 /\ m >= 3
      BY <1>1, <2>1
    <3>4. IsPrefix(<<"EF", "BB", "BF">>, Pushed(m)) <=> IsPrefix(<<"EF", "BB", "BF">>, Pushed(n))
      BY ONLY <3>1, <3>2, <3>3, Zenon
    <3> QED
      BY ONLY <3>4, Zenon DEF Bom
  <2>4. out = ConvertDeclared(Sniff(raw), term)
    BY ONLY <1>6, <1>9, Zenon
  <2>5. /\ raw.data = Raw(Pushed(m)) /\ raw.pending = <<>> /\ ~raw.converted /\ ~raw.invalid
        /\ ~raw.truncated /\ raw.enc = "utf8" /\ raw.pos = Bom(Pushed(m))
    BY ONLY <1>2, <1>4, <1>7, <2>1, <2>3, Zenon
  <2>6. Rebuilt(raw, m, term, ConvertDeclared(Sniff(raw), term))
    BY ONLY <1>1, <1>7, <2>1, <2>2, <2>5, Defined, Unmarked, source \in Sources,
       declared \in Declarable, term \in BOOLEAN, SniffConvert
  <2>7. /\ out \in Buffer /\ out.decoding = raw.decoding
        /\ AsItCame(out, m, term) \/ AsDecoded(out, m, term)
        /\ raw.pos = 0 => out.pos = 0
        /\ raw.pos # 0 => out.pos = raw.pos /\ out.data = raw.data
    BY ONLY <2>4, <2>6, Zenon DEF Rebuilt
  <2>8. Awaiting(in, n, last)
    BY ONLY <1>9, <2>1, AsItCame(in, n, last), Zenon DEF Awaiting
  <2>9. Extends(in, out) \/ (Awaiting(in, n, last) /\ in.pos = 0 /\ out.pos = 0)
    <3>1. CASE raw.pos = 0
      BY ONLY <1>7, <2>7, <2>8, <3>1, Zenon
    <3>2. CASE raw.pos # 0
      BY ONLY <1>5, <1>7, <2>7, <3>2, Zenon DEF Extends
    <3> QED
      BY ONLY <3>1, <3>2
  <2> QED
    BY ONLY <1>7, <1>9, <2>7, <2>9, Zenon DEF m, out, CameTo
<1>10. CASE ~(b # <<>> /\ in.declPending)
  <2>1. out = raw
    BY ONLY <1>6, <1>10, Zenon
  <2>2. Extends(in, out)
    BY ONLY <1>5, <1>7, <2>1, Zenon DEF Extends
  <2>3. b = <<>> => m = n
    BY <1>1, <1>3
  <2>4. Enc(m) = "utf8"
    <3>1. CASE b = <<>>
      BY <1>2, <2>3, <3>1
    <3>2. CASE b # <<>>
      <4>1. ~last /\ Final(n)
        BY <1>2, <1>8, <1>10, <3>2
      <4>2. Encoding(Pushed(m)) = Encoding(Pushed(n))
        BY ONLY <1>1, <4>1, Zenon DEF Final
      <4> QED
        BY ONLY <1>2, <4>2, Zenon DEF Enc
    <3> QED
      BY <3>1, <3>2
  <2>5. ~term => IF raw.declPending
                 THEN /\ Undeclared(SubSeq(raw.data, Bom(Pushed(m)) + 1, Len(raw.data)))
                      /\ raw.pos = Bom(Pushed(m))
                 ELSE Final(m)
    <3> SUFFICES ASSUME ~term
                 PROVE  IF raw.declPending
                        THEN /\ Undeclared(SubSeq(raw.data, Bom(Pushed(m)) + 1, Len(raw.data)))
                             /\ raw.pos = Bom(Pushed(m))
                        ELSE Final(m)
      OBVIOUS
    <3>1. ~last
      OBVIOUS
    <3>2. CASE in.declPending
      <4>1. m = n
        BY <1>10, <2>3, <3>2
      <4>2. d = in.data
        BY ONLY <1>2, <1>4, <4>1, Zenon
      <4> QED
        BY ONLY <1>2, <1>7, <3>1, <3>2, <4>1, <4>2, Zenon
    <3>3. CASE ~in.declPending
      <4>1. Final(n)
        BY <1>2, <3>1, <3>3
      <4>2. Final(m)
        <5>1. \A j \in m..Len(source) : j \in n..Len(source)
          BY <1>1
        <5>2. /\ Encoding(Pushed(m)) = Encoding(Pushed(n))
              /\ \A j \in n..Len(source) : Encoding(Pushed(j)) = Encoding(Pushed(n))
          BY ONLY <1>1, <4>1, Zenon DEF Final
        <5> QED
          BY ONLY <5>1, <5>2, Zenon DEF Final
      <4> QED
        BY ONLY <1>7, <3>3, <4>2, Zenon
    <3> QED
      BY <3>2, <3>3
  <2>6. AsItCame(raw, m, term)
    BY ONLY <1>2, <1>4, <1>7, <2>4, <2>5, Zenon DEF AsItCame
  <2> QED
    BY ONLY <1>7, <2>1, <2>2, <2>6, Zenon DEF m, out, CameTo
<1> QED
  BY <1>9, <1>10

Pushes(in, n, m, last, term, out) ==
  /\ out \in Buffer /\ out.pos <= Len(out.data)
  /\ (Unknown(in, n) /\ Unknown(out, m) /\ ~term) \/ Known(out, m, term)
  /\ \/ Extends(in, out)
     \/ in.pos = 0 /\ Unknown(in, n)
     \/ in.pos = 0 /\ out.pos = 0 /\ Awaiting(in, n, last)
  /\ Known(in, n, last) /\ out.declPending /\ ~out.converted
       => in.declPending /\ ~in.converted

LEMMA FirstPush ==
  ASSUME Defined, Unmarked, source \in Sources, declared \in Declarable, NEW in \in Buffer,
         NEW n \in 0..Len(source), NEW k \in 0..(Len(source) - n),
         NEW last \in BOOLEAN, NEW term \in BOOLEAN, Unknown(in, n),
         NEW b, b = SubSeq(source, n + 1, n + k)
  PROVE  Pushes(in, n, n + k, last, term, PushBytes(in, b, term))
<1> DEFINE m == n + k
           h == [in EXCEPT !.pending = in.pending \o b]
           g == [Skeleton EXCEPT !.pending = Pushed(m)]
           x == IF m < 4 THEN DecideUtf8(g, 0, term) ELSE Decide(g, term)
           out == PushBytes(in, b, term)
<1>1. /\ source \in Seq(Byte) /\ m \in Nat /\ m \in 0..Len(source)
  BY InputConstants
<1>2. /\ b \in Seq(Byte) /\ Pushed(m) = Pushed(n) \o b
      /\ Pushed(n) \in Seq(Byte) /\ Pushed(m) \in Seq(Byte) /\ Len(Pushed(m)) = m
  BY <1>1, PushedIs, PushedMore
<1>3. in = [Skeleton EXCEPT !.pending = Pushed(n)]
  BY Zenon DEF Unknown
<1>4. /\ in.pending = Pushed(n) /\ in.decoding = "parked" /\ in.data = <<>> /\ in.pos = 0
  BY ONLY <1>2, <1>3, HeldBack
<1>5. h = g
  <2>1. in.pending \o b = Pushed(m)
    BY <1>2, <1>4
  <2>2. \A p, q : [[Skeleton EXCEPT !.pending = p] EXCEPT !.pending = q]
                    = [Skeleton EXCEPT !.pending = q]
    BY SkeletonType DEF Buffer
  <2> QED
    BY ONLY <1>3, <2>1, <2>2, Zenon
<1>6. g.pending = Pushed(m) /\ g \in Buffer
  BY ONLY <1>2, HeldBack
<1>7. out = IF ~MayDecide(Pushed(m), term) THEN g
            ELSE [x EXCEPT !.decoding = "decided"]
  <2>1. out = PushProgressive(in, b, term)
    BY ONLY <1>4, Zenon DEF PushBytes
  <2>2. PushProgressive(in, b, term) =
          IF ~MayDecide(h.pending, term) THEN h
          ELSE [IF Len(h.pending) < 4 THEN DecideUtf8(h, 0, term) ELSE Decide(h, term)
                EXCEPT !.decoding = "decided"]
    BY Zenon DEF PushProgressive
  <2> HIDE DEF h, g, m, out
  <2>3. h.pending = Pushed(m) /\ Len(h.pending) = m
    BY ONLY <1>2, <1>5, <1>6, Zenon
  <2> QED
    BY ONLY <1>5, <2>1, <2>2, <2>3, Zenon DEF x
<1>8. MayDecide(Pushed(m), term) => term \/ m >= 4
  BY <1>2 DEF MayDecide
<1>9. ~MayDecide(Pushed(m), term) => ~term
  BY DEF MayDecide
<1>10. ASSUME NEW nn, Known(in, nn, last)
       PROVE  FALSE
  BY <1>4, <1>10 DEF Known
<1> HIDE DEF out
<1>11. CASE ~MayDecide(Pushed(m), term)
  <2>1. out = g
    BY ONLY <1>7, <1>11, Zenon
  <2>2. Unknown(out, m)
    BY ONLY <2>1, Zenon DEF Unknown
  <2>3. g.pos = 0 /\ g.data = <<>>
    BY ONLY <1>2, HeldPlain, Zenon
  <2>4. out \in Buffer /\ out.pos <= Len(out.data)
    BY <1>6, <2>1, <2>3
  <2> QED
    BY ONLY <1>4, <1>9, <1>10, <1>11, <2>2, <2>4, Unknown(in, n), Zenon DEF Pushes, out, m
<1>12. CASE MayDecide(Pushed(m), term)
  <2>1. term \/ m >= 4
    BY <1>8, <1>12
  <2>2. DecidedAs(m, term, x)
    BY ONLY <1>1, <2>1, Defined, Unmarked, source \in Sources, declared \in Declarable,
       term \in BOOLEAN, Decides
  <2> HIDE DEF x, m
  <2>3. out = [x EXCEPT !.decoding = "decided"]
    BY ONLY <1>7, <1>12, Zenon
  <2>4. out \in Buffer /\ out.pos <= Len(out.data) /\ Known(out, m, term)
    BY ONLY <1>1, <2>1, <2>2, <2>3, term \in BOOLEAN, DecidedKnown
  <2> QED
    BY ONLY <1>4, <1>10, <2>4, Unknown(in, n), Zenon DEF Pushes, out, m
<1> QED
  BY <1>11, <1>12

LEMMA LaterPush ==
  ASSUME Defined, Unmarked, source \in Sources, declared \in Declarable, NEW in \in Buffer,
         in.pos <= Len(in.data),
         NEW n \in 0..Len(source), NEW k \in 0..(Len(source) - n),
         NEW last \in BOOLEAN, NEW term \in BOOLEAN, last => k = 0 /\ term,
         Known(in, n, last),
         NEW b, b = SubSeq(source, n + 1, n + k)
  PROVE  Pushes(in, n, n + k, last, term, PushBytes(in, b, term))
<1> DEFINE m == n + k
           out == AppendDecided(in, b, term)
<1>1. /\ source \in Seq(Byte) /\ n \in Nat /\ m \in Nat /\ n <= m
  BY InputConstants
<1>2. in.decoding = "decided" /\ (last \/ n >= 4) /\ (AsItCame(in, n, last) \/ AsDecoded(in, n, last))
  BY Zenon DEF Known
<1>3. term \/ m >= 4
  BY <1>1, <1>2
<1>4. PushBytes(in, b, term) = out
  <2>1. in.decoding # "parked"
    BY <1>2
  <2> QED
    BY <2>1, Zenon DEF PushBytes
<1>5. /\ out \in Buffer /\ out.decoding = in.decoding
      /\ AsItCame(out, m, term) \/ AsDecoded(out, m, term)
      /\ Extends(in, out) \/ (Awaiting(in, n, last) /\ in.pos = 0 /\ out.pos = 0)
      /\ out.declPending /\ ~out.converted => in.declPending /\ ~in.converted
  <2>1. CASE AsItCame(in, n, last)
    <3>1. ~in.converted
      BY <2>1, Zenon DEF AsItCame
    <3>2. CameTo(in, n, m, last, term, out)
      BY ONLY <1>2, <2>1, Defined, Unmarked, source \in Sources, declared \in Declarable,
         in \in Buffer, n \in 0..Len(source), k \in 0..(Len(source) - n), last \in BOOLEAN,
         term \in BOOLEAN, last => k = 0 /\ term, b = SubSeq(source, n + 1, n + k), CameMore
    <3> QED
      BY ONLY <3>1, <3>2, Zenon DEF CameTo
  <2>2. CASE AsDecoded(in, n, last)
    <3>1. in.converted /\ Enc(n) = in.enc /\ (in.enc \in Wide \/ in.enc = "stateful" \/ in.enc \in Tables)
      BY <2>2, Zenon DEF AsDecoded
    <3>2. /\ out \in Buffer /\ Stays(in, out) /\ IsPrefix(in.data, out.data)
          /\ AsDecoded(out, m, term)
      <4>1. CASE in.enc \in Wide
        BY <2>2, <4>1, WideMore
      <4>2. CASE in.enc = "stateful"
        BY <2>2, <4>2, StatefulMore
      <4>3. CASE in.enc \in Tables
        <5>1. ~Undefined(in.enc, b)
          BY <3>1, NothingUndefinedIn
        <5> QED
          BY <2>2, <4>3, <5>1, TableMore
      <4> QED
        BY <3>1, <4>1, <4>2, <4>3
    <3> QED
      BY ONLY <3>1, <3>2, Zenon DEF Stays, Extends
  <2> QED
    BY <1>2, <2>1, <2>2
<1> HIDE DEF m, out
<1>6. out.pos <= Len(out.data)
  <2>1. in.data \in Seq(Part) /\ out.data \in Seq(Part) /\ in.pos \in Nat /\ out.pos \in Nat
    BY <1>5, BufferFields DEF Text
  <2>2. CASE Extends(in, out)
    <3>1. out.pos = in.pos /\ IsPrefix(in.data, out.data)
      BY <2>2, Zenon DEF Extends
    <3>2. Len(in.data) <= Len(out.data)
      BY ONLY <2>1, <3>1, PrefixOfText
    <3> QED
      BY <2>1, <3>1, <3>2
  <2>3. CASE out.pos = 0
    BY <2>1, <2>3
  <2> QED
    BY <1>5, <2>2, <2>3
<1>7. Known(out, m, term)
  BY ONLY <1>2, <1>3, <1>5, Zenon DEF Known
<1>8. Pushes(in, n, m, last, term, out)
  BY ONLY <1>5, <1>6, <1>7, Zenon DEF Pushes
<1> QED
  BY <1>4, <1>8, Zenon DEF m

-----------------------------------------------------------------------------
(* Every call keeps the invariant. *)

LEMMA SourceStays ==
  ASSUME source' = source, declared' = declared
  PROVE  /\ Known(input, received, closed)' <=> Known(input', received', closed')
         /\ Unknown(input, received)' <=> Unknown(input', received')
<1>1. \A s : Encoding(s)' = Encoding(s)
  BY Zenon DEF Encoding
<1>2. \A n : Pushed(n)' = Pushed(n)
  BY Zenon DEF Pushed
<1>3. \A n : Enc(n)' = Enc(n)
  BY <1>1, <1>2, Zenon DEF Enc
<1>4. \A n : Skip(n)' = Skip(n)
  BY <1>1, <1>2, Zenon DEF Skip
<1>5. \A n : Final(n)' <=> Final(n)
  BY <1>1, <1>2, Zenon DEF Final
<1>6. \A n : ReadingOf(n)' = ReadingOf(n)
  BY <1>3, <1>4, Zenon DEF ReadingOf
<1>7. AsItCame(input, received, closed)' <=> AsItCame(input', received', closed')
  BY <1>2, <1>3, <1>5, Zenon DEF AsItCame
<1>8. AsDecoded(input, received, closed)' <=> AsDecoded(input', received', closed')
  BY <1>3, <1>5, <1>6, Zenon DEF AsDecoded
<1>9. Known(input, received, closed)' <=> Known(input', received', closed')
  BY <1>7, <1>8, Zenon DEF Known
<1>10. Unknown(input, received)' <=> Unknown(input', received')
  BY <1>2, Zenon DEF Unknown
<1> QED
  BY <1>9, <1>10

LEMMA DeclarationText ==
  /\ Declaration \in Text /\ Len(Declaration) = 5
  /\ Declaration[1] = [unit |-> <<"3C">>, part |-> 1]
  /\ Declaration[2] = [unit |-> <<"3F">>, part |-> 1]
  /\ \A i \in 1..5 : Declaration[i].unit # <<"3E">>
<1>1. Xml \in Seq(Byte) /\ Len(Xml) = 5
  BY XmlFacts
<1>2. /\ Declaration \in Text /\ Len(Declaration) = 5
      /\ \A i \in 1..5 : /\ Declaration[i].unit = <<Xml[i]>>
                         /\ Declaration[i].part = IF Xml[i] \in ASCII THEN 1 ELSE 0
  BY <1>1, DeclarationIs, RawType
<1>3. /\ Xml[1] = "3C" /\ Xml[2] = "3F" /\ \A i \in 1..5 : Xml[i] # "3E"
  <2>1. /\ Xml[1] = "3C" /\ Xml[2] = "3F" /\ Xml[3] = "78" /\ Xml[4] = "6D" /\ Xml[5] = "6C"
    BY DEF Xml
  <2> QED
    BY ONLY <2>1
<1>4. \A i \in 1..5 : Declaration[i].unit # <<"3E">>
  <2> SUFFICES ASSUME NEW i \in 1..5
               PROVE  Declaration[i].unit # <<"3E">>
    OBVIOUS
  <2>1. Declaration[i].unit = <<Xml[i]>> /\ Xml[i] # "3E"
    BY <1>2, <1>3
  <2> QED
    BY ONLY <2>1
<1>5. Declaration[1] \in Part /\ Declaration[2] \in Part
  <2>1. \A t \in Seq(Part) : \A i \in 1..Len(t) : t[i] \in Part
    OBVIOUS
  <2>2. Declaration \in Seq(Part) /\ 1 \in 1..Len(Declaration) /\ 2 \in 1..Len(Declaration)
    BY <1>2 DEF Text
  <2> QED
    BY ONLY <2>1, <2>2
<1>6. "3C" \in ASCII /\ "3F" \in ASCII
  BY DEF ASCII
<1>7. /\ Declaration[1].unit = <<"3C">> /\ Declaration[1].part = 1
      /\ Declaration[2].unit = <<"3F">> /\ Declaration[2].part = 1
  BY <1>2, <1>3, <1>6
<1>8. /\ Declaration[1] = [unit |-> <<"3C">>, part |-> 1]
      /\ Declaration[2] = [unit |-> <<"3F">>, part |-> 1]
  BY ONLY <1>5, <1>7 DEF Part
<1> QED
  BY <1>2, <1>4, <1>8

\* Text that may yet become a declaration is waited for.
LEMMA StillOpen ==
  ASSUME NEW in \in Buffer, in.pos <= Len(in.data), Undeclared(Rest(in)),
         NEW from \in Nat, in.pos <= from
  PROVE  \/ Len(in.data) - in.pos < 2
         \/ SubSeq(Rest(in), 1, 2) = Raw(<<"3C", "3F">>) /\ ~HasEnd(in.data, from)
<1> DEFINE x == in.data
           p == in.pos
           rest == Rest(in)
           e == [unit |-> <<"3F">>, part |-> 1]
           f == [unit |-> <<"3E">>, part |-> 1]
<1>1. x \in Seq(Part) /\ p \in Nat /\ p <= Len(x) /\ Len(x) \in Nat /\ x \in Text
  BY BufferFields DEF Text
<1>2. /\ rest \in Seq(Part) /\ Len(rest) = Len(x) - p
      /\ \A k \in 1..(Len(x) - p) : rest[k] = x[p + k]
  <2>1. p + 1 \in 1..(Len(x) + 1) /\ Len(x) \in ((p + 1) - 1)..Len(x)
    BY <1>1
  <2>2. rest = SubSeq(x, p + 1, Len(x))
    BY DEF Rest
  <2>3. /\ rest \in Seq(Part) /\ Len(rest) = Len(x) - (p + 1) + 1
        /\ \A k \in 1..(Len(x) - (p + 1) + 1) : rest[k] = x[(p + 1) + k - 1]
    BY ONLY <1>1, <2>1, <2>2, Cut, SMTT(30)
  <2> QED
    BY ONLY <1>1, <2>3, SMTT(30)
<1>3. /\ Declaration \in Seq(Part) /\ Len(Declaration) = 5
      /\ Declaration[1] = [unit |-> <<"3C">>, part |-> 1]
      /\ Declaration[2] = [unit |-> <<"3F">>, part |-> 1]
      /\ \A i \in 1..5 : Declaration[i].unit # <<"3E">>
  BY DeclarationText DEF Text
<1>4. IF Len(rest) < 5 THEN IsPrefix(rest, Declaration)
      ELSE IsPrefix(Declaration, rest) /\ ~HasEnd(rest, 0)
  BY Zenon DEF Undeclared
<1> HIDE DEF x, p, rest
<1>5. \A i \in 1..5 : i <= Len(rest) => rest[i] = Declaration[i]
  <2>1. CASE Len(rest) < 5
    <3>1. IsPrefix(rest, Declaration)
      BY ONLY <1>4, <2>1, Zenon
    <3>2. \A i \in 1..Len(rest) : rest[i] = Declaration[i]
      BY ONLY <1>2, <1>3, <3>1, PrefixOfText
    <3> QED
      BY ONLY <1>2, <3>2, SMT
  <2>2. CASE ~(Len(rest) < 5)
    <3>1. IsPrefix(Declaration, rest)
      BY ONLY <1>4, <2>2, Zenon
    <3>2. \A i \in 1..Len(Declaration) : Declaration[i] = rest[i]
      BY ONLY <1>2, <1>3, <3>1, PrefixOfText
    <3> QED
      BY ONLY <1>3, <3>2, SMT
  <2> QED
    BY <2>1, <2>2
<1>6. ASSUME ~(Len(x) - p < 2)
      PROVE  SubSeq(rest, 1, 2) = Raw(<<"3C", "3F">>)
  <2> DEFINE u == SubSeq(rest, 1, 2)
             s == <<"3C", "3F">>
             v == Raw(s)
  <2>1. /\ u \in Seq(Part) /\ Len(u) = 2 /\ u[1] = rest[1] /\ u[2] = rest[2]
    <3>1. 1 \in 1..(Len(rest) + 1) /\ 2 \in (1 - 1)..Len(rest)
      BY <1>1, <1>2, <1>6
    <3>2. /\ u \in Seq(Part) /\ Len(u) = 2 - 1 + 1
          /\ \A k \in 1..(2 - 1 + 1) : u[k] = rest[1 + k - 1]
      BY ONLY <1>2, <3>1, Cut
    <3> QED
      BY ONLY <3>2
  <2>2. /\ s \in Seq(Byte) /\ Len(s) = 2 /\ s[1] = "3C" /\ s[2] = "3F"
        /\ "3C" \in ASCII /\ "3F" \in ASCII
    BY DEF Byte, ASCII
  <2> HIDE DEF s
  <2>3. /\ v \in Seq(Part) /\ Len(v) = 2
        /\ \A i \in 1..2 : v[i].unit = <<s[i]>> /\ v[i].part = IF s[i] \in ASCII THEN 1 ELSE 0
    BY <2>2, RawType DEF Text
  <2>4. v[1] = [unit |-> <<"3C">>, part |-> 1] /\ v[2] = [unit |-> <<"3F">>, part |-> 1]
    <3>1. v[1] \in Part /\ v[2] \in Part
      <4>1. \A t \in Seq(Part) : \A i \in 1..Len(t) : t[i] \in Part
        OBVIOUS
      <4>2. v \in Seq(Part) /\ 1 \in 1..Len(v) /\ 2 \in 1..Len(v)
        BY <2>3
      <4> QED
        BY ONLY <4>1, <4>2
    <3>2. /\ v[1].unit = <<"3C">> /\ v[1].part = 1
          /\ v[2].unit = <<"3F">> /\ v[2].part = 1
      BY <2>2, <2>3
    <3> QED
      BY ONLY <3>1, <3>2 DEF Part
  <2>5. rest[1] = Declaration[1] /\ rest[2] = Declaration[2]
    BY <1>1, <1>2, <1>5, <1>6
  <2> HIDE DEF u, v
  <2>6. \A i \in 1..2 : u[i] = v[i]
    BY <1>3, <2>1, <2>4, <2>5
  <2>7. u = v
    BY ONLY <2>1, <2>3, <2>6, SeqEqual
  <2> QED
    BY <2>7 DEF u, v, s
<1>7. ~HasEnd(x, from)
  <2> SUFFICES ASSUME HasEnd(x, from)
               PROVE  FALSE
    OBVIOUS
  <2>1. PICK i \in from..(Len(x) - 2) : EndsAt(x, i)
    BY Zenon DEF HasEnd
  <2> DEFINE k == i - p
  <2>2. /\ i \in 0..(Len(x) - 2) /\ k \in 0..(Len(rest) - 2) /\ k \in Nat
        /\ p + (k + 1) = i + 1 /\ p + (k + 2) = i + 2
        /\ k + 1 \in 1..(Len(x) - p) /\ k + 2 \in 1..(Len(x) - p)
    <3>1. p <= from
      BY DEF p
    <3> QED
      BY <1>1, <1>2, <3>1
  <2>3. x[i + 1] = e /\ x[i + 2] = f
    BY <1>1, <2>1, <2>2, EndsAtIs
  <2>4. rest[k + 1] = e /\ rest[k + 2] = f
    BY <1>2, <2>2, <2>3
  <2>5. CASE Len(rest) < 5
    <3>1. k + 2 \in 1..5 /\ k + 2 <= Len(rest)
      BY <1>2, <2>2, <2>5, SMTT(30)
    <3>2. rest[k + 2] = Declaration[k + 2] /\ Declaration[k + 2].unit # <<"3E">>
      BY <1>3, <1>5, <3>1
    <3> QED
      BY <2>4, <3>2
  <2>6. CASE ~(Len(rest) < 5)
    <3>1. EndsAt(rest, k)
      BY <1>2, <2>2, <2>4, EndsAtIs DEF Text
    <3>2. HasEnd(rest, 0)
      BY <2>2, <3>1 DEF HasEnd
    <3> QED
      BY <1>4, <2>6, <3>2
  <2> QED
    BY <2>5, <2>6
<1> QED
  BY <1>6, <1>7 DEF x, p, rest

\* What holds of the input when the driver looks at it.
Looks(in, m, term) ==
  /\ in \in Buffer /\ in.pos <= Len(in.data)
  /\ \/ /\ Unknown(in, received') /\ ~term /\ in.decoding = "parked" /\ ~in.invalid
        /\ phase = "start" /\ m = NoMark
     \/ Known(in, received', term) /\ in.decoding # "parked"
  /\ in.declPending /\ ~in.converted /\ ~term => phase # "content"
  /\ m \in Nat \cup {NoMark}

LEMMA PushLooks ==
  ASSUME Unmarked, Defined, IInv, NEW n \in Nat, NEW terminate \in BOOLEAN,
         n <= Len(source) - received, closed => n = 0 /\ terminate,
         received' = received + n,
         NEW in, in = PushBytes(input, SubSeq(source, received + 1, received + n), terminate),
         NEW m, m = IF in.pos < input.pos THEN NoMark ELSE mark
  PROVE  /\ Looks(in, m, terminate)
         /\ Pushes(input, received, received + n, closed, terminate, in)
<1> DEFINE b == SubSeq(source, received + 1, received + n)
<1>1. /\ source \in Sources /\ declared \in Declarable /\ received \in 0..Len(source)
      /\ closed \in BOOLEAN /\ input \in Buffer /\ input.pos <= Len(input.data)
      /\ mark \in Nat \cup {NoMark}
  BY Zenon DEF IInv, TypeOK
<1>2. source \in Seq(Byte) /\ n \in 0..(Len(source) - received)
  BY <1>1, InputConstants
<1>3. \/ Unknown(input, received) /\ ~closed /\ phase = "start" /\ mark = NoMark
      \/ Known(input, received, closed)
  BY Zenon DEF IInv
<1>4. Pushes(input, received, received + n, closed, terminate, in)
  <2> DEFINE out == PushBytes(input, b, terminate)
  <2>1. CASE Unknown(input, received)
    BY ONLY <1>1, <1>2, <2>1, Unmarked, Defined, terminate \in BOOLEAN, FirstPush,
       in = out
  <2>2. CASE Known(input, received, closed)
    BY ONLY <1>1, <1>2, <2>2, Unmarked, Defined, terminate \in BOOLEAN, LaterPush,
       closed => n = 0 /\ terminate, in = out
  <2> QED
    BY <1>3, <2>1, <2>2
<1>5. /\ in \in Buffer /\ in.pos <= Len(in.data)
      /\ \/ Unknown(input, received) /\ Unknown(in, received') /\ ~terminate
         \/ Known(in, received', terminate)
      /\ Known(input, received, closed) /\ in.declPending /\ ~in.converted
           => input.declPending /\ ~input.converted
  BY ONLY <1>4, received' = received + n, Zenon DEF Pushes
<1>6. m = mark \/ m = NoMark
  BY Zenon
<1>7. Unknown(input, received) => phase = "start" /\ mark = NoMark /\ input.decoding = "parked"
  <2>1. ASSUME Known(input, received, closed)
        PROVE  input.decoding = "decided"
    BY <2>1, Zenon DEF Known
  <2>2. ASSUME Unknown(input, received)
        PROVE  input.decoding = "parked"
    <3>1. Pushed(received) \in Seq(Byte)
      BY <1>1, <1>2, PushedIs
    <3> QED
      BY ONLY <2>2, <3>1, HeldBack DEF Unknown
  <2> QED
    BY <1>3, <2>1, <2>2
<1>8. ASSUME Unknown(in, received')
      PROVE  in.decoding = "parked" /\ ~in.invalid
  <2>1. received + n \in 0..Len(source)
    BY <1>1, <1>2
  <2>2. Pushed(received') \in Seq(Byte)
    BY <1>2, <2>1, PushedIs
  <2> QED
    BY ONLY <1>8, <2>2, HeldBack DEF Unknown
<1>9. ASSUME Known(in, received', terminate)
      PROVE  in.decoding # "parked"
  BY <1>9, Zenon DEF Known
<1>10. in.declPending /\ ~in.converted /\ ~terminate => phase # "content"
  <2>1. CASE Unknown(input, received)
    BY <1>7, <2>1
  <2>2. CASE Known(input, received, closed)
    <3>1. input.declPending /\ ~input.converted /\ ~closed => phase # "content"
      BY Zenon DEF IInv
    <3> QED
      BY <1>5, <2>2, <3>1
  <2> QED
    BY <1>3, <2>1, <2>2
<1>11. m \in Nat \cup {NoMark}
  BY <1>1, <1>6
<1> QED
  BY ONLY <1>4, <1>5, <1>6, <1>7, <1>8, <1>9, <1>10, <1>11, Zenon DEF Looks

LEMMA Kept ==
  ASSUME IInv, source' = source, declared' = declared,
         received' \in 0..Len(source), closed' \in BOOLEAN,
         fatal' \in BOOLEAN, errNo' \in BOOLEAN,
         input' \in Buffer, input'.pos <= Len(input'.data),
         phase' \in {"start", "xml_decl", "content"}, mark' \in Nat \cup {NoMark},
         \/ Unknown(input', received') /\ ~closed' /\ phase' = "start" /\ mark' = NoMark
         \/ Known(input', received', closed'),
         input'.declPending /\ ~input'.converted /\ ~closed' => phase' # "content",
         closed' /\ ~errNo' => /\ ~input'.invalid /\ ~input'.truncated
                               /\ input'.pos = Len(input'.data)
  PROVE  IInv'
<1>1. source \in Sources /\ declared \in Declarable
  BY Zenon DEF IInv, TypeOK
<1>2. TypeOK'
  BY <1>1 DEF TypeOK
<1>3. /\ Known(input, received, closed)' <=> Known(input', received', closed')
      /\ Unknown(input, received)' <=> Unknown(input', received')
  BY SourceStays
<1> QED
  BY <1>2, <1>3, Zenon DEF IInv

LEMMA MaxOfTwo == \A i, j \in Int : Max({i, j}) = IF i >= j THEN i ELSE j
<1> SUFFICES ASSUME NEW i \in Int, NEW j \in Int
             PROVE  Max({i, j}) = IF i >= j THEN i ELSE j
  OBVIOUS
<1> DEFINE g == IF i >= j THEN i ELSE j
<1>1. g \in {i, j} /\ \A y \in {i, j} : g >= y
  OBVIOUS
<1>2. \A h \in {i, j} : (\A y \in {i, j} : h >= y) => h = g
  OBVIOUS
<1> HIDE DEF g
<1>3. Max({i, j}) = CHOOSE x \in {i, j} : \A y \in {i, j} : x >= y
  BY DEF Max
<1> QED
  BY <1>1, <1>2, <1>3 DEF g

\* Reading leaves what was decoded as it is.
LEMMA CursorMoves ==
  ASSUME NEW in \in Buffer, NEW p \in Nat, NEW n, NEW term \in BOOLEAN, Known(in, n, term),
         ~(in.declPending /\ ~in.converted /\ ~term),
         NEW out, out = [in EXCEPT !.pos = p]
  PROVE  /\ out \in Buffer /\ out.pos = p /\ out.data = in.data
         /\ out.converted = in.converted /\ out.declPending = in.declPending
         /\ out.invalid = in.invalid /\ out.truncated = in.truncated
         /\ Known(out, n, term)
<1>1. /\ out \in Buffer /\ out.data = in.data /\ out.pos = p /\ out.enc = in.enc
      /\ out.converted = in.converted /\ out.decoding = in.decoding
      /\ out.pending = in.pending /\ out.declPending = in.declPending
      /\ out.decoder = in.decoder /\ out.invalid = in.invalid
      /\ out.truncated = in.truncated
  BY CursorWritten
<1>2. /\ in.decoding = "decided" /\ (term \/ n >= 4)
      /\ AsItCame(in, n, term) \/ AsDecoded(in, n, term)
  BY Zenon DEF Known
<1>3. ASSUME AsItCame(in, n, term)
      PROVE  AsItCame(out, n, term)
  BY ONLY <1>1, <1>3, ~(in.declPending /\ ~in.converted /\ ~term), Zenon DEF AsItCame
<1>4. ASSUME AsDecoded(in, n, term)
      PROVE  AsDecoded(out, n, term)
  BY ONLY <1>1, <1>4, Zenon DEF AsDecoded
<1> QED
  BY ONLY <1>1, <1>2, <1>3, <1>4, Zenon DEF Known

\* A driver that is given text which may become a declaration waits.
LEMMA MustWait ==
  ASSUME NEW m, NEW term \in BOOLEAN, NEW in, Looks(in, m, term),
         in.declPending, ~in.converted, ~term, Known(in, received', term),
         NEW from, from = IF Valid(m, in) THEN m ELSE in.pos + 2
  PROVE  /\ phase # "content"
         /\ \/ Len(in.data) - in.pos < 2
            \/ SubSeq(Rest(in), 1, 2) = Raw(<<"3C", "3F">>) /\ ~HasEnd(in.data, from)
<1>1. /\ in \in Buffer /\ in.pos <= Len(in.data) /\ phase # "content"
      /\ m \in Nat \cup {NoMark}
  BY Zenon DEF Looks
<1>2. AsItCame(in, received', term)
  <2>1. ~AsDecoded(in, received', term)
    BY Zenon DEF AsDecoded
  <2> QED
    BY <2>1, Zenon DEF Known
<1>3. Undeclared(Rest(in))
  <2>1. /\ Undeclared(SubSeq(in.data, Bom(Pushed(received')) + 1, Len(in.data)))
        /\ in.pos = Bom(Pushed(received'))
    BY <1>2, Zenon DEF AsItCame
  <2>2. Undeclared(SubSeq(in.data, in.pos + 1, Len(in.data)))
    BY ONLY <2>1, Zenon
  <2> QED
    BY <2>2, Zenon DEF Rest
<1>4. in.pos \in Nat
  BY <1>1, BufferFields
<1>5. from \in Nat /\ in.pos <= from
  <2>1. CASE Valid(m, in)
    <3>1. m # NoMark /\ in.pos <= m /\ from = m
      BY <2>1 DEF Valid
    <3> QED
      BY <1>1, <3>1
  <2>2. CASE ~Valid(m, in)
    BY <1>4, <2>2
  <2> QED
    BY <2>1, <2>2
<1> QED
  BY ONLY <1>1, <1>3, <1>5, StillOpen

LEMMA RefuseKeeps ==
  ASSUME IInv, source' = source, declared' = declared,
         received' \in 0..Len(source), closed' \in BOOLEAN,
         NEW in, NEW m, Looks(in, m, closed'), in.invalid, Refuse(in, m)
  PROVE  IInv'
<1>1. /\ in \in Buffer /\ in.pos <= Len(in.data) /\ m \in Nat \cup {NoMark}
      /\ Known(in, received', closed')
      /\ in.declPending /\ ~in.converted /\ ~closed' => phase # "content"
  BY Zenon DEF Looks
<1>2. /\ input' = in /\ mark' = m /\ fatal' = TRUE /\ errNo' = TRUE
      /\ phase' = IF phase = "start" THEN "xml_decl" ELSE phase
  BY Zenon DEF Refuse
<1>3. phase \in {"start", "xml_decl", "content"}
  BY Zenon DEF IInv, TypeOK
<1>4. phase' \in {"start", "xml_decl", "content"} /\ (phase # "content" => phase' # "content")
  BY ONLY <1>2, <1>3
<1>5. /\ fatal' \in BOOLEAN /\ errNo' \in BOOLEAN
      /\ (closed' /\ ~errNo' => /\ ~input'.invalid /\ ~input'.truncated
                                /\ input'.pos = Len(input'.data))
  BY ONLY <1>2
<1>6. /\ input' \in Buffer /\ input'.pos <= Len(input'.data) /\ mark' \in Nat \cup {NoMark}
      /\ Known(input', received', closed')
      /\ input'.declPending /\ ~input'.converted /\ ~closed' => phase' # "content"
  BY ONLY <1>1, <1>2, <1>4, Zenon
<1> QED
  BY ONLY <1>4, <1>5, <1>6, IInv, source' = source, declared' = declared,
     received' \in 0..Len(source), closed' \in BOOLEAN, Kept

LEMMA DriveKeeps ==
  ASSUME IInv, source' = source, declared' = declared,
         received' \in 0..Len(source), closed' \in BOOLEAN,
         NEW in, NEW m, NEW term \in BOOLEAN, term = closed',
         Looks(in, m, term), ~in.invalid, Drive(in, m, term)
  PROVE  IInv'
<1> DEFINE avail == Len(in.data) - in.pos
           looks == avail >= 2 /\ SubSeq(Rest(in), 1, 2) = Raw(<<"3C", "3F">>)
           from == IF Valid(m, in) THEN m ELSE in.pos + 2
           waits == /\ phase # "content" /\ ~term
                    /\ avail < 2 \/ (looks /\ ~HasEnd(in.data, from))
<1>1. IF avail = 0 \/ in.decoding = "parked"
      THEN input' = in /\ phase' = phase /\ mark' = m /\ Settle(in, term)
      ELSE IF waits
      THEN /\ input' = in /\ phase' = "xml_decl" /\ fatal' = fatal /\ errNo' = errNo
           /\ mark' = IF looks THEN NextMark(in, from) ELSE m
      ELSE \E p \in in.pos..Len(in.data) :
             /\ input' = [in EXCEPT !.pos = p] /\ phase' = "content" /\ mark' = NoMark
             /\ Settle([in EXCEPT !.pos = p], term)
  BY Zenon DEF Drive
<1>2. /\ in \in Buffer /\ in.pos <= Len(in.data)
      /\ \/ /\ Unknown(in, received') /\ ~term /\ in.decoding = "parked" /\ ~in.invalid
            /\ phase = "start" /\ m = NoMark
         \/ Known(in, received', term) /\ in.decoding # "parked"
      /\ in.declPending /\ ~in.converted /\ ~term => phase # "content"
      /\ m \in Nat \cup {NoMark}
  BY Zenon DEF Looks
<1>3. /\ in.pos \in Nat /\ in.data \in Seq(Part) /\ Len(in.data) \in Nat
      /\ in.truncated \in BOOLEAN
  BY <1>2, BufferFields DEF Text
<1>4. phase \in {"start", "xml_decl", "content"} /\ fatal \in BOOLEAN /\ errNo \in BOOLEAN
  BY Zenon DEF IInv, TypeOK
<1>5. ASSUME NEW x, x.truncated \in BOOLEAN, x.pos <= Len(x.data), x.pos \in Nat, Len(x.data) \in Nat,
             Settle(x, term)
      PROVE  /\ fatal' \in BOOLEAN /\ errNo' \in BOOLEAN
             /\ term /\ ~errNo' => ~x.truncated /\ x.pos = Len(x.data)
  BY <1>4, <1>5 DEF Settle
<1> HIDE DEF avail, looks, from, waits
<1>6. CASE avail = 0 \/ in.decoding = "parked"
  <2>1. input' = in /\ phase' = phase /\ mark' = m /\ Settle(in, term)
    BY ONLY <1>1, <1>6, Zenon
  <2>2. /\ fatal' \in BOOLEAN /\ errNo' \in BOOLEAN
        /\ (term /\ ~errNo' => ~in.truncated /\ in.pos = Len(in.data))
    BY ONLY <1>2, <1>3, <1>5, <2>1
  <2>3. /\ input' \in Buffer /\ input'.pos <= Len(input'.data) /\ mark' \in Nat \cup {NoMark}
        /\ \/ Unknown(input', received') /\ ~closed' /\ phase' = "start" /\ mark' = NoMark
           \/ Known(input', received', closed')
        /\ input'.declPending /\ ~input'.converted /\ ~closed' => phase' # "content"
        /\ phase' \in {"start", "xml_decl", "content"}
        /\ closed' /\ ~errNo' => /\ ~input'.invalid /\ ~input'.truncated
                                 /\ input'.pos = Len(input'.data)
    BY ONLY <1>2, <1>4, <2>1, <2>2, ~in.invalid, term = closed', Zenon
  <2> QED
    BY ONLY <2>2, <2>3, IInv, source' = source, declared' = declared,
       received' \in 0..Len(source), closed' \in BOOLEAN, Kept
<1>7. CASE ~(avail = 0 \/ in.decoding = "parked") /\ waits
  <2>1. /\ input' = in /\ phase' = "xml_decl" /\ fatal' = fatal /\ errNo' = errNo
        /\ mark' = IF looks THEN NextMark(in, from) ELSE m
    BY ONLY <1>1, <1>7, Zenon
  <2>2. Known(in, received', term) /\ ~term
    BY ONLY <1>2, <1>7, Zenon DEF waits
  <2>3. mark' \in Nat \cup {NoMark}
    <3>1. from \in Nat
      <4>1. CASE Valid(m, in)
        <5>1. m # NoMark
          BY <4>1, Zenon DEF Valid
        <5> QED
          BY <1>2, <4>1, <5>1 DEF from
      <4>2. CASE ~Valid(m, in)
        BY <1>3, <4>2 DEF from
      <4> QED
        BY <4>1, <4>2
    <3>2. NextMark(in, from) = IF Len(in.data) - 1 >= from THEN Len(in.data) - 1 ELSE from
      BY <1>3, <3>1, MaxOfTwo DEF NextMark
    <3>3. NextMark(in, from) \in Nat
      BY <1>3, <3>1, <3>2
    <3> QED
      BY <1>2, <2>1, <3>3
  <2>4. /\ input' \in Buffer /\ input'.pos <= Len(input'.data)
        /\ Known(input', received', closed') /\ ~closed'
    BY ONLY <1>2, <2>1, <2>2, term = closed', Zenon
  <2>5. /\ phase' \in {"start", "xml_decl", "content"} /\ phase' # "content"
        /\ fatal' \in BOOLEAN /\ errNo' \in BOOLEAN
    BY ONLY <1>4, <2>1
  <2> QED
    BY ONLY <2>3, <2>4, <2>5, IInv, source' = source, declared' = declared,
       received' \in 0..Len(source), closed' \in BOOLEAN, Kept
<1>8. CASE ~(avail = 0 \/ in.decoding = "parked") /\ ~waits
  <2>1. PICK p \in in.pos..Len(in.data) :
          /\ input' = [in EXCEPT !.pos = p] /\ phase' = "content" /\ mark' = NoMark
          /\ Settle([in EXCEPT !.pos = p], term)
    BY ONLY <1>1, <1>8, Zenon
  <2> DEFINE read == [in EXCEPT !.pos = p]
  <2>2. p \in Nat /\ p <= Len(in.data)
    BY <1>3
  <2>3. Known(in, received', term)
    BY ONLY <1>2, <1>8, Zenon
  <2>4. ~(in.declPending /\ ~in.converted /\ ~term)
    <3> SUFFICES ASSUME in.declPending, ~in.converted, ~term
                 PROVE  FALSE
      OBVIOUS
    <3>1. /\ phase # "content"
          /\ \/ Len(in.data) - in.pos < 2
             \/ SubSeq(Rest(in), 1, 2) = Raw(<<"3C", "3F">>) /\ ~HasEnd(in.data, from)
      BY ONLY <2>3, Looks(in, m, term), in.declPending, ~in.converted, ~term,
         term \in BOOLEAN, MustWait DEF from
    <3>2. avail < 2 \/ avail >= 2
      BY <1>3 DEF avail
    <3> QED
      BY ONLY <1>8, <3>1, <3>2, ~term, Zenon DEF waits, looks, avail
  <2> HIDE DEF read
  <2>5. /\ read \in Buffer /\ read.pos = p /\ read.data = in.data
        /\ read.converted = in.converted /\ read.declPending = in.declPending
        /\ read.invalid = in.invalid /\ read.truncated = in.truncated
        /\ Known(read, received', term)
    BY ONLY <1>2, <2>2, <2>3, <2>4, term \in BOOLEAN, CursorMoves DEF read
  <2>6. input' = read /\ phase' = "content" /\ mark' = NoMark /\ Settle(read, term)
    BY <2>1 DEF read
  <2>7. /\ fatal' \in BOOLEAN /\ errNo' \in BOOLEAN
        /\ (term /\ ~errNo' => ~read.truncated /\ read.pos = Len(read.data))
    BY ONLY <1>3, <1>5, <2>2, <2>5, <2>6
  <2>8. /\ input' \in Buffer /\ Known(input', received', closed')
        /\ ~(input'.declPending /\ ~input'.converted /\ ~closed')
        /\ closed' /\ ~errNo' => /\ ~input'.invalid /\ ~input'.truncated
                                 /\ input'.pos = Len(input'.data)
    BY ONLY <2>4, <2>5, <2>6, <2>7, ~in.invalid, term = closed', Zenon
  <2>9. input'.pos <= Len(input'.data)
    BY ONLY <2>2, <2>5, <2>6
  <2>10. mark' \in Nat \cup {NoMark} /\ phase' \in {"start", "xml_decl", "content"}
    BY ONLY <2>6
  <2> QED
    BY ONLY <2>7, <2>8, <2>9, <2>10, IInv, source' = source, declared' = declared,
       received' \in 0..Len(source), closed' \in BOOLEAN, Kept
<1> QED
  BY <1>6, <1>7, <1>8

\* A call up to where the driver looks at the input.
LEMMA CallIs ==
  ASSUME Unmarked, Defined, IInv, NEW n \in Nat, NEW terminate \in BOOLEAN, Call(n, terminate),
         NEW in, in = PushBytes(input, SubSeq(source, received + 1, received + n), terminate),
         NEW m, m = IF in.pos < input.pos THEN NoMark ELSE mark
  PROVE  /\ source' = source /\ declared' = declared
         /\ received' \in 0..Len(source) /\ closed' = terminate
         /\ Looks(in, m, terminate)
         /\ Pushes(input, received, received + n, closed, terminate, in)
         /\ IF in.invalid THEN Refuse(in, m) ELSE Drive(in, m, terminate)
<1>1. /\ n <= Len(source) - received
      /\ closed => n = 0 /\ terminate
      /\ received' = received + n /\ closed' = (closed \/ terminate)
      /\ IF in.invalid THEN Refuse(in, m) ELSE Drive(in, m, terminate)
      /\ source' = source /\ declared' = declared
  BY Zenon DEF Call
<1>2. received \in 0..Len(source) /\ closed \in BOOLEAN /\ source \in Sources
  BY Zenon DEF IInv, TypeOK
<1>3. source \in Seq(Byte)
  BY <1>2, InputConstants
<1>4. received' \in 0..Len(source)
  BY <1>1, <1>2, <1>3
<1>5. closed' = terminate
  BY <1>1, <1>2
<1>6. /\ Looks(in, m, terminate)
      /\ Pushes(input, received, received + n, closed, terminate, in)
  BY ONLY <1>1, Unmarked, Defined, IInv, n \in Nat, terminate \in BOOLEAN, PushLooks,
     in = PushBytes(input, SubSeq(source, received + 1, received + n), terminate),
     m = IF in.pos < input.pos THEN NoMark ELSE mark
<1> QED
  BY ONLY <1>1, <1>4, <1>5, <1>6, Zenon

LEMMA InitHolds ==
  ASSUME Unmarked, Defined, Init
  PROVE  IInv
<1>1. /\ source \in Sources /\ declared \in Declarable /\ received \in 0..Len(source)
      /\ input \in {PushBytes(Skeleton, SubSeq(source, 1, received), FALSE),
                    [Skeleton EXCEPT !.pending = SubSeq(source, 1, received)]}
      /\ closed = FALSE /\ phase = "start" /\ mark = NoMark /\ fatal = FALSE
      /\ errNo = FALSE
  BY Zenon DEF Init
<1>2. source \in Seq(Byte) /\ received \in Nat /\ Len(source) \in Nat
  BY <1>1, InputConstants
<1>3. Pushed(received) \in Seq(Byte)
  BY <1>1, <1>2, PushedIs
<1>4. Pushed(received) = SubSeq(source, 1, received)
  BY Zenon DEF Pushed
<1>5. CASE input = [Skeleton EXCEPT !.pending = SubSeq(source, 1, received)]
  <2>1. Unknown(input, received)
    BY <1>4, <1>5, Zenon DEF Unknown
  <2>2. /\ input \in Buffer /\ input.pos = 0 /\ input.data = <<>>
    BY ONLY <1>3, <1>4, <1>5, HeldBack
  <2>3. input.pos <= Len(input.data)
    BY <2>2
  <2>4. TypeOK
    BY <1>1, <2>2, <2>3 DEF TypeOK
  <2> QED
    BY ONLY <1>1, <2>1, <2>4 DEF IInv
<1>6. CASE input = PushBytes(Skeleton, SubSeq(source, 1, received), FALSE)
  <2> DEFINE no == FALSE
             zero == 0
             b == SubSeq(source, zero + 1, zero + received)
             out == PushBytes(Skeleton, b, no)
  <2>1. zero \in 0..Len(source) /\ received \in 0..(Len(source) - zero) /\ no \in BOOLEAN
    BY <1>1, <1>2
  <2>2. zero + 1 = 1 /\ zero + received = received
    BY <1>2
  <2>3. Unknown(Skeleton, zero)
    <3>1. Pushed(0) = <<>>
      BY <1>2 DEF Pushed
    <3>2. [Skeleton EXCEPT !.pending = <<>>] = Skeleton
      <4>1. \A f \in Buffer : [f EXCEPT !.pending = f.pending] = f
        BY DEF Buffer
      <4>2. Skeleton.pending = <<>>
        BY DEF Skeleton
      <4> QED
        BY ONLY <4>1, <4>2, SkeletonType, Zenon
    <3> QED
      BY ONLY <3>1, <3>2, Zenon DEF Unknown, zero
  <2>4. input = out
    BY ONLY <1>6, <2>2, Zenon DEF out, b, no
  <2> HIDE DEF no, zero, b, out
  <2>5. Pushes(Skeleton, zero, zero + received, no, no, out)
    <3>1. b = SubSeq(source, zero + 1, zero + received)
      BY DEF b
    <3>2. source \in Sources /\ declared \in Declarable
      BY <1>1
    <3> QED
      BY ONLY <2>1, <2>3, <3>1, <3>2, Unmarked, Defined, SkeletonType, FirstPush DEF out
  <2>6. /\ input \in Buffer /\ input.pos <= Len(input.data)
        /\ Unknown(input, received) \/ Known(input, received, no)
    BY ONLY <2>2, <2>4, <2>5, Zenon DEF Pushes
  <2>7. Unknown(input, received) \/ Known(input, received, closed)
    BY ONLY <1>1, <2>6, Zenon DEF no
  <2>8. TypeOK
    BY <1>1, <2>6 DEF TypeOK
  <2> QED
    BY ONLY <1>1, <2>7, <2>8 DEF IInv
<1> QED
  BY <1>1, <1>5, <1>6

LEMMA NextKeeps ==
  ASSUME Unmarked, Defined, IInv, [Next]_vars
  PROVE  IInv'
<1>1. CASE UNCHANGED vars
  <2>1. /\ source' = source /\ declared' = declared /\ received' = received
        /\ closed' = closed /\ input' = input /\ phase' = phase /\ mark' = mark
        /\ fatal' = fatal /\ errNo' = errNo
    BY <1>1 DEF vars
  <2>2. /\ received \in 0..Len(source) /\ closed \in BOOLEAN /\ fatal \in BOOLEAN
        /\ errNo \in BOOLEAN /\ input \in Buffer /\ input.pos <= Len(input.data)
        /\ phase \in {"start", "xml_decl", "content"} /\ mark \in Nat \cup {NoMark}
    BY Zenon DEF IInv, TypeOK
  <2>3. /\ \/ Unknown(input, received) /\ ~closed /\ phase = "start" /\ mark = NoMark
           \/ Known(input, received, closed)
        /\ input.declPending /\ ~input.converted /\ ~closed => phase # "content"
        /\ closed /\ ~errNo => /\ ~input.invalid /\ ~input.truncated
                               /\ input.pos = Len(input.data)
    BY Zenon DEF IInv
  <2>4. /\ received' \in 0..Len(source) /\ closed' \in BOOLEAN /\ fatal' \in BOOLEAN
        /\ errNo' \in BOOLEAN /\ input' \in Buffer /\ input'.pos <= Len(input'.data)
        /\ phase' \in {"start", "xml_decl", "content"} /\ mark' \in Nat \cup {NoMark}
    BY ONLY <2>1, <2>2
  <2>5. /\ \/ Unknown(input', received') /\ ~closed' /\ phase' = "start" /\ mark' = NoMark
           \/ Known(input', received', closed')
        /\ input'.declPending /\ ~input'.converted /\ ~closed' => phase' # "content"
        /\ closed' /\ ~errNo' => /\ ~input'.invalid /\ ~input'.truncated
                                 /\ input'.pos = Len(input'.data)
    BY ONLY <2>1, <2>3, Zenon
  <2> QED
    BY ONLY <2>1, <2>4, <2>5, IInv, Kept
<1>2. ASSUME NEW n \in 0..MaxChunk, NEW terminate \in BOOLEAN, Call(n, terminate)
      PROVE  IInv'
  <2> DEFINE in == PushBytes(input, SubSeq(source, received + 1, received + n), terminate)
             m == IF in.pos < input.pos THEN NoMark ELSE mark
  <2>1. n \in Nat
    BY InputConstants
  <2> HIDE DEF in, m
  <2>2. /\ source' = source /\ declared' = declared
        /\ received' \in 0..Len(source) /\ closed' = terminate
        /\ Looks(in, m, terminate)
        /\ IF in.invalid THEN Refuse(in, m) ELSE Drive(in, m, terminate)
    BY ONLY <1>2, <2>1, Unmarked, Defined, IInv, CallIs DEF in, m
  <2>3. closed' \in BOOLEAN
    BY ONLY <2>2, <1>2
  <2>4. CASE in.invalid
    BY ONLY <2>2, <2>3, <2>4, IInv, RefuseKeeps
  <2>5. CASE ~in.invalid
    BY ONLY <1>2, <2>2, <2>3, <2>5, IInv, DriveKeeps
  <2> QED
    BY <2>4, <2>5
<1> QED
  BY <1>1, <1>2, Zenon DEF Next

-----------------------------------------------------------------------------
(* What the invariant says. *)

\* One reading of all the bytes received, of each kind of input.
LEMMA ReadingKnown ==
  ASSUME IInv
  PROVE  /\ Reading = ReadingOf(received) /\ Received = Pushed(received)
         /\ \/ Unknown(input, received) /\ ~closed
            \/ AsDecoded(input, received, closed) /\ input.decoding = "decided"
            \/ /\ AsItCame(input, received, closed) /\ input.decoding = "decided"
               /\ Reading.out = Raw(Received) /\ ~Reading.bad /\ Reading.dec.held = <<>>
<1>1. Reading = ReadingOf(received) /\ Received = Pushed(received)
  <2>1. Received = Pushed(received)
    BY Zenon DEF Received, Pushed
  <2> QED
    BY <2>1, Zenon DEF Reading, ReadingOf, Enc, Skip
<1>2. /\ source \in Sources /\ declared \in Declarable /\ received \in 0..Len(source)
  BY Zenon DEF IInv, TypeOK
<1>3. CASE Unknown(input, received) /\ ~closed
  BY <1>1, <1>3
<1>4. CASE Known(input, received, closed)
  <2>1. /\ input.decoding = "decided"
        /\ AsItCame(input, received, closed) \/ AsDecoded(input, received, closed)
    BY <1>4, Zenon DEF Known
  <2>2. ASSUME AsItCame(input, received, closed)
        PROVE  Reading.out = Raw(Received) /\ ~Reading.bad /\ Reading.dec.held = <<>>
    <3>1. Enc(received) = "utf8"
      BY <2>2, Zenon DEF AsItCame
    <3>2. source \in Seq(Byte) /\ Skip(received) = 0
      BY <1>2, <3>1, EncFacts
    <3>3. SubSeq(source, Skip(received) + 1, received) = Received
      BY <3>2 DEF Received
    <3>4. Received \in Seq(Byte)
      BY <1>1, <1>2, <3>2, PushedIs
    <3>5. Raw(Received) \in Text
      BY <3>4, RawType
    <3>6. Reading = ReadBytes("utf8", FreshReader, Received)
      BY <1>1, <3>1, <3>3, Zenon DEF ReadingOf
    <3>7. FreshDecoder \in Decoder /\ <<>> \in Text /\ FreshReader = Rd(FreshDecoder, <<>>, FALSE)
      BY FreshType DEF FreshReader, Rd
    <3>8. Reading = Rd(FreshDecoder, <<>> \o Raw(Received), FALSE)
      BY ONLY <3>4, <3>6, <3>7, ReadUtf8
    <3>9. <<>> \o Raw(Received) = Raw(Received)
      BY <3>5 DEF Text
    <3>10. FreshDecoder.held = <<>>
      BY DEF FreshDecoder
    <3>11. Reading = Rd(FreshDecoder, Raw(Received), FALSE)
      BY ONLY <3>8, <3>9
    <3> QED
      BY ONLY <3>10, <3>11 DEF Rd
  <2> QED
    BY <1>1, <2>1, <2>2
<1> QED
  BY <1>3, <1>4, Zenon DEF IInv

LEMMA UnknownFields ==
  ASSUME IInv, Unknown(input, received)
  PROVE  /\ input.decoding = "parked" /\ input.data = <<>> /\ input.pos = 0
         /\ input.pending = Pushed(received) /\ ~input.invalid /\ ~input.truncated
<1>1. source \in Sources /\ received \in 0..Len(source)
  BY Zenon DEF IInv, TypeOK
<1>2. Pushed(received) \in Seq(Byte)
  BY <1>1, InputConstants, PushedIs
<1> QED
  BY ONLY <1>2, Unknown(input, received), HeldBack DEF Unknown

LEMMA Exact == IInv => DecodedExactly
<1> SUFFICES ASSUME IInv
             PROVE  DecodedExactly
  OBVIOUS
<1>1. /\ Reading = ReadingOf(received) /\ Received = Pushed(received)
      /\ \/ Unknown(input, received) /\ ~closed
         \/ AsDecoded(input, received, closed) /\ input.decoding = "decided"
         \/ /\ AsItCame(input, received, closed) /\ input.decoding = "decided"
            /\ Reading.out = Raw(Received) /\ ~Reading.bad /\ Reading.dec.held = <<>>
  BY ReadingKnown
<1>2. CASE Unknown(input, received)
  BY ONLY <1>1, <1>2, IInv, UnknownFields DEF DecodedExactly
<1>3. CASE AsDecoded(input, received, closed) /\ input.decoding = "decided"
  <2>1. /\ input.invalid = Reading.bad
        /\ ~Reading.bad => input.data = Reading.out
        /\ Reading.bad => IsPrefix(Reading.out, input.data)
    BY ONLY <1>1, <1>3, Zenon DEF AsDecoded
  <2>2. input.decoding # "parked"
    BY <1>3
  <2> QED
    BY ONLY <2>1, <2>2, Zenon DEF DecodedExactly
<1>4. CASE AsItCame(input, received, closed) /\ input.decoding = "decided"
           /\ Reading.out = Raw(Received)
  <2>1. input.data = Raw(Pushed(received)) /\ ~input.invalid
    BY ONLY <1>4, Zenon DEF AsItCame
  <2>2. input.decoding # "parked"
    BY <1>4
  <2> QED
    BY ONLY <1>1, <1>4, <2>1, <2>2, Zenon DEF DecodedExactly
<1> QED
  BY <1>1, <1>2, <1>3, <1>4

LEMMA Verdict == IInv => VerdictIsExact
<1> SUFFICES ASSUME IInv
             PROVE  VerdictIsExact
  OBVIOUS
<1>1. /\ Reading = ReadingOf(received) /\ Received = Pushed(received)
      /\ \/ Unknown(input, received) /\ ~closed
         \/ AsDecoded(input, received, closed) /\ input.decoding = "decided"
         \/ /\ AsItCame(input, received, closed) /\ input.decoding = "decided"
            /\ Reading.out = Raw(Received) /\ ~Reading.bad /\ Reading.dec.held = <<>>
  BY ReadingKnown
<1>2. closed /\ ~errNo => /\ ~input.invalid /\ ~input.truncated
                          /\ input.pos = Len(input.data)
  BY Zenon DEF IInv
<1>3. /\ input.invalid \in BOOLEAN /\ input.truncated \in BOOLEAN /\ closed \in BOOLEAN
  BY BufferFields DEF IInv, TypeOK
<1>4. CASE Unknown(input, received) /\ ~closed
  <2>1. input.decoding = "parked" /\ ~input.invalid /\ ~input.truncated
    BY <1>4, UnknownFields
  <2> QED
    BY ONLY <1>4, <2>1 DEF VerdictIsExact
<1>5. CASE AsDecoded(input, received, closed) /\ input.decoding = "decided"
  <2>1. /\ input.invalid = Reading.bad
        /\ ~Reading.bad => input.truncated = (closed /\ Reading.dec.held # <<>>)
    BY ONLY <1>1, <1>5, Zenon DEF AsDecoded
  <2>2. ~input.invalid => (input.truncated <=> (closed /\ Reading.dec.held # <<>>))
    BY ONLY <2>1, Zenon
  <2>3. input.invalid <=> (input.decoding = "decided" /\ Reading.bad)
    BY ONLY <1>5, <2>1, Zenon
  <2> QED
    BY ONLY <1>2, <2>2, <2>3, Zenon DEF VerdictIsExact
<1>6. CASE AsItCame(input, received, closed) /\ ~Reading.bad /\ Reading.dec.held = <<>>
  <2>1. ~input.invalid /\ ~input.truncated
    BY <1>6, Zenon DEF AsItCame
  <2> QED
    BY ONLY <1>2, <1>6, <2>1, Zenon DEF VerdictIsExact
<1> QED
  BY <1>1, <1>4, <1>5, <1>6

\* A push keeps the text that was read.
LEMMA PushKeepsRead ==
  ASSUME NEW in \in Buffer, in.pos <= Len(in.data),
         NEW n, NEW m, NEW last, NEW term, NEW out, Pushes(in, n, m, last, term, out)
  PROVE  in.pos <= out.pos /\ IsPrefix(SubSeq(in.data, 1, in.pos), out.data)
<1> DEFINE x == in.data
           y == out.data
           p == in.pos
           u == SubSeq(x, 1, p)
<1>1. out \in Buffer /\ (Extends(in, out) \/ p = 0)
  BY Zenon DEF Pushes
<1>2. /\ x \in Seq(Part) /\ y \in Seq(Part) /\ p \in Nat /\ out.pos \in Nat
      /\ Len(x) \in Nat /\ Len(y) \in Nat /\ p <= Len(x)
  BY <1>1, BufferFields DEF Text
<1>3. u \in Seq(Part) /\ Len(u) = p /\ \A k \in 1..p : u[k] = x[k]
  <2>1. 1 \in 1..(Len(x) + 1) /\ p \in (1 - 1)..Len(x)
    BY <1>2
  <2>2. /\ u \in Seq(Part) /\ Len(u) = p - 1 + 1
        /\ \A k \in 1..(p - 1 + 1) : u[k] = x[1 + k - 1]
    BY ONLY <1>2, <2>1, Cut
  <2> QED
    BY ONLY <1>2, <2>2
<1> HIDE DEF x, y, p, u
<1>4. CASE Extends(in, out)
  <2>1. out.pos = p /\ IsPrefix(x, y)
    BY <1>4, Zenon DEF Extends, x, y, p
  <2>2. Len(x) <= Len(y) /\ \A i \in 1..Len(x) : x[i] = y[i]
    BY ONLY <1>2, <2>1, PrefixOfText
  <2>3. Len(u) <= Len(y) /\ \A i \in 1..Len(u) : u[i] = y[i]
    BY ONLY <1>2, <1>3, <2>2
  <2>4. IsPrefix(u, y)
    BY ONLY <1>2, <1>3, <2>3, PrefixOfText
  <2> QED
    BY <1>2, <2>1, <2>4 DEF x, y, p, u
<1>5. CASE p = 0
  <2>1. Len(u) <= Len(y) /\ \A i \in 1..Len(u) : u[i] = y[i]
    BY ONLY <1>2, <1>3, <1>5
  <2>2. IsPrefix(u, y)
    BY ONLY <1>2, <1>3, <2>1, PrefixOfText
  <2> QED
    BY <1>2, <1>5, <2>2 DEF x, y, p, u
<1> QED
  BY <1>1, <1>4, <1>5

LEMMA StaysWhenCalled ==
  ASSUME Unmarked, Defined, IInv, [Next]_vars
  PROVE  [/\ input.pos <= input'.pos
          /\ IsPrefix(SubSeq(input.data, 1, input.pos), input'.data)]_vars
<1>1. CASE UNCHANGED vars
  BY <1>1
<1>2. ASSUME NEW n \in 0..MaxChunk, NEW terminate \in BOOLEAN, Call(n, terminate)
      PROVE  /\ input.pos <= input'.pos
             /\ IsPrefix(SubSeq(input.data, 1, input.pos), input'.data)
  <2> DEFINE in == PushBytes(input, SubSeq(source, received + 1, received + n), terminate)
             m == IF in.pos < input.pos THEN NoMark ELSE mark
  <2>1. n \in Nat
    BY InputConstants
  <2> HIDE DEF in, m
  <2>2. /\ Pushes(input, received, received + n, closed, terminate, in)
        /\ IF in.invalid THEN Refuse(in, m) ELSE Drive(in, m, terminate)
    BY ONLY <1>2, <2>1, Unmarked, Defined, IInv, CallIs DEF in, m
  <2>3. /\ input.pos <= in.pos /\ IsPrefix(SubSeq(input.data, 1, input.pos), in.data)
    <3>1. input \in Buffer /\ input.pos <= Len(input.data)
      BY Zenon DEF IInv, TypeOK
    <3> QED
      BY ONLY <2>2, <3>1, PushKeepsRead
  <2>4. input \in Buffer /\ in \in Buffer
    BY <2>2, Zenon DEF IInv, TypeOK, Pushes
  <2>5. input.pos \in Nat /\ in.pos \in Nat
    BY <2>4, BufferFields
  <2>6. input' = in \/ \E p \in in.pos..Len(in.data) : input' = [in EXCEPT !.pos = p]
    <3>1. CASE in.invalid
      BY <2>2, <3>1, Zenon DEF Refuse
    <3>2. CASE ~in.invalid
      BY <2>2, <3>2, Zenon DEF Drive
    <3> QED
      BY <3>1, <3>2
  <2>7. CASE input' = in
    BY ONLY <2>3, <2>7, Zenon
  <2>8. ASSUME NEW p \in in.pos..Len(in.data), input' = [in EXCEPT !.pos = p]
        PROVE  input.pos <= input'.pos /\ IsPrefix(SubSeq(input.data, 1, input.pos), input'.data)
    <3>1. p \in Nat /\ in.pos <= p
      BY <2>5
    <3>2. input'.data = in.data /\ input'.pos = p
      BY ONLY <2>4, <2>8, <3>1, CursorWritten
    <3>3. input.pos <= p
      BY ONLY <2>3, <2>5, <3>1
    <3> QED
      BY ONLY <2>3, <3>2, <3>3, Zenon
  <2> QED
    BY <2>6, <2>7, <2>8
<1> QED
  BY <1>1, <1>2, Zenon DEF Next

-----------------------------------------------------------------------------

\* The inductive invariant: what the input holds is what one reading of the
\* bytes received gives, with what is carried from one call to the next.
THEOREM InputInvariant ==
  ASSUME Unmarked, Defined
  PROVE  Spec => []IInv
<1>1. Init => IInv
  BY InitHolds
<1>2. IInv /\ [Next]_vars => IInv'
  BY NextKeeps
<1> QED
  BY <1>1, <1>2, PTL DEF Spec

\* However the source is cut into chunks, the text is what one reading of all
\* the bytes received gives.
THEOREM DecodesExactly ==
  ASSUME Unmarked, Defined
  PROVE  Spec => []DecodedExactly
<1>1. IInv => DecodedExactly
  BY Exact
<1> QED
  BY <1>1, InputInvariant, PTL

\* A malformed unit is noticed by the call that completes it, an incomplete
\* one by the terminating call; and when no error is recorded, fatal or not,
\* the terminating call leaves no byte unread or undecoded.
THEOREM VerdictsAreExact ==
  ASSUME Unmarked, Defined
  PROVE  Spec => []VerdictIsExact
<1>1. IInv => VerdictIsExact
  BY Verdict
<1> QED
  BY <1>1, InputInvariant, PTL

\* No call changes what the parser has read of the text.
THEOREM ReadTextIsKept ==
  ASSUME Unmarked, Defined
  PROVE  Spec => ReadTextStays
<1>1. IInv /\ [Next]_vars => [/\ input.pos <= input'.pos
                              /\ IsPrefix(SubSeq(input.data, 1, input.pos), input'.data)]_vars
  BY StaysWhenCalled
<1> QED
  BY <1>1, InputInvariant, PTL DEF Spec, ReadTextStays

-----------------------------------------------------------------------------
(* An end appears in decoded text no earlier than in the bytes.            *)

Question == [unit |-> <<"3F">>, part |-> 1]
Greater == [unit |-> <<"3E">>, part |-> 1]
NoEnd(t) == \A i \in 1..(Len(t) - 1) : ~(t[i] = Question /\ t[i + 1] = Greater)

\* Bytes without an end, and without what the codec leaves out.
Open(enc, s) ==
  /\ enc = "stateful" => \A i \in 1..Len(s) : s[i] # "1B"
  /\ \A i \in 1..(Len(s) - 1) : ~(s[i] = "3F" /\ s[i + 1] = "3E")

Behind(enc, s, r) ==
  r.bad \/ /\ Len(s) <= Len(r.out) + Len(r.dec.held)
           /\ r.dec.held = <<>> \/ r.dec.held = <<"82">>
           /\ enc \in Tables => r.dec.held = <<>>
           /\ ~r.dec.shift
           /\ r.dec.held # <<>> => s # <<>> /\ s[Len(s)] = "82"
           /\ NoEnd(r.out)
           /\ r.dec.held = <<>> /\ r.out # <<>> /\ r.out[Len(r.out)] = Question
                => s # <<>> /\ s[Len(s)] = "3F"

LEMMA Parts ==
  ASSUME NEW c
  PROVE  /\ [unit |-> c, part |-> 2] # Question /\ [unit |-> c, part |-> 2] # Greater
         /\ [unit |-> c, part |-> 1] = Question => c = <<"3F">>
         /\ [unit |-> c, part |-> 1] = Greater => c = <<"3E">>
<1>1. [unit |-> c, part |-> 2].part = 2 /\ Question.part = 1 /\ Greater.part = 1
  BY DEF Question, Greater
<1>2. /\ [unit |-> c, part |-> 1].unit = c /\ Question.unit = <<"3F">>
      /\ Greater.unit = <<"3E">>
  BY DEF Question, Greater
<1> QED
  BY ONLY <1>1, <1>2

LEMMA NoNewEnd ==
  ASSUME NEW t \in Text, NEW u \in Text, Len(u) = 1 \/ Len(u) = 2, NoEnd(t),
         ~(t # <<>> /\ t[Len(t)] = Question /\ u[1] = Greater),
         Len(u) = 2 => u[2] # Greater
  PROVE  /\ t \o u \in Text /\ Len(t \o u) = Len(t) + Len(u) /\ NoEnd(t \o u)
         /\ t \o u # <<>> /\ (t \o u)[Len(t \o u)] = u[Len(u)]
<1> DEFINE x == t \o u
<1>1. /\ t \in Seq(Part) /\ u \in Seq(Part) /\ Len(t) \in Nat /\ Len(u) \in Nat
  BY DEF Text
<1>2. /\ x \in Seq(Part) /\ Len(x) = Len(t) + Len(u)
      /\ \A i \in 1..(Len(t) + Len(u)) : x[i] = IF i <= Len(t) THEN t[i] ELSE u[i - Len(t)]
  BY ONLY <1>1, Joined
<1>3. t # <<>> <=> Len(t) >= 1
  BY <1>1
<1> HIDE DEF x
<1>4. ASSUME NEW i \in 1..(Len(x) - 1), x[i] = Question, x[i + 1] = Greater
      PROVE  FALSE
  <2>1. CASE i + 1 <= Len(t)
    <3>1. i \in 1..(Len(t) - 1) /\ x[i] = t[i] /\ x[i + 1] = t[i + 1]
      BY <1>1, <1>2, <2>1
    <3> QED
      BY ONLY <1>4, <3>1, NoEnd(t) DEF NoEnd
  <2>2. CASE i = Len(t)
    <3>1. x[i] = t[Len(t)] /\ x[i + 1] = u[1]
      BY <1>1, <1>2, <2>2
    <3> QED
      BY <1>1, <1>3, <1>4, <2>2, <3>1
  <2>3. CASE i > Len(t)
    <3>1. /\ Len(u) = 2 /\ i + 1 \in 1..(Len(t) + Len(u)) /\ ~(i + 1 <= Len(t))
          /\ (i + 1) - Len(t) = 2
      BY <1>1, <1>2, <2>3
    <3>2. x[i + 1] = u[2]
      BY ONLY <1>2, <3>1
    <3> QED
      BY <1>4, <3>1, <3>2
  <2> QED
    BY <1>1, <1>2, <2>1, <2>2, <2>3
<1>5. x[Len(x)] = u[Len(u)] /\ x # <<>>
  BY <1>1, <1>2
<1>6. NoEnd(x)
  BY <1>4 DEF NoEnd
<1> QED
  BY <1>2, <1>5, <1>6 DEF x, Text

\* One byte more.
LEMMA CharBehind ==
  ASSUME NEW enc, NEW s \in Seq(Byte), NEW b \in Byte, NEW d \in Decoder, NEW t \in Text,
         Open(enc, Append(s, b)), Behind(enc, s, Rd(d, t, FALSE)), d.held = <<>>
  PROVE  Behind(enc, Append(s, b), Rd(d, t \o Utf8(<<b>>), FALSE))
<1> DEFINE u == Utf8(<<b>>)
           v == Append(s, b)
           x == t \o u
<1>1. /\ Len(s) \in Nat /\ v \in Seq(Byte) /\ Len(v) = Len(s) + 1 /\ v[Len(v)] = b /\ v # <<>>
      /\ (s # <<>> => Len(s) >= 1 /\ v[Len(s)] = s[Len(s)] /\ v[Len(s) + 1] = b)
  <2>1. /\ Len(s) \in Nat /\ v \in Seq(Byte) /\ Len(v) = Len(s) + 1
        /\ \A i \in 1..(Len(s) + 1) : v[i] = IF i <= Len(s) THEN s[i] ELSE b
    OBVIOUS
  <2>2. s # <<>> => Len(s) >= 1
    BY <2>1
  <2> HIDE DEF v
  <2>3. v # <<>> /\ v[Len(s) + 1] = b
    BY <2>1
  <2> QED
    BY ONLY <2>1, <2>2, <2>3
<1>2. /\ Rd(d, t, FALSE).dec = d /\ Rd(d, t, FALSE).out = t /\ ~Rd(d, t, FALSE).bad
      /\ Rd(d, x, FALSE).dec = d /\ Rd(d, x, FALSE).out = x
  BY DEF Rd
<1>3. u = IF b \in ASCII THEN <<[unit |-> <<b>>, part |-> 1]>>
          ELSE <<[unit |-> <<b>>, part |-> 1], [unit |-> <<b>>, part |-> 2]>>
  BY Utf8One
<1>4. /\ u[1] = [unit |-> <<b>>, part |-> 1]
      /\ IF b \in ASCII THEN Len(u) = 1
         ELSE Len(u) = 2 /\ u[2] = [unit |-> <<b>>, part |-> 2]
  BY ONLY <1>3
<1>5. u \in Text
  <2>1. <<b>> \in Seq(Byte) /\ <<b>> # <<>>
    OBVIOUS
  <2> QED
    BY <2>1, Utf8Type
<1>6. /\ u[1] = Greater => b = "3E"
      /\ Len(u) = 2 => u[2] # Greater
      /\ u[Len(u)] = Question => b = "3F"
  <2>1. /\ [unit |-> <<b>>, part |-> 2] # Question /\ [unit |-> <<b>>, part |-> 2] # Greater
        /\ [unit |-> <<b>>, part |-> 1] = Question => <<b>> = <<"3F">>
        /\ [unit |-> <<b>>, part |-> 1] = Greater => <<b>> = <<"3E">>
    BY Parts
  <2> HIDE DEF u
  <2> QED
    BY ONLY <1>4, <2>1
<1>7. /\ Len(s) <= Len(t) + Len(d.held) /\ ~d.shift /\ NoEnd(t)
      /\ t # <<>> /\ t[Len(t)] = Question => s # <<>> /\ s[Len(s)] = "3F"
  BY ONLY <1>2, Behind(enc, s, Rd(d, t, FALSE)), d.held = <<>>, Zenon DEF Behind
<1>8. Len(d.held) = 0
  OBVIOUS
<1> HIDE DEF u, v
<1>9. ~(t # <<>> /\ t[Len(t)] = Question /\ u[1] = Greater)
  <2> SUFFICES ASSUME t # <<>>, t[Len(t)] = Question, u[1] = Greater
               PROVE  FALSE
    OBVIOUS
  <2>1. s # <<>> /\ s[Len(s)] = "3F" /\ b = "3E"
    BY <1>6, <1>7
  <2>2. Len(s) \in 1..(Len(v) - 1) /\ v[Len(s)] = "3F" /\ v[Len(s) + 1] = "3E"
    BY <1>1, <2>1
  <2>3. \A i \in 1..(Len(v) - 1) : ~(v[i] = "3F" /\ v[i + 1] = "3E")
    BY Zenon DEF Open, v
  <2> QED
    BY ONLY <2>2, <2>3
<1>10. /\ x \in Text /\ Len(x) = Len(t) + Len(u) /\ NoEnd(x) /\ x # <<>>
       /\ x[Len(x)] = u[Len(u)]
  <2>1. Len(u) = 1 \/ Len(u) = 2
    BY <1>4
  <2> QED
    BY ONLY <1>5, <1>6, <1>7, <1>9, <2>1, t \in Text, NoNewEnd
<1>11. Len(v) <= Len(x) + Len(d.held)
  <2>1. /\ Len(t) \in Nat /\ (Len(u) = 1 \/ Len(u) = 2) /\ Len(s) \in Nat
        /\ Len(v) = Len(s) + 1 /\ Len(x) = Len(t) + Len(u)
    BY <1>1, <1>4, <1>10 DEF Text
  <2>2. Len(s) <= Len(t)
    BY <1>7, <1>8, <2>1
  <2> HIDE DEF x
  <2>3. \A l, m, k \in Nat : l <= m /\ (k = 1 \/ k = 2) => l + 1 <= (m + k) + 0
    OBVIOUS
  <2> QED
    BY ONLY <1>8, <2>1, <2>2, <2>3
<1> HIDE DEF x
<1>12. x[Len(x)] = Question => v # <<>> /\ v[Len(v)] = "3F"
  BY ONLY <1>1, <1>6, <1>10
<1> QED
  BY ONLY <1>2, <1>7, <1>10, <1>11, <1>12, d.held = <<>>, Zenon DEF Behind, v, x, u

LEMMA PairBehind ==
  ASSUME NEW enc \in {"stateful"}, NEW s \in Seq(Byte), NEW b \in {"61", "A0"},
         NEW d \in Decoder, NEW t \in Text,
         Behind(enc, s, Rd(d, t, FALSE)), d.held # <<>>
  PROVE  Behind(enc, Append(s, b), Rd([d EXCEPT !.held = <<>>], t \o Utf8(Append(d.held, b)), FALSE))
<1> DEFINE w == <<"82", b>>
           u == Utf8(Append(d.held, b))
           v == Append(s, b)
           x == t \o u
           g == [d EXCEPT !.held = <<>>]
<1>1. b \in Byte /\ "82" \in Byte
  BY DEF Byte, ASCII, NonASCII
<1>2. /\ Rd(d, t, FALSE).dec = d /\ Rd(d, t, FALSE).out = t /\ ~Rd(d, t, FALSE).bad
      /\ Rd(g, x, FALSE).dec = g /\ Rd(g, x, FALSE).out = x
  BY DEF Rd
<1>3. /\ Len(s) <= Len(t) + Len(d.held) /\ ~d.shift /\ NoEnd(t) /\ d.held = <<"82">>
  BY ONLY <1>2, Behind(enc, s, Rd(d, t, FALSE)), d.held # <<>>, Zenon DEF Behind
<1>4. g.held = <<>> /\ g.shift = d.shift
  BY DEF Decoder
<1>5. Append(d.held, b) = w /\ Len(d.held) = 1
  <2>1. Append(<<"82">>, b) = w
    <3> DEFINE h == <<"82">>
               y == Append(h, b)
    <3>1. h \in Seq(Byte) /\ Len(h) = 1 /\ h[1] = "82"
      BY <1>1
    <3> HIDE DEF h
    <3>2. /\ y \in Seq(Byte) /\ Len(y) = Len(h) + 1 /\ y[Len(h) + 1] = b
          /\ \A i \in 1..Len(h) : y[i] = h[i]
      BY ONLY <1>1, <3>1, AppendFacts
    <3> HIDE DEF y
    <3>3. Len(y) = 2 /\ y[1] = "82" /\ y[2] = b
      BY ONLY <3>1, <3>2
    <3>4. w \in Seq(Byte) /\ Len(w) = 2 /\ w[1] = "82" /\ w[2] = b
      BY <1>1
    <3> HIDE DEF w
    <3>5. \A i \in 1..2 : y[i] = w[i]
      BY ONLY <3>3, <3>4
    <3>6. y = w
      BY ONLY <3>2, <3>3, <3>4, <3>5, SeqEqual
    <3> QED
      BY <3>6 DEF y, h
  <2>2. Len(<<"82">>) = 1
    OBVIOUS
  <2> QED
    BY ONLY <1>3, <2>1, <2>2, Zenon DEF w
<1>6. u = <<[unit |-> w, part |-> 1], [unit |-> w, part |-> 2]>>
  <2>1. w \in Seq(Byte) /\ Len(w) = 2 /\ w[1] = "82" /\ w[2] = b
    BY <1>1
  <2>2. "82" \in ToSet(Front(w))
    <3> DEFINE f == SubSeq(w, 1, 1)
    <3>1. 1 \in 1..(Len(w) + 1) /\ 1 \in (1 - 1)..Len(w)
      BY <2>1
    <3> HIDE DEF w
    <3>2. f \in Seq(Byte) /\ Len(f) = 1 - 1 + 1 /\ \A k \in 1..(1 - 1 + 1) : f[k] = w[1 + k - 1]
      BY ONLY <2>1, <3>1, Cut
    <3>3. Len(f) = 1 /\ f[1] = "82"
      BY ONLY <2>1, <3>2
    <3>4. Front(w) = f
      BY <2>1 DEF Front
    <3> HIDE DEF f
    <3>5. "82" \in ToSet(f)
      BY ONLY <3>3 DEF ToSet
    <3> QED
      BY ONLY <3>4, <3>5, Zenon
  <2>3. u = Utf8(w)
    BY <1>5, Zenon
  <2>4. ~\A c \in ToSet(Front(w)) : c = "00"
    BY <2>2
  <2> QED
    BY ONLY <2>3, <2>4, Zenon DEF Utf8
<1>7. Len(u) = 2 /\ u[1] = [unit |-> w, part |-> 1] /\ u[2] = [unit |-> w, part |-> 2]
  BY ONLY <1>6
<1>8. w \in Seq(Byte) /\ w # <<>> /\ w # <<"3E">>
  BY <1>1
<1>9. u \in Text
  BY <1>5, <1>8, Utf8Type
<1> HIDE DEF w, u, g
<1>10. u[1] # Greater /\ u[2] # Greater /\ u[2] # Question
  BY ONLY <1>7, <1>8, Parts
<1>11. /\ x \in Text /\ Len(x) = Len(t) + Len(u) /\ NoEnd(x) /\ x # <<>>
       /\ x[Len(x)] = u[Len(u)]
  BY ONLY <1>3, <1>7, <1>9, <1>10, t \in Text, NoNewEnd
<1>12. Len(v) <= Len(x) + Len(g.held)
  <2>1. Len(s) \in Nat /\ Len(v) = Len(s) + 1
    BY <1>1, AppendFacts
  <2>2. Len(t) \in Nat /\ Len(g.held) = 0
    BY <1>4 DEF Text
  <2> HIDE DEF x
  <2>3. \A l, m \in Nat : l <= m + 1 => l + 1 <= (m + 2) + 0
    OBVIOUS
  <2> QED
    BY ONLY <1>3, <1>5, <1>7, <1>11, <2>1, <2>2, <2>3
<1> HIDE DEF x, v
<1>13. x[Len(x)] # Question
  BY ONLY <1>7, <1>10, <1>11
<1>14. enc \in Tables => g.held = <<>>
  BY <1>4
<1> QED
  BY ONLY <1>2, <1>3, <1>4, <1>11, <1>12, <1>13, <1>14, Zenon DEF Behind, v, x, u, g

LEMMA LeadBehind ==
  ASSUME NEW enc \in {"stateful"}, NEW s \in Seq(Byte), NEW b \in {"82"},
         NEW d \in Decoder, NEW t \in Text,
         Behind(enc, s, Rd(d, t, FALSE)), d.held = <<>>
  PROVE  Behind(enc, Append(s, b), Rd([d EXCEPT !.held = <<b>>], t, FALSE))
<1> DEFINE v == Append(s, b)
           g == [d EXCEPT !.held = <<b>>]
<1>1. b \in Byte
  BY DEF Byte, ASCII, NonASCII
<1>2. /\ Rd(d, t, FALSE).dec = d /\ Rd(d, t, FALSE).out = t /\ ~Rd(d, t, FALSE).bad
      /\ Rd(g, t, FALSE).dec = g /\ Rd(g, t, FALSE).out = t
  BY DEF Rd
<1>3. /\ Len(s) <= Len(t) + Len(d.held) /\ ~d.shift /\ NoEnd(t)
  BY ONLY <1>2, Behind(enc, s, Rd(d, t, FALSE)), d.held = <<>>, Zenon DEF Behind
<1>4. g.held = <<"82">> /\ g.shift = d.shift /\ <<"82">> # <<>> /\ Len(<<"82">>) = 1
  BY DEF Decoder
<1>5. /\ Len(s) \in Nat /\ Len(v) = Len(s) + 1 /\ v # <<>> /\ v[Len(v)] = "82"
  BY <1>1, AppendFacts
<1>6. Len(v) <= Len(t) + Len(g.held)
  <2>1. Len(t) \in Nat /\ Len(d.held) = 0
    BY DEF Text
  <2> HIDE DEF g, v
  <2> QED
    BY <1>3, <1>4, <1>5, <2>1
<1>7. enc \notin Tables
  BY DEF Tables
<1> HIDE DEF g, v
<1>8. g.held # <<>>
  BY ONLY <1>4
<1> QED
  BY ONLY <1>2, <1>3, <1>4, <1>5, <1>6, <1>7, <1>8, Zenon DEF Behind, v, g

LEMMA StepBehind ==
  ASSUME NEW enc \in Tables \cup {"stateful"}, NEW s \in Seq(Byte), NEW b \in Byte,
         NEW r \in Reader, Open(enc, Append(s, b)), Behind(enc, s, r)
  PROVE  Behind(enc, Append(s, b), ReadByte(enc, r, b))
<1> DEFINE d == r.dec
           t == r.out
<1>1. d \in Decoder /\ t \in Text /\ r.bad \in BOOLEAN /\ r = Rd(d, t, r.bad)
  BY ReaderFields
<1>2. CASE r.bad
  <2>1. r = Rd(d, t, TRUE)
    BY <1>1, <1>2
  <2>2. ReadByte(enc, r, b) = r
    BY <2>1, ByteAfterBad
  <2> QED
    BY ONLY <1>2, <2>2, Zenon DEF Behind
<1>3. CASE ~r.bad
  <2>1. r = Rd(d, t, FALSE)
    BY <1>1, <1>3
  <2> HIDE DEF d, t
  <2>2. Behind(enc, s, Rd(d, t, FALSE))
    BY <2>1, Zenon
  <2>3. CASE enc \in Tables
    <3>1. ReadByte(enc, r, b) = Rd(d, t \o Utf8(<<b>>), FALSE)
      BY <1>1, <2>1, <2>3, ByteOfTable
    <3>2. d.held = <<>>
      <4>1. Rd(d, t, FALSE).dec = d /\ ~Rd(d, t, FALSE).bad
        BY DEF Rd
      <4> QED
        BY ONLY <2>2, <2>3, <4>1, Zenon DEF Behind
    <3>3. Behind(enc, Append(s, b), Rd(d, t \o Utf8(<<b>>), FALSE))
      BY ONLY <1>1, <2>2, <3>2, s \in Seq(Byte), b \in Byte, Open(enc, Append(s, b)), CharBehind
    <3> QED
      BY ONLY <3>1, <3>3, Zenon
  <2>4. CASE enc = "stateful"
    <3>1. ReadByte(enc, r, b) =
           IF d.held # <<>>
           THEN IF b \in {"61", "A0"}
                THEN Rd([d EXCEPT !.held = <<>>], t \o Utf8(Append(d.held, b)), FALSE)
                ELSE Rd(d, t, TRUE)
           ELSE IF b = "1B" THEN Rd([d EXCEPT !.shift = ~d.shift], t, FALSE)
           ELSE IF d.shift \/ b = "82" THEN Rd([d EXCEPT !.held = <<b>>], t, FALSE)
           ELSE IF b \in ASCII THEN Rd(d, t \o Utf8(<<b>>), FALSE)
           ELSE Rd(d, t, TRUE)
      BY ONLY <1>1, <2>1, <2>4, ByteOfStateful
    <3>2. ~d.shift
      <4>1. Rd(d, t, FALSE).dec = d /\ ~Rd(d, t, FALSE).bad
        BY DEF Rd
      <4> QED
        BY ONLY <2>2, <4>1, Zenon DEF Behind
    <3>3. b # "1B"
      <4> DEFINE v == Append(s, b)
      <4>1. Len(v) \in 1..Len(v) /\ v[Len(v)] = b
        BY AppendFacts
      <4>2. \A i \in 1..Len(v) : v[i] # "1B"
        BY <2>4, Zenon DEF Open
      <4> QED
        BY <4>1, <4>2
    <3>4. Behind(enc, Append(s, b), Rd(d, t, TRUE))
      <4>1. Rd(d, t, TRUE).bad
        BY DEF Rd
      <4> QED
        BY ONLY <4>1, Zenon DEF Behind
    <3>5. CASE d.held # <<>> /\ b \in {"61", "A0"}
      <4>1. Behind(enc, Append(s, b), Rd([d EXCEPT !.held = <<>>], t \o Utf8(Append(d.held, b)), FALSE))
        BY ONLY <1>1, <2>2, <2>4, <3>5, s \in Seq(Byte), PairBehind
      <4> QED
        BY ONLY <3>1, <3>5, <4>1, Zenon
    <3>6. CASE d.held # <<>> /\ b \notin {"61", "A0"}
      BY ONLY <3>1, <3>4, <3>6, Zenon
    <3>7. CASE ~(d.held # <<>>) /\ b = "82"
      <4>1. Behind(enc, Append(s, b), Rd([d EXCEPT !.held = <<b>>], t, FALSE))
        BY ONLY <1>1, <2>2, <2>4, <3>7, s \in Seq(Byte), LeadBehind
      <4> QED
        BY ONLY <3>1, <3>3, <3>7, <4>1, Zenon
    <3>8. CASE ~(d.held # <<>>) /\ b # "82" /\ b \in ASCII
      <4>1. Behind(enc, Append(s, b), Rd(d, t \o Utf8(<<b>>), FALSE))
        BY ONLY <1>1, <2>2, <3>8, s \in Seq(Byte), b \in Byte, Open(enc, Append(s, b)), CharBehind
      <4> QED
        BY ONLY <3>1, <3>2, <3>3, <3>8, <4>1, Zenon
    <3>9. CASE ~(d.held # <<>>) /\ b # "82" /\ b \notin ASCII
      BY ONLY <3>1, <3>2, <3>3, <3>4, <3>9, Zenon
    <3> QED
      BY <3>5, <3>6, <3>7, <3>8, <3>9
  <2> QED
    BY <2>3, <2>4
<1> QED
  BY <1>2, <1>3

LEMMA OpenBefore ==
  ASSUME NEW enc, NEW s \in Seq(Byte), NEW b \in Byte, Open(enc, Append(s, b))
  PROVE  Open(enc, s)
<1> DEFINE v == Append(s, b)
<1>1. /\ Len(s) \in Nat /\ Len(v) = Len(s) + 1 /\ \A i \in 1..Len(s) : v[i] = s[i]
  BY AppendFacts
<1>2. /\ enc = "stateful" => \A i \in 1..Len(v) : v[i] # "1B"
      /\ \A i \in 1..(Len(v) - 1) : ~(v[i] = "3F" /\ v[i + 1] = "3E")
  BY Zenon DEF Open
<1> HIDE DEF v
<1>3. ASSUME enc = "stateful", NEW i \in 1..Len(s)
      PROVE  s[i] # "1B"
  BY <1>1, <1>2, <1>3
<1>4. ASSUME NEW i \in 1..(Len(s) - 1)
      PROVE  ~(s[i] = "3F" /\ s[i + 1] = "3E")
  <2>1. i \in 1..Len(s) /\ i + 1 \in 1..Len(s) /\ i \in 1..(Len(v) - 1)
    BY <1>1
  <2> QED
    BY ONLY <1>1, <1>2, <2>1
<1> QED
  BY <1>3, <1>4 DEF Open

LEMMA ReadBehind ==
  ASSUME NEW enc \in Tables \cup {"stateful"}, NEW s \in Seq(Byte), Open(enc, s)
  PROVE  Behind(enc, s, ReadBytes(enc, FreshReader, s))
<1> DEFINE K == {v \in Seq(Byte) :
                   Open(enc, v) => Behind(enc, v, ReadBytes(enc, FreshReader, v))}
<1>1. <<>> \in K
  <2>1. ReadBytes(enc, FreshReader, <<>>) = FreshReader
    BY ReadNothing, Zenon
  <2>2. /\ FreshReader.dec = FreshDecoder /\ FreshReader.out = <<>>
        /\ FreshDecoder.held = <<>> /\ ~FreshDecoder.shift
    BY DEF FreshReader, FreshDecoder
  <2>3. NoEnd(<<>>) /\ Len(<<>>) = 0 /\ 0 <= 0 + 0 /\ <<>> \in Seq(Byte)
    BY DEF NoEnd
  <2>4. Behind(enc, <<>>, FreshReader)
    BY ONLY <2>2, <2>3 DEF Behind
  <2> QED
    BY ONLY <2>1, <2>3, <2>4, Zenon
<1>2. ASSUME NEW v \in K \cap Seq(Byte), NEW b \in Byte
      PROVE  Append(v, b) \in K
  <2> DEFINE r == ReadBytes(enc, FreshReader, v)
  <2>1. /\ v \in Seq(Byte) /\ Append(v, b) \in Seq(Byte)
    OBVIOUS
  <2>2. ReadBytes(enc, FreshReader, Append(v, b)) = ReadByte(enc, r, b)
    BY <2>1, ReadStep, Zenon
  <2>3. Open(enc, v) => Behind(enc, v, r)
    BY <1>2, Zenon
  <2>4. r \in Reader
    <3>1. enc \in Code \ {"none"}
      BY DEF Code, Tables
    <3> QED
      BY ONLY <2>1, <3>1, FreshType, ReadingGrows
  <2> HIDE DEF r
  <2>5. ASSUME Open(enc, Append(v, b))
        PROVE  Behind(enc, Append(v, b), ReadByte(enc, r, b))
    <3>1. Open(enc, v)
      BY ONLY <2>1, <2>5, b \in Byte, OpenBefore
    <3>2. Behind(enc, v, r)
      BY ONLY <2>3, <3>1
    <3> QED
      BY ONLY <2>1, <2>4, <2>5, <3>2, enc \in Tables \cup {"stateful"}, b \in Byte, StepBehind
  <2> QED
    BY ONLY <2>1, <2>2, <2>5, Zenon
<1> HIDE DEF K
<1>3. s \in K
  BY <1>1, <1>2, SequenceInduction
<1> QED
  BY <1>3, Zenon DEF K

\* Text that is built anew has no end before the place where the bytes had
\* been searched to.
LEMMA EndsLater ==
  ASSUME EscapesBehind, source \in Sources, declared \in Declarable,
         NEW n \in 0..Len(source), NEW k \in 1..(Len(source) - n),
         ~HasEnd(Raw(Pushed(n)), 0),
         NEW enc, enc = Enc(n + k), enc \in Tables \cup {"stateful"}, Skip(n + k) = 0,
         enc = "stateful" => "stateful" \in Declarable,
         NEW r, r = ReadingOf(n + k), ~r.bad
  PROVE  r.out \in Text /\ n <= Len(r.out) /\ \A i \in 0..(n - 2) : ~EndsAt(r.out, i)
<1> DEFINE s == Pushed(n)
           b == SubSeq(source, n + 1, n + k)
           r1 == ReadBytes(enc, FreshReader, s)
<1>1. /\ source \in Seq(Byte) /\ Len(source) \in Nat /\ n \in Nat /\ k \in Nat
      /\ n + 1 \in 0..Len(source) /\ n + k \in 0..Len(source)
      /\ k \in 0..(Len(source) - n) /\ 1 \in 0..(Len(source) - n)
      /\ n + 1 \in 1..Len(source) /\ k - 1 \in 0..(Len(source) - (n + 1))
      /\ (n + 1) + (k - 1) = n + k
  BY InputConstants
<1>2. s \in Seq(Byte) /\ Len(s) = n /\ \A i \in 1..n : s[i] = source[i]
  BY <1>1, PushedIs
<1>3. b \in Seq(Byte) /\ Pushed(n + k) = s \o b
  BY ONLY <1>1, n \in 0..Len(source), PushedMore
<1>4. enc \in Code \ {"none"}
  BY DEF Code, Tables
<1>5. r = ReadBytes(enc, FreshReader, Pushed(n + k))
  <2>1. SubSeq(source, Skip(n + k) + 1, n + k) = Pushed(n + k)
    BY DEF Pushed
  <2> QED
    BY <2>1, Zenon DEF ReadingOf
<1> HIDE DEF s, b, r1
<1>6. \A i \in 1..(n - 1) : ~(source[i] = "3F" /\ source[i + 1] = "3E")
  <2> SUFFICES ASSUME NEW i \in 1..(n - 1), source[i] = "3F", source[i + 1] = "3E"
               PROVE  FALSE
    OBVIOUS
  <2>1. i \in 1..n /\ i + 1 \in 1..n /\ i < n /\ i \in 1..(Len(s) - 1)
    BY <1>1, <1>2
  <2>2. Ends(s, i)
    BY <1>2, <2>1 DEF Ends
  <2>3. HasEnd(Raw(s), 0)
    BY ONLY <1>2, <2>1, <2>2, HasEndRaw
  <2> QED
    BY <2>3 DEF s
<1>7. enc = "stateful" => \A i \in 1..(n + 1) : source[i] # "1B"
  <2> SUFFICES ASSUME enc = "stateful", NEW i \in 1..(n + 1), source[i] = "1B"
               PROVE  FALSE
    OBVIOUS
  <2>1. \A t \in Sources : \A l \in DOMAIN t : t[l] = "1B" =>
          \E j \in 1..(l - 2) : t[j] = "3F" /\ t[j + 1] = "3E"
    BY Zenon DEF EscapesBehind
  <2>2. i \in DOMAIN source
    BY <1>1
  <2>3. PICK j \in 1..(i - 2) : source[j] = "3F" /\ source[j + 1] = "3E"
    BY <2>1, <2>2
  <2>4. j \in 1..(n - 1)
    BY <1>1, <2>3
  <2> QED
    BY <1>6, <2>3, <2>4
<1>8. Open(enc, s)
  <2>1. \A i \in 1..Len(s) : enc = "stateful" => s[i] # "1B"
    BY <1>1, <1>2, <1>7
  <2>2. \A i \in 1..(Len(s) - 1) : i \in 1..n /\ i + 1 \in 1..n /\ i \in 1..(n - 1)
    BY <1>1, <1>2
  <2>3. \A i \in 1..(Len(s) - 1) : ~(s[i] = "3F" /\ s[i + 1] = "3E")
    BY ONLY <1>2, <1>6, <2>2
  <2> QED
    BY <2>1, <2>3 DEF Open
\* A reading of a part of the bytes that is long enough and has no end.
<1>9. ASSUME NEW x, NEW u \in Seq(Byte), x = ReadBytes(enc, FreshReader, Pushed(n + k)),
             NEW v \in Seq(Byte), Pushed(n + k) = v \o u, ~x.bad
      PROVE  LET y == ReadBytes(enc, FreshReader, v) IN
             /\ y \in Reader /\ ~y.bad /\ x \in Reader /\ IsPrefix(y.out, x.out)
  <2> DEFINE y == ReadBytes(enc, FreshReader, v)
  <2>1. y \in Reader
    BY ONLY <1>4, <1>9, FreshType, ReadingGrows
  <2>2. x = ReadBytes(enc, y, u)
    <3>1. ReadBytes(enc, FreshReader, v \o u) = ReadBytes(enc, ReadBytes(enc, FreshReader, v), u)
      BY ONLY u \in Seq(Byte), v \in Seq(Byte), ReadBoth
    <3> QED
      BY ONLY <1>9, <3>1, Zenon DEF y
  <2> HIDE DEF y
  <2>3. x \in Reader /\ IsPrefix(y.out, x.out) /\ (y.bad => x = y)
    BY ONLY <1>4, <1>9, <2>1, <2>2, ReadingGrows
  <2>4. ~y.bad
    BY ONLY <1>9, <2>3, Zenon
  <2> QED
    BY ONLY <2>1, <2>3, <2>4, Zenon DEF y
<1>10. ASSUME NEW y \in Reader, n <= Len(y.out), NoEnd(y.out), IsPrefix(y.out, r.out),
              r \in Reader
       PROVE  r.out \in Text /\ n <= Len(r.out) /\ \A i \in 0..(n - 2) : ~EndsAt(r.out, i)
  <2> DEFINE p == y.out
             q == r.out
  <2>1. p \in Seq(Part) /\ q \in Seq(Part) /\ q \in Text
    BY <1>10, ReaderFields DEF Text
  <2>2. n <= Len(p) /\ NoEnd(p) /\ IsPrefix(p, q)
    BY <1>10
  <2> HIDE DEF p, q
  <2>3. Len(p) <= Len(q) /\ (\A i \in 1..Len(p) : p[i] = q[i]) /\ Len(p) \in Nat /\ Len(q) \in Nat
    BY ONLY <2>1, <2>2, PrefixOfText, LenProperties
  <2>4. ASSUME NEW i \in 0..(n - 2), EndsAt(q, i)
        PROVE  FALSE
    <3>1. /\ i \in 0..(Len(q) - 2) /\ i + 1 \in 1..(Len(p) - 1) /\ i + 1 \in 1..Len(p)
          /\ i + 2 \in 1..Len(p) /\ (i + 1) + 1 = i + 2
      BY <1>1, <2>2, <2>3
    <3>2. q[i + 1] = Question /\ q[i + 2] = Greater
      BY ONLY <2>1, <2>4, <3>1, EndsAtIs DEF Question, Greater
    <3>3. p[i + 1] = Question /\ p[(i + 1) + 1] = Greater
      BY ONLY <2>3, <3>1, <3>2
    <3> QED
      BY ONLY <2>2, <3>1, <3>3 DEF NoEnd
  <2>5. n <= Len(q)
    BY <1>1, <2>2, <2>3
  <2> QED
    BY <2>1, <2>4, <2>5 DEF q
<1>11. /\ r1 \in Reader /\ ~r1.bad /\ r \in Reader /\ IsPrefix(r1.out, r.out)
  BY ONLY <1>2, <1>3, <1>5, <1>9, ~r.bad DEF r1
<1>12. Behind(enc, s, r1)
  BY ONLY <1>2, <1>8, enc \in Tables \cup {"stateful"}, ReadBehind DEF r1
<1>13. /\ Len(s) <= Len(r1.out) + Len(r1.dec.held) /\ NoEnd(r1.out)
       /\ r1.dec.held = <<>> \/ r1.dec.held = <<"82">>
       /\ r1.dec.held # <<>> => s # <<>> /\ s[Len(s)] = "82"
  BY ONLY <1>11, <1>12, Zenon DEF Behind
<1>14. r1.out \in Text /\ Len(r1.out) \in Nat
  BY <1>11, ReaderFields DEF Text
<1>15. CASE r1.dec.held = <<>>
  <2>1. n <= Len(r1.out)
    <3>1. Len(r1.dec.held) = 0
      BY <1>15
    <3> QED
      BY ONLY <1>1, <1>2, <1>13, <1>14, <3>1
  <2> QED
    BY ONLY <1>10, <1>11, <1>13, <2>1
<1>16. CASE r1.dec.held # <<>>
  <2> DEFINE c == source[n + 1]
             s2 == Pushed(n + 1)
             b2 == SubSeq(source, (n + 1) + 1, (n + 1) + (k - 1))
             r2 == ReadBytes(enc, FreshReader, s2)
  <2>1. s2 \in Seq(Byte) /\ Len(s2) = n + 1 /\ \A i \in 1..(n + 1) : s2[i] = source[i]
    BY <1>1, PushedIs
  <2>2. b2 \in Seq(Byte) /\ Pushed(n + k) = s2 \o b2
    <3>1. b2 \in Seq(Byte) /\ Pushed((n + 1) + (k - 1)) = s2 \o b2
      BY ONLY <1>1, PushedMore
    <3> QED
      BY ONLY <1>1, <3>1, Zenon
  <2> HIDE DEF s2, b2, r2
  <2>3. Open(enc, s2)
    <3>1. enc = "stateful" => \A i \in 1..Len(s2) : s2[i] # "1B"
      BY <1>7, <2>1
    <3>2. n >= 1 /\ source[n] = "82"
      <4>1. s # <<>> /\ s[Len(s)] = "82"
        BY ONLY <1>13, <1>16, Zenon
      <4>2. Len(s) >= 1
        BY <1>2, <4>1
      <4> QED
        BY ONLY <1>1, <1>2, <4>1, <4>2
    <3>3. ASSUME NEW i \in 1..(Len(s2) - 1), s2[i] = "3F", s2[i + 1] = "3E"
          PROVE  FALSE
      <4>1. /\ i \in 1..n /\ i \in 1..(n + 1) /\ i + 1 \in 1..(n + 1) /\ (i # n => i \in 1..(n - 1))
        BY <1>1, <2>1
      <4>2. source[i] = "3F" /\ source[i + 1] = "3E"
        BY ONLY <2>1, <3>3, <4>1
      <4> QED
        BY ONLY <1>6, <3>2, <4>1, <4>2
    <3> QED
      BY <3>1, <3>3 DEF Open
  <2>4. /\ r2 \in Reader /\ ~r2.bad /\ IsPrefix(r2.out, r.out)
    BY ONLY <1>5, <1>9, <2>1, <2>2, ~r.bad DEF r2
  <2>5. Behind(enc, s2, r2)
    BY ONLY <2>1, <2>3, enc \in Tables \cup {"stateful"}, ReadBehind DEF r2
  <2>6. /\ Len(s2) <= Len(r2.out) + Len(r2.dec.held) /\ NoEnd(r2.out)
        /\ r2.dec.held = <<>> \/ r2.dec.held = <<"82">>
    BY ONLY <2>4, <2>5, Zenon DEF Behind
  <2>7. n <= Len(r2.out)
    <3>1. r2.out \in Seq(Part) /\ Len(r2.out) \in Nat
      BY <2>4, ReaderFields DEF Text
    <3>2. Len(r2.dec.held) = 0 \/ Len(r2.dec.held) = 1
      <4>1. Len(<<>>) = 0 /\ Len(<<"82">>) = 1
        OBVIOUS
      <4> QED
        BY ONLY <2>6, <4>1, Zenon
    <3>3. n + 1 <= Len(r2.out) + Len(r2.dec.held)
      BY ONLY <2>1, <2>6, Zenon
    <3>4. \A l, x, h \in Nat : l + 1 <= x + h /\ (h = 0 \/ h = 1) => l <= x
      OBVIOUS
    <3>5. 0 \in Nat /\ 1 \in Nat
      OBVIOUS
    <3> QED
      BY ONLY <1>1, <3>1, <3>2, <3>3, <3>4, <3>5
  <2> QED
    BY ONLY <1>10, <1>11, <2>4, <2>6, <2>7
<1> QED
  BY <1>15, <1>16

-----------------------------------------------------------------------------
(* The parked lookup. *)

\* What was searched stays searched when the text goes on.
LEMMA MarkGoesOn ==
  ASSUME NEW in \in Buffer, NEW out \in Buffer, in.pos <= Len(in.data), Extends(in, out),
         NEW m \in Nat \cup {NoMark}, MarkOK(in, m)
  PROVE  MarkOK(out, m)
<1> DEFINE x == in.data
           y == out.data
           p == in.pos
<1>1. /\ x \in Seq(Part) /\ y \in Seq(Part) /\ p \in Nat /\ Len(x) \in Nat /\ Len(y) \in Nat
      /\ x \in Text /\ y \in Text /\ p <= Len(x)
  BY BufferFields DEF Text
<1>2. out.pos = p /\ IsPrefix(x, y)
  BY Zenon DEF Extends
<1> SUFFICES ASSUME m # NoMark
             PROVE  /\ m <= Max({Len(y) - 1, p + 2})
                    /\ \A i \in (p + 2)..(m - 1) : ~EndsAt(y, i)
  BY <1>2, Zenon DEF MarkOK
<1>3. /\ m <= Max({Len(x) - 1, p + 2})
      /\ \A i \in (p + 2)..(m - 1) : ~EndsAt(x, i)
  BY Zenon DEF MarkOK
<1> HIDE DEF x, y, p
<1>4. Len(x) <= Len(y) /\ \A i \in 1..Len(x) : x[i] = y[i]
  BY ONLY <1>1, <1>2, PrefixOfText
<1>5. /\ m \in Nat
      /\ Max({Len(x) - 1, p + 2}) = IF Len(x) - 1 >= p + 2 THEN Len(x) - 1 ELSE p + 2
      /\ Max({Len(y) - 1, p + 2}) = IF Len(y) - 1 >= p + 2 THEN Len(y) - 1 ELSE p + 2
  <2>1. m \in Nat
    OBVIOUS
  <2>2. Len(x) - 1 \in Int /\ Len(y) - 1 \in Int /\ p + 2 \in Int
    BY ONLY <1>1
  <2>3. Max({Len(x) - 1, p + 2}) = IF Len(x) - 1 >= p + 2 THEN Len(x) - 1 ELSE p + 2
    BY ONLY <2>2, MaxOfTwo
  <2>4. Max({Len(y) - 1, p + 2}) = IF Len(y) - 1 >= p + 2 THEN Len(y) - 1 ELSE p + 2
    BY ONLY <2>2, MaxOfTwo
  <2> QED
    BY ONLY <2>1, <2>3, <2>4
<1>6. m <= Max({Len(y) - 1, p + 2})
  BY ONLY <1>1, <1>3, <1>4, <1>5
<1>7. ASSUME NEW i \in (p + 2)..(m - 1)
      PROVE  ~EndsAt(y, i)
  <2>1. /\ i \in 0..(Len(x) - 2) /\ i \in 0..(Len(y) - 2)
        /\ i + 1 \in 1..Len(x) /\ i + 2 \in 1..Len(x)
    BY ONLY <1>1, <1>3, <1>4, <1>5, <1>7
  <2>2. x[i + 1] = y[i + 1] /\ x[i + 2] = y[i + 2]
    BY ONLY <1>4, <2>1
  <2>3. /\ EndsAt(x, i) <=> x[i + 1] = Question /\ x[i + 2] = Greater
        /\ EndsAt(y, i) <=> y[i + 1] = Question /\ y[i + 2] = Greater
    BY ONLY <1>1, <2>1, EndsAtIs DEF Question, Greater
  <2> QED
    BY ONLY <1>3, <2>2, <2>3, Zenon
<1> QED
  BY <1>6, <1>7 DEF x, y, p

\* Nor does the text that is built anew have an end there.
LEMMA MarkSurvives ==
  ASSUME Defined, Unmarked, EscapesBehind, source \in Sources, declared \in Declarable,
         NEW in \in Buffer, NEW out \in Buffer, in.pos <= Len(in.data),
         NEW n \in 0..Len(source), NEW k \in 0..(Len(source) - n),
         NEW last \in BOOLEAN, NEW term \in BOOLEAN, Known(in, n, last),
         Awaiting(in, n, last), in.pos = 0, out.pos = 0, Known(out, n + k, term), ~out.invalid,
         NEW m \in Nat \cup {NoMark}, MarkOK(in, m)
  PROVE  MarkOK(out, m)
<1> DEFINE q == n + k
<1>1. /\ AsItCame(in, n, last) /\ in.declPending /\ ~last
      /\ Enc(n) = "utf8" /\ in.data = Raw(Pushed(n))
  <2>1. AsItCame(in, n, last) /\ in.declPending /\ ~last
    BY Zenon DEF Awaiting
  <2> QED
    BY <2>1, Zenon DEF AsItCame
<1>2. n >= 4
  BY <1>1, Zenon DEF Known
<1>3. /\ source \in Seq(Byte) /\ n \in Nat /\ q \in 0..Len(source) /\ q >= 4
      /\ declared \in {"utf8", "latin1", "cp1252", "stateful"}
  BY <1>2, InputConstants
<1>4. /\ Pushed(n) \in Seq(Byte) /\ Len(Pushed(n)) = n
      /\ SubSeq(source, n + 1, n + k) \in Seq(Byte)
      /\ Pushed(q) = Pushed(n) \o SubSeq(source, n + 1, n + k)
  BY <1>3, PushedIs, PushedMore
<1>5. AsItCame(out, q, term) \/ AsDecoded(out, q, term)
  BY Zenon DEF Known
<1>6. CASE AsItCame(out, q, term)
  <2>1. out.data = Raw(Pushed(q))
    BY <1>6, Zenon DEF AsItCame
  <2>2. Raw(Pushed(q)) = Raw(Pushed(n)) \o Raw(SubSeq(source, n + 1, n + k))
    BY <1>4, RawConcat
  <2>3. IsPrefix(in.data, out.data)
    <3>1. Raw(Pushed(n)) \in Seq(Part) /\ Raw(SubSeq(source, n + 1, n + k)) \in Seq(Part)
      BY <1>4, RawType DEF Text
    <3>2. IsPrefix(Raw(Pushed(n)), Raw(Pushed(n)) \o Raw(SubSeq(source, n + 1, n + k)))
      BY ONLY <3>1, PrefixOn
    <3> QED
      BY ONLY <1>1, <2>1, <2>2, <3>2, Zenon
  <2>4. Extends(in, out)
    BY <2>3, Zenon DEF Extends
  <2> QED
    BY ONLY <2>4, in \in Buffer, out \in Buffer, in.pos <= Len(in.data),
       m \in Nat \cup {NoMark}, MarkOK(in, m), MarkGoesOn
<1>7. CASE AsDecoded(out, q, term)
  <2> DEFINE enc == Enc(q)
             r == ReadingOf(q)
  <2>1. /\ Enc(q) = out.enc /\ out.invalid = r.bad
        /\ ~r.bad => out.data = r.out
        /\ out.enc \in Wide \/ out.enc = "stateful" \/ out.enc \in Tables
    BY <1>7, Zenon DEF AsDecoded
  <2>2. ~Signed
    BY <1>1, <1>2, EncFacts
  <2>3. enc = (IF Names(Pushed(q)) THEN declared ELSE "utf8") /\ Skip(q) = 0
    BY <1>3, <2>2, Unsigned
  <2>4. enc # "utf8"
    BY ONLY <2>1 DEF Wide, Tables
  <2>5. enc = declared /\ enc \in {"latin1", "cp1252", "stateful"}
    BY ONLY <1>3, <2>3, <2>4
  <2>6. enc \in Tables \cup {"stateful"} /\ (enc = "stateful" => "stateful" \in Declarable)
    BY <2>5 DEF Tables
  <2>7. k # 0
    <3> SUFFICES ASSUME k = 0 PROVE FALSE
      OBVIOUS
    <3>1. q = n
      BY <1>3
    <3> QED
      BY ONLY <1>1, <2>4, <3>1, Zenon
  <2>8. k \in 1..(Len(source) - n)
    BY <2>7
  <2>9. ~HasEnd(Raw(Pushed(n)), 0)
    <3> DEFINE zero == 0
    <3>1. Undeclared(Rest(in))
      <4>1. /\ Undeclared(SubSeq(in.data, Bom(Pushed(n)) + 1, Len(in.data)))
            /\ in.pos = Bom(Pushed(n))
        BY <1>1, Zenon DEF AsItCame
      <4>2. Undeclared(SubSeq(in.data, in.pos + 1, Len(in.data)))
        BY ONLY <4>1, Zenon
      <4> QED
        BY <4>2, Zenon DEF Rest
    <3>2. zero \in Nat /\ in.pos <= zero
      OBVIOUS
    <3>3. ~(Len(in.data) - in.pos < 2)
      <4>1. Len(in.data) = n
        BY <1>1, <1>4, RawType
      <4> QED
        BY <1>2, <1>3, <4>1
    <3> HIDE DEF zero
    <3>4. ~HasEnd(in.data, zero)
      BY ONLY <3>1, <3>2, <3>3, in \in Buffer, in.pos <= Len(in.data), StillOpen
    <3> QED
      BY ONLY <1>1, <3>4, Zenon DEF zero
  <2>10. ~r.bad /\ out.data = r.out
    BY ONLY <2>1, ~out.invalid, Zenon
  <2> HIDE DEF enc, r
  <2>11. r.out \in Text /\ n <= Len(r.out) /\ \A i \in 0..(n - 2) : ~EndsAt(r.out, i)
    <3>1. enc = Enc(n + k) /\ r = ReadingOf(n + k) /\ Skip(n + k) = 0
      BY <2>3 DEF enc, r
    <3> QED
      BY ONLY <2>6, <2>8, <2>9, <2>10, <3>1, EscapesBehind, source \in Sources,
         declared \in Declarable, n \in 0..Len(source), EndsLater
  <2> SUFFICES ASSUME m # NoMark
               PROVE  /\ m <= Max({Len(out.data) - 1, out.pos + 2})
                      /\ \A i \in (out.pos + 2)..(m - 1) : ~EndsAt(out.data, i)
    BY Zenon DEF MarkOK
  <2>12. m <= Max({Len(in.data) - 1, in.pos + 2})
    BY Zenon DEF MarkOK
  <2>13. Len(in.data) = n /\ in.pos + 2 = 2 /\ out.pos + 2 = 2
    BY <1>1, <1>4, RawType
  <2>14. /\ m \in Nat /\ Len(r.out) \in Nat
         /\ Max({n - 1, 2}) = IF n - 1 >= 2 THEN n - 1 ELSE 2
         /\ Max({Len(r.out) - 1, 2}) = IF Len(r.out) - 1 >= 2 THEN Len(r.out) - 1 ELSE 2
    <3>1. m \in Nat
      BY ONLY <1>3, m \in Nat \cup {NoMark}, m # NoMark
    <3>2. Len(r.out) \in Nat
      BY ONLY <2>11, LenProperties DEF Text
    <3>3. n \in Nat
      BY ONLY <1>3
    <3>4. /\ n - 1 \in Int /\ Len(r.out) - 1 \in Int /\ 2 \in Int
      BY ONLY <3>2, <3>3
    <3> QED
      BY ONLY <3>1, <3>2, <3>4, MaxOfTwo, Zenon
  <2>15. m <= n - 1
    <3>1. m <= Max({n - 1, 2})
      BY ONLY <2>12, <2>13, Zenon
    <3> QED
      BY ONLY <1>2, <1>3, <2>14, <3>1
  <2>16. m <= Max({Len(r.out) - 1, 2}) /\ \A i \in 2..(m - 1) : i \in 0..(n - 2)
    BY ONLY <1>2, <1>3, <2>11, <2>14, <2>15
  <2> QED
    BY ONLY <2>10, <2>11, <2>13, <2>16, Zenon
<1> QED
  BY <1>5, <1>6, <1>7

LEMMA PushKeepsMark ==
  ASSUME Defined, Unmarked, EscapesBehind, IInv, MarkOK(input, mark),
         NEW n \in Nat, NEW terminate \in BOOLEAN, n <= Len(source) - received,
         NEW in, Pushes(input, received, received + n, closed, terminate, in), ~in.invalid,
         NEW m, m = IF in.pos < input.pos THEN NoMark ELSE mark
  PROVE  MarkOK(in, m)
<1>1. /\ source \in Sources /\ declared \in Declarable /\ received \in 0..Len(source)
      /\ closed \in BOOLEAN /\ input \in Buffer /\ input.pos <= Len(input.data)
      /\ mark \in Nat \cup {NoMark}
  BY Zenon DEF IInv, TypeOK
<1>2. /\ in \in Buffer
      /\ \/ Unknown(input, received)
         \/ Known(in, received + n, terminate)
      /\ \/ Extends(input, in)
         \/ input.pos = 0 /\ Unknown(input, received)
         \/ input.pos = 0 /\ in.pos = 0 /\ Awaiting(input, received, closed)
  BY Zenon DEF Pushes
<1>3. CASE m = NoMark
  BY <1>3, Zenon DEF MarkOK
<1>4. CASE m # NoMark /\ Extends(input, in)
  <2>1. m = mark
    BY <1>4, Zenon
  <2> QED
    BY ONLY <1>1, <1>2, <1>4, <2>1, MarkOK(input, mark), MarkGoesOn
<1>5. Unknown(input, received) => mark = NoMark /\ ~Awaiting(input, received, closed)
  <2> SUFFICES ASSUME Unknown(input, received)
               PROVE  mark = NoMark /\ ~Awaiting(input, received, closed)
    OBVIOUS
  <2>1. input.decoding = "parked"
    BY UnknownFields
  <2>2. ~Known(input, received, closed)
    BY <2>1 DEF Known
  <2>3. mark = NoMark
    BY <2>2, Zenon DEF IInv
  <2>4. ~Awaiting(input, received, closed)
    <3>1. Pushed(received) \in Seq(Byte)
      BY <1>1, InputConstants, PushedIs
    <3>2. ~input.declPending
      BY ONLY <3>1, Unknown(input, received), HeldBack DEF Unknown
    <3> QED
      BY <3>2, Zenon DEF Awaiting
  <2> QED
    BY <2>3, <2>4
<1>6. CASE m # NoMark /\ Unknown(input, received)
  BY <1>5, <1>6
<1>7. CASE /\ m # NoMark /\ ~Unknown(input, received)
           /\ input.pos = 0 /\ in.pos = 0 /\ Awaiting(input, received, closed)
  <2>1. m = mark
    BY <1>7, Zenon
  <2>2. Known(input, received, closed) /\ Known(in, received + n, terminate)
    BY <1>2, <1>7, Zenon DEF IInv
  <2>3. n \in 0..(Len(source) - received)
    BY <1>1, InputConstants
  <2> QED
    BY ONLY <1>1, <1>2, <1>7, <2>1, <2>2, <2>3, Defined, Unmarked, EscapesBehind,
       terminate \in BOOLEAN, ~in.invalid, MarkOK(input, mark), MarkSurvives
<1> QED
  BY <1>2, <1>3, <1>4, <1>6, <1>7

\* A driver that waits has looked at all of the text.
LEMMA DriveKeepsMark ==
  ASSUME NEW in, NEW m, NEW term \in BOOLEAN, Looks(in, m, term), MarkOK(in, m),
         Drive(in, m, term)
  PROVE  /\ MarkOK(input', mark')
         /\ phase' = "xml_decl" /\ IsPrefix(Raw(<<"3C", "3F">>), Rest(input'))
              => ~HasEnd(input'.data, input'.pos + 2)
<1> DEFINE x == in.data
           p == in.pos
           avail == Len(in.data) - in.pos
           looks == avail >= 2 /\ SubSeq(Rest(in), 1, 2) = Raw(<<"3C", "3F">>)
           from == IF Valid(m, in) THEN m ELSE in.pos + 2
           waits == /\ phase # "content" /\ ~term
                    /\ avail < 2 \/ (looks /\ ~HasEnd(in.data, from))
           begins == IsPrefix(Raw(<<"3C", "3F">>), Rest(in))
<1>1. IF avail = 0 \/ in.decoding = "parked"
      THEN input' = in /\ phase' = phase /\ mark' = m /\ Settle(in, term)
      ELSE IF waits
      THEN /\ input' = in /\ phase' = "xml_decl" /\ fatal' = fatal /\ errNo' = errNo
           /\ mark' = IF looks THEN NextMark(in, from) ELSE m
      ELSE \E c \in in.pos..Len(in.data) :
             /\ input' = [in EXCEPT !.pos = c] /\ phase' = "content" /\ mark' = NoMark
             /\ Settle([in EXCEPT !.pos = c], term)
  BY Zenon DEF Drive
<1>2. /\ in \in Buffer /\ in.pos <= Len(in.data)
      /\ phase = "start" \/ in.decoding # "parked"
      /\ m \in Nat \cup {NoMark}
  BY Zenon DEF Looks
<1>3. /\ x \in Seq(Part) /\ x \in Text /\ p \in Nat /\ Len(x) \in Nat /\ p <= Len(x)
      /\ avail = Len(x) - p
  BY <1>2, BufferFields DEF Text
<1>4. /\ m # NoMark => m \in Nat /\ m <= Max({Len(x) - 1, p + 2})
      /\ m # NoMark => \A i \in (p + 2)..(m - 1) : ~EndsAt(x, i)
  BY <1>2, Zenon DEF MarkOK
<1>5. begins => avail >= 2
  <2> DEFINE rest == Rest(in)
             v == Raw(<<"3C", "3F">>)
  <2>1. v \in Seq(Part) /\ Len(v) = 2
    <3>1. <<"3C", "3F">> \in Seq(Byte) /\ Len(<<"3C", "3F">>) = 2
      BY DEF Byte, ASCII
    <3> QED
      BY <3>1, RawType DEF Text
  <2>2. rest \in Seq(Part) /\ Len(rest) = avail
    <3>1. p + 1 \in 1..(Len(x) + 1) /\ Len(x) \in ((p + 1) - 1)..Len(x)
      BY <1>3
    <3>2. rest = SubSeq(x, p + 1, Len(x))
      BY DEF Rest
    <3> HIDE DEF rest
    <3>3. rest \in Seq(Part) /\ Len(rest) = Len(x) - (p + 1) + 1
      BY ONLY <1>3, <3>1, <3>2, Cut
    <3> QED
      BY <1>3, <3>3
  <2> HIDE DEF v, rest, avail
  <2>3. IsPrefix(v, rest) => Len(v) <= Len(rest)
    BY ONLY <2>1, <2>2, PrefixOfText
  <2> QED
    BY <2>1, <2>2, <2>3 DEF v, rest
<1> HIDE DEF x, p, avail, looks, from, waits, begins
<1>6. CASE avail = 0 \/ in.decoding = "parked"
  <2>1. input' = in /\ phase' = phase /\ mark' = m
    BY ONLY <1>1, <1>6, Zenon
  <2>2. MarkOK(input', mark')
    BY ONLY <2>1, MarkOK(in, m), Zenon
  <2>3. ~(phase' = "xml_decl" /\ begins)
    <3>1. CASE avail = 0
      BY <1>5, <3>1
    <3>2. CASE in.decoding = "parked"
      BY <1>2, <2>1, <3>2
    <3> QED
      BY <1>6, <3>1, <3>2
  <2> QED
    BY ONLY <2>1, <2>2, <2>3, Zenon DEF begins
<1>7. CASE ~(avail = 0 \/ in.decoding = "parked") /\ waits
  <2>1. input' = in /\ mark' = IF looks THEN NextMark(in, from) ELSE m
    BY ONLY <1>1, <1>7, Zenon
  <2>2. /\ from \in Nat /\ p + 2 \in Nat
        /\ from <= Max({Len(x) - 1, p + 2})
        /\ \A i \in (p + 2)..(from - 1) : ~EndsAt(x, i)
    <3>1. p + 2 \in Nat /\ Len(x) - 1 \in Int /\ p + 2 \in Int
      BY <1>3
    <3>2. Max({Len(x) - 1, p + 2}) = IF Len(x) - 1 >= p + 2 THEN Len(x) - 1 ELSE p + 2
      BY ONLY <3>1, MaxOfTwo
    <3>3. CASE Valid(m, in)
      <4>1. m # NoMark /\ from = m
        BY <3>3, Zenon DEF Valid, from
      <4> QED
        BY ONLY <1>4, <3>1, <4>1
    <3>4. CASE ~Valid(m, in)
      <4>1. from = p + 2
        BY <3>4, Zenon DEF from, p
      <4>2. from <= Max({Len(x) - 1, p + 2})
        BY ONLY <1>3, <3>2, <4>1
      <4> QED
        BY ONLY <1>3, <3>1, <4>1, <4>2
    <3> QED
      BY <3>3, <3>4
  <2>3. CASE looks
    <3>1. ~HasEnd(x, from) /\ mark' = NextMark(in, from)
      <4>1. avail >= 2
        BY <2>3 DEF looks
      <4>2. ~(avail < 2)
        BY <1>3, <4>1
      <4> QED
        BY ONLY <1>7, <2>1, <2>3, <4>2, Zenon DEF waits, x
    <3>2. \A i \in from..(Len(x) - 2) : ~EndsAt(x, i)
      BY <3>1, Zenon DEF HasEnd
    <3>3. \A i \in (p + 2)..(Len(x) - 2) : ~EndsAt(x, i)
      <4> SUFFICES ASSUME NEW i \in (p + 2)..(Len(x) - 2)
                   PROVE  ~EndsAt(x, i)
        OBVIOUS
      <4>1. i \in (p + 2)..(from - 1) \/ i \in from..(Len(x) - 2)
        BY <1>3, <2>2
      <4> QED
        BY ONLY <2>2, <3>2, <4>1
    <3>4. ~HasEnd(x, p + 2)
      BY <3>3, Zenon DEF HasEnd
    <3>5. MarkOK(in, mark')
      <4>1. mark' = IF Len(x) - 1 >= from THEN Len(x) - 1 ELSE from
        <5>1. NextMark(in, from) = Max({Len(x) - 1, from})
          BY Zenon DEF NextMark, x
        <5>2. Len(x) - 1 \in Int /\ from \in Int
          BY <1>3, <2>2
        <5>3. Max({Len(x) - 1, from}) = IF Len(x) - 1 >= from THEN Len(x) - 1 ELSE from
          BY ONLY <5>2, MaxOfTwo
        <5> QED
          BY ONLY <3>1, <5>1, <5>3
      <4>2. Max({Len(x) - 1, p + 2}) = IF Len(x) - 1 >= p + 2 THEN Len(x) - 1 ELSE p + 2
        <5>1. Len(x) - 1 \in Int /\ p + 2 \in Int
          BY <1>3
        <5> QED
          BY ONLY <5>1, MaxOfTwo
      <4>3. mark' <= Max({Len(x) - 1, p + 2})
        BY ONLY <1>3, <2>2, <4>1, <4>2
      <4>4. ASSUME NEW i \in (p + 2)..(mark' - 1)
            PROVE  ~EndsAt(x, i)
        <5>1. i \in (p + 2)..(from - 1) \/ i \in (p + 2)..(Len(x) - 2)
          BY ONLY <1>3, <2>2, <4>1, <4>4
        <5> QED
          BY ONLY <2>2, <3>3, <5>1
      <4> QED
        BY ONLY <4>3, <4>4, Zenon DEF MarkOK, x, p
    <3> QED
      BY ONLY <2>1, <3>4, <3>5, Zenon DEF x, p
  <2>4. CASE ~looks
    <3>1. mark' = m
      BY ONLY <2>1, <2>4, Zenon
    <3>2. avail < 2
      BY ONLY <1>7, <2>4, Zenon DEF waits
    <3>3. ~begins
      BY <1>3, <1>5, <3>2
    <3> QED
      BY ONLY <2>1, <3>1, <3>3, MarkOK(in, m), Zenon DEF begins
  <2> QED
    BY <2>3, <2>4
<1>8. CASE ~(avail = 0 \/ in.decoding = "parked") /\ ~waits
  <2>1. phase' = "content" /\ mark' = NoMark
    BY ONLY <1>1, <1>8, Zenon
  <2>2. MarkOK(input', mark')
    BY ONLY <2>1, Zenon DEF MarkOK
  <2>3. phase' # "xml_decl"
    BY ONLY <2>1
  <2> QED
    BY ONLY <2>2, <2>3, Zenon
<1> QED
  BY <1>6, <1>7, <1>8

LEMMA InitMark ==
  ASSUME Init
  PROVE  Mark
<1>1. phase = "start" /\ mark = NoMark
  BY Zenon DEF Init
<1>2. MarkOK(input, mark)
  BY <1>1, Zenon DEF MarkOK
<1>3. phase # "xml_decl"
  BY <1>1
<1> QED
  BY <1>2, <1>3, Zenon DEF Mark, WaitsOnlyForTheEnd

LEMMA NextKeepsMark ==
  ASSUME Unmarked, Defined, EscapesBehind, IInv, Mark, [Next]_vars
  PROVE  Mark'
<1>1. CASE UNCHANGED vars
  BY <1>1 DEF Mark, WaitsOnlyForTheEnd, MarkOK, vars
<1>2. ASSUME ~fatal, NEW n \in 0..MaxChunk, NEW terminate \in BOOLEAN, Call(n, terminate)
      PROVE  Mark'
  <2> DEFINE in == PushBytes(input, SubSeq(source, received + 1, received + n), terminate)
             m == IF in.pos < input.pos THEN NoMark ELSE mark
  <2>1. n \in Nat
    BY InputConstants
  <2> HIDE DEF in, m
  <2>2. /\ Looks(in, m, terminate)
        /\ Pushes(input, received, received + n, closed, terminate, in)
        /\ IF in.invalid THEN Refuse(in, m) ELSE Drive(in, m, terminate)
    BY ONLY <1>2, <2>1, Unmarked, Defined, IInv, CallIs DEF in, m
  <2>3. CASE in.invalid
    <3>1. fatal' = TRUE
      BY <2>2, <2>3, Zenon DEF Refuse
    <3> QED
      BY <3>1 DEF Mark, WaitsOnlyForTheEnd
  <2>4. CASE ~in.invalid
    <3>1. MarkOK(input, mark)
      BY <1>2, Zenon DEF Mark
    <3>2. n <= Len(source) - received
      BY <1>2, Zenon DEF Call
    <3>3. MarkOK(in, m)
      BY ONLY <1>2, <2>1, <2>2, <2>4, <3>1, <3>2, Defined, Unmarked, EscapesBehind, IInv,
         PushKeepsMark DEF m
    <3>4. /\ MarkOK(input', mark')
          /\ phase' = "xml_decl" /\ IsPrefix(Raw(<<"3C", "3F">>), Rest(input'))
               => ~HasEnd(input'.data, input'.pos + 2)
      BY ONLY <1>2, <2>2, <2>4, <3>3, DriveKeepsMark
    <3> QED
      BY ONLY <3>4, Zenon DEF Mark, WaitsOnlyForTheEnd, MarkOK, Rest
  <2> QED
    BY <2>3, <2>4
<1> QED
  BY <1>1, <1>2, Zenon DEF Next

-----------------------------------------------------------------------------

\* A parser that waits for the end of what may be a declaration has not passed
\* over it, also when the text was built anew since it began to wait.
THEOREM WaitsForTheEnd ==
  ASSUME Unmarked, Defined, EscapesBehind
  PROVE  Spec => []WaitsOnlyForTheEnd
<1>1. Init => Mark
  BY InitMark
<1>2. IInv /\ Mark /\ [Next]_vars => Mark'
  BY NextKeepsMark
<1>3. Mark => WaitsOnlyForTheEnd
  BY Zenon DEF Mark
<1> QED
  BY <1>1, <1>2, <1>3, InputInvariant, PTL DEF Spec
=============================================================================
