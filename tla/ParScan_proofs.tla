---------------------------- MODULE ParScan_proofs ----------------------------
(* What the parallel scanner answers about runs and about UTF-8, for every   *)
(* document, every size of block and every number of threads.                *)
EXTENDS ParScan, FiniteSetTheorems, SequenceTheorems, TLAPS

-----------------------------------------------------------------------------
(* Runs *)

\* All bytes from one position up to another may be in a run of a class.
CleanOn(class, from, to) == \A k \in from..(to - 1) : input[k + 1] \in Clean[class]

LEMMA MinFacts ==
  ASSUME NEW S \in SUBSET Nat, S # {}
  PROVE  Min(S) \in S /\ \A x \in S : Min(S) <= x
<1> DEFINE Below == {0..n : n \in S}
<1>1. IsWellFoundedOn(StrictSubsetOrdering(Nat), FiniteSubsetsOf(Nat))
  BY FS_StrictSubsetOrderingWellFounded
<1>2. Below \subseteq FiniteSubsetsOf(Nat) /\ Below # {}
  <2>1. \A n \in S : 0..n \in FiniteSubsetsOf(Nat)
    BY FS_Interval DEF FiniteSubsetsOf
  <2> QED  BY <2>1, Zenon
<1>3. PICK n \in S : \A m \in S : <<0..m, 0..n>> \notin StrictSubsetOrdering(Nat)
  <2>1. \E x \in Below : \A y \in Below : <<y, x>> \notin StrictSubsetOrdering(Nat)
    BY <1>1, <1>2, WFMin
  <2> QED  BY <2>1
<1>4. ASSUME NEW m \in S, m < n  PROVE FALSE
  <2>1. 0..m \in SUBSET Nat /\ 0..n \in SUBSET Nat /\ 0..m \subseteq 0..n
    BY <1>4
  <2>2. n \in 0..n /\ n \notin 0..m
    BY <1>4
  <2>3. <<0..m, 0..n>> \in StrictSubsetOrdering(Nat)
    BY <2>1, <2>2 DEF StrictSubsetOrdering
  <2> QED  BY <1>3, <2>3
<1>5. \A m \in S : n <= m
  BY <1>4
<1> QED  BY <1>5 DEF Min

LEMMA LeastOfTwo ==
  ASSUME NEW a \in Nat, NEW b \in Nat
  PROVE  Min({a, b}) = IF a <= b THEN a ELSE b
  BY MinFacts

LEMMA MostOfTwo ==
  ASSUME NEW a \in Nat, NEW b \in Nat
  PROVE  Max({a, b}) = IF a <= b THEN b ELSE a
<1>1. \E x \in {a, b} : \A y \in {a, b} : x >= y
  OBVIOUS
<1> QED  BY <1>1 DEF Max

\* The first byte that ends a run, if there is one.
LEMMA FindFacts ==
  ASSUME NEW class, NEW from \in Nat, NEW to \in Nat, NEW f, f = Find(class, from, to)
  PROVE  \/ f = NoHit /\ CleanOn(class, from, to)
         \/ /\ f \in Nat /\ f # NoHit /\ from + f < to
            /\ CleanOn(class, from, from + f) /\ input[from + f + 1] \notin Clean[class]
<1> DEFINE ends == {k \in from..(to - 1) : input[k + 1] \notin Clean[class]}
<1>1. CASE ends = {}
  BY <1>1 DEF Find, CleanOn
<1>2. CASE ends # {}
  <2>1. ends \in SUBSET Nat
    OBVIOUS
  <2>2. Min(ends) \in ends /\ \A x \in ends : Min(ends) <= x
    BY <1>2, <2>1, MinFacts
  <2>3. Find(class, from, to) = Min(ends) - from
    BY <1>2 DEF Find
  <2>4. f \in Nat /\ from + f = Min(ends)
    BY <2>2, <2>3
  <2>5. CleanOn(class, from, Min(ends))
    BY <2>2 DEF CleanOn
  <2>6. f # NoHit
    BY <2>4, ScanConstants
  <2>7. Min(ends) < to /\ input[Min(ends) + 1] \notin Clean[class]
    BY <2>2
  <2> QED  BY <2>4, <2>5, <2>6, <2>7
<1> QED  BY <1>1, <1>2

\* A run is told by its length: clean up to there, and there ended.
LEMMA RunFacts ==
  ASSUME NEW class, NEW from \in Nat, NEW to \in Nat, NEW r \in Nat, from + r <= to,
         CleanOn(class, from, from + r),
         from + r = to \/ input[from + r + 1] \notin Clean[class]
  PROVE  RunIn(class, from, to) = r
<1> DEFINE f == Find(class, from, to)
<1>1. CASE f = NoHit
  <2>1. CleanOn(class, from, to)
    BY <1>1, FindFacts, ScanConstants
  <2>2. from + r = to
    BY <2>1 DEF CleanOn
  <2> QED  BY <1>1, <2>2 DEF RunIn
<1>2. CASE f # NoHit
  <2>1. /\ f \in Nat /\ from + f < to
        /\ CleanOn(class, from, from + f) /\ input[from + f + 1] \notin Clean[class]
    BY <1>2, FindFacts
  <2>2. ~(r < f) /\ ~(f < r)
    BY <2>1 DEF CleanOn
  <2>3. f = r
    BY <2>1, <2>2
  <2> QED  BY <1>2, <2>3 DEF RunIn
<1> QED  BY <1>1, <1>2

\* The same, of a run that goes on where another left off.
LEMMA Longer ==
  ASSUME NEW class, NEW from \in Nat, NEW mid \in Nat, NEW to \in Nat,
         CleanOn(class, from, mid), CleanOn(class, mid, to)
  PROVE  CleanOn(class, from, to)
  BY DEF CleanOn

-----------------------------------------------------------------------------
(* Blocks of one size *)

LEMMA DivFacts ==
  ASSUME NEW a \in Nat, NEW b \in Nat \ {0}
  PROVE  /\ a \div b \in Nat /\ a % b \in 0..(b - 1)
         /\ a = b * (a \div b) + (a % b)
  OBVIOUS

\* How many blocks there are.
Blocks(from, to, size) == (to - from + size - 1) \div size

LEMMA BlocksFacts ==
  ASSUME NEW from \in Nat, NEW to \in Nat, from < to, NEW size \in Nat \ {0},
         NEW n, n = Blocks(from, to, size)
  PROVE  n \in Nat \ {0} /\ from + (n - 1) * size < to /\ to <= from + n * size
<1> DEFINE a == to - from + size - 1
<1>1. a \in Nat
  OBVIOUS
<1>2. n \in Nat /\ a % size \in 0..(size - 1) /\ a = size * n + (a % size)
  BY <1>1, DivFacts DEF Blocks
<1>3. size * n = n * size /\ (n - 1) * size = n * size - size /\ n * size \in Nat
  BY <1>2
<1>4. to - from <= n * size /\ n * size - size < to - from
  BY <1>1, <1>2, <1>3
<1>5. n # 0
  <2>1. n = 0 => n * size = 0
    BY <1>2
  <2> QED  BY <2>1, <1>4
<1> QED  BY <1>2, <1>3, <1>4, <1>5

\* Blocks follow each other without a gap, from end to end.
Tiles(s, n, from, to, size) ==
  /\ s \in Seq(Nat) /\ Len(s) = n /\ DOMAIN s = 1..n /\ n \in Nat \ {0} /\ s[1] = from
  /\ \A i \in 1..n : s[i] \in Nat /\ from <= s[i] /\ s[i] < to
  /\ \A i \in 1..(n - 1) : s[i + 1] = s[i] + size /\ s[i] + size < to
  /\ to <= s[n] + size
  /\ \A i, j \in 1..n : i < j => s[i] + size <= s[j]

LEMMA EvenFacts ==
  ASSUME NEW from \in Nat, NEW to \in Nat, from < to, NEW size \in Nat \ {0}
  PROVE  Tiles(Even(from, to, size), Blocks(from, to, size), from, to, size)
<1> DEFINE s == Even(from, to, size)
           n == Blocks(from, to, size)
<1>1. n \in Nat \ {0} /\ from + (n - 1) * size < to /\ to <= from + n * size
  BY BlocksFacts
<1>2. s = [i \in 1..n |-> from + (i - 1) * size]
  BY DEF Even, Blocks
<1>3. ASSUME NEW i \in 1..n
      PROVE  s[i] = from + (i - 1) * size /\ s[i] \in Nat /\ from <= s[i] /\ s[i] < to
  <2>1. (i - 1) * size \in Nat /\ (i - 1) * size <= (n - 1) * size
    BY <1>1
  <2>2. s[i] = from + (i - 1) * size
    BY <1>2
  <2>3. (n - 1) * size \in Nat
    BY <1>1
  <2>4. \A x, y \in Nat : x <= y /\ from + y < to =>
          from + x \in Nat /\ from <= from + x /\ from + x < to
    OBVIOUS
  <2> QED  BY <1>1, <2>1, <2>2, <2>3, <2>4
<1>4. s \in Seq(Nat) /\ Len(s) = n /\ DOMAIN s = 1..n
  <2>1. s \in [1..n -> Nat]
    BY <1>2, <1>3
  <2>2. s \in Seq(Nat)
    BY <1>1, <2>1, SeqDef
  <2>3. DOMAIN s = 1..n
    BY <2>1
  <2> QED  BY <1>1, <2>2, <2>3, LenProperties
<1>5. s[1] = from
  BY <1>1, <1>3
<1>6. ASSUME NEW i \in 1..(n - 1)  PROVE s[i + 1] = s[i] + size /\ s[i] + size < to
  <2>1. i \in 1..n /\ i + 1 \in 1..n /\ ((i + 1) - 1) * size = (i - 1) * size + size
    BY <1>1
  <2>2. s[i + 1] = from + (i * size) /\ s[i] = from + (i - 1) * size /\ s[i + 1] < to
    BY <1>3, <2>1
  <2>3. i * size = (i - 1) * size + size /\ (i - 1) * size \in Nat
    BY <2>1
  <2>4. s[i + 1] = s[i] + size
    BY <2>2, <2>3
  <2> QED  BY <2>2, <2>4
<1>7. to <= s[n] + size
  <2>1. n * size = (n - 1) * size + size /\ (n - 1) * size \in Nat
    BY <1>1
  <2>2. s[n] = from + (n - 1) * size
    BY <1>1, <1>3
  <2>3. s[n] + size = from + n * size
    BY <2>1, <2>2
  <2> QED  BY <1>1, <2>3
<1>8. ASSUME NEW i \in 1..n, NEW j \in 1..n, i < j  PROVE s[i] + size <= s[j]
  <2>1. (i - 1) * size \in Nat /\ (j - 1) * size \in Nat /\ i * size = (i - 1) * size + size
    OBVIOUS
  <2>2. i * size <= (j - 1) * size
    BY <1>8
  <2> QED  BY <1>3, <2>1, <2>2
<1> QED  BY <1>1, <1>3, <1>4, <1>5, <1>6, <1>7, <1>8 DEF Tiles

\* A block begins at a multiple of the size.
LEMMA EvenPlaces ==
  ASSUME NEW from, NEW to, NEW size, NEW i \in 1..Blocks(from, to, size)
  PROVE  Even(from, to, size)[i] = from + (i - 1) * size
  BY DEF Even, Blocks

\* Every position is in one of them.
LEMMA EvenCovers ==
  ASSUME NEW from \in Nat, NEW to \in Nat, from < to, NEW size \in Nat \ {0},
         NEW k \in from..(to - 1)
  PROVE  \E i \in DOMAIN Even(from, to, size) :
           Even(from, to, size)[i] <= k /\ k < Even(from, to, size)[i] + size
<1> DEFINE n == Blocks(from, to, size)
           q == (k - from) \div size
           s == Even(from, to, size)
<1>1. q \in Nat /\ q * size <= k - from /\ k - from < q * size + size
  <2>1. k - from \in Nat
    OBVIOUS
  <2>2. q \in Nat /\ (k - from) % size \in 0..(size - 1) /\ k - from = size * q + ((k - from) % size)
    BY <2>1, DivFacts
  <2> QED  BY <2>1, <2>2
<1>2. n \in Nat \ {0} /\ to <= from + n * size
  BY BlocksFacts
<1>3. q + 1 \in 1..n
  <2>1. SUFFICES ASSUME n <= q  PROVE FALSE
    BY <1>1, <1>2
  <2>2. n * size <= q * size
    BY <1>1, <1>2, <2>1
  <2> QED  BY <1>1, <1>2, <2>2
<1>4. q + 1 \in DOMAIN s /\ s[q + 1] = from + ((q + 1) - 1) * size
  <2>1. DOMAIN s = 1..n
    BY EvenFacts DEF Tiles
  <2> QED  BY <1>3, <2>1, EvenPlaces
<1>5. s[q + 1] = from + q * size
  BY <1>1, <1>4
<1>6. s[q + 1] <= k /\ k < s[q + 1] + size
  BY <1>1, <1>5
<1> QED  BY <1>4, <1>6

\* The same, of the blocks of the index.
LEMMA CoarseFacts ==
  ASSUME have \in Nat \ {0}, NEW s, s = Even(0, have, Coarse), NEW n, n = Blocks(0, have, Coarse)
  PROVE  /\ Coarse \in Nat \ {0} /\ Tiles(s, n, 0, have, Coarse)
         /\ \A i \in 1..n : s[i] = (i - 1) * Coarse
         /\ have <= n * Coarse
<1>1. 0 \in Nat /\ have \in Nat /\ 0 < have /\ Coarse \in Nat \ {0}
  BY ScanConstants
<1>2. Tiles(s, n, 0, have, Coarse)
  BY <1>1, EvenFacts
<1>3. ASSUME NEW i \in 1..n  PROVE s[i] = (i - 1) * Coarse
  <2>1. n \in Nat
    BY <1>2 DEF Tiles
  <2>2. s[i] = 0 + (i - 1) * Coarse
    BY EvenPlaces
  <2>3. (i - 1) * Coarse \in Nat
    BY <1>1, <2>1
  <2> QED  BY <2>2, <2>3
<1>4. have <= n * Coarse
  <2>1. n \in Nat /\ have <= 0 + n * Coarse
    BY <1>1, BlocksFacts
  <2>2. n * Coarse \in Nat
    BY <1>1, <2>1
  <2> QED  BY <2>1, <2>2
<1> QED  BY <1>1, <1>2, <1>3, <1>4

-----------------------------------------------------------------------------
(* The index *)

\* Where a block of the index ends
CoarseEnd(i) == Min({Even(0, have, Coarse)[i] + Coarse, have})

\* What the index says of a block is so.
LEMMA IndexFacts ==
  ASSUME IndexIsCurrent, HasIndex, have \in Nat, have > 0,
         NEW class \in Class, NEW i \in 1..Len(index), NEW e, e = index[i][class],
         NEW s, s = Even(0, have, Coarse)
  PROVE  /\ Len(index) = Blocks(0, have, Coarse)
         /\ s[i] = (i - 1) * Coarse /\ s[i] \in Nat /\ s[i] < have
         /\ CoarseEnd(i) = IF s[i] + Coarse <= have THEN s[i] + Coarse ELSE have
         /\ \/ e = NoHit /\ CleanOn(class, s[i], CoarseEnd(i))
            \/ /\ e \in Nat /\ e # NoHit /\ s[i] + e < CoarseEnd(i)
               /\ CleanOn(class, s[i], s[i] + e) /\ input[s[i] + e + 1] \notin Clean[class]
<1> DEFINE n == Blocks(0, have, Coarse)
<1>1. Coarse \in Nat \ {0}
  BY ScanConstants
<1>2. /\ DOMAIN s = 1..n /\ n \in Nat
      /\ \A j \in 1..n : s[j] = (j - 1) * Coarse /\ s[j] \in Nat /\ s[j] < have
      /\ s \in Seq(Nat) /\ Len(s) = n
  <2>1. have \in Nat \ {0}
    OBVIOUS
  <2>2. Tiles(s, n, 0, have, Coarse) /\ \A j \in 1..n : s[j] = (j - 1) * Coarse
    BY <2>1, CoarseFacts
  <2> QED  BY <2>2 DEF Tiles
<1>3. index = [j \in 1..n |-> [c \in Class |-> Find(c, s[j], CoarseEnd(j))]]
  BY <1>2 DEF IndexIsCurrent, CoarseEnd
<1>4. Len(index) = n
  BY <1>2, <1>3
<1>5. i \in 1..n /\ s[i] = (i - 1) * Coarse /\ s[i] \in Nat /\ s[i] < have
  BY <1>1, <1>2, <1>4
<1>6. CoarseEnd(i) = (IF s[i] + Coarse <= have THEN s[i] + Coarse ELSE have) /\ CoarseEnd(i) \in Nat
  BY <1>1, <1>5, LeastOfTwo DEF CoarseEnd
<1>7. e = Find(class, s[i], CoarseEnd(i))
  BY <1>3, <1>5
<1> QED  BY <1>4, <1>5, <1>6, <1>7, FindFacts

\* The block a position is in
LEMMA PlaceFacts ==
  ASSUME have \in Nat, NEW off \in 0..(have - 1), NEW bi, bi = off \div Coarse + 1,
         NEW s, s = Even(0, have, Coarse)
  PROVE  /\ bi \in 1..Blocks(0, have, Coarse)
         /\ s[bi] \in Nat /\ s[bi] <= off /\ off < s[bi] + Coarse
         /\ off % Coarse = off - s[bi]
<1> DEFINE n == Blocks(0, have, Coarse)
           q == off \div Coarse
<1>1. Coarse \in Nat \ {0} /\ have > 0
  BY ScanConstants
<1>2. q \in Nat /\ off % Coarse \in 0..(Coarse - 1) /\ off = Coarse * q + (off % Coarse)
  <2>1. off \in Nat
    OBVIOUS
  <2> QED  BY <1>1, <2>1, DivFacts
<1>3. q * Coarse = Coarse * q /\ q * Coarse \in Nat /\ q * Coarse <= off /\ off < q * Coarse + Coarse
  BY <1>1, <1>2
<1>4. n \in Nat \ {0} /\ have <= n * Coarse
  BY <1>1, CoarseFacts DEF Tiles
<1>5. bi \in 1..n
  <2>1. SUFFICES ASSUME n <= q  PROVE FALSE
    BY <1>2, <1>4
  <2>2. n * Coarse <= q * Coarse /\ n * Coarse \in Nat
    BY <1>1, <1>2, <1>4, <2>1
  <2>3. off < have /\ off \in Nat
    OBVIOUS
  <2> HIDE DEF q
  <2> QED  BY <1>3, <1>4, <2>2, <2>3
<1>6. s[bi] = q * Coarse
  <2>1. s[bi] = (bi - 1) * Coarse
    BY <1>1, <1>5, CoarseFacts
  <2>2. bi - 1 = q
    BY <1>2
  <2> QED  BY <1>3, <2>1, <2>2
<1> QED  BY <1>2, <1>3, <1>5, <1>6

\* What a sequential scan from a position on would answer
IsRun(class, from, r) ==
  /\ r \in Nat /\ from + r <= have
  /\ CleanOn(class, from, from + r)
  /\ from + r = have \/ input[from + r + 1] \notin Clean[class]

LEMMA IsRunFacts ==
  ASSUME have \in Nat, NEW class, NEW from \in Nat, from <= have, NEW r
  PROVE  /\ IsRun(class, from, r) => r = RunIn(class, from, have) /\ r # NoHit
         /\ IsRun(class, from, RunIn(class, from, have))
<1>1. IsRun(class, from, r) => r = RunIn(class, from, have) /\ r # NoHit
  BY RunFacts, ScanConstants DEF IsRun
<1> DEFINE f == Find(class, from, have)
<1>2. CASE f = NoHit
  <2>1. CleanOn(class, from, have)
    BY <1>2, FindFacts, ScanConstants
  <2>2. RunIn(class, from, have) = have - from
    BY <1>2 DEF RunIn
  <2>3. have - from \in Nat /\ from + (have - from) = have
    OBVIOUS
  <2> QED  BY <1>1, <2>1, <2>2, <2>3 DEF IsRun
<1>3. CASE f # NoHit
  <2>1. /\ f \in Nat /\ from + f < have
        /\ CleanOn(class, from, from + f) /\ input[from + f + 1] \notin Clean[class]
    BY <1>3, FindFacts
  <2>2. RunIn(class, from, have) = f
    BY <1>3 DEF RunIn
  <2> QED  BY <1>1, <2>1, <2>2 DEF IsRun
<1> QED  BY <1>2, <1>3

\* The index answers as a sequential scan, or not at all, and always at the
\* beginning of a block.
LEMMA RunLenFacts ==
  ASSUME IndexIsCurrent, HasIndex, have \in Nat, NEW class \in Class,
         NEW off \in 0..(have - 1), NEW r, r = RunLen(class, off)
  PROVE  (r = NoHit /\ off % Coarse # 0) \/ IsRun(class, off, r)
<1> DEFINE s == Even(0, have, Coarse)
           n == Blocks(0, have, Coarse)
           bi == off \div Coarse + 1
           later == {j \in (bi + 1)..Len(index) : index[j][class] # NoHit}
<1>1. have > 0 /\ have \in Nat \ {0} /\ off \in Nat /\ off < have
  OBVIOUS
<1>2. Coarse \in Nat \ {0} /\ Tiles(s, n, 0, have, Coarse)
  BY <1>1, CoarseFacts
<1>3. /\ bi \in 1..n /\ s[bi] \in Nat /\ s[bi] <= off /\ off < s[bi] + Coarse
      /\ off % Coarse = off - s[bi]
  BY PlaceFacts
<1>4. Len(index) = n
  <2>1. Coarse \in Nat \ {0} /\ DOMAIN s = 1..n /\ n \in Nat
    BY <1>2 DEF Tiles
  <2>2. index = [j \in 1..n |-> [c \in Class |-> Find(c, s[j], CoarseEnd(j))]]
    BY <2>1 DEF IndexIsCurrent, CoarseEnd
  <2> QED  BY <2>1, <2>2
<1> DEFINE At(i) ==
  /\ s[i] = (i - 1) * Coarse /\ s[i] \in Nat /\ s[i] < have
  /\ CoarseEnd(i) = IF s[i] + Coarse <= have THEN s[i] + Coarse ELSE have
  /\ \/ index[i][class] = NoHit /\ CleanOn(class, s[i], CoarseEnd(i))
     \/ /\ index[i][class] \in Nat /\ index[i][class] # NoHit
        /\ s[i] + index[i][class] < CoarseEnd(i)
        /\ CleanOn(class, s[i], s[i] + index[i][class])
        /\ input[s[i] + index[i][class] + 1] \notin Clean[class]
<1>5. ASSUME NEW i \in 1..n  PROVE At(i)
  BY <1>1, <1>4, IndexFacts
<1> HIDE DEF s, n, bi, later
<1>6. CASE index[bi][class] # NoHit
  <2> DEFINE e == index[bi][class]
  <2>1. /\ e \in Nat /\ s[bi] + e < have
        /\ CleanOn(class, s[bi], s[bi] + e) /\ input[s[bi] + e + 1] \notin Clean[class]
    BY <1>1, <1>2, <1>3, <1>5, <1>6
  <2>2. CASE e >= off % Coarse
    <3>1. r = e - (off - s[bi])
      BY <1>3, <1>4, <1>6, <2>2 DEF RunLen, bi
    <3>2. r \in Nat /\ off + r = s[bi] + e
      BY <1>1, <1>3, <2>1, <2>2, <3>1
    <3>3. CleanOn(class, off, s[bi] + e)
      BY <1>1, <1>3, <2>1 DEF CleanOn
    <3> QED  BY <1>1, <2>1, <3>2, <3>3 DEF IsRun
  <2>3. CASE ~(e >= off % Coarse)
    <3>1. r = NoHit
      BY <1>3, <1>4, <1>6, <2>3 DEF RunLen, bi
    <3>2. off % Coarse # 0
      BY <2>1, <2>3
    <3> QED  BY <3>1, <3>2
  <2> QED  BY <2>2, <2>3
<1>7. CASE index[bi][class] = NoHit
  <2>1. CleanOn(class, s[bi], CoarseEnd(bi))
    BY <1>3, <1>5, <1>7
  \* A position in a block of which nothing is known is in a clean one.
  <2>2. ASSUME NEW i \in 1..n, index[i][class] = NoHit,
               NEW k \in Nat, k < have, s[i] <= k, k < s[i] + Coarse
        PROVE  input[k + 1] \in Clean[class]
    <3>1. CleanOn(class, s[i], CoarseEnd(i)) /\ k < CoarseEnd(i) /\ s[i] \in Nat
      BY <1>2, <1>5, <2>2
    <3>2. CoarseEnd(i) \in Nat
      BY <1>1, <1>2, <1>5
    <3> QED  BY <2>2, <3>1, <3>2 DEF CleanOn
  <2>3. ASSUME NEW end \in Nat, end <= have,
               \A j \in (bi + 1)..n : s[j] < end => index[j][class] = NoHit
        PROVE  CleanOn(class, off, end)
    <3>1. SUFFICES ASSUME NEW k \in off..(end - 1)  PROVE input[k + 1] \in Clean[class]
      BY DEF CleanOn
    <3>2. k \in Nat /\ k < have /\ k \in 0..(have - 1) /\ k < end /\ off <= k
      BY <1>1, <2>3
    <3>3. PICK i \in 1..n : s[i] <= k /\ k < s[i] + Coarse
      BY <3>2, PlaceFacts DEF s, n
    <3>4. ~(i < bi)
      <4>1. SUFFICES ASSUME i < bi  PROVE FALSE
        OBVIOUS
      <4>2. s[i] + Coarse <= s[bi] /\ s[i] \in Nat
        BY <1>2, <1>3, <4>1 DEF Tiles
      <4> QED  BY <1>1, <1>2, <1>3, <3>2, <3>3, <4>2
    <3>5. index[i][class] = NoHit
      <4>1. s[i] < end
        BY <1>2, <3>2, <3>3 DEF Tiles
      <4>2. n \in Nat /\ bi \in Nat
        BY <1>2, <1>3 DEF Tiles
      <4>3. i = bi \/ i \in (bi + 1)..n
        BY <3>4, <4>2
      <4> QED  BY <1>7, <2>3, <4>1, <4>3
    <3> QED  BY <2>2, <3>2, <3>3, <3>5
  <2>4. CASE later = {}
    <3>1. r = have - off
      BY <1>4, <1>7, <2>4 DEF RunLen, bi, later
    <3>2. \A j \in (bi + 1)..n : index[j][class] = NoHit
      BY <1>4, <2>4 DEF later
    <3>3. CleanOn(class, off, have)
      BY <1>1, <2>3, <3>2
    <3>4. r \in Nat /\ off + r = have
      BY <1>1, <3>1
    <3> QED  BY <3>3, <3>4 DEF IsRun
  <2>5. CASE later # {}
    <3> DEFINE m == Min(later)
               e == index[m][class]
    <3>1. n \in Nat /\ bi \in Nat
      BY <1>2, <1>3 DEF Tiles
    <3>2. m \in later /\ \A j \in later : m <= j
      <4>1. later \in SUBSET Nat
        BY <1>4, <3>1 DEF later
      <4> QED  BY <2>5, <4>1, MinFacts
    <3>3. m \in (bi + 1)..n /\ m \in 1..n /\ e # NoHit
      BY <1>4, <3>1, <3>2 DEF later
    <3> HIDE DEF m
    <3>4. /\ s[m] = (m - 1) * Coarse /\ s[m] \in Nat /\ e \in Nat /\ s[m] + e < have
          /\ CleanOn(class, s[m], s[m] + e) /\ input[s[m] + e + 1] \notin Clean[class]
          /\ s[m] + e < s[m] + Coarse
      BY <1>1, <1>2, <1>5, <3>3
    <3>5. s[bi] + Coarse <= s[m]
      BY <1>2, <1>3, <3>3 DEF Tiles
    <3>6. r = s[m] + e - off
      <4>1. r = Min({have, (m - 1) * Coarse + e}) - off
        BY <1>4, <1>7, <2>5 DEF RunLen, bi, later, m
      <4>2. (m - 1) * Coarse + e = s[m] + e /\ s[m] + e \in Nat
        BY <3>4
      <4>3. Min({have, s[m] + e}) = s[m] + e
        BY <1>1, <3>4, <4>2, LeastOfTwo
      <4>4. Min({have, (m - 1) * Coarse + e}) = s[m] + e
        BY <4>2, <4>3, Zenon
      <4> DEFINE least == Min({have, (m - 1) * Coarse + e})
      <4> HIDE DEF least
      <4>5. r = least - off /\ least = s[m] + e
        BY <4>1, <4>4 DEF least
      <4>6. s[m] \in Nat /\ e \in Nat
        BY <3>4
      <4> HIDE DEF e
      <4> QED  BY <4>5, <4>6
    <3>7. r \in Nat /\ off + r = s[m] + e
      BY <1>1, <1>2, <1>3, <3>4, <3>5, <3>6
    <3>8. ASSUME NEW j \in (bi + 1)..n, s[j] < s[m]  PROVE index[j][class] = NoHit
      <4>1. SUFFICES ASSUME j \in later  PROVE FALSE
        BY <1>4 DEF later
      <4>2. m # j
        BY <3>4, <3>8
      <4>3. m <= j
        BY <3>2, <4>1, Zenon
      <4>4. j \in 1..n /\ m \in 1..n /\ m < j
        BY <3>1, <3>3, <4>2, <4>3
      <4>5. s[m] + Coarse <= s[j] /\ s[j] \in Nat
        BY <1>2, <4>4 DEF Tiles
      <4> QED  BY <1>2, <3>4, <3>8, <4>5
    <3>9. CleanOn(class, off, s[m])
      BY <2>3, <3>4, <3>8
    <3>10. CleanOn(class, off, s[m] + e)
      BY <1>1, <3>4, <3>9, Longer
    <3> QED  BY <3>4, <3>7, <3>10 DEF IsRun
  <2> QED  BY <2>4, <2>5
<1> QED  BY <1>6, <1>7

LEMMA MultipleFacts ==
  ASSUME NEW k \in Nat, NEW b \in Nat \ {0}
  PROVE  (k * b) % b = 0
<1> DEFINE a == k * b
           d == a \div b
<1>1. a \in Nat
  OBVIOUS
<1>2. d \in Nat /\ a % b \in 0..(b - 1) /\ a = b * d + (a % b)
  BY <1>1, DivFacts
<1>3. ~(k < d)
  <2>1. SUFFICES ASSUME k < d  PROVE FALSE
    OBVIOUS
  <2>2. PICK x \in Nat : d = k + x + 1
    BY <1>2, <2>1
  <2>3. b * d = b * k + b * x + b /\ b * x \in Nat /\ b * k = a
    BY <2>2
  <2> QED  BY <1>1, <1>2, <2>3
<1>4. ~(d < k)
  <2>1. SUFFICES ASSUME d < k  PROVE FALSE
    OBVIOUS
  <2>2. PICK x \in Nat : k = d + x + 1
    BY <1>2, <2>1
  <2>3. b * k = b * d + b * x + b /\ b * x \in Nat /\ b * k = a
    BY <1>2, <2>2
  <2> QED  BY <1>1, <1>2, <2>3
<1>5. k = d
  BY <1>2, <1>3, <1>4
<1>6. a = b * d
  BY <1>5
<1> QED  BY <1>1, <1>2, <1>6

\* What the index cannot tell of the block the cursor is in, a scan does.
LEMMA RunLenIndexedFacts ==
  ASSUME IndexIsCurrent, HasIndex, have \in Nat, pos \in 0..(have - 1), NEW class \in Class
  PROVE  IsRun(class, pos, RunLenIndexed(class))
<1> DEFINE q == pos \div Coarse
           next == (q + 1) * Coarse
           blockEnd == Min({next, have})
           local == Find(class, pos, blockEnd)
<1>1. Coarse \in Nat \ {0} /\ pos \in Nat /\ pos < have
  BY ScanConstants
<1>2. q + 1 \in Nat /\ next \in Nat /\ pos < next
  <2>1. q \in Nat /\ pos % Coarse \in 0..(Coarse - 1) /\ pos = Coarse * q + (pos % Coarse)
    BY <1>1, DivFacts
  <2>2. next = Coarse * q + Coarse /\ next \in Nat
    BY <1>1, <2>1
  <2> QED  BY <1>1, <2>1, <2>2
<1>3. /\ blockEnd \in Nat /\ pos < blockEnd /\ blockEnd <= have
      /\ blockEnd # have => blockEnd = next
  <2>1. blockEnd = IF next <= have THEN next ELSE have
    BY <1>2, LeastOfTwo
  <2> QED  BY <1>1, <1>2, <2>1
<1>4. next % Coarse = 0
  BY <1>1, <1>2, MultipleFacts
<1>5. RunLenIndexed(class) =
        IF RunLen(class, pos) # NoHit THEN RunLen(class, pos)
        ELSE IF local # NoHit THEN local
        ELSE IF blockEnd = have THEN have - pos
        ELSE blockEnd - pos + RunLen(class, blockEnd)
  BY DEF RunLenIndexed
<1> HIDE DEF next, blockEnd
<1>6. CASE RunLen(class, pos) # NoHit
  BY <1>5, <1>6, RunLenFacts
<1>7. CASE RunLen(class, pos) = NoHit /\ local # NoHit
  <2>1. /\ local \in Nat /\ pos + local < blockEnd
        /\ CleanOn(class, pos, pos + local) /\ input[pos + local + 1] \notin Clean[class]
    BY <1>1, <1>3, <1>7, FindFacts
  <2>2. RunLenIndexed(class) = local
    BY <1>5, <1>7
  <2>3. pos + local <= have
    BY <1>1, <1>3, <2>1
  <2> QED  BY <2>1, <2>2, <2>3 DEF IsRun
<1>8. CASE RunLen(class, pos) = NoHit /\ local = NoHit
  <2>1. CleanOn(class, pos, blockEnd)
    BY <1>1, <1>3, <1>8, FindFacts, ScanConstants
  <2>2. CASE blockEnd = have
    <3>1. RunLenIndexed(class) = have - pos
      BY <1>5, <1>8, <2>2
    <3>2. have - pos \in Nat /\ pos + (have - pos) = have
      BY <1>1
    <3> QED  BY <2>1, <2>2, <3>1, <3>2 DEF IsRun
  <2>3. CASE blockEnd # have
    <3> DEFINE r == RunLen(class, blockEnd)
    <3>1. blockEnd \in 0..(have - 1) /\ blockEnd % Coarse = 0
      BY <1>3, <1>4, <2>3
    <3>2. IsRun(class, blockEnd, r)
      BY <3>1, RunLenFacts
    <3>3. RunLenIndexed(class) = blockEnd - pos + r
      BY <1>5, <1>8, <2>3
    <3> HIDE DEF r
    <3>4. r \in Nat /\ blockEnd + r <= have /\ CleanOn(class, blockEnd, blockEnd + r)
          /\ (blockEnd + r = have \/ input[blockEnd + r + 1] \notin Clean[class])
      BY <3>2 DEF IsRun
    <3>5. CleanOn(class, pos, blockEnd + r)
      BY <1>1, <1>3, <2>1, <3>4, Longer
    <3>6. blockEnd - pos + r \in Nat /\ pos + (blockEnd - pos + r) = blockEnd + r
      BY <1>1, <1>3, <3>4
    <3> QED  BY <3>3, <3>4, <3>5, <3>6 DEF IsRun
  <2> QED  BY <2>2, <2>3
<1> QED  BY <1>6, <1>7, <1>8

-----------------------------------------------------------------------------
(* The work of the pool *)

\* Where a block ends
Bound(s, i, to) == IF i < Len(s) THEN s[i + 1] ELSE to

LEMMA BoundFacts ==
  ASSUME NEW s, NEW n, NEW from \in Nat, NEW to \in Nat, NEW size \in Nat \ {0},
         Tiles(s, n, from, to, size), NEW i \in 1..n
  PROVE  /\ s[i] \in Nat /\ from <= s[i] /\ s[i] < Bound(s, i, to)
         /\ Bound(s, i, to) \in Nat /\ Bound(s, i, to) <= to
         /\ Bound(s, i, to) = IF s[i] + size <= to THEN s[i] + size ELSE to
<1>1. /\ n \in Nat /\ Len(s) = n /\ s[i] \in Nat /\ from <= s[i] /\ s[i] < to
      /\ i \in 1..(n - 1) => s[i + 1] = s[i] + size /\ s[i] + size < to
      /\ to <= s[n] + size
  BY DEF Tiles
<1>2. CASE i < n
  <2>1. i \in 1..(n - 1)
    BY <1>1, <1>2
  <2> QED  BY <1>1, <1>2, <2>1 DEF Bound
<1>3. CASE i = n
  BY <1>1, <1>3 DEF Bound
<1> QED  BY <1>1, <1>2, <1>3

\* Blocks that are clean up to somewhere make one clean piece.
LEMMA Covered ==
  ASSUME NEW class, NEW from \in Nat, NEW to \in Nat, from < to, NEW size \in Nat \ {0},
         NEW s, s = Even(from, to, size), NEW end \in Nat, end <= to,
         \A i \in DOMAIN s : s[i] < end => CleanOn(class, s[i], Bound(s, i, to))
  PROVE  CleanOn(class, from, end)
<1> DEFINE n == Blocks(from, to, size)
<1>1. Tiles(s, n, from, to, size)
  BY EvenFacts
<1>2. SUFFICES ASSUME NEW k \in from..(end - 1)  PROVE input[k + 1] \in Clean[class]
  BY DEF CleanOn
<1>3. k \in from..(to - 1) /\ k < end /\ k < to /\ k \in Nat
  OBVIOUS
<1>4. PICK i \in DOMAIN s : s[i] <= k /\ k < s[i] + size
  BY <1>3, EvenCovers
<1>5. i \in 1..n
  BY <1>1 DEF Tiles
<1>6. s[i] \in Nat /\ k < Bound(s, i, to) /\ Bound(s, i, to) \in Nat
  <2>1. /\ s[i] \in Nat /\ Bound(s, i, to) \in Nat
        /\ Bound(s, i, to) = IF s[i] + size <= to THEN s[i] + size ELSE to
    BY <1>1, <1>5, BoundFacts
  <2> QED  BY <1>3, <1>4, <2>1
<1>7. CleanOn(class, s[i], Bound(s, i, to))
  BY <1>3, <1>4, <1>6
<1> QED  BY <1>3, <1>4, <1>6, <1>7 DEF CleanOn

\* A wave over what follows a clean piece
IsWave(class, j) ==
  \E from, to \in Nat :
    /\ pos <= from /\ from < to /\ to <= have /\ CleanOn(class, pos, from)
    /\ j = [kind |-> "wave", starts |-> Even(from, to, Block), to |-> to]

\* An index of all there is, with the answer that is due after it
IsIndexJob(class, j) ==
  /\ final
  /\ \E then : j = IndexJob(then) /\ (then # NoHit => then = RunIn(class, pos, have))

LEMMA WaveFacts ==
  ASSUME have \in Nat, pos \in 0..(have - 1), NEW class, NEW from \in Nat,
         pos <= from, from < have, CleanOn(class, pos, from)
  PROVE  IsWave(class, Wave(from))
<1> DEFINE size == Threads * WaveMult * Block
           to == Min({from + size, have})
<1>1. size \in Nat \ {0}
  <2>1. Threads \in Nat \ {0} /\ WaveMult \in Nat \ {0} /\ Block \in Nat \ {0}
    BY ScanConstants
  <2>2. Threads * WaveMult \in Nat \ {0}
    BY <2>1
  <2> QED  BY <2>1, <2>2
<1> HIDE DEF size
<1>2. to \in Nat /\ from < to /\ to <= have
  BY <1>1, LeastOfTwo
<1>3. Wave(from) = [kind |-> "wave", starts |-> Even(from, to, Block), to |-> to]
  BY DEF Wave, size
<1> HIDE DEF to
<1> QED  BY <1>2, <1>3 DEF IsWave

-----------------------------------------------------------------------------
(* The invariant *)

CursorOK ==
  /\ have \in Nat /\ pos \in 0..have
  /\ ask \in Class \cup {"utf8", "none"}
  /\ ask \in Class => pos < have

\* What an unanswered question waits for
Pending ==
  /\ Idle => answer = NoHit
  /\ job # NoJob => answer = NoHit
  /\ ask \in Class /\ answer = NoHit /\ job = NoJob => HasIndex

JobOK ==
  \/ job = NoJob
  \/ ask \in Class /\ IsWave(ask, job)
  \/ ask \in Class /\ IsIndexJob(ask, job)
  \/ ask = "utf8" /\ job.kind = "utf8"

SlotsOK ==
  job # NoJob /\ ask \in Class =>
    \A i \in DOMAIN done :
      i \in DOMAIN job.starts /\ done[i] = Scan(job.starts[i], BlockEnd(i))

IndexOK == IndexIsCurrent /\ (HasIndex => final)

IInv == CursorOK /\ Pending /\ JobOK /\ SlotsOK /\ IndexOK /\ AnswerIsSequential

THEOREM InitIInv == Init => IInv
<1> SUFFICES ASSUME Init  PROVE IInv
  OBVIOUS
<1>1. CursorOK
  BY DEF Init, CursorOK, Class, Clean
<1>2. "none" \notin Class
  BY DEF Class, Clean
<1> QED
  BY <1>1, <1>2 DEF Init, IInv, Pending, JobOK, SlotsOK, IndexOK, IndexIsCurrent, HasIndex,
                    AnswerIsSequential, Idle

\* How a question about runs may go on: an answer that is right, or a job.
Outcome(class) ==
  \/ job' = NoJob /\ answer' = RunIn(class, pos, have)
  \/ answer' = answer /\ done' = <<>> /\ IsWave(class, job')
  \/ answer' = answer /\ done' = <<>> /\ IsIndexJob(class, job')

LEMMA AnswerOutcome ==
  ASSUME have \in Nat, pos \in 0..have, NEW class, NEW r,
         IsRun(class, pos, r), Answer(r)
  PROVE  Outcome(class)
<1>1. pos \in Nat /\ pos <= have
  OBVIOUS
<1>2. r = RunIn(class, pos, have)
  BY <1>1, IsRunFacts
<1> QED  BY <1>2 DEF Answer, Outcome

LEMMA FirstMatchOutcome ==
  ASSUME have \in Nat, pos \in 0..(have - 1), NEW class \in Class, FirstMatch(class)
  PROVE  Outcome(class)
<1> DEFINE prefix == Min({Block, have - pos})
           hit == Find(class, pos, pos + prefix)
<1>1. pos \in Nat /\ pos < have /\ pos \in 0..have /\ Block \in Nat \ {0}
  BY ScanConstants
<1>2. prefix \in Nat /\ prefix > 0 /\ pos + prefix <= have /\ pos + prefix \in Nat
  <2>1. have - pos \in Nat
    BY <1>1
  <2>2. prefix = IF Block <= have - pos THEN Block ELSE have - pos
    BY <1>1, <2>1, LeastOfTwo
  <2> QED  BY <1>1, <2>1, <2>2
<1>3. CASE ~PerCallEngages(have - pos)
  <2>1. Answer(RunIn(class, pos, have))
    BY <1>3 DEF FirstMatch
  <2>2. IsRun(class, pos, RunIn(class, pos, have))
    BY <1>1, IsRunFacts
  <2> QED  BY <1>1, <2>1, <2>2, AnswerOutcome
<1>4. CASE PerCallEngages(have - pos) /\ hit # NoHit
  <2>1. Answer(hit)
    BY <1>4 DEF FirstMatch
  <2> HIDE DEF prefix
  <2>2. /\ hit \in Nat /\ pos + hit < pos + prefix
        /\ CleanOn(class, pos, pos + hit) /\ input[pos + hit + 1] \notin Clean[class]
    BY <1>1, <1>2, <1>4, FindFacts
  <2>3. IsRun(class, pos, hit)
    BY <1>1, <1>2, <2>2 DEF IsRun
  <2> HIDE DEF hit
  <2> QED  BY <1>1, <2>1, <2>3, AnswerOutcome
<1>5. CASE PerCallEngages(have - pos) /\ hit = NoHit
  <2>1. IF pos + prefix = have THEN Answer(have - pos) ELSE Dispatch(Wave(pos + prefix))
    BY <1>5 DEF FirstMatch
  <2> HIDE DEF prefix
  <2>2. CleanOn(class, pos, pos + prefix)
    BY <1>1, <1>2, <1>5, FindFacts, ScanConstants
  <2>3. CASE pos + prefix = have
    <3>1. have - pos \in Nat /\ pos + (have - pos) = have
      BY <1>1
    <3>2. IsRun(class, pos, have - pos)
      BY <2>2, <2>3, <3>1 DEF IsRun
    <3> QED  BY <1>1, <2>1, <2>3, <3>2, AnswerOutcome
  <2>4. CASE pos + prefix # have
    <3>1. IsWave(class, Wave(pos + prefix))
      BY <1>1, <1>2, <2>2, <2>4, WaveFacts
    <3> QED  BY <2>1, <2>4, <3>1 DEF Dispatch, Outcome
  <2> QED  BY <2>3, <2>4
<1> QED  BY <1>3, <1>4, <1>5

LEMMA BuildIndexOutcome ==
  ASSUME have \in Nat, pos \in 0..(have - 1), final, NEW class \in Class, NEW then,
         then # NoHit => IsRun(class, pos, then), BuildIndex(class, then)
  PROVE  Outcome(class)
<1>1. pos \in Nat /\ pos <= have /\ pos \in 0..have
  OBVIOUS
<1>2. then # NoHit => then = RunIn(class, pos, have)
  BY <1>1, IsRunFacts
<1>3. CASE Engages(have)
  <2>1. Dispatch(IndexJob(then))
    BY <1>3 DEF BuildIndex
  <2>2. IsIndexJob(class, IndexJob(then))
    BY <1>2 DEF IsIndexJob
  <2> QED  BY <2>1, <2>2 DEF Dispatch, Outcome
<1>4. CASE ~Engages(have) /\ then # NoHit
  <2>1. Answer(then)
    BY <1>4 DEF BuildIndex
  <2> QED  BY <1>1, <1>4, <2>1, AnswerOutcome
<1>5. CASE ~Engages(have) /\ then = NoHit
  <2>1. FirstMatch(class)
    BY <1>5 DEF BuildIndex
  <2> QED  BY <2>1, FirstMatchOutcome
<1> QED  BY <1>3, <1>4, <1>5

LEMMA ExactOutcome ==
  ASSUME have \in Nat, pos \in 0..(have - 1), final, NEW class \in Class, NEW run,
         IsRun(class, pos, run), Exact(class, run)
  PROVE  Outcome(class)
<1>1. BuildIndex(class, run) \/ Answer(run)
  BY DEF Exact
<1>2. pos \in 0..have
  OBVIOUS
<1> QED  BY <1>1, <1>2, BuildIndexOutcome, AnswerOutcome

LEMMA AskRunOutcome ==
  ASSUME IInv, NEW class \in Class, AskRun(class)
  PROVE  Outcome(class)
<1> DEFINE probed == Min({Budget, have - pos})
           hit == Find(class, pos, pos + probed)
<1>1. /\ have \in Nat /\ pos \in 0..(have - 1) /\ pos \in 0..have /\ pos \in Nat /\ pos < have
      /\ have - pos \in Nat
  BY DEF IInv, CursorOK, AskRun
<1>2. CASE HasIndex
  <2>1. Answer(RunLenIndexed(class))
    BY <1>2 DEF AskRun
  <2>2. IsRun(class, pos, RunLenIndexed(class))
    BY <1>1, <1>2, RunLenIndexedFacts DEF IInv, IndexOK
  <2> QED  BY <1>1, <2>1, <2>2, AnswerOutcome
<1>3. CASE ~HasIndex /\ (class # "text" /\ mode # "off" /\ Eligible /\ ~attempted)
  <2>1. /\ final
        /\ IF hit # NoHit THEN Exact(class, hit)
           ELSE IF probed = have - pos THEN Exact(class, probed)
           ELSE BuildIndex(class, NoHit)
    BY <1>3 DEF AskRun, Eligible
  <2>2. probed \in Nat /\ pos + probed <= have /\ pos + probed \in Nat
    <3>1. Budget \in Nat
      <4>1. Ratio \in Nat \ {0} /\ Block \in Nat /\ Threshold \in Nat
        BY ScanConstants
      <4>2. have \div Ratio \in Nat
        BY <1>1, <4>1, DivFacts
      <4> DEFINE x == Max({have \div Ratio, Block})
                 y == Max({Threshold, Block})
      <4>3. x \in Nat /\ y \in Nat
        BY <4>1, <4>2, MostOfTwo
      <4>4. Budget = Min({x, y})
        BY DEF Budget
      <4> HIDE DEF x, y
      <4> QED  BY <4>3, <4>4, LeastOfTwo
    <3>2. probed = IF Budget <= have - pos THEN Budget ELSE have - pos
      BY <1>1, <3>1, LeastOfTwo
    <3> QED  BY <1>1, <3>1, <3>2
  <2> HIDE DEF probed
  <2>3. CASE hit # NoHit
    <3>1. /\ hit \in Nat /\ pos + hit < pos + probed
          /\ CleanOn(class, pos, pos + hit) /\ input[pos + hit + 1] \notin Clean[class]
      BY <1>1, <2>2, <2>3, FindFacts
    <3>2. IsRun(class, pos, hit)
      BY <1>1, <2>2, <3>1 DEF IsRun
    <3> HIDE DEF hit
    <3> QED  BY <1>1, <2>1, <2>3, <3>2, ExactOutcome
  <2>4. CASE hit = NoHit /\ probed = have - pos
    <3>1. CleanOn(class, pos, pos + probed)
      BY <1>1, <2>2, <2>4, FindFacts, ScanConstants
    <3>2. pos + probed = have
      BY <1>1, <2>2, <2>4
    <3>3. IsRun(class, pos, probed)
      BY <2>2, <3>1, <3>2 DEF IsRun
    <3> QED  BY <1>1, <2>1, <2>4, <3>3, ExactOutcome
  <2>5. CASE hit = NoHit /\ probed # have - pos
    BY <1>1, <2>1, <2>5, BuildIndexOutcome
  <2> QED  BY <2>3, <2>4, <2>5
<1>4. CASE ~HasIndex /\ ~(class # "text" /\ mode # "off" /\ Eligible /\ ~attempted)
  <2>1. Answer(RunIn(class, pos, have)) \/ FirstMatch(class)
    BY <1>4 DEF AskRun
  <2>2. IsRun(class, pos, RunIn(class, pos, have))
    BY <1>1, IsRunFacts
  <2> QED  BY <1>1, <2>1, <2>2, AnswerOutcome, FirstMatchOutcome
<1> QED  BY <1>2, <1>3, <1>4

\* The first block of a wave that holds a terminator holds the first one.
LEMMA CollectWaveOutcome ==
  ASSUME IInv, CollectWave
  PROVE  ask \in Class /\ Outcome(ask)
<1>1. /\ job # NoJob /\ job.kind = "wave" /\ DOMAIN done = DOMAIN job.starts
  BY DEF CollectWave, AllDone, NoJob
<1>2. ask \in Class /\ IsWave(ask, job)
  BY <1>1 DEF IInv, JobOK, IsIndexJob, IndexJob
<1>3. /\ have \in Nat /\ pos \in 0..(have - 1) /\ pos \in 0..have /\ pos \in Nat /\ pos < have
  BY <1>2 DEF IInv, CursorOK
<1>4. PICK from \in Nat, to \in Nat :
        /\ pos <= from /\ from < to /\ to <= have /\ CleanOn(ask, pos, from)
        /\ job = [kind |-> "wave", starts |-> Even(from, to, Block), to |-> to]
  BY <1>2 DEF IsWave
<1> DEFINE s == Even(from, to, Block)
           n == Blocks(from, to, Block)
           hits == {i \in DOMAIN done : done[i] # NoHit}
<1>5. Block \in Nat \ {0} /\ Tiles(s, n, from, to, Block)
  BY <1>4, EvenFacts, ScanConstants
<1>6. DOMAIN s = 1..n /\ DOMAIN done = 1..n /\ n \in Nat
  BY <1>1, <1>4, <1>5 DEF Tiles
<1>7. ASSUME NEW i \in 1..n
      PROVE  done[i] = Find(ask, s[i], Bound(s, i, to))
  <2>1. i \in DOMAIN done
    BY <1>6
  <2>2. done[i] = Scan(job.starts[i], BlockEnd(i))
    BY <1>1, <1>2, <2>1 DEF IInv, SlotsOK
  <2>3. BlockEnd(i) = Bound(s, i, to) /\ job.starts[i] = s[i]
    BY <1>4 DEF BlockEnd, Bound
  <2> QED  BY <1>1, <2>2, <2>3 DEF Scan
<1>8. ASSUME NEW i \in 1..n
      PROVE  /\ s[i] \in Nat /\ from <= s[i] /\ s[i] < Bound(s, i, to)
             /\ Bound(s, i, to) \in Nat /\ Bound(s, i, to) <= to
  BY <1>4, <1>5, BoundFacts
<1>9. /\ job.to = to /\ \A i \in 1..n : job.starts[i] = s[i]
      /\ IF hits # {} THEN Answer(job.starts[Min(hits)] + done[Min(hits)] - pos)
         ELSE IF to = have THEN Answer(have - pos) ELSE Dispatch(Wave(to))
  BY <1>4 DEF CollectWave, FirstHit, NextWave
<1> HIDE DEF s, n
<1>10. CASE hits = {}
  <2>1. ASSUME NEW i \in 1..n  PROVE CleanOn(ask, s[i], Bound(s, i, to))
    <3>1. Find(ask, s[i], Bound(s, i, to)) = NoHit
      BY <1>6, <1>7, <1>10
    <3> QED  BY <1>8, <3>1, FindFacts, ScanConstants
  <2>2. CleanOn(ask, from, to)
    BY <1>4, <1>5, <1>6, <2>1, Covered DEF s
  <2>3. CleanOn(ask, pos, to)
    BY <1>3, <1>4, <2>2, Longer
  <2>4. CASE to = have
    <3>1. have - pos \in Nat /\ pos + (have - pos) = have
      BY <1>3
    <3>2. IsRun(ask, pos, have - pos)
      BY <2>3, <2>4, <3>1 DEF IsRun
    <3> QED  BY <1>2, <1>3, <1>9, <1>10, <2>4, <3>2, AnswerOutcome
  <2>5. CASE to # have
    <3>1. to < have /\ pos <= to
      BY <1>3, <1>4, <2>5
    <3>2. IsWave(ask, Wave(to))
      BY <1>2, <1>3, <1>4, <2>3, <3>1, WaveFacts
    <3> QED  BY <1>2, <1>9, <1>10, <2>5, <3>2 DEF Dispatch, Outcome
  <2> QED  BY <2>4, <2>5
<1>11. CASE hits # {}
  <2> DEFINE m == Min(hits)
             e == done[m]
  <2>1. hits \in SUBSET Nat /\ m \in hits /\ \A i \in hits : m <= i
    <3>1. hits \in SUBSET Nat
      BY <1>6
    <3> QED  BY <1>11, <3>1, MinFacts
  <2>2. m \in 1..n /\ e # NoHit
    BY <1>6, <2>1
  <2> HIDE DEF m
  <2>3. /\ e \in Nat /\ s[m] + e < Bound(s, m, to) /\ s[m] \in Nat /\ from <= s[m]
        /\ CleanOn(ask, s[m], s[m] + e) /\ input[s[m] + e + 1] \notin Clean[ask]
    <3>1. s[m] \in Nat /\ Bound(s, m, to) \in Nat /\ from <= s[m]
      BY <1>8, <2>2
    <3>2. e = Find(ask, s[m], Bound(s, m, to))
      BY <1>7, <2>2
    <3> QED  BY <2>2, <3>1, <3>2, FindFacts
  <2>4. s[m] + e < to /\ s[m] <= to
    BY <1>4, <1>8, <2>2, <2>3
  <2>5. ASSUME NEW i \in 1..n, s[i] < s[m]  PROVE CleanOn(ask, s[i], Bound(s, i, to))
    <3>1. i # m
      BY <2>3, <2>5
    <3>2. ~(m < i)
      <4>1. m < i => s[m] + Block <= s[i]
        BY <1>5, <2>2 DEF Tiles
      <4>2. s[i] \in Nat
        BY <1>8
      <4> QED  BY <1>5, <2>3, <2>5, <4>1, <4>2
    <3>3. i \notin hits
      BY <1>6, <2>1, <2>2, <3>1, <3>2
    <3>4. Find(ask, s[i], Bound(s, i, to)) = NoHit
      BY <1>6, <1>7, <3>3
    <3> QED  BY <1>8, <3>4, FindFacts, ScanConstants
  <2>6. CleanOn(ask, from, s[m])
    BY <1>4, <1>5, <1>6, <2>3, <2>4, <2>5, Covered DEF s
  <2>7. CleanOn(ask, pos, s[m] + e)
    <3>1. s[m] + e \in Nat
      BY <2>3
    <3>2. CleanOn(ask, from, s[m] + e)
      BY <2>3, <2>6, <3>1, Longer
    <3> QED  BY <1>3, <1>4, <3>1, <3>2, Longer
  <2> DEFINE r == s[m] + e - pos
  <2>8. r \in Nat /\ pos + r = s[m] + e /\ pos + r <= have
    BY <1>3, <1>4, <2>3, <2>4
  <2>9. Answer(r)
    BY <1>9, <1>11, <2>2 DEF m
  <2>10. IsRun(ask, pos, r)
    <3> HIDE DEF r, e
    <3> QED  BY <2>3, <2>7, <2>8 DEF IsRun
  <2> HIDE DEF r
  <2> QED  BY <1>2, <1>3, <2>9, <2>10, AnswerOutcome
<1> QED  BY <1>10, <1>11

-----------------------------------------------------------------------------
(* Every step keeps the invariant. *)

LEMMA IndexSame ==
  ASSUME IndexIsCurrent, UNCHANGED <<parser, index>>
  PROVE  IndexIsCurrent'
<1>1. input' = input /\ have' = have /\ index' = index
  BY DEF parser
<1>2. ASSUME NEW c, NEW from, NEW to
      PROVE  Find(c, from, to)' = Find(c, from, to)
  BY <1>1 DEF Find
<1> QED  BY <1>1, <1>2 DEF IndexIsCurrent, HasIndex

\* After a step that answers or sends a job, whatever it was.
LEMMA OutcomeKeeps ==
  ASSUME IInv, NEW class \in Class, pos < have, answer = NoHit, ask' = class,
         UNCHANGED <<parser, index>>, Outcome(class)
  PROVE  IInv'
<1>1. /\ have \in Nat /\ pos \in 0..have /\ class # "utf8" /\ class # "none"
      /\ RunIn(class, pos, have) # NoHit
  <2>1. have \in Nat /\ pos \in 0..have /\ pos \in Nat /\ pos <= have
    BY DEF IInv, CursorOK
  <2>2. RunIn(class, pos, have) # NoHit
    BY <2>1, IsRunFacts
  <2> QED  BY <2>1, <2>2 DEF Class, Clean
<1>2. CursorOK'
  BY <1>1 DEF CursorOK, parser
<1>3. NoJob.kind = "none"
  BY DEF NoJob
<1>4. Pending'
  <2>1. \A j : IsWave(class, j) \/ IsIndexJob(class, j) => j # NoJob
    BY DEF IsWave, IsIndexJob, IndexJob, NoJob
  <2> QED  BY <1>1, <2>1 DEF Pending, Outcome, Idle
<1>5. JobOK'
  <2>1. CASE job' = NoJob
    BY <2>1 DEF JobOK, NoJob
  <2>2. CASE IsWave(class, job')
    BY <2>2 DEF JobOK, IsWave, CleanOn, parser
  <2>3. CASE IsIndexJob(class, job')
    BY <2>3 DEF JobOK, IsIndexJob, IndexJob, RunIn, Find, Even, parser
  <2> QED  BY <2>1, <2>2, <2>3 DEF Outcome
<1>6. SlotsOK'
  BY DEF SlotsOK, Outcome, NoJob
<1>7. IndexOK'
  BY IndexSame DEF IInv, IndexOK, HasIndex, parser
<1>8. AnswerIsSequential'
  BY <1>1 DEF AnswerIsSequential, Outcome, RunIn, Find, parser
<1> QED  BY <1>2, <1>4, <1>5, <1>6, <1>7, <1>8 DEF IInv

LEMMA AskRunKeeps == ASSUME IInv, NEW class \in Class, AskRun(class)  PROVE IInv'
<1>1. /\ pos < have /\ answer = NoHit /\ ask' = class /\ UNCHANGED <<parser, index>>
  BY DEF IInv, Pending, AskRun
<1> QED  BY <1>1, AskRunOutcome, OutcomeKeeps

LEMMA CollectWaveKeeps == ASSUME IInv, CollectWave  PROVE IInv'
<1>1. ask \in Class /\ Outcome(ask)
  BY CollectWaveOutcome
<1>2. /\ pos < have /\ answer = NoHit /\ ask' = ask /\ UNCHANGED <<parser, index>>
  BY <1>1 DEF IInv, CursorOK, Pending, CollectWave, NoJob
<1> QED  BY <1>1, <1>2, OutcomeKeeps

LEMMA ResolveKeeps == ASSUME IInv, Resolve  PROVE IInv'
<1>1. /\ ask \in Class /\ answer = NoHit /\ job = NoJob /\ HasIndex
      /\ have \in Nat /\ pos \in 0..(have - 1) /\ pos \in 0..have /\ pos \in Nat
      /\ pos < have /\ pos <= have
  BY DEF IInv, CursorOK, Pending, Resolve
<1>2. IsRun(ask, pos, RunLenIndexed(ask))
  BY <1>1, RunLenIndexedFacts DEF IInv, IndexOK
<1>3. RunLenIndexed(ask) = RunIn(ask, pos, have)
  BY <1>1, <1>2, IsRunFacts
<1>4. /\ job' = NoJob /\ answer' = RunIn(ask, pos, have) /\ ask' = ask
      /\ UNCHANGED <<parser, index>>
  BY <1>1, <1>3 DEF Resolve
<1>5. Outcome(ask)
  BY <1>4 DEF Outcome
<1> QED  BY <1>1, <1>4, <1>5, OutcomeKeeps

\* What no worker touches stays as it was.
LEMMA WorkKeeps == ASSUME IInv, Work  PROVE IInv'
<1>1. /\ job # NoJob /\ UNCHANGED <<parser, index, ask, answer, job>>
      /\ \E i \in DOMAIN job.starts \ DOMAIN done :
           done' = [k \in DOMAIN done \cup {i} |->
                      IF k = i THEN Scan(job.starts[i], BlockEnd(i)) ELSE done[k]]
  BY DEF Work
<1>2. CursorOK' /\ Pending'
  BY <1>1 DEF IInv, CursorOK, Pending, Idle, HasIndex, parser
<1>3. JobOK'
  BY <1>1 DEF IInv, JobOK, IsWave, IsIndexJob, IndexJob, CleanOn, RunIn, Find, Even, parser
<1>4. SlotsOK'
  <2>1. SUFFICES ASSUME ask \in Class, NEW k \in DOMAIN done'
                 PROVE  k \in DOMAIN job.starts /\ done'[k] = Scan(job.starts[k], BlockEnd(k))'
    BY <1>1 DEF SlotsOK
  <2>2. PICK i \in DOMAIN job.starts \ DOMAIN done :
          done' = [x \in DOMAIN done \cup {i} |->
                     IF x = i THEN Scan(job.starts[i], BlockEnd(i)) ELSE done[x]]
    BY <1>1
  <2>3. /\ k \in DOMAIN done \/ k = i
        /\ done'[k] = IF k = i THEN Scan(job.starts[i], BlockEnd(i)) ELSE done[k]
    BY <2>1, <2>2
  <2>4. Scan(job.starts[k], BlockEnd(k))' = Scan(job.starts[k], BlockEnd(k))
    <3>1. /\ input' = input /\ job' = job /\ ask' = ask
          /\ BlockEnd(k)' = BlockEnd(k) /\ job.starts[k]' = job.starts[k]
      BY <1>1 DEF parser, BlockEnd
    <3>2. ASSUME NEW c, NEW from, NEW to
          PROVE  Find(c, from, to)' = Find(c, from, to)
      BY <3>1 DEF Find
    <3>3. job.kind = "wave" \/ job.kind = "index"
      BY <1>1, <2>1 DEF IInv, JobOK, IsWave, IsIndexJob, IndexJob, Class, Clean
    <3> QED  BY <3>1, <3>2, <3>3 DEF Scan
  <2>5. k \in DOMAIN job.starts /\ done'[k] = Scan(job.starts[k], BlockEnd(k))
    <3>1. \A x \in DOMAIN done :
            x \in DOMAIN job.starts /\ done[x] = Scan(job.starts[x], BlockEnd(x))
      BY <1>1, <2>1 DEF IInv, SlotsOK
    <3>2. CASE k = i
      BY <2>2, <2>3, <3>2
    <3>3. CASE k # i
      BY <2>1, <2>3, <3>1, <3>3
    <3> QED  BY <3>2, <3>3
  <2> QED  BY <2>4, <2>5
<1>5. IndexOK' /\ AnswerIsSequential'
  <2>1. AnswerIsSequential'
    BY <1>1 DEF IInv, AnswerIsSequential, RunIn, Find, parser
  <2> QED  BY <1>1, <2>1, IndexSame DEF IInv, IndexOK, HasIndex, parser
<1> QED  BY <1>2, <1>3, <1>4, <1>5 DEF IInv

\* The slots of a finished index job are the index that the input calls for.
LEMMA CollectIndexKeeps == ASSUME IInv, CollectIndex  PROVE IInv'
<1>1. /\ job.kind = "index" /\ job # NoJob /\ DOMAIN done = DOMAIN job.starts
      /\ index' = [i \in DOMAIN job.starts |-> done[i]]
      /\ answer' = job.then /\ job' = NoJob /\ done' = <<>>
      /\ UNCHANGED <<parser, ask>>
  BY DEF CollectIndex, AllDone, Answer, NoJob
<1>2. ask \in Class /\ IsIndexJob(ask, job)
  BY <1>1 DEF IInv, JobOK, IsWave
<1>3. PICK then : job = IndexJob(then) /\ (then # NoHit => then = RunIn(ask, pos, have))
  BY <1>2 DEF IsIndexJob
<1> DEFINE s == Even(0, have, Coarse)
           n == Blocks(0, have, Coarse)
<1>4. /\ have \in Nat /\ pos \in 0..have /\ pos < have /\ have > 0 /\ final
      /\ have \in Nat \ {0} /\ Coarse \in Nat \ {0}
  BY <1>2, ScanConstants DEF IInv, CursorOK, IsIndexJob
<1>5. Tiles(s, n, 0, have, Coarse) /\ DOMAIN s = 1..n /\ n \in Nat \ {0}
  BY <1>4, EvenFacts DEF Tiles
<1>6. job.kind = "index" /\ job.starts = s /\ job.to = have /\ job.then = then
  BY <1>3 DEF IndexJob
<1>7. ASSUME NEW i \in 1..n
      PROVE  done[i] = [c \in Class |-> Find(c, s[i], Min({s[i] + Coarse, have}))]
  <2>1. done[i] = Scan(s[i], BlockEnd(i))
    BY <1>1, <1>2, <1>5, <1>6 DEF IInv, SlotsOK
  <2>2. BlockEnd(i) = Bound(s, i, have)
    BY <1>6 DEF BlockEnd, Bound
  <2>3. /\ s[i] \in Nat
        /\ Bound(s, i, have) = IF s[i] + Coarse <= have THEN s[i] + Coarse ELSE have
    BY <1>4, <1>5, BoundFacts
  <2>4. Min({s[i] + Coarse, have}) = Bound(s, i, have)
    BY <1>4, <2>3, LeastOfTwo
  <2> QED  BY <1>6, <2>1, <2>2, <2>4 DEF Scan
<1>8. index' = [i \in 1..n |->
                  [c \in Class |-> Find(c, s[i], Min({s[i] + Coarse, have}))]]
  BY <1>1, <1>5, <1>6, <1>7
<1>9. input' = input /\ have' = have /\ pos' = pos /\ final' = final /\ ask' = ask
  BY <1>1 DEF parser
<1>10. IndexIsCurrent'
  <2>1. ASSUME NEW c, NEW from, NEW to
        PROVE  Find(c, from, to)' = Find(c, from, to)
    BY <1>9 DEF Find
  <2>2. index' = [i \in DOMAIN s |->
                    [c \in Class |-> Find(c, s[i], Min({s[i] + Coarse, have}))]]
    BY <1>5, <1>8, Zenon
  <2> HIDE DEF n
  <2> QED  BY <1>9, <2>1, <2>2 DEF IndexIsCurrent
<1>11. HasIndex'
  <2>1. DOMAIN index' = 1..n /\ 1 \in 1..n
    BY <1>5, <1>8
  <2>2. DOMAIN NoIndex = {}
    BY DEF NoIndex
  <2> QED  BY <2>1, <2>2 DEF HasIndex
<1>12. CursorOK' /\ JobOK' /\ SlotsOK'
  BY <1>1, <1>9 DEF IInv, CursorOK, JobOK, SlotsOK
<1>13. Pending'
  <2>1. ask # "none"
    BY <1>2 DEF Class, Clean
  <2> QED  BY <1>1, <1>9, <1>11, <2>1 DEF Pending, Idle
<1>14. AnswerIsSequential'
  <2>1. RunIn(ask, pos, have)' = RunIn(ask, pos, have)
    BY <1>9 DEF RunIn, Find
  <2>2. answer' = then
    BY <1>1, <1>6
  <2> QED  BY <1>3, <1>9, <2>1, <2>2 DEF AnswerIsSequential
<1> QED  BY <1>4, <1>9, <1>10, <1>12, <1>13, <1>14 DEF IInv, IndexOK

\* Steps after which nothing about runs is asked.
LEMMA QuietKeeps ==
  ASSUME IInv, ask' \in {"utf8", "none"}, UNCHANGED <<input, index>>,
         have' \in Nat, pos' \in 0..have', HasIndex => final' /\ have' = have,
         job' = NoJob \/ (ask' = "utf8" /\ job'.kind = "utf8" /\ answer' = NoHit),
         ask' = "none" => answer' = NoHit
  PROVE  IInv'
<1>1. ask' \notin Class
  BY DEF Class, Clean
<1>2. CursorOK' /\ Pending'
  BY <1>1 DEF CursorOK, Pending, Idle
<1>3. JobOK' /\ SlotsOK' /\ AnswerIsSequential'
  BY <1>1 DEF JobOK, SlotsOK, AnswerIsSequential
<1>4. IndexIsCurrent'
  <2>1. CASE HasIndex
    <3>1. ASSUME NEW c, NEW from, NEW to
          PROVE  Find(c, from, to)' = Find(c, from, to)
      BY DEF Find
    <3>2. input' = input /\ have' = have /\ index' = index /\ IndexIsCurrent
      BY <2>1 DEF IInv, IndexOK
    <3> QED  BY <3>1, <3>2 DEF IndexIsCurrent, HasIndex
  <2>2. CASE ~HasIndex
    BY <2>2 DEF IndexIsCurrent, HasIndex
  <2> QED  BY <2>1, <2>2
<1>5. IndexOK'
  BY <1>4 DEF IndexOK, HasIndex
<1> QED  BY <1>2, <1>3, <1>5 DEF IInv

\* A chunk comes only before the last, when there is no index yet.
LEMMA ChunkKeeps ==
  ASSUME IInv, NEW n \in Nat, NEW terminate, Chunk(n, terminate)
  PROVE  IInv'
<1>1. job = NoJob /\ ask = "none" /\ answer = NoHit /\ ~HasIndex
  BY DEF IInv, JobOK, Pending, IndexOK, Chunk, Idle, Class, Clean
<1>2. have' = have + n /\ pos' = pos /\ have \in Nat /\ pos \in 0..have
  BY DEF IInv, CursorOK, Chunk
<1>3. have' \in Nat /\ pos' \in 0..have'
  BY <1>2
<1>4. /\ ask' = "none" /\ job' = NoJob /\ answer' = NoHit /\ UNCHANGED <<input, index>>
  BY <1>1 DEF Chunk
<1> QED  BY <1>1, <1>3, <1>4, QuietKeeps

LEMMA ConsumeKeeps ==
  ASSUME IInv, NEW more \in Nat, Consume(more)
  PROVE  IInv'
<1>1. have \in Nat /\ pos \in 0..have /\ pos \in Nat /\ pos <= have
  BY DEF IInv, CursorOK
<1>2. answer = RunIn(ask, pos, have) /\ job = NoJob
  BY DEF IInv, AnswerIsSequential, Pending, Consume
<1>3. answer \in Nat
  <2>1. IsRun(ask, pos, RunIn(ask, pos, have))
    BY <1>1, IsRunFacts
  <2> QED  BY <1>2, <2>1 DEF IsRun
<1>4. have' = have /\ pos' = pos + answer + more /\ pos + answer + more <= have
  BY DEF Consume
<1>5. have' \in Nat /\ pos' \in 0..have'
  BY <1>1, <1>3, <1>4
<1>6. /\ ask' = "none" /\ job' = NoJob /\ answer' = NoHit /\ UNCHANGED <<input, index>>
      /\ final' = final
  BY <1>2 DEF Consume
<1> QED  BY <1>4, <1>5, <1>6, QuietKeeps DEF IInv, IndexOK

LEMMA Utf8Keeps ==
  ASSUME IInv, AskUtf8 \/ CollectUtf8 \/ Report
  PROVE  IInv'
<1>1. ask' \in {"utf8", "none"} /\ UNCHANGED <<parser, index>>
  BY DEF IInv, JobOK, AskUtf8, CollectUtf8, Report, NoJob, IsWave, IsIndexJob, IndexJob
<1>2. have' \in Nat /\ pos' \in 0..have' /\ (HasIndex => final' /\ have' = have)
  BY <1>1 DEF IInv, CursorOK, IndexOK, parser
<1>3. /\ job' = NoJob \/ (ask' = "utf8" /\ job'.kind = "utf8" /\ answer' = NoHit)
      /\ ask' = "none" => answer' = NoHit
  <2>1. CASE AskUtf8
    BY <2>1 DEF IInv, Pending, AskUtf8, Answer, Dispatch, Utf8Job
  <2>2. CASE CollectUtf8
    <3>1. ask = "utf8"
      BY <2>2 DEF IInv, JobOK, CollectUtf8, NoJob, IsWave, IsIndexJob, IndexJob
    <3> QED  BY <2>2, <3>1 DEF CollectUtf8, Answer
  <2>3. CASE Report
    BY <2>3 DEF IInv, Pending, Report
  <2> QED  BY <2>1, <2>2, <2>3
<1> QED  BY <1>1, <1>2, <1>3, QuietKeeps DEF parser

LEMMA StutterKeeps == ASSUME IInv, UNCHANGED vars  PROVE IInv'
<1>1. /\ UNCHANGED <<parser, index, ask, answer, job, done>>
      /\ input' = input /\ have' = have
  BY DEF vars, parser
<1>2. CursorOK' /\ Pending'
  BY <1>1 DEF IInv, CursorOK, Pending, Idle, HasIndex, parser
<1>3. JobOK'
  BY <1>1 DEF IInv, JobOK, IsWave, IsIndexJob, IndexJob, CleanOn, RunIn, Find, Even, parser
<1>4. AnswerIsSequential'
  BY <1>1 DEF IInv, AnswerIsSequential, RunIn, Find, parser
<1>5. IndexOK'
  BY <1>1, IndexSame DEF IInv, IndexOK, HasIndex, parser
<1>6. SlotsOK'
  <2>1. ASSUME NEW c, NEW from, NEW to
        PROVE  Find(c, from, to)' = Find(c, from, to)
    BY <1>1 DEF Find
  <2>2. CASE ask \in Class /\ job # NoJob
    <3>1. job.kind = "wave" \/ job.kind = "index"
      BY <2>2 DEF IInv, JobOK, IsWave, IsIndexJob, IndexJob, Class, Clean
    <3>2. ASSUME NEW k
          PROVE  Scan(job.starts[k], BlockEnd(k))' = Scan(job.starts[k], BlockEnd(k))
      BY <1>1, <2>1, <3>1 DEF Scan, BlockEnd
    <3> QED  BY <1>1, <2>2, <3>2 DEF IInv, SlotsOK
  <2>3. CASE ~(ask \in Class /\ job # NoJob)
    BY <1>1, <2>3 DEF SlotsOK
  <2> QED  BY <2>2, <2>3
<1> QED  BY <1>2, <1>3, <1>4, <1>5, <1>6 DEF IInv

THEOREM NextIInv == IInv /\ [Next]_vars => IInv'
<1> SUFFICES ASSUME IInv, [Next]_vars  PROVE IInv'
  OBVIOUS
<1>1. ASSUME NEW n \in 0..(Len(input) - have), NEW terminate \in BOOLEAN,
             Chunk(n, terminate)
      PROVE  IInv'
  BY <1>1, ChunkKeeps
<1>2. ASSUME NEW class \in Class, AskRun(class)  PROVE IInv'
  BY <1>2, AskRunKeeps
<1>3. CASE AskUtf8
  BY <1>3, Utf8Keeps
<1>4. CASE Work
  BY <1>4, WorkKeeps
<1>5. CASE Collect
  BY <1>5, CollectWaveKeeps, CollectIndexKeeps, ResolveKeeps, Utf8Keeps DEF Collect
<1>6. ASSUME NEW more \in 0..(have - pos), Consume(more)  PROVE IInv'
  BY <1>6, ConsumeKeeps
<1>7. CASE Report
  BY <1>7, Utf8Keeps
<1>8. CASE UNCHANGED vars
  BY <1>8, StutterKeeps
<1> QED  BY <1>1, <1>2, <1>3, <1>4, <1>5, <1>6, <1>7, <1>8 DEF Next

\* Blocks, waves and the index only save time: the answer is the one that a scan of
\* the bytes received gives, in whatever order the workers end.
THEOREM RunsAreSequential == Spec => []AnswerIsSequential
<1>1. IInv => AnswerIsSequential
  BY DEF IInv
<1> QED  BY <1>1, InitIInv, NextIInv, PTL DEF Spec

\* What an index tells is true of the input as it is when it is read.
THEOREM IndexStaysCurrent == Spec => []IndexIsCurrent
<1>1. IInv => IndexIsCurrent
  BY DEF IInv, IndexOK
<1> QED  BY <1>1, InitIInv, NextIInv, PTL DEF Spec

-----------------------------------------------------------------------------
(* UTF-8 in one piece *)

LEMMA LeastNumber ==
  ASSUME NEW T \in SUBSET Nat, T # {}
  PROVE  \E m \in T : \A k \in T : m <= k
  BY MinFacts

LEMMA CharLenFacts ==
  /\ DOMAIN CharLen = ASCII \cup {"C3", "E2", "F0"}
  /\ \A b \in DOMAIN CharLen : CharLen[b] \in 1..4
  /\ Continuation \notin DOMAIN CharLen
<1>1. \A b \in DOMAIN CharLen : CharLen[b] \in 1..4
  BY DEF CharLen
<1> QED  BY <1>1 DEF CharLen, ASCII, Continuation

\* How many bytes the character that begins at a position announces
Span(i) == CharLen[input[i + 1]]
\* The byte at a position continues a character
Follows(i) == input[i + 1] = Continuation

\* In a piece of the input every character has what it announces, and every
\* continuation belongs to a character.
Held(i, to) == i + Span(i) <= to /\ \A j \in (i + 1)..(i + Span(i) - 1) : Follows(j)
Owned(i, from) ==
  \E l \in from..(i - 1) : /\ ~Follows(l) /\ i < l + Span(l)
                           /\ \A j \in (l + 1)..i : Follows(j)
Whole(from, to) ==
  \A i \in from..(to - 1) : IF Follows(i) THEN Owned(i, from) ELSE Held(i, to)

LEMMA SpanFacts ==
  ASSUME input \in Inputs, NEW i \in Nat, i < Len(input)
  PROVE  /\ Follows(i) <=> input[i + 1] \notin DOMAIN CharLen
         /\ ~Follows(i) => Span(i) \in 1..4
<1>1. input[i + 1] \in Byte
  BY ScanConstants
<1> QED  BY <1>1, CharLenFacts DEF Byte, Follows, Span

\* A piece may be cut where no character is cut.
LEMMA WholeCut ==
  ASSUME input \in Inputs, NEW from \in Nat, NEW mid \in Nat, NEW to \in Nat,
         from <= mid, mid <= to, to <= Len(input), mid = to \/ ~Follows(mid)
  PROVE  Whole(from, to) <=> Whole(from, mid) /\ Whole(mid, to)
<1>1. ASSUME Whole(from, to)  PROVE Whole(from, mid)
  <2>1. SUFFICES ASSUME NEW i \in from..(mid - 1)
                 PROVE  IF Follows(i) THEN Owned(i, from) ELSE Held(i, mid)
    BY DEF Whole
  <2>2. i \in from..(to - 1) /\ i \in Nat /\ i < Len(input) /\ Len(input) \in Nat
    BY ScanConstants
  <2>3. CASE Follows(i)
    BY <1>1, <2>2, <2>3 DEF Whole
  <2>4. CASE ~Follows(i)
    <3>1. Held(i, to) /\ Span(i) \in 1..4
      BY <1>1, <2>2, <2>4, SpanFacts DEF Whole
    <3>2. ~(mid < i + Span(i))
      <4>1. mid < i + Span(i) => mid \in (i + 1)..(i + Span(i) - 1)
        BY <2>2, <3>1
      <4>2. mid < i + Span(i) => mid # to
        BY <3>1 DEF Held
      <4> QED  BY <3>1, <4>1, <4>2 DEF Held
    <3> QED  BY <2>2, <2>4, <3>1, <3>2 DEF Held
  <2> QED  BY <2>3, <2>4
<1>2. ASSUME Whole(from, to)  PROVE Whole(mid, to)
  <2>1. SUFFICES ASSUME NEW i \in mid..(to - 1)
                 PROVE  IF Follows(i) THEN Owned(i, mid) ELSE Held(i, to)
    BY DEF Whole
  <2>2. i \in from..(to - 1) /\ i \in Nat /\ mid <= i /\ mid # to
    OBVIOUS
  <2>3. CASE Follows(i)
    <3>1. PICK l \in from..(i - 1) : /\ ~Follows(l) /\ i < l + Span(l)
                                     /\ \A j \in (l + 1)..i : Follows(j)
      BY <1>2, <2>2, <2>3 DEF Whole, Owned
    <3>2. l < mid => mid \in (l + 1)..i
      BY <2>2
    <3>3. l \in mid..(i - 1)
      BY <2>2, <3>1, <3>2
    <3> QED  BY <2>3, <3>1, <3>3 DEF Owned
  <2>4. CASE ~Follows(i)
    BY <1>2, <2>2, <2>4 DEF Whole
  <2> QED  BY <2>3, <2>4
<1>3. ASSUME Whole(from, mid), Whole(mid, to)  PROVE Whole(from, to)
  <2>1. SUFFICES ASSUME NEW i \in from..(to - 1)
                 PROVE  IF Follows(i) THEN Owned(i, from) ELSE Held(i, to)
    BY DEF Whole
  <2>2. i \in Nat /\ i < Len(input) /\ Len(input) \in Nat
    BY ScanConstants
  <2>3. CASE i < mid
    <3>1. i \in from..(mid - 1)
      BY <2>3
    <3>2. IF Follows(i) THEN Owned(i, from) ELSE Held(i, mid)
      BY <1>3, <3>1 DEF Whole
    <3>3. ~Follows(i) => Held(i, to)
      <4>1. ~Follows(i) => Span(i) \in 1..4
        BY <2>2, SpanFacts
      <4> QED  BY <2>2, <3>2, <4>1 DEF Held
    <3> QED  BY <3>2, <3>3
  <2>4. CASE mid <= i
    <3>1. i \in mid..(to - 1)
      BY <2>4
    <3>2. IF Follows(i) THEN Owned(i, mid) ELSE Held(i, to)
      BY <1>3, <3>1 DEF Whole
    <3>3. Owned(i, mid) => Owned(i, from)
      BY DEF Owned
    <3> QED  BY <3>2, <3>3
  <2> QED  BY <2>2, <2>3, <2>4
<1> QED  BY <1>1, <1>2, <1>3

-----------------------------------------------------------------------------
(* validate_lax_block goes from character to character. *)

IsLax(f, a, end) ==
  f = [i \in a..end |->
        \/ i = end
        \/ /\ input[i + 1] \in DOMAIN CharLen
           /\ i + CharLen[input[i + 1]] <= end
           /\ \A j \in (i + 2)..(i + CharLen[input[i + 1]]) : input[j] = Continuation
           /\ f[i + CharLen[input[i + 1]]]]

\* What is asked at one character, but for the rest
Char(i, end) ==
  /\ input[i + 1] \in DOMAIN CharLen
  /\ i + CharLen[input[i + 1]] <= end
  /\ \A j \in (i + 2)..(i + CharLen[input[i + 1]]) : input[j] = Continuation

LEMMA LaxExists ==
  ASSUME input \in Inputs, NEW end \in Nat, end <= Len(input), NEW d \in 0..end
  PROVE  \E f : IsLax(f, end - d, end)
<1> DEFINE T == {k \in 0..end : ~\E f : IsLax(f, end - k, end)}
<1>1. SUFFICES ASSUME T # {}  PROVE FALSE
  BY Zenon
<1>2. PICK m \in T : \A k \in T : m <= k
  <2>1. T \in SUBSET Nat
    OBVIOUS
  <2> QED  BY <1>1, <2>1, LeastNumber, Zenon
<1>3. m \in 0..end /\ ~\E f : IsLax(f, end - m, end)
  BY <1>2
<1>4. CASE m = 0
  <2>1. IsLax([i \in end..end |-> TRUE], end, end)
    BY DEF IsLax
  <2> QED  BY <1>3, <1>4, <2>1
<1>5. CASE m # 0
  <2>1. m - 1 \in 0..end /\ m - 1 \notin T
    <3>1. m - 1 \in 0..end /\ ~(m <= m - 1)
      BY <1>3, <1>5
    <3> HIDE DEF T
    <3> QED  BY <1>2, <3>1
  <2> DEFINE b == end - (m - 1)
             a == end - m
  <2>2. a \in Nat /\ b = a + 1 /\ b \in Nat /\ b <= end /\ a < end
    BY <1>3, <1>5
  <2>3. PICK p : IsLax(p, b, end)
    BY <2>1
  <2>4. ~\E f : IsLax(f, a, end)
    BY <1>3
  <2> HIDE DEF a, b
  <2> DEFINE r == [i \in a..end |-> IF i = a
                                    THEN Char(a, end) /\ p[a + CharLen[input[a + 1]]]
                                    ELSE p[i]]
  <2>5. ASSUME NEW i \in a..end
        PROVE  r[i] = (i = end \/ (Char(i, end) /\ r[i + CharLen[input[i + 1]]]))
    <3> DEFINE n == i + CharLen[input[i + 1]]
    <3>1. i \in Nat
      BY <2>2
    <3>2. Char(i, end) => n \in (i + 1)..end
      BY <3>1, CharLenFacts DEF Char
    <3>3. Char(i, end) => r[n] = p[n]
      BY <2>2, <3>2
    <3>4. CASE i = a
      <4>1. r[i] = (Char(i, end) /\ p[n]) /\ i # end
        BY <2>2, <3>4
      <4> HIDE DEF r, n
      <4> QED  BY <3>3, <4>1 DEF n
    <3>5. CASE i # a
      <4>1. i \in b..end /\ r[i] = p[i]
        BY <2>2, <3>5
      <4>2. p[i] = (i = end \/ (Char(i, end) /\ p[n]))
        BY <2>3, <4>1, Zenon DEF IsLax, Char
      <4> HIDE DEF r, n
      <4> QED  BY <3>3, <4>1, <4>2 DEF n
    <3> QED  BY <3>4, <3>5
  <2> HIDE DEF r
  <2>6. ASSUME NEW i \in a..end
        PROVE  r[i] = (\/ i = end
                       \/ /\ input[i + 1] \in DOMAIN CharLen
                          /\ i + CharLen[input[i + 1]] <= end
                          /\ \A j \in (i + 2)..(i + CharLen[input[i + 1]]) :
                               input[j] = Continuation
                          /\ r[i + CharLen[input[i + 1]]])
    BY <2>5 DEF Char
  <2>7. r = [i \in a..end |-> r[i]]
    BY DEF r
  <2>8. IsLax(r, a, end)
    BY <2>6, <2>7, Zenon DEF IsLax
  <2> QED  BY <2>4, <2>8
<1> QED  BY <1>4, <1>5

LEMMA LaxIsRun ==
  ASSUME input \in Inputs, NEW start \in Nat, NEW end \in Nat, start <= end,
         end <= Len(input)
  PROVE  \E f : /\ ValidLax(start, end) = IF f[start] THEN 1 ELSE 0
                /\ \A i \in start..end :
                     f[i] = (i = end \/ (Char(i, end) /\ f[i + CharLen[input[i + 1]]]))
<1> DEFINE f == CHOOSE f : IsLax(f, start, end)
<1>1. IsLax(f, start, end)
  <2> DEFINE d == end - start
  <2>1. d \in 0..end /\ end - d = start
    OBVIOUS
  <2> HIDE DEF d
  <2>2. \E g : IsLax(g, end - d, end)
    BY <2>1, LaxExists
  <2>3. \E g : IsLax(g, start, end)
    BY <2>1, <2>2
  <2> QED  BY <2>3, Zenon
<1>2. ValidLax(start, end) = IF f[start] THEN 1 ELSE 0
  BY Zenon DEF ValidLax, IsLax
<1> HIDE DEF f
<1>3. ASSUME NEW i \in start..end
      PROVE  f[i] = (i = end \/ (Char(i, end) /\ f[i + CharLen[input[i + 1]]]))
  <2>1. f[i] = (\/ i = end
                \/ /\ input[i + 1] \in DOMAIN CharLen
                   /\ i + CharLen[input[i + 1]] <= end
                   /\ \A j \in (i + 2)..(i + CharLen[input[i + 1]]) :
                        input[j] = Continuation
                   /\ f[i + CharLen[input[i + 1]]])
    BY <1>1, Zenon DEF IsLax
  <2> QED  BY <2>1 DEF Char
<1> QED  BY <1>2, <1>3

\* At a character that is there, a piece is whole if what follows it is.
LEMMA WholeAt ==
  ASSUME input \in Inputs, NEW i \in Nat, NEW end \in Nat, i < end, end <= Len(input)
  PROVE  /\ Char(i, end) <=> ~Follows(i) /\ Held(i, end)
         /\ Char(i, end) => /\ i + Span(i) \in (i + 1)..end
                            /\ Whole(i, end) <=> Whole(i + Span(i), end)
         /\ Whole(i, end) => Char(i, end)
<1>1. /\ Follows(i) <=> input[i + 1] \notin DOMAIN CharLen
      /\ ~Follows(i) => Span(i) \in 1..4
      /\ Len(input) \in Nat
  BY SpanFacts, ScanConstants
<1>2. Char(i, end) <=> ~Follows(i) /\ Held(i, end)
  <2>1. ASSUME ~Follows(i)
        PROVE  (\A j \in (i + 2)..(i + Span(i)) : input[j] = Continuation)
               <=> \A j \in (i + 1)..(i + Span(i) - 1) : Follows(j)
    <3>1. ASSUME \A j \in (i + 2)..(i + Span(i)) : input[j] = Continuation,
                 NEW j \in (i + 1)..(i + Span(i) - 1)
          PROVE  Follows(j)
      <4>1. j + 1 \in (i + 2)..(i + Span(i))
        BY <1>1, <2>1
      <4> QED  BY <3>1, <4>1 DEF Follows
    <3>2. ASSUME \A j \in (i + 1)..(i + Span(i) - 1) : Follows(j),
                 NEW j \in (i + 2)..(i + Span(i))
          PROVE  input[j] = Continuation
      <4>1. j - 1 \in (i + 1)..(i + Span(i) - 1) /\ (j - 1) + 1 = j
        BY <1>1, <2>1
      <4>2. Follows(j - 1)
        BY <3>2, <4>1
      <4> QED  BY <4>1, <4>2 DEF Follows
    <3> QED  BY <3>1, <3>2
  <2>2. Char(i, end) <=> /\ ~Follows(i) /\ i + Span(i) <= end
                         /\ \A j \in (i + 2)..(i + Span(i)) : input[j] = Continuation
    BY <1>1 DEF Char, Span
  <2> QED  BY <2>1, <2>2 DEF Held
<1>3. ASSUME Whole(i, end)  PROVE Char(i, end)
  <2>1. i \in i..(end - 1)
    OBVIOUS
  <2>2. ~Owned(i, i)
    BY DEF Owned
  <2>3. ~Follows(i) /\ Held(i, end)
    BY <1>3, <2>1, <2>2 DEF Whole
  <2> QED  BY <1>2, <2>3
<1>4. ASSUME Char(i, end)
      PROVE  i + Span(i) \in (i + 1)..end /\ (Whole(i, end) <=> Whole(i + Span(i), end))
  <2> DEFINE n == i + Span(i)
  <2>1. /\ ~Follows(i) /\ Span(i) \in 1..4 /\ n \in Nat /\ n \in (i + 1)..end
        /\ \A j \in (i + 1)..(n - 1) : Follows(j)
    BY <1>1, <1>2, <1>4 DEF Held
  <2>2. ASSUME Whole(i, end)  PROVE Whole(n, end)
    <3>1. SUFFICES ASSUME NEW k \in n..(end - 1)
                   PROVE  IF Follows(k) THEN Owned(k, n) ELSE Held(k, end)
      BY DEF Whole
    <3>2. k \in i..(end - 1) /\ k \in Nat
      BY <2>1
    <3>3. CASE Follows(k)
      <4>1. PICK l \in i..(k - 1) : /\ ~Follows(l) /\ k < l + Span(l)
                                    /\ \A j \in (l + 1)..k : Follows(j)
        BY <2>2, <3>2, <3>3 DEF Whole, Owned
      <4>2. l # i
        BY <2>1, <3>2, <4>1
      <4>3. l \notin (i + 1)..(n - 1)
        BY <2>1, <4>1
      <4>4. l \in n..(k - 1)
        BY <2>1, <3>2, <4>1, <4>2, <4>3
      <4> QED  BY <3>3, <4>1, <4>4 DEF Owned
    <3>4. CASE ~Follows(k)
      BY <2>2, <3>2, <3>4 DEF Whole
    <3> QED  BY <3>3, <3>4
  <2>3. ASSUME Whole(n, end)  PROVE Whole(i, end)
    <3>1. SUFFICES ASSUME NEW k \in i..(end - 1)
                   PROVE  IF Follows(k) THEN Owned(k, i) ELSE Held(k, end)
      BY DEF Whole
    <3>2. CASE k = i
      BY <1>2, <1>4, <3>2
    <3>3. CASE k \in (i + 1)..(n - 1)
      <4>1. Follows(k) /\ i \in i..(k - 1) /\ k < i + Span(i)
        BY <2>1, <3>3
      <4>2. \A j \in (i + 1)..k : Follows(j)
        BY <2>1, <3>3
      <4> QED  BY <2>1, <4>1, <4>2 DEF Owned
    <3>4. CASE k \in n..(end - 1)
      <4>1. IF Follows(k) THEN Owned(k, n) ELSE Held(k, end)
        BY <2>3, <3>4 DEF Whole
      <4>2. Owned(k, n) => Owned(k, i)
        <5>1. \A l \in n..(k - 1) : l \in i..(k - 1)
          BY <2>1, <3>4
        <5> QED  BY <5>1 DEF Owned
      <4> QED  BY <4>1, <4>2
    <3> QED  BY <2>1, <3>2, <3>3, <3>4
  <2> QED  BY <2>1, <2>2, <2>3
<1> QED  BY <1>2, <1>3, <1>4

LEMMA LaxIsWhole ==
  ASSUME input \in Inputs, NEW start \in Nat, NEW end \in Nat, start <= end,
         end <= Len(input)
  PROVE  /\ ValidLax(start, end) \in {0, 1}
         /\ ValidLax(start, end) = 1 <=> Whole(start, end)
<1>1. PICK f : /\ ValidLax(start, end) = IF f[start] THEN 1 ELSE 0
               /\ \A i \in start..end :
                    f[i] = (i = end \/ (Char(i, end) /\ f[i + CharLen[input[i + 1]]]))
  BY LaxIsRun
<1> DEFINE T == {d \in 0..(end - start) : ~(f[end - d] <=> Whole(end - d, end))}
<1>2. T = {}
  <2>1. SUFFICES ASSUME T # {}  PROVE FALSE
    BY Zenon
  <2>2. PICK m \in T : \A k \in T : m <= k
    <3>1. T \in SUBSET Nat
      OBVIOUS
    <3> QED  BY <2>1, <3>1, LeastNumber, Zenon
  <2> DEFINE i == end - m
  <2>3. m \in 0..(end - start) /\ i \in start..end /\ ~(f[i] <=> Whole(i, end))
    BY <2>2
  <2>4. ASSUME NEW n \in (i + 1)..end  PROVE f[n] <=> Whole(n, end)
    <3> DEFINE k == end - n
    <3>1. k \in 0..(end - start) /\ ~(m <= k) /\ end - k = n
      BY <2>3, <2>4
    <3> HIDE DEF k
    <3>2. k \notin T
      BY <2>2, <3>1
    <3>3. f[end - k] <=> Whole(end - k, end)
      BY <3>1, <3>2
    <3> QED  BY <3>1, <3>3
  <2>5. f[i] = (i = end \/ (Char(i, end) /\ f[i + CharLen[input[i + 1]]]))
    BY <1>1, <2>3
  <2> HIDE DEF i, T
  <2>6. CASE i = end
    <3>1. Whole(end, end)
      BY DEF Whole
    <3> QED  BY <2>3, <2>5, <2>6, <3>1
  <2>7. CASE i # end
    <3>1. i \in Nat /\ i < end
      BY <2>3, <2>7
    <3>2. /\ Char(i, end) => /\ i + Span(i) \in (i + 1)..end
                             /\ Whole(i, end) <=> Whole(i + Span(i), end)
          /\ Whole(i, end) => Char(i, end)
      BY <3>1, WholeAt
    <3>3. f[i] <=> Char(i, end) /\ f[i + Span(i)]
      BY <2>5, <2>7 DEF Span
    <3>4. Char(i, end) => (f[i + Span(i)] <=> Whole(i + Span(i), end))
      BY <2>4, <3>2
    <3> QED  BY <2>3, <3>2, <3>3, <3>4
  <2> QED  BY <2>6, <2>7
<1>3. f[start] <=> Whole(start, end)
  <2> DEFINE k == end - start
  <2>1. k \in 0..(end - start) /\ end - k = start
    OBVIOUS
  <2> HIDE DEF k
  <2>2. k \notin T
    BY <1>2
  <2>3. f[end - k] <=> Whole(end - k, end)
    BY <2>1, <2>2
  <2> QED  BY <2>1, <2>3
<1> QED  BY <1>1, <1>3

\* The reference counts its places from one.
LEMMA ValidIsWhole ==
  ASSUME input \in Inputs
  PROVE  ValidText(input) <=> Whole(0, Len(input))
<1> DEFINE n == Len(input)
<1>0. n \in Nat /\ DOMAIN input = 1..n
  BY ScanConstants
<1>1. ASSUME NEW i \in 0..(n - 1)
      PROVE  IF Follows(i) THEN Owned(i, 0) <=>
                  \E l \in 1..((i + 1) - 1) :
                     /\ input[l] \in DOMAIN CharLen /\ i + 1 < l + CharLen[input[l]]
                     /\ \A j \in (l + 1)..(i + 1) : input[j] = Continuation
             ELSE Held(i, n) <=>
                    /\ (i + 1) + CharLen[input[i + 1]] - 1 <= n
                    /\ \A j \in ((i + 1) + 1)..((i + 1) + CharLen[input[i + 1]] - 1) :
                         input[j] = Continuation
  <2>1. \A l \in 0..(i - 1) : l \in Nat /\ l < n
    BY <1>0
  <2>2. ASSUME NEW l \in 0..i
        PROVE  (\A j \in (l + 1)..i : Follows(j))
               <=> \A j \in ((l + 1) + 1)..(i + 1) : input[j] = Continuation
    <3>1. ASSUME \A j \in (l + 1)..i : Follows(j), NEW j \in ((l + 1) + 1)..(i + 1)
          PROVE  input[j] = Continuation
      <4>1. j - 1 \in (l + 1)..i /\ (j - 1) + 1 = j
        BY <2>2
      <4>2. Follows(j - 1)
        BY <3>1, <4>1
      <4> QED  BY <4>1, <4>2 DEF Follows
    <3>2. ASSUME \A j \in ((l + 1) + 1)..(i + 1) : input[j] = Continuation,
                 NEW j \in (l + 1)..i
          PROVE  Follows(j)
      <4>1. j + 1 \in ((l + 1) + 1)..(i + 1)
        BY <2>2
      <4> QED  BY <3>2, <4>1 DEF Follows
    <3> QED  BY <3>1, <3>2
  <2>3. CASE Follows(i)
    <3>1. ASSUME Owned(i, 0)
          PROVE  \E l \in 1..((i + 1) - 1) :
                     /\ input[l] \in DOMAIN CharLen /\ i + 1 < l + CharLen[input[l]]
                     /\ \A j \in (l + 1)..(i + 1) : input[j] = Continuation
      <4>1. PICK l \in 0..(i - 1) : /\ ~Follows(l) /\ i < l + Span(l)
                                    /\ \A j \in (l + 1)..i : Follows(j)
        BY <3>1 DEF Owned
      <4>2. input[l + 1] \in DOMAIN CharLen /\ CharLen[input[l + 1]] \in 1..4
        BY <2>1, <4>1, SpanFacts DEF Span
      <4>3. l + 1 \in 1..((i + 1) - 1) /\ i + 1 < (l + 1) + CharLen[input[l + 1]]
        BY <4>1, <4>2 DEF Span
      <4>4. \A j \in ((l + 1) + 1)..(i + 1) : input[j] = Continuation
        BY <2>2, <4>1
      <4> QED  BY <4>2, <4>3, <4>4
    <3>2. ASSUME NEW k \in 1..((i + 1) - 1),
                 input[k] \in DOMAIN CharLen, i + 1 < k + CharLen[input[k]],
                 \A j \in (k + 1)..(i + 1) : input[j] = Continuation
          PROVE  Owned(i, 0)
      <4> DEFINE l == k - 1
      <4>1. l \in 0..(i - 1) /\ k = l + 1 /\ l \in 0..i /\ l \in Nat /\ l < n
        BY <1>0, <3>2
      <4> HIDE DEF l
      <4>2. ~Follows(l) /\ Span(l) \in 1..4
        BY <3>2, <4>1, SpanFacts
      <4>3. i < l + Span(l)
        BY <3>2, <4>1, <4>2 DEF Span
      <4>4. \A j \in (l + 1)..i : Follows(j)
        BY <2>2, <3>2, <4>1
      <4> QED  BY <4>1, <4>2, <4>3, <4>4 DEF Owned
    <3> QED  BY <2>3, <3>1, <3>2
  <2>4. CASE ~Follows(i)
    <3>1. Span(i) \in 1..4 /\ i < n
      BY <1>0, <2>4, SpanFacts
    <3>2. Char(i, n) <=> Held(i, n)
      BY <1>0, <2>4, <3>1, WholeAt
    <3>3. input[i + 1] \in DOMAIN CharLen
      BY <1>0, <2>4, <3>1, SpanFacts
    <3>4. /\ (i + 1) + CharLen[input[i + 1]] - 1 = i + CharLen[input[i + 1]]
          /\ (i + 1) + 1 = i + 2
      BY <3>1 DEF Span
    <3> QED  BY <2>4, <3>2, <3>3, <3>4 DEF Char
  <2> QED  BY <2>3, <2>4
<1> DEFINE Right(i) == IF input[i] = Continuation
    THEN \E l \in 1..(i - 1) :
           /\ input[l] \in DOMAIN CharLen /\ i < l + CharLen[input[l]]
           /\ \A j \in (l + 1)..i : input[j] = Continuation
    ELSE /\ i + CharLen[input[i]] - 1 <= Len(input)
         /\ \A j \in (i + 1)..(i + CharLen[input[i]] - 1) : input[j] = Continuation
<1>2. ASSUME NEW i \in 0..(n - 1)
      PROVE  Right(i + 1) <=> IF Follows(i) THEN Owned(i, 0) ELSE Held(i, n)
  BY <1>1 DEF Follows
<1>3. ValidText(input) <=> \A i \in 1..n : Right(i)
  BY <1>0 DEF ValidText
<1> HIDE DEF Right
<1>4. ASSUME \A i \in 1..n : Right(i)  PROVE Whole(0, n)
  <2>1. SUFFICES ASSUME NEW i \in 0..(n - 1)
                 PROVE  IF Follows(i) THEN Owned(i, 0) ELSE Held(i, n)
    BY DEF Whole
  <2>2. i + 1 \in 1..n
    BY <1>0
  <2> QED  BY <1>2, <1>4, <2>2
<1>5. ASSUME Whole(0, n), NEW i \in 1..n  PROVE Right(i)
  <2>1. i - 1 \in 0..(n - 1) /\ (i - 1) + 1 = i
    BY <1>0
  <2> DEFINE k == i - 1
  <2>2. k \in 0..(n - 1) /\ k + 1 = i
    BY <2>1
  <2> HIDE DEF k
  <2>3. IF Follows(k) THEN Owned(k, 0) ELSE Held(k, n)
    BY <1>5, <2>2 DEF Whole
  <2> QED  BY <1>2, <2>2, <2>3
<1> QED  BY <1>3, <1>4, <1>5

-----------------------------------------------------------------------------
(* The blocks of the validator begin at characters. *)

Lead(s) == Min({e \in (s + Utf8Block)..have : e = have \/ input[e + 1] # Continuation})

LEMMA LeadFacts ==
  ASSUME have \in Nat, NEW s \in Nat, s + Utf8Block < have
  PROVE  /\ Lead(s) \in Nat /\ s < Lead(s) /\ Lead(s) <= have
         /\ Lead(s) = have \/ ~Follows(Lead(s))
<1> DEFINE S == {e \in (s + Utf8Block)..have : e = have \/ input[e + 1] # Continuation}
<1>1. Utf8Block \in Nat \ {0}
  BY ScanConstants
<1>2. have \in S /\ S \in SUBSET Nat
  BY <1>1
<1>3. Min(S) \in S
  BY <1>2, MinFacts
<1>4. Lead(s) = Min(S)
  BY DEF Lead
<1> QED  BY <1>1, <1>3, <1>4 DEF Follows

IsStarts(f, a) ==
  f = [s \in a..have |->
        IF s + Utf8Block >= have \/ Lead(s) = have THEN <<s>> ELSE <<s>> \o f[Lead(s)]]

LEMMA StartsExist ==
  ASSUME have \in Nat, NEW d \in 0..have
  PROVE  \E f : IsStarts(f, have - d)
<1>0. Utf8Block \in Nat \ {0}
  BY ScanConstants
<1> DEFINE T == {k \in 0..have : ~\E f : IsStarts(f, have - k)}
<1>1. SUFFICES ASSUME T # {}  PROVE FALSE
  BY Zenon
<1>2. PICK m \in T : \A k \in T : m <= k
  <2>1. T \in SUBSET Nat
    OBVIOUS
  <2> QED  BY <1>1, <2>1, LeastNumber, Zenon
<1>3. m \in 0..have /\ ~\E f : IsStarts(f, have - m)
  BY <1>2
<1>4. CASE m = 0
  <2>1. IsStarts([s \in have..have |-> <<s>>], have)
    BY <1>0 DEF IsStarts
  <2> QED  BY <1>3, <1>4, <2>1
<1>5. CASE m # 0
  <2>1. m - 1 \in 0..have /\ m - 1 \notin T
    <3>1. m - 1 \in 0..have /\ ~(m <= m - 1)
      BY <1>3, <1>5
    <3> HIDE DEF T
    <3> QED  BY <1>2, <3>1
  <2> DEFINE b == have - (m - 1)
             a == have - m
  <2>2. a \in Nat /\ b = a + 1 /\ b \in Nat /\ b <= have /\ a < have
    BY <1>3, <1>5
  <2>3. PICK p : IsStarts(p, b)
    BY <2>1
  <2>4. ~\E f : IsStarts(f, a)
    BY <1>3
  <2> HIDE DEF a, b
  <2> DEFINE Body(f, s) == IF s + Utf8Block >= have \/ Lead(s) = have THEN <<s>>
                           ELSE <<s>> \o f[Lead(s)]
             r == [s \in a..have |-> IF s = a THEN Body(p, s) ELSE p[s]]
  <2>5. ASSUME NEW s \in a..have  PROVE r[s] = Body(r, s)
    <3>1. s + Utf8Block < have => r[Lead(s)] = p[Lead(s)]
      <4>1. s \in Nat
        BY <2>2
      <4>2. s + Utf8Block < have => Lead(s) \in a..have /\ Lead(s) # a
        BY <2>2, <4>1, LeadFacts
      <4> QED  BY <4>2
    <3>2. s + Utf8Block >= have \/ s + Utf8Block < have
      BY <1>0, <2>2
    <3>3. Body(r, s) = Body(p, s)
      <4> HIDE DEF r
      <4> QED  BY <3>1, <3>2
    <3>4. r[s] = Body(p, s)
      <4>1. CASE s = a
        <5> HIDE DEF Body
        <5> QED  BY <4>1
      <4>2. CASE s # a
        <5>1. s \in b..have /\ r[s] = p[s]
          BY <2>2, <4>2
        <5>2. p[s] = Body(p, s)
          BY <2>3, <5>1, Zenon DEF IsStarts
        <5> QED  BY <5>1, <5>2
      <4> QED  BY <4>1, <4>2
    <3> QED  BY <3>3, <3>4
  <2>6. r = [s \in a..have |-> r[s]]
    <3> HIDE DEF Body
    <3> QED  OBVIOUS
  <2> HIDE DEF r
  <2>7. IsStarts(r, a)
    BY <2>5, <2>6, Zenon DEF IsStarts
  <2> QED  BY <2>4, <2>7
<1> QED  BY <1>4, <1>5

\* Blocks that begin with a place given, later ones at characters.
Seams(t, s) ==
  /\ t \in Seq(Nat) /\ Len(t) >= 1 /\ t[1] = s
  /\ \A i \in 1..(Len(t) - 1) : t[i] < t[i + 1] /\ t[i + 1] < have /\ ~Follows(t[i + 1])

LEMMA SeamsBefore ==
  ASSUME have \in Nat, NEW s \in Nat, NEW e \in Nat, s < e, e < have, ~Follows(e),
         NEW t, Seams(t, e)
  PROVE  Seams(<<s>> \o t, s)
<1> DEFINE u == <<s>> \o t
<1>1. /\ t \in Seq(Nat) /\ Len(t) \in Nat /\ Len(t) >= 1 /\ t[1] = e
      /\ \A i \in 1..(Len(t) - 1) :
           t[i] < t[i + 1] /\ t[i + 1] < have /\ ~Follows(t[i + 1])
  BY DEF Seams
<1>2. /\ u \in Seq(Nat) /\ Len(u) = 1 + Len(t) /\ u[1] = s
      /\ \A k \in 1..Len(t) : u[k + 1] = t[k]
  BY <1>1
<1> HIDE DEF u
<1>3. ASSUME NEW i \in 1..(Len(u) - 1)
      PROVE  u[i] < u[i + 1] /\ u[i + 1] < have /\ ~Follows(u[i + 1])
  <2>1. i \in 1..Len(t) /\ u[i + 1] = t[i]
    BY <1>1, <1>2
  <2>2. CASE i = 1
    BY <1>1, <1>2, <2>1, <2>2
  <2>3. CASE i # 1
    <3> DEFINE k == i - 1
    <3>1. k \in 1..(Len(t) - 1) /\ k + 1 = i /\ k \in 1..Len(t)
      BY <1>1, <2>1, <2>3
    <3> HIDE DEF k
    <3>2. u[k + 1] = t[k] /\ t[k] < t[k + 1] /\ t[k + 1] < have /\ ~Follows(t[k + 1])
      BY <1>1, <1>2, <3>1
    <3> QED  BY <2>1, <3>1, <3>2
  <2> QED  BY <2>2, <2>3
<1>4. Seams(u, s)
  BY <1>1, <1>2, <1>3 DEF Seams
<1> QED  BY <1>4 DEF u

LEMMA LeadStartsFacts ==
  ASSUME have \in Nat
  PROVE  Seams(LeadStarts, 0)
<1>0. Utf8Block \in Nat \ {0}
  BY ScanConstants
<1> DEFINE f == CHOOSE f : IsStarts(f, 0)
<1>1. IsStarts(f, 0)
  <2>1. have \in 0..have /\ have - have = 0
    OBVIOUS
  <2>2. \E g : IsStarts(g, 0)
    BY <2>1, StartsExist
  <2> QED  BY <2>2, Zenon
<1>2. LeadStarts = f[0]
  BY Zenon DEF LeadStarts, IsStarts, Lead
<1> HIDE DEF f
<1>3. ASSUME NEW s \in 0..have
      PROVE  f[s] = IF s + Utf8Block >= have \/ Lead(s) = have THEN <<s>>
                    ELSE <<s>> \o f[Lead(s)]
  BY <1>1, Zenon DEF IsStarts
<1> DEFINE T == {d \in 0..have : ~Seams(f[have - d], have - d)}
<1>4. T = {}
  <2>1. SUFFICES ASSUME T # {}  PROVE FALSE
    BY Zenon
  <2>2. PICK m \in T : \A k \in T : m <= k
    <3>1. T \in SUBSET Nat
      OBVIOUS
    <3> QED  BY <2>1, <3>1, LeastNumber, Zenon
  <2> DEFINE s == have - m
  <2>3. m \in 0..have /\ s \in 0..have /\ s \in Nat /\ ~Seams(f[s], s)
    BY <2>2
  <2>4. ASSUME NEW n \in (s + 1)..have  PROVE Seams(f[n], n)
    <3> DEFINE k == have - n
    <3>1. k \in 0..have /\ ~(m <= k) /\ have - k = n
      BY <2>3, <2>4
    <3> HIDE DEF k
    <3>2. k \notin T
      BY <2>2, <3>1
    <3> QED  BY <3>1, <3>2
  <2> HIDE DEF s, T
  <2>5. CASE s + Utf8Block >= have \/ Lead(s) = have
    <3>1. f[s] = <<s>>
      BY <1>3, <2>3, <2>5
    <3>2. <<s>> \in Seq(Nat) /\ Len(<<s>>) = 1 /\ <<s>>[1] = s
      BY <2>3
    <3> QED  BY <2>3, <3>1, <3>2 DEF Seams
  <2>6. CASE ~(s + Utf8Block >= have \/ Lead(s) = have)
    <3> DEFINE u == <<s>> \o f[Lead(s)]
    <3>0. f[s] = IF s + Utf8Block >= have \/ Lead(s) = have THEN <<s>> ELSE u
      BY <1>3, <2>3
    <3> HIDE DEF u
    <3>1a. f[s] = u /\ s + Utf8Block < have
      BY <1>0, <2>3, <2>6, <3>0
    <3>1. f[s] = <<s>> \o f[Lead(s)] /\ s + Utf8Block < have
      BY <3>1a DEF u
    <3>2. /\ Lead(s) \in Nat /\ s < Lead(s) /\ Lead(s) < have /\ ~Follows(Lead(s))
      BY <2>3, <2>6, <3>1, LeadFacts
    <3>3. Seams(f[Lead(s)], Lead(s))
      BY <2>3, <2>4, <3>2
    <3>4. Seams(<<s>> \o f[Lead(s)], s)
      BY <2>3, <3>2, <3>3, SeamsBefore
    <3> QED  BY <2>3, <3>1, <3>4
  <2> QED  BY <2>5, <2>6
<1>5. Seams(f[0], 0)
  <2>1. have \in 0..have /\ have - have = 0 /\ have \notin T
    BY <1>4
  <2>2. Seams(f[have - have], have - have)
    BY <2>1
  <2> QED  BY <2>1, <2>2
<1> QED  BY <1>2, <1>5

\* What is made of whole blocks is whole, and only that.
LEMMA SeamsWhole ==
  ASSUME input \in Inputs, have = Len(input), NEW t, Seams(t, 0)
  PROVE  /\ \A i \in 1..Len(t) : /\ t[i] \in Nat /\ t[i] <= Bound(t, i, have)
                                 /\ Bound(t, i, have) \in Nat /\ Bound(t, i, have) <= have
         /\ Whole(0, have) <=> \A i \in 1..Len(t) : Whole(t[i], Bound(t, i, have))
<1>1. /\ have \in Nat /\ t \in Seq(Nat) /\ Len(t) \in Nat /\ Len(t) >= 1 /\ t[1] = 0
      /\ \A i \in 1..(Len(t) - 1) :
           t[i] < t[i + 1] /\ t[i + 1] < have /\ ~Follows(t[i + 1])
      /\ \A i \in 1..Len(t) : t[i] \in Nat
  <2>1. have \in Nat
    BY ScanConstants
  <2>2. /\ t \in Seq(Nat) /\ Len(t) >= 1 /\ t[1] = 0
        /\ \A i \in 1..(Len(t) - 1) :
             t[i] < t[i + 1] /\ t[i + 1] < have /\ ~Follows(t[i + 1])
    BY DEF Seams
  <2>3. Len(t) \in Nat /\ \A i \in 1..Len(t) : t[i] \in Nat
    BY <2>2
  <2> QED  BY <2>1, <2>2, <2>3
<1>2. ASSUME NEW i \in 1..Len(t)  PROVE t[i] <= have
  <2>1. CASE i = 1
    BY <1>1, <2>1
  <2>2. CASE i # 1
    <3> DEFINE k == i - 1
    <3>1. k \in 1..(Len(t) - 1) /\ k + 1 = i
      BY <1>1, <2>2
    <3> HIDE DEF k
    <3>2. t[k + 1] < have
      BY <1>1, <3>1
    <3> QED  BY <1>1, <3>1, <3>2
  <2> QED  BY <2>1, <2>2
<1>3. ASSUME NEW i \in 1..Len(t)
      PROVE  /\ t[i] \in Nat /\ t[i] <= Bound(t, i, have)
             /\ Bound(t, i, have) \in Nat /\ Bound(t, i, have) <= have
             /\ Bound(t, i, have) = have \/ ~Follows(Bound(t, i, have))
  <2>1. CASE i < Len(t)
    <3>1. i \in 1..(Len(t) - 1) /\ i + 1 \in 1..Len(t)
      BY <1>1, <2>1
    <3> QED  BY <1>1, <2>1, <3>1 DEF Bound
  <2>2. CASE i = Len(t)
    BY <1>1, <1>2, <2>2 DEF Bound
  <2> QED  BY <1>1, <2>1, <2>2
<1> DEFINE Part(i) == Whole(t[i], Bound(t, i, have))
           Good(i) == Whole(0, Bound(t, i, have)) <=> \A k \in 1..i : Part(k)
           T == {i \in 1..Len(t) : ~Good(i)}
<1> HIDE DEF Part
<1>4. T = {}
  <2>1. SUFFICES ASSUME T # {}  PROVE FALSE
    BY Zenon
  <2>2. PICK m \in T : \A k \in T : m <= k
    <3>1. T \in SUBSET Nat
      OBVIOUS
    <3> QED  BY <2>1, <3>1, LeastNumber, Zenon
  <2>3. m \in 1..Len(t) /\ ~Good(m)
    OBVIOUS
  <2>4. CASE m = 1
    <3>1. Good(1)
      BY <1>1 DEF Part
    <3> QED  BY <2>3, <2>4, <3>1
  <2>5. CASE m # 1
    <3> DEFINE k == m - 1
    <3>1. k \in 1..Len(t) /\ k < Len(t) /\ k + 1 = m /\ ~(m <= k)
      BY <1>1, <2>3, <2>5
    <3> HIDE DEF k
    <3>2. Good(k)
      BY <2>2, <3>1
    <3> HIDE DEF T
    <3>3. Bound(t, k, have) = t[m]
      BY <3>1 DEF Bound
    <3> DEFINE b == Bound(t, m, have)
               e == t[m]
    <3>4. /\ e \in Nat /\ b \in Nat /\ e <= b /\ b <= have /\ e <= have
          /\ e = have \/ ~Follows(e)
      BY <1>3, <2>3, <3>1, <3>3
    <3>5. Part(m) <=> Whole(e, b)
      BY DEF Part
    <3>6. Good(m) <=> (Whole(0, b) <=> \A i \in 1..m : Part(i))
      OBVIOUS
    <3>7. Whole(0, e) <=> \A i \in 1..k : Part(i)
      BY <3>2, <3>3
    <3> HIDE DEF b, e, Good
    <3>8. Whole(0, b) <=> Whole(0, e) /\ Whole(e, b)
      <4>1. e = b \/ ~Follows(e)
        BY <3>4
      <4> QED  BY <3>4, <4>1, WholeCut
    <3>9. (\A i \in 1..m : Part(i)) <=> (\A i \in 1..k : Part(i)) /\ Part(m)
      <4>1. \A i \in 1..m : i \in 1..k \/ i = m
        BY <3>1
      <4>2. \A i \in 1..k : i \in 1..m
        BY <3>1
      <4>3. m \in 1..m
        BY <2>3
      <4> QED  BY <4>1, <4>2, <4>3
    <3> QED  BY <2>3, <3>5, <3>6, <3>7, <3>8, <3>9
  <2> QED  BY <2>4, <2>5
<1>5. Whole(0, have) <=> \A i \in 1..Len(t) : Part(i)
  <2>1. Len(t) \in 1..Len(t) /\ Good(Len(t)) /\ Bound(t, Len(t), have) = have
    BY <1>1, <1>4 DEF Bound
  <2> QED  BY <2>1
<1> QED  BY <1>3, <1>5 DEF Part

-----------------------------------------------------------------------------
(* The verdict *)

\* What a question about UTF-8 goes by
Utf8Asked ==
  /\ input \in Inputs
  /\ ask = "utf8" => have = Len(input)
  /\ ask = "utf8" /\ job # NoJob =>
       /\ job = Utf8Job
       /\ \A i \in DOMAIN done :
            i \in DOMAIN job.starts /\ done[i] = ValidLax(job.starts[i], BlockEnd(i))

UInv == Utf8Asked /\ VerdictIsWhole

LEMMA InitUInv == Init => UInv
  BY DEF Init, UInv, Utf8Asked, VerdictIsWhole

LEMMA LaxPrime ==
  ASSUME input' = input
  PROVE  \A s, e : ValidLax(s, e)' = ValidLax(s, e)
  BY SMT DEF ValidLax

LEMMA StartsPrime ==
  ASSUME input' = input, have' = have
  PROVE  LeadStarts' = LeadStarts
  BY SMT DEF LeadStarts

LEMMA ValidPrime ==
  ASSUME input' = input
  PROVE  ValidText(input)' <=> ValidText(input)
  BY SMT DEF ValidText

\* Steps that do not concern such a question
LEMMA OtherKeeps ==
  ASSUME UInv, input' = input, ask' # "utf8"
  PROVE  UInv'
  BY DEF UInv, Utf8Asked, VerdictIsWhole

LEMMA AskUtf8Verdict == ASSUME IInv, UInv, AskUtf8  PROVE UInv'
<1>1. /\ input' = input /\ have' = have /\ have = Len(input) /\ ask' = "utf8"
      /\ input \in Inputs /\ job = NoJob /\ answer = NoHit
  <2>1. job = NoJob /\ answer = NoHit
    BY DEF IInv, JobOK, Pending, AskUtf8, Idle, Class, Clean
  <2> QED  BY <2>1 DEF UInv, Utf8Asked, AskUtf8, parser
<1>2. ValidText(input)' <=> ValidText(input)
  BY <1>1, ValidPrime
<1>3. CASE Answer(ValidLax(0, have))
  <2>1. answer' = ValidLax(0, have) /\ job' = NoJob
    BY <1>3 DEF Answer
  <2>2. have \in Nat
    BY <1>1, ScanConstants
  <2>3. ValidLax(0, have) = 1 <=> Whole(0, have)
    BY <1>1, <2>2, LaxIsWhole
  <2>4. ValidText(input) <=> Whole(0, have)
    BY <1>1, ValidIsWhole
  <2> QED  BY <1>1, <1>2, <2>1, <2>3, <2>4 DEF UInv, Utf8Asked, VerdictIsWhole
<1>4. CASE Dispatch(Utf8Job)
  <2>1. job' = Utf8Job /\ done' = <<>> /\ answer' = NoHit
    BY <1>1, <1>4 DEF Dispatch
  <2>2. Utf8Job' = Utf8Job
    BY <1>1, StartsPrime DEF Utf8Job
  <2> QED  BY <1>1, <2>1, <2>2 DEF UInv, Utf8Asked, VerdictIsWhole
<1> QED  BY <1>3, <1>4 DEF AskUtf8

LEMMA WorkVerdict == ASSUME IInv, UInv, Work  PROVE UInv'
<1>1. /\ job # NoJob /\ input' = input /\ have' = have /\ ask' = ask
      /\ answer' = answer /\ job' = job
      /\ \E i \in DOMAIN job.starts \ DOMAIN done :
           done' = [k \in DOMAIN done \cup {i} |->
                      IF k = i THEN Scan(job.starts[i], BlockEnd(i)) ELSE done[k]]
  BY DEF Work, parser
<1>2. CASE ask # "utf8"
  BY <1>1, <1>2, OtherKeeps
<1>3. CASE ask = "utf8"
  <2>1. /\ have = Len(input) /\ input \in Inputs /\ job = Utf8Job
        /\ \A i \in DOMAIN done :
             i \in DOMAIN job.starts /\ done[i] = ValidLax(job.starts[i], BlockEnd(i))
    BY <1>1, <1>3 DEF UInv, Utf8Asked
  <2>2. answer = NoHit
    BY <1>1 DEF IInv, Pending
  <2>3. PICK i \in DOMAIN job.starts \ DOMAIN done :
          done' = [k \in DOMAIN done \cup {i} |->
                     IF k = i THEN Scan(job.starts[i], BlockEnd(i)) ELSE done[k]]
    BY <1>1
  <2>4. Scan(job.starts[i], BlockEnd(i)) = ValidLax(job.starts[i], BlockEnd(i))
    <3>1. job.kind = "utf8"
      BY <2>1 DEF Utf8Job
    <3> QED  BY <3>1 DEF Scan
  <2>5. ASSUME NEW k \in DOMAIN done'
        PROVE  k \in DOMAIN job.starts /\ done'[k] = ValidLax(job.starts[k], BlockEnd(k))
    BY <2>1, <2>3, <2>4
  <2>6. Utf8Job' = Utf8Job
    BY <1>1, StartsPrime DEF Utf8Job
  <2>7. ASSUME NEW k
        PROVE  ValidLax(job.starts[k], BlockEnd(k))' = ValidLax(job.starts[k], BlockEnd(k))
    <3>1. BlockEnd(k)' = BlockEnd(k)
      BY <1>1 DEF BlockEnd
    <3> QED  BY <1>1, <3>1, LaxPrime
  <2>8. Utf8Asked'
    BY <1>1, <2>1, <2>5, <2>6, <2>7 DEF Utf8Asked
  <2> QED  BY <1>1, <2>2, <2>8 DEF UInv, VerdictIsWhole
<1> QED  BY <1>2, <1>3

LEMMA CollectUtf8Verdict == ASSUME IInv, UInv, CollectUtf8  PROVE UInv'
<1>1. /\ job.kind = "utf8" /\ input' = input /\ have' = have /\ ask' = ask /\ job' = NoJob
      /\ answer' = Min({done[i] : i \in DOMAIN done})
      /\ AllDone \/ \E i \in DOMAIN done : done[i] = 0
  BY DEF CollectUtf8, Answer, parser
<1>2. ask = "utf8" /\ job # NoJob
  BY <1>1 DEF IInv, JobOK, NoJob, IsWave, IsIndexJob, IndexJob
<1>3. /\ have = Len(input) /\ input \in Inputs /\ job = Utf8Job
      /\ \A i \in DOMAIN done :
           i \in DOMAIN job.starts /\ done[i] = ValidLax(job.starts[i], BlockEnd(i))
  BY <1>2 DEF UInv, Utf8Asked
<1> DEFINE t == LeadStarts
           S == {done[i] : i \in DOMAIN done}
<1>4. have \in Nat
  BY <1>3, ScanConstants
<1>5. job.starts = t /\ job.to = have
  BY <1>3 DEF Utf8Job
<1>6. Seams(t, 0)
  BY <1>4, LeadStartsFacts
<1>7. DOMAIN t = 1..Len(t) /\ Len(t) >= 1 /\ Len(t) \in Nat
  BY <1>6 DEF Seams
<1> HIDE DEF t
<1>8. \A i : BlockEnd(i) = Bound(t, i, have)
  BY <1>5 DEF BlockEnd, Bound
<1>9. /\ \A i \in 1..Len(t) : /\ t[i] \in Nat /\ t[i] <= Bound(t, i, have)
                              /\ Bound(t, i, have) \in Nat /\ Bound(t, i, have) <= have
      /\ Whole(0, have) <=> \A i \in 1..Len(t) : Whole(t[i], Bound(t, i, have))
  BY <1>3, <1>6, SeamsWhole
<1>10. ASSUME NEW i \in DOMAIN done
       PROVE  /\ i \in 1..Len(t) /\ done[i] \in {0, 1}
              /\ done[i] = 1 <=> Whole(t[i], Bound(t, i, have))
  <2>1. i \in 1..Len(t) /\ done[i] = ValidLax(t[i], Bound(t, i, have))
    BY <1>3, <1>5, <1>7, <1>8
  <2>2. /\ t[i] \in Nat /\ t[i] <= Bound(t, i, have)
        /\ Bound(t, i, have) \in Nat /\ Bound(t, i, have) <= Len(input)
    BY <1>3, <1>9, <2>1
  <2>3. /\ ValidLax(t[i], Bound(t, i, have)) \in {0, 1}
        /\ ValidLax(t[i], Bound(t, i, have)) = 1 <=> Whole(t[i], Bound(t, i, have))
    BY <1>3, <2>2, LaxIsWhole
  <2> QED  BY <2>1, <2>3
<1>11. DOMAIN done # {}
  <2>1. AllDone => 1 \in DOMAIN done
    BY <1>5, <1>7 DEF AllDone
  <2> QED  BY <1>1, <2>1
<1>12. S \in SUBSET Nat /\ S # {} /\ \A x \in S : x \in {0, 1}
  BY <1>10, <1>11
<1>13. Min(S) \in S /\ \A x \in S : Min(S) <= x
  BY <1>12, MinFacts
<1>14. answer' = 1 <=> Whole(0, have)
  <2>1. CASE \E i \in DOMAIN done : done[i] = 0
    <3>1. PICK i \in DOMAIN done : done[i] = 0
      BY <2>1
    <3>2. ~Whole(t[i], Bound(t, i, have)) /\ i \in 1..Len(t)
      BY <1>10, <3>1
    <3>3. 0 \in S
      BY <3>1
    <3>4. Min(S) = 0
      BY <1>12, <1>13, <3>3
    <3> HIDE DEF S
    <3>5. answer' = 0
      BY <1>1, <3>4 DEF S
    <3> QED  BY <1>9, <3>2, <3>5
  <2>2. CASE ~\E i \in DOMAIN done : done[i] = 0
    <3>1. DOMAIN done = 1..Len(t)
      BY <1>1, <1>5, <1>7, <2>2 DEF AllDone
    <3>2. \A i \in DOMAIN done : done[i] = 1
      BY <1>10, <2>2
    <3>3. \A i \in 1..Len(t) : Whole(t[i], Bound(t, i, have))
      BY <1>10, <3>1, <3>2
    <3>4. Min(S) = 1
      BY <1>13, <3>2
    <3> HIDE DEF S
    <3>5. answer' = 1
      BY <1>1, <3>4 DEF S
    <3> QED  BY <1>9, <3>3, <3>5
  <2> QED  BY <2>1, <2>2
<1>15. ValidText(input)' <=> ValidText(input)
  BY <1>1, ValidPrime
<1>16. ValidText(input) <=> Whole(0, have)
  BY <1>3, ValidIsWhole
<1> QED  BY <1>1, <1>3, <1>14, <1>15, <1>16 DEF UInv, Utf8Asked, VerdictIsWhole

LEMMA StutterVerdict == ASSUME UInv, UNCHANGED vars  PROVE UInv'
<1>1. /\ input' = input /\ have' = have /\ ask' = ask /\ answer' = answer
      /\ job' = job /\ done' = done
  BY DEF vars, parser
<1>2. Utf8Job' = Utf8Job
  BY <1>1, StartsPrime DEF Utf8Job
<1>3. ASSUME NEW k
      PROVE  ValidLax(job.starts[k], BlockEnd(k))' = ValidLax(job.starts[k], BlockEnd(k))
  <2>1. BlockEnd(k)' = BlockEnd(k)
    BY <1>1 DEF BlockEnd
  <2> QED  BY <1>1, <2>1, LaxPrime
<1>4. Utf8Asked'
  BY <1>1, <1>2, <1>3 DEF UInv, Utf8Asked
<1>5. ValidText(input)' <=> ValidText(input)
  BY <1>1, ValidPrime
<1> QED  BY <1>1, <1>4, <1>5 DEF UInv, VerdictIsWhole

LEMMA NextUInv == IInv /\ UInv /\ [Next]_vars => UInv'
<1> SUFFICES ASSUME IInv, UInv, [Next]_vars  PROVE UInv'
  OBVIOUS
<1>0. "utf8" \notin Class
  BY DEF Class, Clean
<1>1. ASSUME NEW n \in 0..(Len(input) - have), NEW terminate \in BOOLEAN,
             Chunk(n, terminate)
      PROVE  UInv'
  BY <1>1, OtherKeeps DEF Chunk, Idle
<1>2. ASSUME NEW class \in Class, AskRun(class)  PROVE UInv'
  BY <1>0, <1>2, OtherKeeps DEF AskRun, parser
<1>3. CASE AskUtf8
  BY <1>3, AskUtf8Verdict
<1>4. CASE Work
  BY <1>4, WorkVerdict
<1>5. CASE CollectWave
  <2>1. ask \in Class
    BY <1>5 DEF IInv, JobOK, CollectWave, IsIndexJob, IndexJob, NoJob
  <2> QED  BY <1>0, <1>5, <2>1, OtherKeeps DEF CollectWave, parser
<1>6. CASE CollectIndex
  <2>1. ask \in Class
    BY <1>6 DEF IInv, JobOK, CollectIndex, IsWave, NoJob
  <2> QED  BY <1>0, <1>6, <2>1, OtherKeeps DEF CollectIndex, parser
<1>7. CASE Resolve
  BY <1>0, <1>7, OtherKeeps DEF Resolve, parser
<1>8. CASE CollectUtf8
  BY <1>8, CollectUtf8Verdict
<1>9. ASSUME NEW more \in 0..(have - pos), Consume(more)  PROVE UInv'
  BY <1>9, OtherKeeps DEF Consume
<1>10. CASE Report
  BY <1>10, OtherKeeps DEF Report, parser
<1>11. CASE UNCHANGED vars
  BY <1>11, StutterVerdict
<1> QED
  BY <1>1, <1>2, <1>3, <1>4, <1>5, <1>6, <1>7, <1>8, <1>9, <1>10, <1>11 DEF Next, Collect

\* A string is found valid in blocks, checked by any workers in any order and given
\* up at the first that is not, exactly if it is valid as a whole: no block begins
\* within a character (utf8_is_valid_lax, validate_lax_block).
THEOREM VerdictsAreWhole == Spec => []VerdictIsWhole
<1>1. UInv => VerdictIsWhole
  BY DEF UInv
<1> QED  BY <1>1, InitIInv, NextIInv, InitUInv, NextUInv, PTL DEF Spec
=============================================================================
