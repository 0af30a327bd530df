-------------------------- MODULE TreeLinks_proofs --------------------------
EXTENDS TreeLinks, TLAPS

Good(h) == h \in Heap /\ Coherent(h)

\* A store keeps the sort of a field.
LEMMA PutType ==
  ASSUME NEW A, NEW B, NEW f \in [A -> B], NEW x, NEW v, v \in B \/ x \notin A
  PROVE  Put(f, x, v) \in [A -> B]
  BY DEF Put

\* So does a store that is made only if the field names old.
LEMMA SwapType ==
  ASSUME NEW A, NEW B, NEW f \in [A -> B], NEW x, NEW old, NEW v, v \in B
  PROVE  Swap(f, x, old, v) \in [A -> B]
  BY DEF Swap

\* The sorts of the link fields.
LEMMA HeapFields ==
  ASSUME NEW h \in Heap
  PROVE  /\ h.parent \in [Node -> Ptr(Place)] /\ h.prev \in [Node -> Ptr(Node)]
         /\ h.next \in [Node -> Ptr(Node)] /\ h.first \in [Place -> Ptr(Node)]
         /\ h.last \in [Place -> Ptr(Node)] /\ h.props \in [Elements -> Ptr(Attrs)]
         /\ h.doc \in [Node -> Ptr(Doc)]
  BY DEF Heap

\* The sorts of structures are disjoint, and NULL is none of them.
LEMMA Sorts == NULL \notin Place /\ Node \subseteq Place /\ Doc \subseteq Place
                /\ Attrs \subseteq Node /\ Elements \subseteq Node /\ Texts \subseteq Node
                /\ Elements \cap Attrs = {} /\ Texts \cap Attrs = {} /\ Elements \cap Texts = {}
                /\ Doc \cap Node = {} /\ NULL \notin Node
  BY TreeAssumption DEF Place, Node

\* An unlinked node is named by no list.
LEMMA NobodyNames ==
  ASSUME NEW h, Good(h), NEW n \in Node, ~Linked(h, n)
  PROVE  /\ \A k \in Node : h.next[k] # n /\ h.prev[k] # n
         /\ \A x \in Place : h.first[x] # n /\ h.last[x] # n
         /\ \A e \in Elements : h.props[e] # n
  BY Sorts DEF Good, Coherent, ListsAgree, EndsAgree, Linked, Heap, Ptr

\* Seen through agreeing links, unlinking replaces each mention of n by its neighbour,
\* wherever the code looks for it.
LEMMA UnlinkFields ==
  ASSUME NEW h, Good(h), NEW n \in Node
  PROVE  LET g == Unlink(h, n) IN
         /\ g \in Heap
         /\ g.doc = h.doc
         /\ g.parent[n] = NULL /\ g.next[n] = NULL /\ g.prev[n] = NULL
         /\ \A k \in Node \ {n} :
              /\ g.parent[k] = h.parent[k]
              /\ g.next[k] = IF h.next[k] = n THEN h.next[n] ELSE h.next[k]
              /\ g.prev[k] = IF h.prev[k] = n THEN h.prev[n] ELSE h.prev[k]
         /\ \A p \in Place : 
              /\ g.first[p] = IF h.first[p] = n THEN h.next[n] ELSE h.first[p]
              /\ g.last[p] = IF h.last[p] = n THEN h.prev[n] ELSE h.last[p]
         /\ \A e \in Elements : g.props[e] = IF h.props[e] = n THEN h.next[n] ELSE h.props[e]
<1> DEFINE g == Unlink(h, n)
<1>1. g \in Heap
  <2>1. NULL \in Ptr(Place) /\ NULL \in Ptr(Node) /\ NULL \in Ptr(Attrs)
    BY DEF Ptr
  <2>2. g.parent \in [Node -> Ptr(Place)] /\ g.doc \in [Node -> Ptr(Doc)]
    BY <2>1, HeapFields, PutType DEF Good, Unlink
  <2>3. g.prev \in [Node -> Ptr(Node)] /\ g.next \in [Node -> Ptr(Node)]
    <3>1. h.prev[n] \in Ptr(Node) /\ h.next[n] \in Ptr(Node)
      BY HeapFields DEF Good
    <3>2. Put(h.prev, h.next[n], h.prev[n]) \in [Node -> Ptr(Node)]
      BY <3>1, HeapFields, PutType DEF Good
    <3>3. Put(h.next, h.prev[n], h.next[n]) \in [Node -> Ptr(Node)]
      BY <3>1, HeapFields, PutType DEF Good
    <3> QED
      BY <2>1, <3>2, <3>3, PutType DEF Unlink
  <2>4. g.first \in [Place -> Ptr(Node)] /\ g.last \in [Place -> Ptr(Node)]
    BY <2>1, HeapFields, SwapType DEF Good, Unlink
  <2>5. g.props \in [Elements -> Ptr(Attrs)]
    <3>1. n \in Attrs => h.next[n] \in Ptr(Attrs)
      BY HeapFields DEF Good, Coherent, ListsAgree, SameSort, Ptr
    <3> QED
      BY <2>1, <3>1, HeapFields, Sorts DEF Good, Unlink, Swap
  <2> QED
    BY <2>2, <2>3, <2>4, <2>5 DEF Heap, Unlink
<1>2. /\ g.doc = h.doc
      /\ g.parent[n] = NULL /\ g.next[n] = NULL /\ g.prev[n] = NULL
      /\ \A k \in Node \ {n} :
           /\ g.parent[k] = h.parent[k]
           /\ g.next[k] = IF h.next[k] = n THEN h.next[n] ELSE h.next[k]
           /\ g.prev[k] = IF h.prev[k] = n THEN h.prev[n] ELSE h.prev[k]
  BY TreeAssumption, HeapFields DEF Good, Coherent, ListsAgree, Unlink, Put, Node, Place, Ptr
<1>3. /\ \A p \in Place : 
           /\ g.first[p] = IF h.first[p] = n THEN h.next[n] ELSE h.first[p]
           /\ g.last[p] = IF h.last[p] = n THEN h.prev[n] ELSE h.last[p]
      /\ \A e \in Elements : g.props[e] = IF h.props[e] = n THEN h.next[n] ELSE h.props[e]
  BY TreeAssumption, HeapFields DEF Good, Coherent, ListsAgree, EndsAgree, Unlink, Swap, Node, Place, Ptr
<1> QED
  BY <1>1, <1>2, <1>3

\* Unlinking keeps the links coherent.
LEMMA UnlinkGood ==
  ASSUME NEW h, Good(h), NEW n \in Node
  PROVE  Good(Unlink(h, n)) /\ ~Linked(Unlink(h, n), n)
<1> DEFINE g == Unlink(h, n)
<1>0. h \in Heap /\ ListsAgree(h) /\ EndsAgree(h) /\ ListsEnd(h)
  BY DEF Good, Coherent
<1>1. ListsAgree(g)
  BY <1>0, UnlinkFields, HeapFields, Sorts DEF ListsAgree, SameSort, Ptr
<1>2. EndsAgree(g)
  <2> HIDE DEF g
  <2>1. ASSUME NEW k \in Node \ Attrs, g.parent[k] # NULL
        PROVE  /\ g.prev[k] = NULL <=> g.first[g.parent[k]] = k
               /\ g.next[k] = NULL <=> g.last[g.parent[k]] = k
    <3>1. k # n /\ g.parent[k] = h.parent[k] /\ h.parent[k] \in Place
      BY <1>0, <2>1, UnlinkFields, HeapFields, Sorts DEF g, Ptr
    <3>2. g.prev[k] = NULL <=> g.first[g.parent[k]] = k
      <4>1. CASE h.prev[k] = n
        BY <1>0, <2>1, <3>1, <4>1, UnlinkFields, HeapFields, Sorts DEF g, ListsAgree, EndsAgree, SameSort, Ptr
      <4>2. CASE h.prev[k] # n
        BY <1>0, <2>1, <3>1, <4>2, UnlinkFields, HeapFields, Sorts DEF g, ListsAgree, EndsAgree, SameSort, Ptr
      <4> QED
        BY <4>1, <4>2
    <3>3. g.next[k] = NULL <=> g.last[g.parent[k]] = k
      <4>1. CASE h.next[k] = n
        BY <1>0, <2>1, <3>1, <4>1, UnlinkFields, HeapFields, Sorts DEF g, ListsAgree, EndsAgree, SameSort, Ptr
      <4>2. CASE h.next[k] # n
        BY <1>0, <2>1, <3>1, <4>2, UnlinkFields, HeapFields, Sorts DEF g, ListsAgree, EndsAgree, SameSort, Ptr
      <4> QED
        BY <4>1, <4>2
    <3> QED
      BY <3>2, <3>3
  <2>2. \A a \in Attrs : g.parent[a] # NULL =>
          /\ g.parent[a] \in Elements
          /\ g.prev[a] = NULL <=> g.props[g.parent[a]] = a
    BY <1>0, UnlinkFields, HeapFields, Sorts DEF g, ListsAgree, EndsAgree, SameSort, Ptr
  <2>3. ASSUME NEW p \in Place
        PROVE  /\ g.first[p] = NULL <=> g.last[p] = NULL
               /\ g.first[p] # NULL => g.first[p] \notin Attrs /\ g.parent[g.first[p]] = p
               /\ g.last[p] # NULL => g.last[p] \notin Attrs /\ g.parent[g.last[p]] = p
    <3>1. /\ g.first[p] = IF h.first[p] = n THEN h.next[n] ELSE h.first[p]
          /\ g.last[p] = IF h.last[p] = n THEN h.prev[n] ELSE h.last[p]
          /\ \A k \in Node \ {n} : g.parent[k] = h.parent[k]
      BY UnlinkFields DEF g
    <3>2. CASE h.first[p] = n /\ h.last[p] = n
      BY <1>0, <3>1, <3>2, HeapFields, Sorts DEF ListsAgree, EndsAgree, SameSort, Ptr
    <3>3. CASE h.first[p] = n /\ h.last[p] # n
      BY <1>0, <3>1, <3>3, HeapFields, Sorts DEF ListsAgree, EndsAgree, SameSort, Ptr
    <3>4. CASE h.first[p] # n /\ h.last[p] = n
      BY <1>0, <3>1, <3>4, HeapFields, Sorts DEF ListsAgree, EndsAgree, SameSort, Ptr
    <3>5. CASE h.first[p] # n /\ h.last[p] # n
      BY <1>0, <3>1, <3>5, HeapFields, Sorts DEF ListsAgree, EndsAgree, SameSort, Ptr
    <3> QED
      BY <3>2, <3>3, <3>4, <3>5
  <2>4. \A e \in Elements : g.props[e] # NULL => g.parent[g.props[e]] = e
    BY <1>0, UnlinkFields, HeapFields, Sorts DEF g, ListsAgree, EndsAgree, SameSort, Ptr
  <2> QED
    BY <2>1, <2>2, <2>3, <2>4 DEF EndsAgree
<1>3. ListsEnd(g)
  <2> HIDE DEF g
  <2> SUFFICES ASSUME NEW S \in SUBSET Node
               PROVE  /\ (\A k \in S : g.prev[k] \in S) => S = {}
                      /\ (\A k \in S : g.next[k] \in S) => S = {}
    BY DEF ListsEnd
  <2>1. ASSUME \A k \in S : g.prev[k] \in S PROVE S = {}
    <3>1. n \notin S
      BY <2>1, UnlinkFields, Sorts DEF g
    <3>2. CASE h.next[n] \in S
      <4>1. h.prev[n] \in S
        <5>1. h.next[n] \in Node /\ h.next[n] # n /\ h.prev[h.next[n]] = n
          BY <1>0, <3>1, <3>2, Sorts DEF ListsAgree
        <5>2. g.prev[h.next[n]] = h.prev[n]
          BY <5>1, UnlinkFields DEF g
        <5> QED
          BY <2>1, <3>2, <5>2
      <4>2. \A k \in S : h.prev[k] = n \/ h.prev[k] = g.prev[k]
        BY <3>1, UnlinkFields DEF g
      <4>3. \A k \in S \cup {n} : h.prev[k] \in S \cup {n}
        BY <2>1, <4>1, <4>2
      <4> QED
        BY <1>0, <4>3 DEF ListsEnd
    <3>3. CASE h.next[n] \notin S
      <4>1. \A k \in S : h.prev[k] \in S
        BY <1>0, <2>1, <3>1, <3>3, UnlinkFields, HeapFields, Sorts DEF g, ListsAgree, Ptr
      <4> QED
        BY <1>0, <4>1 DEF ListsEnd
    <3> QED
      BY <3>2, <3>3
  <2>2. ASSUME \A k \in S : g.next[k] \in S PROVE S = {}
    <3>1. n \notin S
      BY <2>2, UnlinkFields, Sorts DEF g
    <3>2. CASE h.prev[n] \in S
      <4>1. h.next[n] \in S
        <5>1. h.prev[n] \in Node /\ h.prev[n] # n /\ h.next[h.prev[n]] = n
          BY <1>0, <3>1, <3>2, Sorts DEF ListsAgree
        <5>2. g.next[h.prev[n]] = h.next[n]
          BY <5>1, UnlinkFields DEF g
        <5> QED
          BY <2>2, <3>2, <5>2
      <4>2. \A k \in S : h.next[k] = n \/ h.next[k] = g.next[k]
        BY <3>1, UnlinkFields DEF g
      <4>3. \A k \in S \cup {n} : h.next[k] \in S \cup {n}
        BY <2>2, <4>1, <4>2
      <4> QED
        BY <1>0, <4>3 DEF ListsEnd
    <3>3. CASE h.prev[n] \notin S
      <4>1. \A k \in S : h.next[k] \in S
        BY <1>0, <2>2, <3>1, <3>3, UnlinkFields, HeapFields, Sorts DEF g, ListsAgree, Ptr
      <4> QED
        BY <1>0, <4>1 DEF ListsEnd
    <3> QED
      BY <3>2, <3>3
  <2> QED
    BY <2>1, <2>2
<1> QED
  BY <1>1, <1>2, <1>3, UnlinkFields DEF Good, Coherent, Linked

\* pv and nx are neighbours below p, between which n can be put.
Gap(h, n, p, pv, nx) ==
  /\ p \in Ptr(Place) /\ pv \in Ptr(Node) \ {n} /\ nx \in Ptr(Node) \ {n}
  /\ pv # NULL => h.next[pv] = nx /\ h.parent[pv] = p /\ SameSort(pv, n)
  /\ nx # NULL => h.prev[nx] = pv /\ h.parent[nx] = p /\ SameSort(nx, n)
  /\ p # NULL /\ n \notin Attrs =>
       (pv = NULL => h.first[p] = nx) /\ (nx = NULL => h.last[p] = pv)
  /\ p # NULL /\ n \in Attrs => p \in Elements /\ (pv = NULL => h.props[p] = nx)

\* The fields after a node is put into a gap.
LEMMA LinkFields ==
  ASSUME NEW h \in Heap, NEW n \in Node, NEW p \in Ptr(Place),
         NEW pv \in Ptr(Node) \ {n}, NEW nx \in Ptr(Node) \ {n}
  PROVE  LET g == Link(h, n, p, pv, nx) IN
         /\ g \in Heap
         /\ g.doc = h.doc
         /\ \A k \in Node :
              /\ g.parent[k] = IF k = n THEN p ELSE h.parent[k]
              /\ g.prev[k] = IF k = nx THEN n ELSE IF k = n THEN pv ELSE h.prev[k]
              /\ g.next[k] = IF k = pv THEN n ELSE IF k = n THEN nx ELSE h.next[k]
         /\ \A x \in Place :
              /\ g.first[x] = IF x = p /\ n \notin Attrs /\ pv = NULL THEN n ELSE h.first[x]
              /\ g.last[x] = IF x = p /\ n \notin Attrs /\ nx = NULL THEN n ELSE h.last[x]
         /\ \A e \in Elements :
              g.props[e] = IF e = p /\ n \in Attrs /\ pv = NULL THEN n ELSE h.props[e]
<1> DEFINE g == Link(h, n, p, pv, nx)
<1>1. g \in Heap
  <2>1. g.parent \in [Node -> Ptr(Place)] /\ g.doc \in [Node -> Ptr(Doc)]
    BY HeapFields, PutType DEF Link
  <2>2. n \in Ptr(Node) /\ pv \in Ptr(Node) /\ nx \in Ptr(Node)
    BY DEF Ptr
  <2>3. g.prev \in [Node -> Ptr(Node)] /\ g.next \in [Node -> Ptr(Node)]
    <3>1. Put(h.prev, n, pv) \in [Node -> Ptr(Node)] /\ Put(h.next, n, nx) \in [Node -> Ptr(Node)]
      BY <2>2, HeapFields, PutType
    <3> QED
      BY <2>2, <3>1, PutType DEF Link
  <2>4. g.first \in [Place -> Ptr(Node)] /\ g.last \in [Place -> Ptr(Node)]
    BY <2>2, HeapFields, PutType DEF Link
  <2>5. g.props \in [Elements -> Ptr(Attrs)]
    BY HeapFields DEF Link, Put, Ptr
  <2> QED
    BY <2>1, <2>3, <2>4, <2>5 DEF Heap, Link
<1>2. /\ g.doc = h.doc
      /\ \A k \in Node :
           /\ g.parent[k] = IF k = n THEN p ELSE h.parent[k]
           /\ g.prev[k] = IF k = nx THEN n ELSE IF k = n THEN pv ELSE h.prev[k]
           /\ g.next[k] = IF k = pv THEN n ELSE IF k = n THEN nx ELSE h.next[k]
  BY HeapFields DEF Link, Put
<1>3. /\ \A x \in Place :
           /\ g.first[x] = IF x = p /\ n \notin Attrs /\ pv = NULL THEN n ELSE h.first[x]
           /\ g.last[x] = IF x = p /\ n \notin Attrs /\ nx = NULL THEN n ELSE h.last[x]
      /\ \A e \in Elements :
           g.props[e] = IF e = p /\ n \in Attrs /\ pv = NULL THEN n ELSE h.props[e]
  BY HeapFields DEF Link, Put
<1> QED
  BY <1>1, <1>2, <1>3

\* Putting an unlinked node into a gap keeps the links coherent.
LEMMA LinkGood ==
  ASSUME NEW h, Good(h), NEW n \in Node, ~Linked(h, n), NEW p, NEW pv, NEW nx,
         Gap(h, n, p, pv, nx)
  PROVE  Good(Link(h, n, p, pv, nx))
<1> DEFINE g == Link(h, n, p, pv, nx)
<1>0. h \in Heap /\ ListsAgree(h) /\ EndsAgree(h) /\ ListsEnd(h)
  BY DEF Good, Coherent
<1>1. /\ p \in Ptr(Place) /\ pv \in Ptr(Node) \ {n} /\ nx \in Ptr(Node) \ {n}
      /\ h.parent[n] = NULL /\ h.prev[n] = NULL /\ h.next[n] = NULL
  BY DEF Gap, Linked
<1>2. /\ g \in Heap
      /\ \A k \in Node :
           /\ g.parent[k] = IF k = n THEN p ELSE h.parent[k]
           /\ g.prev[k] = IF k = nx THEN n ELSE IF k = n THEN pv ELSE h.prev[k]
           /\ g.next[k] = IF k = pv THEN n ELSE IF k = n THEN nx ELSE h.next[k]
      /\ \A x \in Place :
           /\ g.first[x] = IF x = p /\ n \notin Attrs /\ pv = NULL THEN n ELSE h.first[x]
           /\ g.last[x] = IF x = p /\ n \notin Attrs /\ nx = NULL THEN n ELSE h.last[x]
      /\ \A e \in Elements :
           g.props[e] = IF e = p /\ n \in Attrs /\ pv = NULL THEN n ELSE h.props[e]
  BY <1>0, <1>1, LinkFields
<1>3. /\ \A k \in Node : h.next[k] # n /\ h.prev[k] # n
      /\ \A x \in Place : h.first[x] # n /\ h.last[x] # n
      /\ \A e \in Elements : h.props[e] # n
  BY NobodyNames
<1> HIDE DEF g
<1>4. ListsAgree(g)
  BY <1>0, <1>1, <1>2, <1>3, HeapFields, Sorts DEF ListsAgree, Gap, SameSort, Ptr
<1>5. EndsAgree(g)
  <2>1. ASSUME NEW k \in Node \ Attrs, g.parent[k] # NULL
        PROVE  /\ g.prev[k] = NULL <=> g.first[g.parent[k]] = k
               /\ g.next[k] = NULL <=> g.last[g.parent[k]] = k
    <3>0. g.parent[k] \in Place /\ (k # n => g.parent[k] = h.parent[k])
      BY <1>2, <2>1, HeapFields DEF Ptr
    <3>1. CASE k = n
      BY <1>0, <1>1, <1>2, <1>3, <2>1, <3>0, <3>1, HeapFields, Sorts DEF EndsAgree, Gap, SameSort, Ptr
    <3>2. CASE k # n /\ g.parent[k] = p /\ n \notin Attrs
      <4>0. /\ h.parent[k] = p /\ p \in Place /\ p # NULL /\ n # NULL /\ k # NULL
            /\ h.prev[k] = NULL <=> h.first[p] = k
            /\ h.next[k] = NULL <=> h.last[p] = k
            /\ pv = NULL => h.first[p] = nx
            /\ nx = NULL => h.last[p] = pv
            /\ nx # NULL => h.prev[nx] = pv
            /\ pv # NULL => h.next[pv] = nx
        BY <1>0, <3>0, <3>2, Sorts DEF EndsAgree, Gap
      <4>1. g.prev[k] = NULL <=> g.first[g.parent[k]] = k
        BY <1>2, <3>0, <3>2, <4>0
      <4>2. g.next[k] = NULL <=> g.last[g.parent[k]] = k
        BY <1>2, <3>0, <3>2, <4>0
      <4> QED
        BY <4>1, <4>2
    <3>3. CASE k # n /\ (g.parent[k] # p \/ n \in Attrs)
      BY <1>0, <1>1, <1>2, <1>3, <2>1, <3>0, <3>3, HeapFields, Sorts DEF EndsAgree, Gap, SameSort, Ptr
    <3> QED
      BY <3>1, <3>2, <3>3
  <2>2. ASSUME NEW a \in Attrs, g.parent[a] # NULL
        PROVE  /\ g.parent[a] \in Elements
               /\ g.prev[a] = NULL <=> g.props[g.parent[a]] = a
    BY <1>0, <1>1, <1>2, <1>3, <2>2, HeapFields, Sorts DEF EndsAgree, Gap, SameSort, Ptr
  <2>3. ASSUME NEW x \in Place
        PROVE  /\ g.first[x] = NULL <=> g.last[x] = NULL
               /\ g.first[x] # NULL => g.first[x] \notin Attrs /\ g.parent[g.first[x]] = x
               /\ g.last[x] # NULL => g.last[x] \notin Attrs /\ g.parent[g.last[x]] = x
    <3>1. CASE x # p \/ n \in Attrs
      BY <1>0, <1>1, <1>2, <1>3, <3>1, HeapFields, Sorts DEF EndsAgree, SameSort, Ptr
    <3>2. CASE x = p /\ n \notin Attrs
      <4>1. g.first[x] = NULL <=> g.last[x] = NULL
        BY <1>0, <1>1, <1>2, <1>3, <3>2, HeapFields, Sorts DEF EndsAgree, Gap, SameSort, Ptr
      <4>2. g.first[x] # NULL => g.first[x] \notin Attrs /\ g.parent[g.first[x]] = x
        BY <1>0, <1>1, <1>2, <1>3, <3>2, HeapFields, Sorts DEF EndsAgree, Ptr
      <4>3. g.last[x] # NULL => g.last[x] \notin Attrs /\ g.parent[g.last[x]] = x
        BY <1>0, <1>1, <1>2, <1>3, <3>2, HeapFields, Sorts DEF EndsAgree, Ptr
      <4> QED
        BY <4>1, <4>2, <4>3
    <3> QED
      BY <3>1, <3>2
  <2>4. \A e \in Elements : g.props[e] # NULL => g.parent[g.props[e]] = e
    BY <1>0, <1>1, <1>2, <1>3, HeapFields, Sorts DEF EndsAgree, Gap, SameSort, Ptr
  <2> QED
    BY <2>1, <2>2, <2>3, <2>4 DEF EndsAgree
<1>6. ListsEnd(g)
  <2> SUFFICES ASSUME NEW S \in SUBSET Node
               PROVE  /\ (\A k \in S : g.prev[k] \in S) => S = {}
                      /\ (\A k \in S : g.next[k] \in S) => S = {}
    BY DEF ListsEnd
  <2>1. ASSUME \A k \in S : g.prev[k] \in S PROVE S = {}
    <3>1. \A k \in S \ {n} : h.prev[k] \in S \ {n}
      BY <1>0, <1>1, <1>2, <1>3, <2>1, HeapFields, Sorts DEF ListsAgree, Gap, Ptr
    <3>2. S \ {n} = {}
      BY <1>0, <3>1 DEF ListsEnd
    <3> QED
      BY <1>1, <1>2, <2>1, <3>2
  <2>2. ASSUME \A k \in S : g.next[k] \in S PROVE S = {}
    <3>1. \A k \in S \ {n} : h.next[k] \in S \ {n}
      BY <1>0, <1>1, <1>2, <1>3, <2>2, HeapFields, Sorts DEF ListsAgree, Gap, Ptr
    <3>2. S \ {n} = {}
      BY <1>0, <3>1 DEF ListsEnd
    <3> QED
      BY <1>1, <1>2, <2>2, <3>2
  <2> QED
    BY <2>1, <2>2
<1> QED
  BY <1>2, <1>4, <1>5, <1>6 DEF Good, Coherent, g

\* What is walked from x to the end of a list: the least set with x that is closed
\* under next.
LEMMA AfterFacts ==
  ASSUME NEW h \in Heap, NEW x \in Node
  PROVE  /\ x \in After(h, x) /\ After(h, x) \subseteq Node
         /\ \A k \in After(h, x) : h.next[k] # NULL => h.next[k] \in After(h, x)
         /\ \A T \in SUBSET Node :
              x \in T /\ (\A k \in T : h.next[k] # NULL => h.next[k] \in T)
                => After(h, x) \subseteq T
<1> DEFINE closed == {T \in SUBSET (Node \ {x}) :
                        \A k \in T \cup {x} : h.next[k] \in T \cup {x, NULL}}
<1>1. After(h, x) = {x} \cup {m \in Node : \A T \in closed : m \in T}
  BY DEF After
<1>2. \A k \in After(h, x) : h.next[k] # NULL => h.next[k] \in After(h, x)
  <2> SUFFICES ASSUME NEW k \in After(h, x), h.next[k] # NULL, h.next[k] # x
               PROVE  h.next[k] \in After(h, x)
    BY <1>1
  <2>1. h.next[k] \in Node
    BY <1>1, HeapFields DEF Ptr
  <2>2. \A T \in closed : h.next[k] \in T
    BY <1>1
  <2> QED
    BY <1>1, <2>1, <2>2
<1>3. ASSUME NEW T \in SUBSET Node, x \in T,
             \A k \in T : h.next[k] # NULL => h.next[k] \in T
      PROVE  After(h, x) \subseteq T
  <2>1. T \ {x} \in closed
    BY <1>3
  <2> QED
    BY <1>1, <1>3, <2>1
<1> HIDE DEF closed
<1> QED
  BY <1>1, <1>2, <1>3

\* The walks over the two lists of p find exactly the nodes that name p as parent.
LEMMA ListedIff ==
  ASSUME NEW h, Good(h), NEW p \in Place, NEW k \in Node
  PROVE  /\ k \in ChildrenOf(h, p) <=> h.parent[k] = p /\ k \notin Attrs
         /\ k \in PropsOf(h, p) <=> h.parent[k] = p /\ k \in Attrs
         /\ k \in Listed(h, p) <=> h.parent[k] = p
<1>0. h \in Heap /\ ListsAgree(h) /\ EndsAgree(h) /\ ListsEnd(h)
  BY DEF Good, Coherent
<1>1. k \in ChildrenOf(h, p) => h.parent[k] = p /\ k \notin Attrs
  <2> SUFFICES ASSUME h.first[p] # NULL
               PROVE  After(h, h.first[p]) \subseteq {m \in Node \ Attrs : h.parent[m] = p}
    BY DEF ChildrenOf, From
  <2> DEFINE T == {m \in Node \ Attrs : h.parent[m] = p}
  <2>1. h.first[p] \in T
    BY <1>0, HeapFields DEF EndsAgree, Ptr
  <2>2. \A m \in T : h.next[m] # NULL => h.next[m] \in T
    BY <1>0, HeapFields DEF ListsAgree, SameSort, Ptr
  <2>3. T \in SUBSET Node
    OBVIOUS
  <2> HIDE DEF T
  <2>4. h.first[p] \in Node
    BY <2>1, <2>3
  <2>5. After(h, h.first[p]) \subseteq T
    BY <1>0, <2>1, <2>2, <2>3, <2>4, AfterFacts
  <2> QED
    BY <2>5 DEF T
<1>2. h.parent[k] = p /\ k \notin Attrs => k \in ChildrenOf(h, p)
  <2> DEFINE Bad == {m \in Node \ Attrs : h.parent[m] = p /\ m \notin ChildrenOf(h, p)}
  <2>1. \A m \in Bad : h.prev[m] \in Bad
    <3> SUFFICES ASSUME NEW m \in Bad PROVE h.prev[m] \in Bad
      OBVIOUS
    <3>1. h.first[p] # NULL => /\ h.first[p] \in ChildrenOf(h, p)
                              /\ \A j \in ChildrenOf(h, p) : h.next[j] # NULL => h.next[j] \in ChildrenOf(h, p)
      BY <1>0, AfterFacts, HeapFields DEF ChildrenOf, From, Ptr
    <3>2. h.prev[m] # NULL
      BY <1>0, <3>1, HeapFields, Sorts DEF EndsAgree, Ptr
    <3>3. h.prev[m] \in Node /\ h.next[h.prev[m]] = m
      BY <1>0, <3>2, HeapFields DEF ListsAgree, Ptr
    <3>4. h.parent[h.prev[m]] = p /\ h.prev[m] \notin Attrs
      BY <1>0, <3>3, Sorts DEF ListsAgree, SameSort
    <3>5. h.prev[m] \notin ChildrenOf(h, p)
      BY <1>0, <3>1, <3>3, Sorts DEF ChildrenOf, From
    <3> QED
      BY <3>3, <3>4, <3>5
  <2>2. Bad = {}
    BY <1>0, <2>1 DEF ListsEnd
  <2> QED
    BY <2>2
<1>3. k \in PropsOf(h, p) => h.parent[k] = p /\ k \in Attrs
  <2> SUFFICES ASSUME p \in Elements, h.props[p] # NULL
               PROVE  After(h, h.props[p]) \subseteq {m \in Attrs : h.parent[m] = p}
    BY DEF PropsOf, From
  <2> DEFINE T == {m \in Attrs : h.parent[m] = p}
  <2>1. h.props[p] \in T
    BY <1>0, HeapFields DEF EndsAgree, Ptr
  <2>2. \A m \in T : h.next[m] # NULL => h.next[m] \in T
    BY <1>0, HeapFields, Sorts DEF ListsAgree, SameSort, Ptr
  <2>3. T \in SUBSET Node
    BY Sorts
  <2> HIDE DEF T
  <2>4. h.props[p] \in Node
    BY <2>1, <2>3
  <2>5. After(h, h.props[p]) \subseteq T
    BY <1>0, <2>1, <2>2, <2>3, <2>4, AfterFacts
  <2> QED
    BY <2>5 DEF T
<1>4. h.parent[k] = p /\ k \in Attrs => k \in PropsOf(h, p)
  <2> SUFFICES ASSUME h.parent[k] = p, k \in Attrs PROVE k \in PropsOf(h, p)
    OBVIOUS
  <2>0. p \in Elements
    BY <1>0, Sorts DEF EndsAgree
  <2> DEFINE Bad == {m \in Attrs : h.parent[m] = p /\ m \notin PropsOf(h, p)}
  <2>1. \A m \in Bad : h.prev[m] \in Bad
    <3> SUFFICES ASSUME NEW m \in Bad PROVE h.prev[m] \in Bad
      OBVIOUS
    <3>1. h.props[p] # NULL => /\ h.props[p] \in PropsOf(h, p)
                              /\ \A j \in PropsOf(h, p) : h.next[j] # NULL => h.next[j] \in PropsOf(h, p)
      BY <1>0, <2>0, AfterFacts, HeapFields, Sorts DEF PropsOf, From, Ptr
    <3>2. h.prev[m] # NULL
      BY <1>0, <2>0, <3>1, HeapFields, Sorts DEF EndsAgree, Ptr
    <3>3. h.prev[m] \in Node /\ h.next[h.prev[m]] = m
      BY <1>0, <3>2, HeapFields, Sorts DEF ListsAgree, Ptr
    <3>4. h.parent[h.prev[m]] = p /\ h.prev[m] \in Attrs
      BY <1>0, <3>3, Sorts DEF ListsAgree, SameSort
    <3>5. h.prev[m] \notin PropsOf(h, p)
      BY <1>0, <2>0, <3>1, <3>3, Sorts DEF PropsOf, From
    <3> QED
      BY <3>3, <3>4, <3>5
  <2>2. Bad = {}
    BY <1>0, <2>1, Sorts DEF ListsEnd
  <2> QED
    BY <2>2
<1> QED
  BY <1>1, <1>2, <1>3, <1>4 DEF Listed

\* What is reached is the least closed set; it is reached through the parent pointers.
LEMMA ReachFacts ==
  ASSUME NEW h, Good(h), NEW S \in SUBSET Node, NEW E \in SUBSET Node
  PROVE  LET R == Reach(h, S, E) IN
         /\ S \subseteq R /\ R \subseteq Node
         /\ \A k \in E : h.parent[k] \in R => k \in R
         /\ \A k \in R \ S : k \in E /\ h.parent[k] \in R
         /\ \A T \in SUBSET Node :
              S \subseteq T /\ (\A k \in E : h.parent[k] \in T => k \in T) => R \subseteq T
<1> DEFINE R == Reach(h, S, E)
           edges == UNION {{p} \X (Listed(h, p) \cap E) : p \in S \cup E}
           closed == {T \in SUBSET (E \ S) :
                        \A e \in edges : e[1] \in S \cup T => e[2] \in S \cup T}
           Closed(T) == \A k \in E : h.parent[k] \in S \cup T => k \in S \cup T
<1>1. R = S \cup {m \in Node : \A T \in closed : m \in T}
  BY DEF Reach
<1>2. ASSUME NEW T \in SUBSET (E \ S)
      PROVE  T \in closed <=> Closed(T)
  <2>1. ASSUME Closed(T), NEW e \in edges, e[1] \in S \cup T PROVE e[2] \in S \cup T
    <3>1. PICK p \in S \cup E : e \in {p} \X (Listed(h, p) \cap E)
      BY <2>1
    <3>2. e[1] = p /\ e[2] \in Listed(h, p) /\ e[2] \in E
      BY <3>1
    <3>3. h.parent[e[2]] = p
      BY <3>2, ListedIff, Sorts
    <3> QED
      BY <2>1, <3>2, <3>3
  <2>2. ASSUME T \in closed, NEW k \in E, h.parent[k] \in S \cup T PROVE k \in S \cup T
    <3>1. k \in Listed(h, h.parent[k])
      BY <2>2, ListedIff, Sorts
    <3>2. <<h.parent[k], k>> \in edges
      BY <2>2, <3>1
    <3> QED
      BY <2>2, <3>2
  <2> QED
    BY <2>1, <2>2
<1> HIDE DEF edges, closed, R
<1>3. closed \subseteq SUBSET (E \ S)
  BY DEF closed
<1>4. ASSUME NEW k \in E, h.parent[k] \in R PROVE k \in R
  BY <1>1, <1>2, <1>3, <1>4
<1>5. R \ S \subseteq E \ S
  <2>1. E \ S \in closed
    BY <1>2
  <2> QED
    BY <1>1, <2>1
<1>6. ASSUME NEW k \in R \ S PROVE h.parent[k] \in R
  <2> SUFFICES ASSUME h.parent[k] \notin R PROVE FALSE
    OBVIOUS
  <2> DEFINE T == (R \ S) \ {k}
  <2>1. T \in SUBSET (E \ S)
    BY <1>5
  <2>2. Closed(T)
    BY <1>1, <1>4
  <2>3. T \in closed
    BY <1>2, <2>1, <2>2
  <2> QED
    BY <1>1, <2>3
<1>7. ASSUME NEW T \in SUBSET Node, S \subseteq T,
             \A k \in E : h.parent[k] \in T => k \in T
      PROVE  R \subseteq T
  <2> DEFINE T0 == (T \cap E) \ S
  <2>1. T0 \in SUBSET (E \ S)
    OBVIOUS
  <2>2. Closed(T0)
    BY <1>7
  <2>3. T0 \in closed
    BY <1>2, <2>1, <2>2
  <2> QED
    BY <1>1, <1>7, <2>3
<1> QED
  BY <1>1, <1>4, <1>5, <1>6, <1>7 DEF R

\* With a node, everything that names it as parent is below the set.
LEMMA BelowFacts ==
  ASSUME NEW h, Good(h), NEW S \in SUBSET Node
  PROVE  /\ S \subseteq Below(h, S) /\ Below(h, S) \subseteq Node
         /\ \A k \in Node : h.parent[k] \in Below(h, S) => k \in Below(h, S)
         /\ \A k \in Below(h, S) \ S : h.parent[k] \in Below(h, S)
         /\ \A T \in SUBSET Node :
              S \subseteq T /\ (\A k \in Node : h.parent[k] \in T => k \in T)
                => Below(h, S) \subseteq T
<1> DEFINE E == Node
<1>1. E \in SUBSET Node
  OBVIOUS
<1> HIDE DEF E
<1>2. LET R == Reach(h, S, E) IN
      /\ S \subseteq R /\ R \subseteq Node
      /\ \A k \in E : h.parent[k] \in R => k \in R
      /\ \A k \in R \ S : k \in E /\ h.parent[k] \in R
      /\ \A T \in SUBSET Node :
           S \subseteq T /\ (\A k \in E : h.parent[k] \in T => k \in T) => R \subseteq T
  BY <1>1, ReachFacts
<1> QED
  BY <1>2 DEF Below, E

----------------------------------------------------------------------------
SameLinks(g, h) ==
  /\ g.parent = h.parent /\ g.prev = h.prev /\ g.next = h.next
  /\ g.first = h.first /\ g.last = h.last /\ g.props = h.props

\* The documents agree with the parents', but for the node c.
DocsBut(h, c) ==
  \A n \in Node \ {c} : h.parent[n] \notin Attrs \cup {NULL} =>
    DocOf(h, h.parent[n]) \in {NULL, h.doc[n]}

\* Every node is where one of its kind can be.
Placed(h) == \A n \in Node : h.parent[n] # NULL => MayHold(h.parent[n], n)

Sound(h, L) ==
  Good(h) /\ Placed(h) /\ DocsAgree(h) /\ Within(h, L) /\ L \subseteq Place

\* What depends on links only is not changed by documents.
LEMMA SameLinksGood ==
  ASSUME NEW h, Good(h), NEW g \in Heap, SameLinks(g, h)
  PROVE  Good(g)
  BY DEF Good, Coherent, ListsAgree, EndsAgree, ListsEnd, SameLinks

\* A change of documents changes only these.
LEMMA SetDocsFields ==
  ASSUME NEW h \in Heap, NEW S \in SUBSET Node, NEW d \in Ptr(Doc)
  PROVE  LET g == SetDocs(h, S, d) IN
         /\ g \in Heap /\ SameLinks(g, h)
         /\ \A k \in Node : g.doc[k] = IF k \in S THEN d ELSE h.doc[k]
  BY HeapFields DEF SetDocs, SameLinks, Heap

\* Documents that are in use do not dangle.
LEMMA SetDocsWithin ==
  ASSUME NEW h \in Heap, NEW L, Within(h, L), NEW S \in SUBSET (Node \cap L),
         NEW d \in Ptr(Doc), d \in Ptr(L)
  PROVE  Within(SetDocs(h, S, d), L)
<1> DEFINE g == SetDocs(h, S, d)
<1>1. /\ SameLinks(g, h)
      /\ \A k \in Node : g.doc[k] = IF k \in S THEN d ELSE h.doc[k]
  BY SetDocsFields
<1> HIDE DEF g
<1>2. Within(g, L)
  BY <1>1 DEF Within, SameLinks, Ptr
<1> QED
  BY <1>2 DEF g

\* xmlSetTreeDoc of parentless nodes keeps the heap sound: where it stops, what is below
\* has the new document already.
LEMMA SetTreeDocsSound ==
  ASSUME NEW h, NEW L, Sound(h, L), NEW S \in SUBSET (Node \cap L),
         \A n \in S : h.parent[n] = NULL,
         NEW d \in Ptr(Doc), d \in Ptr(L)
  PROVE  LET g == SetTreeDocs(h, S, d) IN
         /\ Sound(g, L) /\ SameLinks(g, h) /\ \A n \in S : g.doc[n] = d
         /\ \A k \in Node : g.doc[k] \in {h.doc[k], d}
<1> DEFINE others == {k \in Node : h.doc[k] # d}
           R == Reach(h, S \cap others, Attrs \cup others)
           g == SetDocs(h, R, d)
<1>0. Good(h) /\ h \in Heap /\ Placed(h) /\ DocsAgree(h) /\ Within(h, L) /\ L \subseteq Place
  BY DEF Sound, Good
<1>1. CASE S \cap others = {}
  <2>1. SetTreeDocs(h, S, d) = h
    BY <1>1 DEF SetTreeDocs
  <2>2. \A n \in S : h.doc[n] = d
    BY <1>1
  <2> QED
    BY <2>1, <2>2 DEF SameLinks
<1>2. CASE S \cap others # {}
  <2>1. SetTreeDocs(h, S, d) = g
    BY <1>2 DEF SetTreeDocs
  <2>2. /\ S \cap others \subseteq R /\ R \subseteq Node
        /\ \A k \in Attrs \cup others : h.parent[k] \in R => k \in R
        /\ \A k \in R \ (S \cap others) : h.parent[k] \in R
    <3> DEFINE S0 == S \cap others
               E0 == Attrs \cup others
    <3>1. S0 \in SUBSET Node /\ E0 \in SUBSET Node /\ R = Reach(h, S0, E0)
      BY Sorts
    <3> HIDE DEF S0, E0, R, others
    <3>2. LET Q == Reach(h, S0, E0) IN
          /\ S0 \subseteq Q /\ Q \subseteq Node
          /\ \A k \in E0 : h.parent[k] \in Q => k \in Q
          /\ \A k \in Q \ S0 : h.parent[k] \in Q
      BY <1>0, <3>1, ReachFacts
    <3> QED
      BY <3>1, <3>2 DEF S0, E0, others
  <2>3. R \subseteq L
    BY <1>0, <2>2, Sorts DEF Within
  <2> HIDE DEF R
  <2>4. /\ g \in Heap /\ SameLinks(g, h)
        /\ \A k \in Node : g.doc[k] = IF k \in R THEN d ELSE h.doc[k]
    BY <1>0, <2>2, SetDocsFields
  <2>5. Good(g)
    BY <1>0, <2>4, SameLinksGood
  <2>6. Within(g, L)
    BY <1>0, <2>2, <2>3, SetDocsWithin
  <2> HIDE DEF g
  <2>7. DocsAgree(g)
    <3> SUFFICES ASSUME NEW n \in Node, g.parent[n] \notin Attrs \cup {NULL}
                 PROVE  DocOf(g, g.parent[n]) \in {NULL, g.doc[n]}
      BY DEF DocsAgree
    <3>1. /\ g.parent[n] = h.parent[n]
          /\ DocOf(h, h.parent[n]) \in {NULL, h.doc[n]}
          /\ h.parent[n] \in Place
      BY <1>0, <2>4, HeapFields DEF DocsAgree, SameLinks, Ptr
    <3>2. CASE h.parent[n] \in R
      BY <2>2, <2>4, <3>1, <3>2, Sorts DEF DocOf
    <3>3. CASE h.parent[n] \notin R
      <4>1. n \notin R
        BY <2>2, <3>1, <3>3
      <4> QED
        BY <2>4, <3>1, <3>3, <4>1, Sorts DEF DocOf, Place
    <3> QED
      BY <3>2, <3>3
  <2>8. (\A n \in S : g.doc[n] = d) /\ \A k \in Node : g.doc[k] \in {h.doc[k], d}
    BY <2>2, <2>4
  <2> QED
    BY <1>0, <2>1, <2>4, <2>5, <2>6, <2>7, <2>8 DEF Sound, Placed, SameLinks
<1> QED
  BY <1>1, <1>2

\* propagate_doc of a node that was just linked restores the documents below it.
LEMMA PropagateSound ==
  ASSUME NEW h, NEW L, Good(h), Placed(h), Within(h, L), L \subseteq Place,
         NEW c \in Node, c \in L, NEW d \in Doc, d \in L, DocsBut(h, c),
         h.parent[c] \notin Attrs \cup {NULL} => DocOf(h, h.parent[c]) \in {NULL, d}
  PROVE  LET g == PropagateDoc(h, c, d) IN
         Sound(g, L) /\ SameLinks(g, h) /\ g.doc[c] = d
<1> DEFINE B == Below(h, After(h, c))
           g == PropagateDoc(h, c, d)
<1>0. h \in Heap
  BY DEF Good
<1>1. /\ After(h, c) \subseteq {n \in Node \cap L : h.parent[n] = h.parent[c]}
      /\ c \in After(h, c)
  <2> DEFINE T == {n \in Node \cap L : h.parent[n] = h.parent[c]}
  <2>1. \A k \in T : h.next[k] # NULL => h.next[k] \in T
    BY <1>0, HeapFields DEF Good, Coherent, ListsAgree, Within, Ptr
  <2>2. T \in SUBSET Node /\ c \in T
    OBVIOUS
  <2> HIDE DEF T
  <2> QED
    BY <1>0, <2>1, <2>2, AfterFacts DEF T
<1>2. /\ After(h, c) \subseteq B /\ B \subseteq Node
      /\ \A k \in Node : h.parent[k] \in B => k \in B
      /\ \A k \in B \ After(h, c) : h.parent[k] \in B
  <2>1. After(h, c) \in SUBSET Node
    BY <1>1
  <2> QED
    BY <2>1, BelowFacts
<1>3. B \in SUBSET (Node \cap L) /\ B \in SUBSET Node
  BY <1>1, <1>2, Sorts DEF Within
<1>4. d \in Ptr(Doc) /\ d \in Ptr(L)
  BY DEF Ptr
<1>5. g = SetDocs(h, B, d)
  BY DEF PropagateDoc
<1> HIDE DEF B, g
<1>6. /\ g \in Heap /\ SameLinks(g, h)
      /\ \A k \in Node : g.doc[k] = IF k \in B THEN d ELSE h.doc[k]
  <2>1. /\ SetDocs(h, B, d) \in Heap /\ SameLinks(SetDocs(h, B, d), h)
        /\ \A k \in Node : SetDocs(h, B, d).doc[k] = IF k \in B THEN d ELSE h.doc[k]
    BY <1>0, <1>3, <1>4, SetDocsFields
  <2> QED
    BY <1>5, <2>1
<1>7. Good(g) /\ Within(g, L)
  <2>1. Good(g)
    BY <1>6, SameLinksGood
  <2> QED
    BY <1>0, <1>3, <1>4, <1>5, <2>1, SetDocsWithin
<1>8. DocsAgree(g)
  <2> SUFFICES ASSUME NEW n \in Node, g.parent[n] \notin Attrs \cup {NULL}
               PROVE  DocOf(g, g.parent[n]) \in {NULL, g.doc[n]}
    BY DEF DocsAgree
  <2>1. g.parent[n] = h.parent[n] /\ h.parent[n] \in Place
    BY <1>0, <1>6, HeapFields DEF SameLinks, Ptr
  <2>2. CASE h.parent[n] \in B
    BY <1>2, <1>6, <2>1, <2>2, Sorts DEF DocOf
  <2>3. CASE h.parent[n] \notin B /\ n \in B
    <3>1. n \in After(h, c)
      BY <1>2, <2>3
    <3>2. DocOf(h, h.parent[n]) \in {NULL, d}
      BY <1>1, <2>1, <3>1
    <3> QED
      BY <1>6, <2>1, <2>3, <3>2, Sorts DEF DocOf, Place
  <2>4. CASE n \notin B
    <3>1. DocOf(h, h.parent[n]) \in {NULL, h.doc[n]} /\ h.parent[n] \notin B
      BY <1>1, <1>2, <2>1, <2>4 DEF DocsBut
    <3> QED
      BY <1>6, <2>1, <2>4, <3>1, Sorts DEF DocOf, Place
  <2> QED
    BY <2>2, <2>3, <2>4
<1> QED
  BY <1>1, <1>2, <1>6, <1>7, <1>8 DEF Sound, Placed, SameLinks, g

\* xmlUnlinkNode keeps the heap sound.
LEMMA UnlinkSound ==
  ASSUME NEW h, NEW L, Sound(h, L), NEW n \in Node
  PROVE  Sound(Unlink(h, n), L) /\ ~Linked(Unlink(h, n), n)
<1> DEFINE g == Unlink(h, n)
<1>0. Good(h) /\ Placed(h) /\ DocsAgree(h) /\ Within(h, L) /\ L \subseteq Place
  BY DEF Sound
<1>1. Good(g) /\ ~Linked(g, n)
  BY <1>0, UnlinkGood
<1>2. /\ g.doc = h.doc
      /\ g.parent[n] = NULL /\ g.next[n] = NULL /\ g.prev[n] = NULL
      /\ \A k \in Node \ {n} :
           /\ g.parent[k] = h.parent[k]
           /\ g.next[k] = IF h.next[k] = n THEN h.next[n] ELSE h.next[k]
           /\ g.prev[k] = IF h.prev[k] = n THEN h.prev[n] ELSE h.prev[k]
      /\ \A p \in Place :
           /\ g.first[p] = IF h.first[p] = n THEN h.next[n] ELSE h.first[p]
           /\ g.last[p] = IF h.last[p] = n THEN h.prev[n] ELSE h.last[p]
      /\ \A e \in Elements : g.props[e] = IF h.props[e] = n THEN h.next[n] ELSE h.props[e]
  BY <1>0, UnlinkFields
<1> HIDE DEF g
<1>3. DocsAgree(g)
  BY <1>0, <1>2 DEF DocsAgree, DocOf
<1>4. Within(g, L)
  <2>1. ASSUME NEW k \in Node
        PROVE  /\ g.parent[k] # NULL => k \in L /\ g.parent[k] \in L
               /\ g.prev[k] # NULL => k \in L /\ g.prev[k] \in L
               /\ g.next[k] # NULL => k \in L /\ g.next[k] \in L
               /\ g.doc[k] # NULL => k \in L /\ g.doc[k] \in L
    BY <1>0, <1>2, Sorts DEF Within
  <2>2. ASSUME NEW x \in Place
        PROVE  /\ g.first[x] # NULL => x \in L /\ g.first[x] \in L
               /\ g.last[x] # NULL => x \in L /\ g.last[x] \in L
    BY <1>0, <1>2, Sorts DEF Within
  <2>3. ASSUME NEW e \in Elements, g.props[e] # NULL PROVE e \in L /\ g.props[e] \in L
    BY <1>0, <1>2, <2>3, Sorts DEF Within
  <2> QED
    BY <2>1, <2>2, <2>3 DEF Within
<1>5. Placed(g)
  BY <1>0, <1>2 DEF Placed
<1> QED
  BY <1>0, <1>1, <1>3, <1>4, <1>5 DEF Sound, g

\* What linking leaves to be shown is the document of the new child.
LEMMA LinkSound ==
  ASSUME NEW h, NEW L, Sound(h, L), NEW n \in Node, n \in L, ~Linked(h, n),
         NEW p, NEW pv, NEW nx, Gap(h, n, p, pv, nx), {p, pv, nx} \subseteq Ptr(L),
         p # NULL => MayHold(p, n)
  PROVE  LET g == Link(h, n, p, pv, nx) IN
         /\ Good(g) /\ Placed(g) /\ Within(g, L) /\ DocsBut(g, n)
         /\ g.parent[n] = p /\ g.doc = h.doc
         /\ (p \notin Attrs \cup {NULL} => DocOf(h, p) \in {NULL, h.doc[n]}) => Sound(g, L)
<1> DEFINE g == Link(h, n, p, pv, nx)
<1>0. Good(h) /\ h \in Heap /\ Placed(h) /\ DocsAgree(h) /\ Within(h, L) /\ L \subseteq Place
  BY DEF Sound, Good
<1>1. Good(g)
  BY <1>0, LinkGood
<1>2. /\ p \in Ptr(Place) /\ pv \in Ptr(Node) \ {n} /\ nx \in Ptr(Node) \ {n}
      /\ p \in Ptr(L) /\ pv \in Ptr(L) /\ nx \in Ptr(L)
  BY DEF Gap
<1>3. /\ g.doc = h.doc
      /\ \A k \in Node :
           /\ g.parent[k] = IF k = n THEN p ELSE h.parent[k]
           /\ g.prev[k] = IF k = nx THEN n ELSE IF k = n THEN pv ELSE h.prev[k]
           /\ g.next[k] = IF k = pv THEN n ELSE IF k = n THEN nx ELSE h.next[k]
      /\ \A x \in Place :
           /\ g.first[x] = IF x = p /\ n \notin Attrs /\ pv = NULL THEN n ELSE h.first[x]
           /\ g.last[x] = IF x = p /\ n \notin Attrs /\ nx = NULL THEN n ELSE h.last[x]
      /\ \A e \in Elements :
           g.props[e] = IF e = p /\ n \in Attrs /\ pv = NULL THEN n ELSE h.props[e]
  BY <1>0, <1>2, LinkFields
<1> HIDE DEF g
<1>4. Within(g, L)
  <2>1. ASSUME NEW k \in Node
        PROVE  /\ g.parent[k] # NULL => k \in L /\ g.parent[k] \in L
               /\ g.prev[k] # NULL => k \in L /\ g.prev[k] \in L
               /\ g.next[k] # NULL => k \in L /\ g.next[k] \in L
               /\ g.doc[k] # NULL => k \in L /\ g.doc[k] \in L
    BY <1>0, <1>2, <1>3, Sorts DEF Within, Ptr
  <2>2. ASSUME NEW x \in Place
        PROVE  /\ g.first[x] # NULL => x \in L /\ g.first[x] \in L
               /\ g.last[x] # NULL => x \in L /\ g.last[x] \in L
    BY <1>0, <1>2, <1>3, Sorts DEF Within, Ptr
  <2>3. ASSUME NEW e \in Elements, g.props[e] # NULL PROVE e \in L /\ g.props[e] \in L
    BY <1>0, <1>2, <1>3, <2>3, Sorts DEF Within, Ptr
  <2> QED
    BY <2>1, <2>2, <2>3 DEF Within
<1>5. DocsBut(g, n)
  BY <1>0, <1>3 DEF DocsBut, DocsAgree, DocOf
<1>6. g.parent[n] = p
  BY <1>3
<1>7. (p \notin Attrs \cup {NULL} => DocOf(h, p) \in {NULL, h.doc[n]}) => DocsAgree(g)
  BY <1>3, <1>5, <1>6 DEF DocsBut, DocsAgree, DocOf
<1>8. Placed(g)
  BY <1>0, <1>3 DEF Placed
<1> QED
  BY <1>0, <1>1, <1>3, <1>4, <1>5, <1>6, <1>7, <1>8 DEF Sound, g

\* No link of the others leads into S, but for the list ends of the places
\* in A, and none of their documents is in it.
Apart(h, S, A) ==
  /\ \A n \in Node \ S : h.parent[n] \notin S /\ h.prev[n] \notin S
                       /\ h.next[n] \notin S /\ h.doc[n] \notin S
  /\ \A x \in Place \ (S \cup A) : h.first[x] \notin S /\ h.last[x] \notin S
  /\ \A e \in Elements \ S : h.props[e] \notin S

\* g is h without the structures of S and the children of the places in A.
Without(g, h, S, A) ==
  /\ \A n \in Node :
       /\ g.parent[n] = IF n \in S THEN NULL ELSE h.parent[n]
       /\ g.prev[n] = IF n \in S THEN NULL ELSE h.prev[n]
       /\ g.next[n] = IF n \in S THEN NULL ELSE h.next[n]
       /\ g.doc[n] = IF n \in S THEN NULL ELSE h.doc[n]
  /\ \A x \in Place :
       /\ g.first[x] = IF x \in S \cup A THEN NULL ELSE h.first[x]
       /\ g.last[x] = IF x \in S \cup A THEN NULL ELSE h.last[x]
  /\ \A e \in Elements : g.props[e] = IF e \in S THEN NULL ELSE h.props[e]

\* Structures that nothing outside names can be dropped.
LEMMA WithoutSound ==
  ASSUME NEW h, NEW L, Sound(h, L), NEW S \in SUBSET Place, NEW A \in SUBSET Place,
         Apart(h, S, A), \A k \in Node \ Attrs : h.parent[k] \in A => k \in S,
         NEW g \in Heap, Without(g, h, S, A)
  PROVE  Sound(g, L \ S)
<1>0. h \in Heap /\ ListsAgree(h) /\ EndsAgree(h) /\ ListsEnd(h) /\ Placed(h)
      /\ DocsAgree(h) /\ Within(h, L) /\ L \subseteq Place
  BY DEF Sound, Good, Coherent
<1>2. ListsAgree(g)
  BY <1>0, HeapFields, Sorts DEF ListsAgree, SameSort, Apart, Without, Ptr
<1>3. EndsAgree(g)
  <2>1. ASSUME NEW k \in Node \ Attrs, g.parent[k] # NULL
        PROVE  /\ g.prev[k] = NULL <=> g.first[g.parent[k]] = k
               /\ g.next[k] = NULL <=> g.last[g.parent[k]] = k
    BY <1>0, <2>1, HeapFields, Sorts DEF EndsAgree, Apart, Without, Ptr
  <2>2. ASSUME NEW a \in Attrs, g.parent[a] # NULL
        PROVE  /\ g.parent[a] \in Elements
               /\ g.prev[a] = NULL <=> g.props[g.parent[a]] = a
    BY <1>0, <2>2, HeapFields, Sorts DEF EndsAgree, Apart, Without, Ptr
  <2>3. ASSUME NEW x \in Place
        PROVE  /\ g.first[x] = NULL <=> g.last[x] = NULL
               /\ g.first[x] # NULL => g.first[x] \notin Attrs /\ g.parent[g.first[x]] = x
               /\ g.last[x] # NULL => g.last[x] \notin Attrs /\ g.parent[g.last[x]] = x
    BY <1>0, HeapFields, Sorts DEF EndsAgree, Apart, Without, Ptr
  <2>4. ASSUME NEW e \in Elements, g.props[e] # NULL PROVE g.parent[g.props[e]] = e
    BY <1>0, <2>4, HeapFields, Sorts DEF EndsAgree, Apart, Without, Ptr
  <2> QED
    BY <2>1, <2>2, <2>3, <2>4 DEF EndsAgree
<1>4. ListsEnd(g)
  <2> SUFFICES ASSUME NEW T \in SUBSET Node
               PROVE  /\ (\A k \in T : g.prev[k] \in T) => T = {}
                      /\ (\A k \in T : g.next[k] \in T) => T = {}
    BY DEF ListsEnd
  <2>1. ASSUME \A k \in T : g.prev[k] \in T PROVE T = {}
    <3>1. \A k \in T : h.prev[k] \in T
      BY <2>1, Sorts DEF Without
    <3> QED
      BY <1>0, <3>1 DEF ListsEnd
  <2>2. ASSUME \A k \in T : g.next[k] \in T PROVE T = {}
    <3>1. \A k \in T : h.next[k] \in T
      BY <2>2, Sorts DEF Without
    <3> QED
      BY <1>0, <3>1 DEF ListsEnd
  <2> QED
    BY <2>1, <2>2
<1>5. DocsAgree(g)
  <2> SUFFICES ASSUME NEW n \in Node, g.parent[n] \notin Attrs \cup {NULL}
               PROVE  DocOf(g, g.parent[n]) \in {NULL, g.doc[n]}
    BY DEF DocsAgree
  <2>1. n \notin S /\ g.parent[n] = h.parent[n] /\ h.parent[n] \in Place \ S
    BY <1>0, HeapFields DEF Apart, Without, Ptr
  <2> QED
    BY <1>0, <2>1, Sorts DEF DocsAgree, DocOf, Place, Without
<1>6. Within(g, L \ S)
  <2>1. ASSUME NEW k \in Node
        PROVE  /\ g.parent[k] # NULL => k \in L \ S /\ g.parent[k] \in L \ S
               /\ g.prev[k] # NULL => k \in L \ S /\ g.prev[k] \in L \ S
               /\ g.next[k] # NULL => k \in L \ S /\ g.next[k] \in L \ S
               /\ g.doc[k] # NULL => k \in L \ S /\ g.doc[k] \in L \ S
    BY <1>0, Sorts DEF Within, Apart, Without
  <2>2. ASSUME NEW x \in Place
        PROVE  /\ g.first[x] # NULL => x \in L \ S /\ g.first[x] \in L \ S
               /\ g.last[x] # NULL => x \in L \ S /\ g.last[x] \in L \ S
    BY <1>0, Sorts DEF Within, Apart, Without
  <2>3. ASSUME NEW e \in Elements, g.props[e] # NULL
        PROVE  e \in L \ S /\ g.props[e] \in L \ S
    BY <1>0, <2>3, Sorts DEF Within, Apart, Without
  <2> QED
    BY <2>1, <2>2, <2>3 DEF Within
<1>7. Placed(g)
  BY <1>0 DEF Placed, Without
<1> QED
  BY <1>0, <1>2, <1>3, <1>4, <1>5, <1>6, <1>7 DEF Sound, Good, Coherent

\* The fields after a release.
LEMMA ReleaseFields ==
  ASSUME NEW h \in Heap, NEW S
  PROVE  Release(h, S) \in Heap /\ Without(Release(h, S), h, S, {})
  BY HeapFields DEF Release, Heap, Without, Ptr

\* Releasing structures that nothing outside names keeps the heap sound.
LEMMA ReleaseSound ==
  ASSUME NEW h, NEW L, Sound(h, L), NEW S \in SUBSET Place, Apart(h, S, {})
  PROVE  Sound(Release(h, S), L \ S)
  BY ReleaseFields, WithoutSound DEF Sound, Good

----------------------------------------------------------------------------
(* The order of the nodes that a call leaves alone                         *)

\* From h to g, the nodes that are not in S stay below their parents and
\* before the same others.
Order(h, g, S) ==
  \A n \in Node \ S : /\ g.parent[n] = h.parent[n]
                      /\ After(g, n) \ S = After(h, n) \ S

\* d tells where a walk that enters S leaves it.
Leaves(h, S, d) ==
  \A k \in S : d[k] = IF h.next[k] \in S THEN d[h.next[k]] ELSE h.next[k]
\* The node after k that is not in S.
Past(h, S, d, k) == IF h.next[k] \in S THEN d[h.next[k]] ELSE h.next[k]

\* Half of SameOrder
LEMMA NotLater ==
  ASSUME NEW h, Good(h), NEW g, Good(g), NEW S \in SUBSET Node, NEW d, NEW e,
         Leaves(h, S, d), Leaves(g, S, e),
         \A k \in Node \ S : Past(h, S, d, k) = Past(g, S, e, k),
         NEW x \in Node \ S, NEW m \in After(g, x), m \notin S
  PROVE  m \in After(h, x)
<1> DEFINE A == After(h, x)
<1>1. /\ x \in A /\ A \subseteq Node /\ h \in Heap /\ g \in Heap
      /\ \A k \in A : h.next[k] # NULL => h.next[k] \in A
  BY AfterFacts DEF Good
<1> HIDE DEF A
\* A walk that goes through S in A leaves it in A.
<1>2. \A k \in A \cap S : d[k] \in Ptr(A \ S)
  <2> DEFINE P == {k \in A \cap S : d[k] \notin Ptr(A \ S)}
  <2>1. \A k \in P : h.next[k] \in P
    <3> SUFFICES ASSUME NEW k \in P  PROVE h.next[k] \in P
      OBVIOUS
    <3>1. k \in A /\ k \in S /\ d[k] \notin Ptr(A \ S)
      OBVIOUS
    <3>2. d[k] = IF h.next[k] \in S THEN d[h.next[k]] ELSE h.next[k]
      BY <3>1 DEF Leaves
    <3>3. h.next[k] \in Ptr(A)
      BY <1>1, <3>1 DEF Ptr
    <3>4. h.next[k] \in S
      BY <3>1, <3>2, <3>3 DEF Ptr
    <3>5. h.next[k] \in A
      BY <3>3, <3>4, Sorts DEF Ptr
    <3> QED  BY <3>1, <3>2, <3>4, <3>5
  <2>2. P \in SUBSET Node
    BY <1>1
  <2> HIDE DEF P
  <2>3. P = {}
    BY <2>1, <2>2 DEF Good, Coherent, ListsEnd
  <2> QED  BY <2>3 DEF P
<1>3. \A k \in A \ S : Past(h, S, d, k) \in Ptr(A \ S)
  <2> TAKE k \in A \ S
  <2>1. h.next[k] \in Ptr(A)
    BY <1>1 DEF Ptr
  <2>2. CASE h.next[k] \in S
    <3>1. h.next[k] \in A \cap S
      BY <2>1, <2>2, Sorts DEF Ptr
    <3> QED  BY <1>2, <2>2, <3>1 DEF Past
  <2>3. CASE h.next[k] \notin S
    BY <2>1, <2>3 DEF Past, Ptr
  <2> QED  BY <2>2, <2>3
<1> DEFINE T == (A \ S) \cup {k \in S : e[k] \in Ptr(A \ S)}
<1>4. ASSUME NEW k \in T, g.next[k] # NULL  PROVE g.next[k] \in T
  <2>1. g.next[k] \in Node
    BY <1>1, <1>4, HeapFields DEF Ptr
  <2>2. CASE k \in A \ S
    <3>1. Past(g, S, e, k) \in Ptr(A \ S)
      BY <1>1, <1>3, <2>2
    <3> QED  BY <1>4, <3>1 DEF Past, Ptr
  <2>3. CASE k \in S /\ e[k] \in Ptr(A \ S)
    <3>1. e[k] = IF g.next[k] \in S THEN e[g.next[k]] ELSE g.next[k]
      BY <2>3 DEF Leaves
    <3> QED  BY <1>4, <2>3, <3>1 DEF Ptr
  <2> QED  BY <2>2, <2>3
<1>5. x \in T /\ T \in SUBSET Node
  BY <1>1
<1> HIDE DEF T
<1>6. After(g, x) \subseteq T
  BY <1>1, <1>4, <1>5, AfterFacts
<1> QED  BY <1>6 DEF T, A

\* Two heaps in which the same node follows outside S have the same order.
LEMMA SameOrder ==
  ASSUME NEW h, Good(h), NEW g, Good(g), NEW S \in SUBSET Node, NEW d, NEW e,
         Leaves(h, S, d), Leaves(g, S, e),
         \A k \in Node \ S : /\ Past(h, S, d, k) = Past(g, S, e, k)
                             /\ g.parent[k] = h.parent[k]
  PROVE  Order(h, g, S)
<1> SUFFICES ASSUME NEW x \in Node \ S
             PROVE  After(g, x) \ S = After(h, x) \ S
  BY DEF Order
<1>1. \A m : m \in After(g, x) /\ m \notin S => m \in After(h, x)
  BY NotLater
<1>2. \A k \in Node \ S : Past(g, S, e, k) = Past(h, S, d, k)
  OBVIOUS
<1>3. \A m : m \in After(h, x) /\ m \notin S => m \in After(g, x)
  BY <1>2, NotLater
<1> QED  BY <1>1, <1>3

LEMMA OrderThen ==
  ASSUME NEW h, NEW u, NEW g, NEW S, NEW T, NEW U, Order(h, u, S), Order(u, g, T),
         S \subseteq U, T \subseteq U
  PROVE  Order(h, g, U)
<1> SUFFICES ASSUME NEW n \in Node \ U
             PROVE  /\ g.parent[n] = h.parent[n]
                    /\ After(g, n) \ U = After(h, n) \ U
  BY DEF Order
<1>1. /\ u.parent[n] = h.parent[n] /\ After(u, n) \ S = After(h, n) \ S
      /\ g.parent[n] = u.parent[n] /\ After(g, n) \ T = After(u, n) \ T
  BY DEF Order
<1> QED  BY <1>1

LEMMA SameLinksOrder ==
  ASSUME NEW h, NEW g, SameLinks(g, h), NEW S
  PROVE  Order(h, g, S)
BY DEF Order, SameLinks, After

LEMMA NextIsOther ==
  ASSUME NEW h, Good(h), NEW n \in Node
  PROVE  h.next[n] # n
<1>1. {n} \in SUBSET Node /\ {n} # {}
  OBVIOUS
<1> QED  BY <1>1 DEF Good, Coherent, ListsEnd

\* One node leaves its place.
LEMMA UnlinkOrder ==
  ASSUME NEW h, Good(h), NEW n \in Node
  PROVE  Order(h, Unlink(h, n), {n})
<1> DEFINE g == Unlink(h, n)
           d == [k \in {n} |-> h.next[n]]
           e == [k \in {n} |-> NULL]
<1>1. /\ Good(g) /\ g.next[n] = NULL /\ n # NULL /\ h.next[n] # n
      /\ \A k \in Node \ {n} :
           /\ g.parent[k] = h.parent[k]
           /\ g.next[k] = IF h.next[k] = n THEN h.next[n] ELSE h.next[k]
  BY UnlinkGood, UnlinkFields, NextIsOther, Sorts
<1> HIDE DEF g
<1>2. Leaves(h, {n}, d) /\ Leaves(g, {n}, e)
  BY <1>1 DEF Leaves
<1>3. \A k \in Node \ {n} : Past(h, {n}, d, k) = Past(g, {n}, e, k)
  BY <1>1 DEF Past
<1> HIDE DEF d, e
<1>4. Order(h, g, {n})
  BY <1>1, <1>2, <1>3, SameOrder
<1> QED  BY <1>4 DEF g

\* One node is put into a gap.
LEMMA LinkOrder ==
  ASSUME NEW h, Good(h), NEW n \in Node, ~Linked(h, n), NEW p, NEW pv, NEW nx,
         Gap(h, n, p, pv, nx)
  PROVE  Order(h, Link(h, n, p, pv, nx), {n})
<1> DEFINE g == Link(h, n, p, pv, nx)
           d == [k \in {n} |-> NULL]
           e == [k \in {n} |-> nx]
<1>1. /\ Good(g) /\ n # NULL /\ pv # n /\ nx # n /\ (pv # NULL => h.next[pv] = nx)
      /\ h.next[n] = NULL /\ \A k \in Node : h.next[k] # n /\ k # NULL
      /\ \A k \in Node : g.parent[k] = IF k = n THEN p ELSE h.parent[k]
      /\ \A k \in Node : g.next[k] = IF k = pv THEN n ELSE IF k = n THEN nx ELSE h.next[k]
  <2>1. /\ h \in Heap /\ p \in Ptr(Place) /\ pv \in Ptr(Node) \ {n} /\ nx \in Ptr(Node) \ {n}
    BY DEF Good, Gap
  <2> QED  BY <2>1, LinkGood, LinkFields, NobodyNames, Sorts DEF Gap, Linked
<1> HIDE DEF g
<1>2. Leaves(h, {n}, d) /\ Leaves(g, {n}, e)
  BY <1>1 DEF Leaves
<1>3. \A k \in Node \ {n} : Past(h, {n}, d, k) = Past(g, {n}, e, k)
  BY <1>1 DEF Past
<1>4. \A k \in Node \ {n} : g.parent[k] = h.parent[k]
  BY <1>1
<1> HIDE DEF d, e
<1>5. Order(h, g, {n})
  BY <1>1, <1>2, <1>3, <1>4, SameOrder
<1> QED  BY <1>5 DEF g

LEMMA OrderLink ==
  ASSUME NEW h, NEW g, NEW S, Order(h, g, S), Good(g), NEW n \in Node, n \in S,
         ~Linked(g, n), NEW p, NEW pv, NEW nx, Gap(g, n, p, pv, nx)
  PROVE  Order(h, Link(g, n, p, pv, nx), S)
<1>1. Order(g, Link(g, n, p, pv, nx), {n}) /\ {n} \subseteq S /\ S \subseteq S
  BY LinkOrder
<1> QED  BY <1>1, OrderThen

LEMMA OrderSame ==
  ASSUME NEW h, NEW g, NEW u, NEW S, Order(h, g, S), SameLinks(u, g)
  PROVE  Order(h, u, S)
<1>1. Order(g, u, S) /\ S \subseteq S
  BY SameLinksOrder
<1> QED  BY <1>1, OrderThen

LEMMA SameOrderAs == ASSUME NEW h, NEW S PROVE Order(h, h, S)
  BY DEF Order

\* Structures that nothing outside names are dropped.
LEMMA DropOrder ==
  ASSUME NEW h, Good(h), NEW S, NEW g, Good(g),
         \A k \in Node \ S : /\ h.next[k] \notin S
                             /\ g.next[k] = h.next[k] /\ g.parent[k] = h.parent[k]
  PROVE  Order(h, g, S)
<1> SUFFICES ASSUME NEW x \in Node \ S
             PROVE  After(g, x) \ S = After(h, x) \ S
  BY DEF Order
<1>1. /\ x \in After(h, x) /\ After(h, x) \subseteq Node
      /\ \A k \in After(h, x) : h.next[k] # NULL => h.next[k] \in After(h, x)
      /\ \A T \in SUBSET Node :
           x \in T /\ (\A k \in T : h.next[k] # NULL => h.next[k] \in T)
             => After(h, x) \subseteq T
  BY AfterFacts DEF Good
<1>2. /\ x \in After(g, x) /\ After(g, x) \subseteq Node
      /\ \A k \in After(g, x) : g.next[k] # NULL => g.next[k] \in After(g, x)
      /\ \A T \in SUBSET Node :
           x \in T /\ (\A k \in T : g.next[k] # NULL => g.next[k] \in T)
             => After(g, x) \subseteq T
  BY AfterFacts DEF Good
<1>3. After(h, x) \subseteq After(g, x) \ S
  <2>1. \A k \in After(g, x) \ S : h.next[k] # NULL => h.next[k] \in After(g, x) \ S
    BY <1>2
  <2> QED  BY <1>1, <1>2, <2>1
<1>4. After(g, x) \subseteq After(h, x) \ S
  <2>1. \A k \in After(h, x) \ S : g.next[k] # NULL => g.next[k] \in After(h, x) \ S
    BY <1>1
  <2> QED  BY <1>1, <1>2, <2>1
<1> QED  BY <1>3, <1>4

LEMMA ReleaseOrder ==
  ASSUME NEW h, NEW L, Sound(h, L), NEW S \in SUBSET Place, Apart(h, S, {})
  PROVE  Order(h, Release(h, S), S)
<1>1. Good(h) /\ h \in Heap /\ Good(Release(h, S))
  BY ReleaseSound DEF Sound, Good
<1>2. \A k \in Node \ S : /\ h.next[k] \notin S
                          /\ Release(h, S).next[k] = h.next[k]
                          /\ Release(h, S).parent[k] = h.parent[k]
  BY <1>1, ReleaseFields DEF Apart, Without
<1> QED  BY <1>1, <1>2, DropOrder

----------------------------------------------------------------------------
\* S holds all below its members, and nothing outside names the members N
\* that are not below another.
LEMMA CutApart ==
  ASSUME NEW h, Good(h), NEW S \in SUBSET Place, NEW N, NEW A,
         \A k \in Node : h.parent[k] \in S => k \in S,
         \A k \in S \cap Node : h.parent[k] \in S \/ k \in N,
         \A k \in Node \ S : h.next[k] \notin N /\ h.prev[k] \notin N /\ h.doc[k] \notin S,
         \A x \in Place \ (S \cup A) : h.first[x] \notin N /\ h.last[x] \notin N,
         \A e \in Elements \ S : h.props[e] \notin N
  PROVE  Apart(h, S, A)
<1>0. h \in Heap /\ ListsAgree(h) /\ EndsAgree(h)
  BY DEF Good, Coherent
<1>1. ASSUME NEW k \in Node \ S
      PROVE  /\ h.parent[k] \notin S /\ h.prev[k] \notin S
             /\ h.next[k] \notin S /\ h.doc[k] \notin S
  <2>1. h.parent[k] \notin S /\ h.doc[k] \notin S
    OBVIOUS
  <2>2. h.next[k] \notin S
    BY <1>0, <2>1, HeapFields, Sorts DEF ListsAgree, Ptr
  <2>3. h.prev[k] \notin S
    BY <1>0, <2>1, HeapFields, Sorts DEF ListsAgree, Ptr
  <2> QED
    BY <2>1, <2>2, <2>3
<1>2. ASSUME NEW x \in Place \ (S \cup A)
      PROVE  h.first[x] \notin S /\ h.last[x] \notin S
  BY <1>0, HeapFields, Sorts DEF EndsAgree, Ptr
<1>3. ASSUME NEW e \in Elements \ S
      PROVE  h.props[e] \notin S
  BY <1>0, HeapFields, Sorts DEF EndsAgree, Ptr
<1> QED
  BY <1>1, <1>2, <1>3 DEF Apart

\* More structures may be allocated.
LEMMA SoundMore ==
  ASSUME NEW h, NEW L, Sound(h, L), NEW M \in SUBSET Place, L \subseteq M
  PROVE  Sound(h, M)
  BY DEF Sound, Within

\* What is not allocated has no links, and nothing leads to it.
LEMMA Blank ==
  ASSUME NEW h, NEW L, Sound(h, L), NEW x \in Place, x \notin L
  PROVE  /\ h.first[x] = NULL /\ h.last[x] = NULL
         /\ x \in Elements => h.props[x] = NULL
         /\ x \in Node => /\ ~Linked(h, x) /\ h.doc[x] = NULL
                          /\ \A k \in Node : h.parent[k] # x
  BY Sorts DEF Sound, Within, Linked

\* New structures are given their document.
LEMMA FreshSound ==
  ASSUME NEW h, NEW L, Sound(h, L), NEW S \in SUBSET Node, S \cap L = {},
         NEW d \in Ptr(Doc), d \in Ptr(L)
  PROVE  LET g == SetDocs(h, S, d) IN
         /\ Sound(g, L \cup S) /\ SameLinks(g, h)
         /\ \A n \in S : ~Linked(g, n)
<1> DEFINE g == SetDocs(h, S, d)
           M == L \cup S
<1>0. h \in Heap /\ Good(h) /\ Placed(h) /\ DocsAgree(h) /\ L \subseteq Place
  BY DEF Sound, Good
<1>1. M \in SUBSET Place /\ Sound(h, M)
  BY <1>0, SoundMore, Sorts
<1>2. /\ g \in Heap /\ SameLinks(g, h)
      /\ \A k \in Node : g.doc[k] = IF k \in S THEN d ELSE h.doc[k]
  BY <1>0, SetDocsFields
<1>3. Within(g, M)
  <2>1. Within(h, M) /\ S \in SUBSET (Node \cap M) /\ d \in Ptr(M)
    BY <1>1 DEF Sound, Ptr
  <2> HIDE DEF M
  <2> QED
    BY <1>0, <2>1, SetDocsWithin
<1>4. Good(g)
  BY <1>0, <1>2, SameLinksGood
<1>5. \A n \in S : /\ ~Linked(h, n) /\ h.first[n] = NULL /\ h.last[n] = NULL
                   /\ \A k \in Node : h.parent[k] # n
  BY Blank, Sorts
<1> HIDE DEF g, M
<1>6. DocsAgree(g)
  <2> SUFFICES ASSUME NEW n \in Node, g.parent[n] \notin Attrs \cup {NULL}
               PROVE  DocOf(g, g.parent[n]) \in {NULL, g.doc[n]}
    BY DEF DocsAgree
  <2>1. n \notin S /\ g.parent[n] = h.parent[n] /\ h.parent[n] \in Place \ S
    BY <1>0, <1>2, <1>5, HeapFields, Sorts DEF SameLinks, Linked, Ptr
  <2> QED
    BY <1>0, <1>2, <2>1 DEF DocsAgree, DocOf, Place
<1>7. \A n \in S : ~Linked(g, n)
  BY <1>2, <1>5 DEF SameLinks, Linked
<1>8. Sound(g, M)
  BY <1>0, <1>1, <1>2, <1>3, <1>4, <1>6 DEF Sound, Placed, SameLinks
<1> QED
  BY <1>2, <1>7, <1>8 DEF g, M

\* The end of the children, and of the properties, is a gap.
LEMMA LastGap ==
  ASSUME NEW h, NEW L, Sound(h, L), NEW p \in Place, NEW n \in Node \ Attrs, ~Linked(h, n)
  PROVE  Gap(h, n, p, h.last[p], NULL) /\ h.last[p] \in Ptr(L)
<1>0. h \in Heap /\ EndsAgree(h) /\ ListsAgree(h) /\ Within(h, L)
  BY DEF Sound, Good, Coherent
<1>1. h.last[p] \in Ptr(L)
  BY <1>0 DEF Within, Ptr
<1>2. h.last[p] # n
  BY NobodyNames DEF Sound
<1>3. h.last[p] # NULL => /\ h.last[p] \in Node \ Attrs /\ h.parent[h.last[p]] = p
                          /\ h.next[h.last[p]] = NULL
  BY <1>0, HeapFields, Sorts DEF EndsAgree, Ptr
<1> QED
  BY <1>0, <1>1, <1>2, <1>3, HeapFields, Sorts DEF Gap, EndsAgree, SameSort, Ptr

\* There is room at the end of the property list.
LEMMA LastPropGap ==
  ASSUME NEW h, NEW L, Sound(h, L), NEW e \in Elements, NEW a \in Attrs, ~Linked(h, a)
  PROVE  Gap(h, a, e, LastProp(h, e), NULL) /\ LastProp(h, e) \in Ptr(L)
<1>0. h \in Heap /\ EndsAgree(h) /\ ListsAgree(h) /\ ListsEnd(h) /\ Within(h, L) /\ Good(h)
  BY DEF Sound, Good, Coherent
<1>1. CASE h.props[e] = NULL
  BY <1>0, <1>1, Sorts DEF LastProp, Gap, Ptr
<1>2. CASE h.props[e] # NULL
  <2>1. \A k \in PropsOf(h, e) : k \in Attrs /\ h.parent[k] = e
    <3>1. PropsOf(h, e) \subseteq Node
      BY <1>0, <1>2, AfterFacts, HeapFields, Sorts DEF PropsOf, From, Ptr
    <3> QED
      BY <1>0, <3>1, ListedIff, Sorts
  <2>2. /\ h.props[e] \in PropsOf(h, e)
        /\ \A k \in PropsOf(h, e) : h.next[k] # NULL => h.next[k] \in PropsOf(h, e)
    BY <1>0, <1>2, AfterFacts, HeapFields, Sorts DEF PropsOf, From, Ptr
  <2>3. \E k \in PropsOf(h, e) : h.next[k] = NULL
    <3> SUFFICES ASSUME \A k \in PropsOf(h, e) : h.next[k] # NULL PROVE FALSE
      OBVIOUS
    <3>1. PropsOf(h, e) \in SUBSET Node
      BY <2>1, Sorts
    <3> QED
      BY <1>0, <2>2, <3>1 DEF ListsEnd
  <2>4. LastProp(h, e) \in PropsOf(h, e) /\ h.next[LastProp(h, e)] = NULL
    BY <1>2, <2>3 DEF LastProp
  <2> DEFINE z == LastProp(h, e)
  <2>5. z \in Attrs /\ h.parent[z] = e /\ h.next[z] = NULL
    BY <2>1, <2>4
  <2>6. z # a /\ z \in L
    BY <1>0, <2>5, Sorts DEF Linked, Within
  <2> HIDE DEF z
  <2>7. Gap(h, a, e, z, NULL) /\ z \in Ptr(L)
    BY <2>5, <2>6, Sorts DEF Gap, SameSort, Ptr
  <2> QED
    BY <2>7 DEF z
<1> QED
  BY <1>1, <1>2

\* xmlAddChild keeps the heap sound.
LEMMA AddChildSound ==
  ASSUME NEW h, NEW L, Sound(h, L), NEW p \in Place, p \in L, NEW c \in Node, c \in L,
         MayHold(p, c)
  PROVE  Sound(AddChildTo(h, p, c), L) /\ Order(h, AddChildTo(h, p, c), {c})
<1> DEFINE u == IF Linked(h, c) THEN Unlink(h, c) ELSE h
           t == Tail(u, p, c)
           l == Link(u, c, p, t, NULL)
           d == DocOf(h, p)
<1>1. Sound(u, L) /\ ~Linked(u, c) /\ u.doc = h.doc
  BY UnlinkSound, UnlinkFields DEF Sound
<1>7. Order(h, u, {c})
  BY UnlinkOrder, SameLinksOrder DEF Sound, SameLinks
<1> HIDE DEF u
<1>2. Gap(u, c, p, t, NULL) /\ t \in Ptr(L)
  <2>1. CASE c \in Attrs
    BY <1>1, <2>1, LastPropGap, Sorts DEF Tail, MayHold, Place
  <2>2. CASE c \notin Attrs
    BY <1>1, <2>2, LastGap DEF Tail
  <2> QED
    BY <2>1, <2>2
<1> HIDE DEF t
<1>3. /\ Good(l) /\ Placed(l) /\ Within(l, L) /\ DocsBut(l, c)
      /\ l.parent[c] = p /\ l.doc = u.doc
      /\ (p \notin Attrs \cup {NULL} => DocOf(u, p) \in {NULL, u.doc[c]}) => Sound(l, L)
  <2>1. {p, t, NULL} \subseteq Ptr(L)
    BY <1>2 DEF Ptr
  <2> QED
    BY <1>1, <1>2, <2>1, LinkSound
<1>8. Order(h, l, {c})
  <2>1. Good(u) /\ Order(u, l, {c})
    BY <1>1, <1>2, LinkOrder DEF Sound
  <2> QED
    BY <1>7, <2>1, OrderThen
<1> HIDE DEF l
<1>4. DocOf(u, p) = d /\ DocOf(l, p) = d
  BY <1>1, <1>3 DEF DocOf
<1>5. CASE d = NULL \/ l.doc[c] = d
  <2>1. Sound(l, L)
    BY <1>3, <1>4, <1>5
  <2> QED
    BY <1>5, <1>8, <2>1 DEF AddChildTo, l, u, t
<1>6. CASE d # NULL /\ l.doc[c] # d
  <2>1. d \in Doc /\ d \in L
    BY <1>6, HeapFields, Sorts DEF DocOf, Sound, Good, Within, Place, Ptr
  <2>2. L \subseteq Place /\ (l.parent[c] \notin Attrs \cup {NULL} => DocOf(l, l.parent[c]) \in {NULL, d})
    BY <1>3, <1>4 DEF Sound
  <2>3. Sound(PropagateDoc(l, c, d), L) /\ SameLinks(PropagateDoc(l, c, d), l)
    BY <1>3, <2>1, <2>2, PropagateSound
  <2>4. Order(h, PropagateDoc(l, c, d), {c})
    BY <1>8, <2>3, SameLinksOrder, OrderThen
  <2> QED
    BY <1>6, <2>3, <2>4 DEF AddChildTo, l, u, t
<1> QED
  BY <1>5, <1>6

\* Insertion between x and what follows it.
LEMMA NextGap ==
  ASSUME NEW h, NEW L, Sound(h, L), NEW x \in Node, x \in L, NEW c \in Node,
         x # c, ~Linked(h, c), SameSort(x, c)
  PROVE  Gap(h, c, h.parent[x], x, h.next[x]) /\ {h.parent[x], x, h.next[x]} \subseteq Ptr(L)
<1>0. h \in Heap /\ EndsAgree(h) /\ ListsAgree(h) /\ Within(h, L) /\ Good(h)
  BY DEF Sound, Good, Coherent
<1>1. /\ h.parent[x] \in Ptr(Place) /\ h.next[x] \in Ptr(Node)
      /\ {h.parent[x], x, h.next[x]} \subseteq Ptr(L)
  BY <1>0, HeapFields DEF Within, Ptr
<1>2. h.next[x] # c
  BY <1>0, NobodyNames
<1>3. h.next[x] # NULL => h.prev[h.next[x]] = x /\ h.parent[h.next[x]] = h.parent[x]
                          /\ SameSort(h.next[x], c)
  BY <1>0, Sorts DEF ListsAgree, SameSort
<1>4. h.parent[x] # NULL /\ c \notin Attrs /\ h.next[x] = NULL => h.last[h.parent[x]] = x
  BY <1>0, Sorts DEF EndsAgree, SameSort
<1>5. h.parent[x] # NULL /\ c \in Attrs => h.parent[x] \in Elements
  BY <1>0, Sorts DEF EndsAgree, SameSort
<1> QED
  BY <1>1, <1>2, <1>3, <1>4, <1>5, Sorts DEF Gap, Ptr

\* Insertion between x and what precedes it.
LEMMA PrevGap ==
  ASSUME NEW h, NEW L, Sound(h, L), NEW x \in Node, x \in L, NEW c \in Node,
         x # c, ~Linked(h, c), SameSort(x, c)
  PROVE  Gap(h, c, h.parent[x], h.prev[x], x) /\ {h.parent[x], h.prev[x], x} \subseteq Ptr(L)
<1>0. h \in Heap /\ EndsAgree(h) /\ ListsAgree(h) /\ Within(h, L) /\ Good(h)
  BY DEF Sound, Good, Coherent
<1>1. /\ h.parent[x] \in Ptr(Place) /\ h.prev[x] \in Ptr(Node)
      /\ {h.parent[x], h.prev[x], x} \subseteq Ptr(L)
  BY <1>0, HeapFields DEF Within, Ptr
<1>2. h.prev[x] # c
  BY <1>0, NobodyNames
<1>3. h.prev[x] # NULL => h.next[h.prev[x]] = x /\ h.parent[h.prev[x]] = h.parent[x]
                          /\ SameSort(h.prev[x], c)
  <2> SUFFICES ASSUME h.prev[x] # NULL
               PROVE  h.next[h.prev[x]] = x /\ h.parent[h.prev[x]] = h.parent[x]
                      /\ SameSort(h.prev[x], c)
    OBVIOUS
  <2>1. h.prev[x] \in Node /\ h.next[h.prev[x]] = x /\ x # NULL
    BY <1>0, <1>1, Sorts DEF ListsAgree, Ptr
  <2> QED
    BY <1>0, <2>1 DEF ListsAgree, SameSort
<1>4. h.parent[x] # NULL /\ c \notin Attrs /\ h.prev[x] = NULL => h.first[h.parent[x]] = x
  BY <1>0, Sorts DEF EndsAgree, SameSort
<1>5. h.parent[x] # NULL /\ c \in Attrs =>
        h.parent[x] \in Elements /\ (h.prev[x] = NULL => h.props[h.parent[x]] = x)
  BY <1>0, Sorts DEF EndsAgree, SameSort
<1> QED
  BY <1>1, <1>2, <1>3, <1>4, <1>5, Sorts DEF Gap, Ptr

\* The stores of xmlAddSibling are those of a link after x.
LEMMA SiblingIsLink ==
  ASSUME NEW h, Good(h), NEW x \in Node, NEW c \in Node, SameSort(x, c)
  PROVE  [parent |-> Put(h.parent, c, h.parent[x]),
          prev |-> Put(Put(h.prev, c, x), h.next[x], c),
          next |-> Put(Put(h.next, c, h.next[x]), x, c),
          first |-> h.first,
          last |-> Swap(h.last, h.parent[x], x, c),
          props |-> h.props,
          doc |-> h.doc] = Link(h, c, h.parent[x], x, h.next[x])
<1>0. h \in Heap /\ EndsAgree(h) /\ h.last \in [Place -> Ptr(Node)]
      /\ h.parent[x] \in Ptr(Place)
  BY HeapFields DEF Good, Coherent
<1>1. Swap(h.last, h.parent[x], x, c) =
        IF c \notin Attrs /\ h.next[x] = NULL THEN Put(h.last, h.parent[x], c) ELSE h.last
  <2>1. \A p \in Place : p = h.parent[x] =>
          (h.last[p] = x <=> c \notin Attrs /\ h.next[x] = NULL)
    BY <1>0, Sorts DEF EndsAgree, SameSort
  <2>2. CASE c \notin Attrs /\ h.next[x] = NULL
    BY <1>0, <2>1, <2>2 DEF Swap, Put
  <2>3. CASE ~(c \notin Attrs /\ h.next[x] = NULL)
    <3>1. \A p \in Place : ~(p = h.parent[x] /\ h.last[p] = x)
      BY <2>1, <2>3
    <3>2. Swap(h.last, h.parent[x], x, c) = [p \in Place |-> h.last[p]]
      BY <1>0, <3>1 DEF Swap
    <3> QED
      BY <1>0, <2>3, <3>2
  <2> QED
    BY <2>2, <2>3
<1>2. x # NULL
  BY Sorts
<1> QED
  BY <1>1, <1>2 DEF Link

\* xmlAddSibling keeps the heap sound.
LEMMA AddSiblingSound ==
  ASSUME NEW h, NEW L, Sound(h, L), NEW x \in Node, x \in L, NEW c \in Node, c \in L,
         x # c, SameSort(x, c), h.parent[x] # NULL => MayHold(h.parent[x], c)
  PROVE  Sound(AddSiblingTo(h, x, c), L) /\ Order(h, AddSiblingTo(h, x, c), {c})
<1> DEFINE u == IF Linked(h, c) THEN Unlink(h, c) ELSE h
           l == Link(u, c, u.parent[x], x, u.next[x])
           d == h.doc[x]
<1>1. Sound(u, L) /\ ~Linked(u, c) /\ u.doc = h.doc /\ u.parent[x] = h.parent[x]
  BY UnlinkSound, UnlinkFields DEF Sound
<1>9. Order(h, u, {c})
  BY UnlinkOrder, SameLinksOrder DEF Sound, SameLinks
<1> HIDE DEF u
<1>2. Gap(u, c, u.parent[x], x, u.next[x]) /\ {u.parent[x], x, u.next[x]} \subseteq Ptr(L)
  BY <1>1, NextGap
<1>3. /\ Good(l) /\ Placed(l) /\ Within(l, L) /\ DocsBut(l, c)
      /\ l.parent[c] = u.parent[x] /\ l.doc = u.doc
      /\ (u.parent[x] \notin Attrs \cup {NULL} => DocOf(u, u.parent[x]) \in {NULL, u.doc[c]})
           => Sound(l, L)
  BY <1>1, <1>2, LinkSound
<1>10. Order(h, l, {c})
  <2>1. Good(u) /\ Order(u, l, {c})
    BY <1>1, <1>2, LinkOrder DEF Sound
  <2> QED
    BY <1>9, <2>1, OrderThen
<1>4. u.parent[x] \notin Attrs \cup {NULL} =>
        DocOf(u, u.parent[x]) \in {NULL, d} /\ DocOf(l, u.parent[x]) = DocOf(u, u.parent[x])
  BY <1>1, <1>3 DEF Sound, DocsAgree, DocOf
<1>5. AddSiblingTo(h, x, c) =
        IF d # NULL /\ l.doc[c] # d THEN PropagateDoc(l, c, d) ELSE l
  <2>1. l = [parent |-> Put(u.parent, c, u.parent[x]),
             prev |-> Put(Put(u.prev, c, x), u.next[x], c),
             next |-> Put(Put(u.next, c, u.next[x]), x, c),
             first |-> u.first,
             last |-> Swap(u.last, u.parent[x], x, c),
             props |-> u.props,
             doc |-> u.doc]
    BY <1>1, SiblingIsLink DEF Sound
  <2> QED
    BY <2>1 DEF AddSiblingTo, u
<1>6. d # NULL => d \in Doc /\ d \in L
  BY HeapFields, Sorts DEF Sound, Good, Within, Ptr
<1> HIDE DEF l, d
<1>7. CASE d # NULL /\ l.doc[c] # d
  <2>1. L \subseteq Place /\ (l.parent[c] \notin Attrs \cup {NULL} => DocOf(l, l.parent[c]) \in {NULL, d})
    BY <1>3, <1>4 DEF Sound
  <2>2. Sound(PropagateDoc(l, c, d), L) /\ SameLinks(PropagateDoc(l, c, d), l)
    BY <1>3, <1>6, <1>7, <2>1, PropagateSound
  <2>3. Order(h, PropagateDoc(l, c, d), {c})
    BY <1>10, <2>2, SameLinksOrder, OrderThen
  <2> QED
    BY <1>5, <1>7, <2>2, <2>3
<1>8. CASE d = NULL \/ l.doc[c] = d
  <2>1. Sound(l, L)
    BY <1>3, <1>4, <1>8 
  <2> QED
    BY <1>5, <1>8, <1>10, <2>1
<1> QED
  BY <1>7, <1>8

\* A node that is taken out and moved to another document.
LEMMA MovedSound ==
  ASSUME NEW h, NEW L, Sound(h, L), NEW c \in Node, c \in L,
         NEW d \in Ptr(Doc), d \in Ptr(L)
  PROVE  LET s == SetTreeDocs(Unlink(h, c), {c}, d) IN
         /\ Sound(s, L) /\ ~Linked(s, c) /\ SameLinks(s, Unlink(h, c)) /\ s.doc[c] = d
         /\ \A k \in Node : s.doc[k] \in {h.doc[k], d}
<1> DEFINE u == Unlink(h, c)
           X == {c}
           s == SetTreeDocs(u, X, d)
<1>1. Sound(u, L) /\ ~Linked(u, c) /\ u.doc = h.doc
  BY UnlinkSound, UnlinkFields DEF Sound
<1>2. X \in SUBSET (Node \cap L) /\ \A n \in X : u.parent[n] = NULL
  BY <1>1 DEF Linked
<1>3. c \in X
  OBVIOUS
<1> HIDE DEF u, X
<1>4. /\ Sound(s, L) /\ SameLinks(s, u) /\ \A n \in X : s.doc[n] = d
      /\ \A k \in Node : s.doc[k] \in {u.doc[k], d}
  BY <1>1, <1>2, SetTreeDocsSound
<1>5. ~Linked(s, c)
  BY <1>1, <1>4 DEF SameLinks, Linked
<1> QED
  BY <1>1, <1>3, <1>4, <1>5 DEF u, X

\* xmlInsertNode keeps the heap sound.
LEMMA InsertSound ==
  ASSUME NEW h, NEW L, Sound(h, L), NEW c \in Node, c \in L, NEW p, NEW pv, NEW nx,
         NEW d \in Ptr(Doc), d \in Ptr(L),
         Gap(Unlink(h, c), c, p, pv, nx), {p, pv, nx} \subseteq Ptr(L),
         p # NULL => MayHold(p, c),
         p \notin Attrs \cup {NULL} => DocOf(h, p) \in {NULL, d}
  PROVE  /\ Sound(Insert(h, c, p, pv, nx, d), L)
         /\ Order(h, Insert(h, c, p, pv, nx, d), {c})
<1> DEFINE u == Unlink(h, c)
           s == SetTreeDocs(u, {c}, d)
<1>2. /\ Sound(s, L) /\ ~Linked(s, c) /\ SameLinks(s, u) /\ s.doc[c] = d
      /\ \A k \in Node : s.doc[k] \in {h.doc[k], d}
  BY MovedSound
<1>3. Gap(s, c, p, pv, nx)
  BY <1>2 DEF u, SameLinks, Gap
<1>6. Order(h, s, {c})
  <2>1. Order(h, u, {c}) /\ Order(u, s, {c})
    BY <1>2, UnlinkOrder, SameLinksOrder DEF Sound
  <2> QED
    BY <2>1, OrderThen
<1> HIDE DEF u
<1>4. p \notin Attrs \cup {NULL} => DocOf(s, p) \in {NULL, s.doc[c]}
  <2> SUFFICES ASSUME p \notin Attrs \cup {NULL}
               PROVE  DocOf(s, p) \in {NULL, d}
    BY <1>2
  <2>1. CASE p \in Doc
    BY <2>1 DEF DocOf
  <2>2. CASE p \notin Doc
    BY <1>2, <2>2 DEF DocOf, Gap, Ptr, Place
  <2> QED
    BY <2>1, <2>2
<1> HIDE DEF s
<1>5. Sound(Link(s, c, p, pv, nx), L)
  BY <1>2, <1>3, <1>4, LinkSound
<1>7. Order(h, Link(s, c, p, pv, nx), {c})
  <2>1. Good(s) /\ Order(s, Link(s, c, p, pv, nx), {c})
    BY <1>2, <1>3, LinkOrder DEF Sound
  <2> QED
    BY <1>6, <2>1, OrderThen
<1> QED
  BY <1>5, <1>7 DEF Insert, s, u

\* Nodes of one list have a first one.
LEMMA FirstOf ==
  ASSUME NEW h, Good(h), NEW x \in Node, NEW X, X \subseteq After(h, x), X # {}
  PROVE  \E b \in X : X \subseteq After(h, b)
<1>0. h \in Heap /\ ListsEnd(h)
  BY DEF Good, Coherent
<1> SUFFICES ASSUME \A b \in X : ~(X \subseteq After(h, b)) PROVE FALSE
  OBVIOUS
<1> DEFINE T == {k \in Node : X \subseteq After(h, k)}
<1>1. ASSUME NEW k \in T PROVE h.next[k] \in T
  <2>1. k \notin X
    BY <1>1
  <2> DEFINE W == IF h.next[k] = NULL THEN {k} ELSE {k} \cup After(h, h.next[k])
  <2>2. h.next[k] # NULL => /\ h.next[k] \in Node /\ h.next[k] \in After(h, h.next[k])
                            /\ After(h, h.next[k]) \subseteq Node
                            /\ \A j \in After(h, h.next[k]) : h.next[j] # NULL =>
                                 h.next[j] \in After(h, h.next[k])
    BY <1>0, AfterFacts, HeapFields DEF Ptr
  <2>3. W \in SUBSET Node /\ k \in W /\ \A j \in W : h.next[j] # NULL => h.next[j] \in W
    BY <2>2
  <2>4. After(h, k) \subseteq W
    <3> HIDE DEF W
    <3> QED
      BY <1>0, <2>3, AfterFacts
  <2> QED
    BY <1>1, <2>1, <2>2, <2>4
<1>2. T \in SUBSET Node /\ x \in T
  OBVIOUS
<1> QED
  BY <1>0, <1>1, <1>2 DEF ListsEnd

\* The attribute found by name is one of the element, and allocated.
LEMMA SameNameFacts ==
  ASSUME NEW h, Good(h), NEW e, NEW a, SameName(h, e, a) # NULL
  PROVE  SameName(h, e, a) \in Attrs /\ h.parent[SameName(h, e, a)] = e /\ e \in Elements
<1> DEFINE hits == {b \in PropsOf(h, e) : AttrName[b] = AttrName[a]}
<1>0. h \in Heap
  BY DEF Good
<1>1. e \in Elements /\ hits # {} /\ h.props[e] # NULL
  BY DEF SameName, PropsOf, From
<1>2. h.props[e] \in Node /\ PropsOf(h, e) = After(h, h.props[e])
  BY <1>0, <1>1, HeapFields, Sorts DEF PropsOf, From, Ptr
<1>3. \E b \in hits : hits \subseteq After(h, b)
  <2>1. hits \subseteq After(h, h.props[e])
    BY <1>2
  <2> HIDE DEF hits
  <2> QED
    BY <1>1, <1>2, <2>1, FirstOf
<1>4. SameName(h, e, a) \in hits
  BY <1>1, <1>3 DEF SameName
<1>5. hits \subseteq Node
  BY <1>0, <1>2, AfterFacts
<1> QED
  BY <1>1, <1>4, <1>5, ListedIff, Sorts

\* The root element is a child of the document.
LEMMA RootFacts ==
  ASSUME NEW h, Good(h), NEW d \in Doc, Root(h, d) # NULL
  PROVE  Root(h, d) \in Elements /\ h.parent[Root(h, d)] = d
<1> DEFINE es == ChildrenOf(h, d) \cap Elements
<1>0. h \in Heap
  BY DEF Good
<1>1. es # {} /\ h.first[d] # NULL
  BY DEF Root, ChildrenOf, From
<1>2. h.first[d] \in Node /\ ChildrenOf(h, d) = After(h, h.first[d])
  BY <1>0, <1>1, HeapFields, Sorts DEF ChildrenOf, From, Ptr
<1>3. \E b \in es : es \subseteq After(h, b)
  <2>1. es \subseteq After(h, h.first[d])
    BY <1>2
  <2> HIDE DEF es
  <2> QED
    BY <1>1, <1>2, <2>1, FirstOf
<1>4. Root(h, d) \in es
  BY <1>1, <1>3 DEF Root
<1> QED
  BY <1>4, ListedIff, Sorts

\* What is owned by an unlinked node can be released with it.
LEMMA OwnedFacts ==
  ASSUME NEW h, Good(h), NEW n \in Node
  PROVE  /\ n \in Owned(h, n) /\ Owned(h, n) \subseteq Node
         /\ \A k \in Owned(h, n) \ {n} : h.parent[k] \in Owned(h, n)
         /\ n \in Attrs \/ h.first[n] = NULL =>
              \A k \in Node : h.parent[k] \in Owned(h, n) => k \in Owned(h, n)
<1> DEFINE P == PropsOf(h, n)
           C == IF n \in Attrs THEN ChildrenOf(h, n) ELSE {}
           O == Owned(h, n)
<1>0. h \in Heap
  BY DEF Good
<1>1. /\ P \in SUBSET Node /\ C \in SUBSET Node
      /\ \A k \in P \cup C : h.parent[k] = n
  <2>1. P \in SUBSET Node
    BY <1>0, AfterFacts, HeapFields, Sorts DEF PropsOf, From, Ptr
  <2>2. C \in SUBSET Node
    BY <1>0, AfterFacts, HeapFields, Sorts DEF ChildrenOf, From, Ptr
  <2> QED
    BY <2>1, <2>2, ListedIff, Sorts
<1>2. O = {n} \cup Below(h, P) \cup (IF n \in Attrs THEN Below(h, C) ELSE {})
  BY DEF Owned
<1>3. ASSUME NEW k \in Node, h.parent[k] = n, n \in Attrs \/ h.first[n] = NULL
      PROVE  k \in P \cup C
  BY <1>3, ListedIff, Sorts DEF ChildrenOf, From
<1>4. n \notin Attrs => C = {}
  OBVIOUS
<1> HIDE DEF P, C, O
<1>5. /\ P \subseteq Below(h, P) /\ Below(h, P) \subseteq Node
      /\ \A k \in Node : h.parent[k] \in Below(h, P) => k \in Below(h, P)
      /\ \A k \in Below(h, P) \ P : h.parent[k] \in Below(h, P)
  BY <1>1, BelowFacts
<1>6. /\ C \subseteq Below(h, C) /\ Below(h, C) \subseteq Node
      /\ \A k \in Node : h.parent[k] \in Below(h, C) => k \in Below(h, C)
      /\ \A k \in Below(h, C) \ C : h.parent[k] \in Below(h, C)
  BY <1>1, BelowFacts
<1> QED
  BY <1>1, <1>2, <1>3, <1>4, <1>5, <1>6 DEF O

\* A node without links can be released with what goes with it.
LEMMA OwnedSound ==
  ASSUME NEW h, NEW L, Sound(h, L), NEW n \in Node, ~Linked(h, n),
         n \in Attrs \/ h.first[n] = NULL
  PROVE  /\ Sound(Release(h, Owned(h, n)), L \ Owned(h, n))
         /\ Order(h, Release(h, Owned(h, n)), Owned(h, n))
<1> DEFINE O == Owned(h, n)
<1>0. Good(h) /\ h \in Heap
  BY DEF Sound, Good
<1>1. /\ n \in O /\ O \subseteq Node
      /\ \A k \in O \ {n} : h.parent[k] \in O
      /\ \A k \in Node : h.parent[k] \in O => k \in O
  BY <1>0, OwnedFacts
<1> HIDE DEF O
<1>2. O \in SUBSET Place
  BY <1>1, Sorts
<1>3. /\ \A k \in Node : h.next[k] # n /\ h.prev[k] # n
      /\ \A x \in Place : h.first[x] # n /\ h.last[x] # n
      /\ \A e \in Elements : h.props[e] # n
  BY <1>0, NobodyNames
<1>4. \A k \in Node : h.doc[k] \notin O
  BY <1>0, <1>1, HeapFields, Sorts DEF Ptr
<1>5. Apart(h, O, {})
  <2> DEFINE N == {n}
  <2>1. /\ \A k \in Node : h.parent[k] \in O => k \in O
        /\ \A k \in O \cap Node : h.parent[k] \in O \/ k \in N
        /\ \A k \in Node \ O : h.next[k] \notin N /\ h.prev[k] \notin N /\ h.doc[k] \notin O
        /\ \A x \in Place \ (O \cup {}) : h.first[x] \notin N /\ h.last[x] \notin N
        /\ \A e \in Elements \ O : h.props[e] \notin N
    BY <1>1, <1>3, <1>4
  <2> HIDE DEF N
  <2> QED
    BY <1>0, <1>2, <2>1, CutApart
<1> QED
  BY <1>2, <1>5, ReleaseSound, ReleaseOrder DEF O

\* Unlinking an attribute changes nothing about what it owns.
LEMMA RemoveSound ==
  ASSUME NEW h, NEW L, Sound(h, L), NEW a \in Attrs
  PROVE  Sound(Remove(h, a), L \ Owned(h, a)) /\ Order(h, Remove(h, a), Owned(h, a))
<1> DEFINE u == Unlink(h, a)
           O == Owned(h, a)
<1>0. Good(h) /\ h \in Heap /\ a \in Node /\ EndsAgree(h)
  BY Sorts DEF Sound, Good, Coherent
<1>1. Sound(u, L) /\ ~Linked(u, a)
  BY <1>0, UnlinkSound
<1>2. /\ \A k \in Node \ {a} : u.parent[k] = h.parent[k]
      /\ u.parent[a] = NULL
  BY <1>0, UnlinkFields
<1>3. /\ a \in O /\ O \subseteq Node
      /\ \A k \in O \ {a} : h.parent[k] \in O
      /\ \A k \in Node : h.parent[k] \in O => k \in O
  BY <1>0, OwnedFacts
<1>4. Good(u)
  BY <1>1 DEF Sound
<1>10. Order(h, u, {a})
  BY <1>0, UnlinkOrder
<1> HIDE DEF u, O
<1>5. O \in SUBSET Place
  BY <1>3, Sorts
<1>6. /\ \A k \in Node : u.next[k] # a /\ u.prev[k] # a
      /\ \A x \in Place : u.first[x] # a /\ u.last[x] # a
      /\ \A e \in Elements : u.props[e] # a
  BY <1>0, <1>1, <1>4, NobodyNames
<1>7. \A k \in Node : u.doc[k] \notin O
  BY <1>3, <1>4, HeapFields, Sorts DEF Ptr, Good
<1>8. Apart(u, O, {})
  <2> DEFINE N == {a}
  <2>1. /\ \A k \in Node : u.parent[k] \in O => k \in O
        /\ \A k \in O \cap Node : u.parent[k] \in O \/ k \in N
        /\ \A k \in Node \ O : u.next[k] \notin N /\ u.prev[k] \notin N /\ u.doc[k] \notin O
        /\ \A x \in Place \ (O \cup {}) : u.first[x] \notin N /\ u.last[x] \notin N
        /\ \A e \in Elements \ O : u.props[e] \notin N
    BY <1>2, <1>3, <1>6, <1>7, Sorts
  <2> HIDE DEF N
  <2> QED
    BY <1>4, <1>5, <2>1, CutApart
<1>9. Sound(Release(u, O), L \ O)
  BY <1>1, <1>5, <1>8, ReleaseSound
<1>11. Order(h, Release(u, O), O)
  <2>1. Order(u, Release(u, O), O)
    BY <1>1, <1>5, <1>8, ReleaseOrder
  <2>2. {a} \subseteq O
    BY <1>3
  <2> QED
    BY <1>10, <2>1, <2>2, OrderThen
<1> QED
  BY <1>9, <1>11 DEF Remove, u, O

\* The guarded store is a plain one where the field names old.
LEMMA SwapIsPut ==
  ASSUME NEW f, NEW x, NEW old, NEW v, NEW w
  PROVE  /\ f[x] = old => Swap(f, x, old, w) = Put(Swap(f, x, old, v), x, w)
         /\ f[x] # old => Swap(f, x, old, w) = Swap(f, x, old, v)
  BY DEF Swap, Put

\* The stores of xmlReplaceNode are those of an unlink and a link.
LEMMA ReplaceIsLink ==
  ASSUME NEW h, Good(h), NEW old \in Node, NEW c \in Node, old # c, ~Linked(h, c),
         SameSort(old, c), h.parent[old] # NULL
  PROVE  InPlaceOf(h, old, c) =
           Link(Unlink(h, old), c, h.parent[old], h.prev[old], h.next[old])
<1> DEFINE p == h.parent[old]
           pv == h.prev[old]
           nx == h.next[old]
           u == Unlink(h, old)
           g == InPlaceOf(h, old, c)
           l == Link(u, c, p, pv, nx)
<1>0. /\ h \in Heap /\ ListsAgree(h) /\ EndsAgree(h)
      /\ p \in Place /\ pv \in Ptr(Node) /\ nx \in Ptr(Node) /\ old # NULL /\ c # NULL
      /\ h.parent \in [Node -> Ptr(Place)] /\ h.prev \in [Node -> Ptr(Node)]
      /\ h.next \in [Node -> Ptr(Node)] /\ h.first \in [Place -> Ptr(Node)]
      /\ h.last \in [Place -> Ptr(Node)] /\ h.props \in [Elements -> Ptr(Attrs)]
  BY HeapFields, Sorts DEF Good, Coherent, Ptr
<1>1. pv # old /\ nx # old /\ pv # c /\ nx # c /\ (pv # NULL => pv # nx)
  <2>1. pv # c /\ nx # c
    BY <1>0, NobodyNames
  <2>2. \A k \in Node : h.next[k] # k /\ h.prev[k] # k
    <3> SUFFICES ASSUME NEW k \in Node PROVE h.next[k] # k /\ h.prev[k] # k
      OBVIOUS
    <3>1. {k} \in SUBSET Node /\ {k} # {} /\ ListsEnd(h)
      BY DEF Good, Coherent
    <3> QED
      BY <3>1 DEF ListsEnd
  <2>3. pv # NULL => pv # nx
    <3> SUFFICES ASSUME pv # NULL, pv = nx PROVE FALSE
      OBVIOUS
    <3>1. h.next[pv] = old /\ pv \in Node
      BY <1>0 DEF ListsAgree, Ptr
    <3>2. {pv, old} \in SUBSET Node /\ \A k \in {pv, old} : h.next[k] \in {pv, old}
      BY <3>1
    <3>3. ListsEnd(h) /\ {pv, old} # {}
      BY DEF Good, Coherent
    <3> QED
      BY <3>2, <3>3 DEF ListsEnd
  <2> QED
    BY <2>1, <2>2, <2>3
<1>2. g.parent = l.parent
  BY <1>0, <1>1 DEF InPlaceOf, Link, Unlink, Put
<1>3. g.prev = l.prev
  BY <1>0, <1>1 DEF InPlaceOf, Link, Unlink, Put
<1>4. g.next = l.next
  BY <1>0, <1>1 DEF InPlaceOf, Link, Unlink, Put
<1>5. g.first = l.first /\ g.last = l.last
  <2>1. CASE c \in Attrs
    BY <1>0, <2>1, Sorts DEF InPlaceOf, Link, Unlink, Put, Swap, SameSort
  <2>2. CASE c \notin Attrs
    <3>1. old \notin Attrs /\ (pv = NULL <=> h.first[p] = old) /\ (nx = NULL <=> h.last[p] = old)
      BY <1>0, <2>2 DEF EndsAgree, SameSort
    <3>2. /\ g.first = Swap(h.first, p, old, c) /\ g.last = Swap(h.last, p, old, c)
          /\ u.first = Swap(h.first, p, old, nx) /\ u.last = Swap(h.last, p, old, pv)
          /\ l.first = IF pv = NULL THEN Put(u.first, p, c) ELSE u.first
          /\ l.last = IF nx = NULL THEN Put(u.last, p, c) ELSE u.last
      BY <1>0, <2>2, <3>1, Sorts DEF InPlaceOf, Link, Unlink
    <3> HIDE DEF g, l, u, p, pv, nx
    <3>3. /\ h.first[p] = old => Swap(h.first, p, old, c) = Put(Swap(h.first, p, old, nx), p, c)
          /\ h.first[p] # old => Swap(h.first, p, old, c) = Swap(h.first, p, old, nx)
      BY SwapIsPut
    <3>4. /\ h.last[p] = old => Swap(h.last, p, old, c) = Put(Swap(h.last, p, old, pv), p, c)
          /\ h.last[p] # old => Swap(h.last, p, old, c) = Swap(h.last, p, old, pv)
      BY SwapIsPut
    <3> QED
      BY <3>1, <3>2, <3>3, <3>4
  <2> QED
    BY <2>1, <2>2
<1>6. g.props = l.props
  <2>1. CASE c \in Attrs
    <3>1. old \in Attrs /\ p \in Elements /\ (pv = NULL <=> h.props[p] = old)
      BY <1>0, <2>1 DEF EndsAgree, SameSort
    <3>2. /\ g.props = Swap(h.props, p, old, c) /\ u.props = Swap(h.props, p, old, nx)
          /\ l.props = IF pv = NULL THEN Put(u.props, p, c) ELSE u.props
      BY <1>0, <2>1, <3>1, Sorts DEF InPlaceOf, Link, Unlink
    <3> HIDE DEF g, l, u, p, pv, nx
    <3>3. /\ h.props[p] = old => Swap(h.props, p, old, c) = Put(Swap(h.props, p, old, nx), p, c)
          /\ h.props[p] # old => Swap(h.props, p, old, c) = Swap(h.props, p, old, nx)
      BY SwapIsPut
    <3> QED
      BY <3>1, <3>2, <3>3
  <2>2. CASE c \notin Attrs
    BY <1>0, <2>2, Sorts DEF InPlaceOf, Link, Unlink, Put, Swap, SameSort
  <2> QED
    BY <2>1, <2>2
<1> QED
  BY <1>2, <1>3, <1>4, <1>5, <1>6 DEF InPlaceOf, Link, Unlink

\* Where old was is a gap.
LEMMA UnlinkedGap ==
  ASSUME NEW h, NEW L, Sound(h, L), NEW old \in Node, NEW c \in Node, old # c,
         ~Linked(h, c), SameSort(old, c), h.parent[old] # NULL
  PROVE  /\ Gap(Unlink(h, old), c, h.parent[old], h.prev[old], h.next[old])
         /\ {h.parent[old], h.prev[old], h.next[old]} \subseteq Ptr(L)
         /\ ~Linked(Unlink(h, old), c)
<1> DEFINE u == Unlink(h, old)
           pv == h.prev[old]
           nx == h.next[old]
           p == h.parent[old]
<1>0. h \in Heap /\ ListsAgree(h) /\ EndsAgree(h) /\ Within(h, L) /\ Good(h)
  BY DEF Sound, Good, Coherent
<1>1. /\ p \in Place /\ pv \in Ptr(Node) /\ nx \in Ptr(Node)
      /\ {p, pv, nx} \subseteq Ptr(L)
  BY <1>0, HeapFields DEF Within, Ptr
<1>2. pv # c /\ nx # c
  BY <1>0, NobodyNames
<1>3. /\ u.parent[old] = NULL /\ u.next[old] = NULL /\ u.prev[old] = NULL
      /\ \A k \in Node \ {old} :
           /\ u.parent[k] = h.parent[k]
           /\ u.next[k] = IF h.next[k] = old THEN h.next[old] ELSE h.next[k]
           /\ u.prev[k] = IF h.prev[k] = old THEN h.prev[old] ELSE h.prev[k]
      /\ \A x \in Place :
           /\ u.first[x] = IF h.first[x] = old THEN h.next[old] ELSE h.first[x]
           /\ u.last[x] = IF h.last[x] = old THEN h.prev[old] ELSE h.last[x]
      /\ \A e \in Elements :
           u.props[e] = IF h.props[e] = old THEN h.next[old] ELSE h.props[e]
  BY <1>0, UnlinkFields
<1> HIDE DEF u
<1>4. \A k \in Node : h.next[k] # k /\ h.prev[k] # k
  <2> SUFFICES ASSUME NEW k \in Node PROVE h.next[k] # k /\ h.prev[k] # k
    OBVIOUS
  <2>1. {k} \in SUBSET Node /\ {k} # {} /\ ListsEnd(h)
    BY <1>0 DEF Good, Coherent
  <2> QED
    BY <2>1 DEF ListsEnd
<1>5. pv # NULL => u.next[pv] = nx /\ u.parent[pv] = p /\ SameSort(pv, c)
  <2> SUFFICES ASSUME pv # NULL PROVE u.next[pv] = nx /\ u.parent[pv] = p /\ SameSort(pv, c)
    OBVIOUS
  <2>1. pv \in Node /\ pv # old /\ h.next[pv] = old /\ old # NULL
    BY <1>0, <1>1, <1>4, Sorts DEF ListsAgree, Ptr
  <2>2. h.parent[pv] = p /\ SameSort(pv, c)
    BY <1>0, <2>1 DEF ListsAgree, SameSort
  <2> QED
    BY <1>3, <2>1, <2>2
<1>6. nx # NULL => u.prev[nx] = pv /\ u.parent[nx] = p /\ SameSort(nx, c)
  <2> SUFFICES ASSUME nx # NULL PROVE u.prev[nx] = pv /\ u.parent[nx] = p /\ SameSort(nx, c)
    OBVIOUS
  <2>1. /\ nx \in Node /\ nx # old /\ h.prev[nx] = old /\ h.parent[nx] = p /\ SameSort(nx, c)
    BY <1>0, <1>1, <1>4 DEF ListsAgree, Ptr, SameSort
  <2> QED
    BY <1>3, <2>1
<1>7. p # NULL /\ c \notin Attrs =>
        (pv = NULL => u.first[p] = nx) /\ (nx = NULL => u.last[p] = pv)
  BY <1>0, <1>1, <1>3 DEF EndsAgree, SameSort
<1>8. p # NULL /\ c \in Attrs => p \in Elements /\ (pv = NULL => u.props[p] = nx)
  BY <1>0, <1>1, <1>3 DEF EndsAgree, SameSort
<1>9. Gap(u, c, p, pv, nx)
  BY <1>1, <1>2, <1>5, <1>6, <1>7, <1>8 DEF Gap, Ptr
<1>10. ~Linked(u, c)
  BY <1>3, NobodyNames, Sorts DEF Linked
<1> QED
  BY <1>1, <1>9, <1>10 DEF u

\* Putting an unlinked node in the place of another keeps the heap sound.
LEMMA ReplaceSound ==
  ASSUME NEW h, NEW L, Sound(h, L), NEW old \in Node, old \in L, NEW c \in Node, c \in L,
         old # c, ~Linked(h, c), SameSort(old, c), h.parent[old] # NULL,
         MayHold(h.parent[old], c),
         h.parent[old] \notin Attrs => DocOf(h, h.parent[old]) \in {NULL, h.doc[c]}
  PROVE  Sound(InPlaceOf(h, old, c), L) /\ Order(h, InPlaceOf(h, old, c), {old, c})
<1> DEFINE u == Unlink(h, old)
           pv == h.prev[old]
           nx == h.next[old]
           p == h.parent[old]
<1>1. Good(h) /\ Sound(u, L) /\ u.doc = h.doc
  BY UnlinkSound, UnlinkFields DEF Sound
<1>2. Gap(u, c, p, pv, nx) /\ {p, pv, nx} \subseteq Ptr(L) /\ ~Linked(u, c)
  BY UnlinkedGap
<1>3. p \notin Attrs \cup {NULL} => DocOf(u, p) \in {NULL, u.doc[c]}
  BY <1>1 DEF DocOf
<1>4. InPlaceOf(h, old, c) = Link(u, c, p, pv, nx)
  BY <1>1, ReplaceIsLink
<1>6. Order(h, u, {old})
  BY <1>1, UnlinkOrder
<1> HIDE DEF u, pv, nx
<1>5. Sound(Link(u, c, p, pv, nx), L)
  BY <1>1, <1>2, <1>3, LinkSound
<1>7. Order(h, Link(u, c, p, pv, nx), {old, c})
  <2>1. Good(u) /\ Order(u, Link(u, c, p, pv, nx), {c})
    BY <1>1, <1>2, LinkOrder DEF Sound
  <2>2. {old} \subseteq {old, c} /\ {c} \subseteq {old, c}
    OBVIOUS
  <2> QED
    BY <1>6, <2>1, <2>2, OrderThen
<1> QED
  BY <1>4, <1>5, <1>7

\* xmlReplaceNode keeps the heap sound.
LEMMA TakePlaceSound ==
  ASSUME NEW h, NEW L, Sound(h, L), NEW old \in Node, old \in L, NEW c \in Node, c \in L,
         old # c, SameSort(old, c), h.parent[old] # NULL, MayHold(h.parent[old], c)
  PROVE  Sound(TakePlace(h, old, c), L) /\ Order(h, TakePlace(h, old, c), {old, c})
<1> DEFINE u == Unlink(h, c)
           d == h.doc[old]
           s == SetTreeDocs(u, {c}, d)
<1>1. Sound(u, L) /\ ~Linked(u, c) /\ u.doc = h.doc /\ u.parent[old] = h.parent[old]
  BY UnlinkSound, UnlinkFields DEF Sound
<1>2. d \in Ptr(Doc) /\ d \in Ptr(L)
  BY HeapFields DEF Sound, Good, Within, Ptr
<1>3. /\ Sound(s, L) /\ ~Linked(s, c) /\ SameLinks(s, u) /\ s.doc[c] = d
      /\ \A k \in Node : s.doc[k] \in {h.doc[k], d}
  BY <1>2, MovedSound
<1>7. Order(h, s, {c})
  <2>1. Order(h, u, {c}) /\ Order(u, s, {c})
    BY <1>3, UnlinkOrder, SameLinksOrder DEF Sound
  <2> QED
    BY <2>1, OrderThen
<1> HIDE DEF u, d
<1>4. ~Linked(s, c) /\ s.parent[old] = h.parent[old] /\ h.parent[old] \in Place
  BY <1>1, <1>3, HeapFields DEF SameLinks, Linked, Sound, Good, Ptr
<1>5. h.parent[old] \notin Attrs => DocOf(s, s.parent[old]) \in {NULL, s.doc[c]}
  <2> SUFFICES ASSUME h.parent[old] \notin Attrs
               PROVE  DocOf(s, h.parent[old]) \in {NULL, d}
    BY <1>3, <1>4
  <2>1. DocOf(h, h.parent[old]) \in {NULL, d}
    BY DEF Sound, DocsAgree, d
  <2> QED
    BY <1>1, <1>3, <1>4, <2>1 DEF DocOf, Place
<1> HIDE DEF s
<1>6. Sound(InPlaceOf(s, old, c), L) /\ Order(s, InPlaceOf(s, old, c), {old, c})
  BY <1>3, <1>4, <1>5, ReplaceSound
<1>8. Order(h, InPlaceOf(s, old, c), {old, c})
  <2>1. {c} \subseteq {old, c}
    OBVIOUS
  <2> QED
    BY <1>6, <1>7, <2>1, OrderThen
<1> QED
  BY <1>6, <1>8 DEF TakePlace, s, u, d

\* A text holds nothing, and goes alone.
LEMMA TextSound ==
  ASSUME NEW h, NEW L, Sound(h, L), NEW t \in Texts, ~Linked(h, t)
  PROVE  Sound(Release(h, {t}), L \ {t}) /\ Order(h, Release(h, {t}), {t})
<1> DEFINE S == {t}
<1>0. Good(h) /\ h \in Heap /\ Placed(h) /\ t \in Node /\ t \in Place
  BY Sorts DEF Sound, Good
<1>1. \A k \in Node : h.parent[k] # t
  BY <1>0, Sorts DEF Placed, MayHold
<1>2. /\ \A k \in Node : h.next[k] # t /\ h.prev[k] # t /\ h.doc[k] # t
      /\ \A x \in Place : h.first[x] # t /\ h.last[x] # t
      /\ \A e \in Elements : h.props[e] # t
  BY <1>0, NobodyNames, HeapFields, Sorts DEF Ptr
<1>3. S \in SUBSET Place /\ Apart(h, S, {})
  BY <1>0, <1>1, <1>2 DEF Apart
<1> HIDE DEF S
<1>4. Sound(Release(h, S), L \ S) /\ Order(h, Release(h, S), S)
  BY <1>3, ReleaseSound, ReleaseOrder
<1> QED
  BY <1>4 DEF S

\* What follows a first node has its predecessors there too.
LEMMA AfterFirst ==
  ASSUME NEW h, Good(h), NEW c \in Node, h.prev[c] = NULL
  PROVE  /\ After(h, c) \in SUBSET Node /\ c \in After(h, c)
         /\ \A k \in After(h, c) :
              /\ h.parent[k] = h.parent[c] /\ SameSort(k, c)
              /\ h.next[k] # NULL => h.next[k] \in After(h, c)
              /\ k # c => h.prev[k] \in After(h, c)
         /\ \A k \in Node \ After(h, c) :
              h.next[k] \notin After(h, c) /\ h.prev[k] \notin After(h, c)
         /\ \E k \in After(h, c) : h.next[k] = NULL
<1> DEFINE A == After(h, c)
<1>0. h \in Heap /\ ListsAgree(h) /\ ListsEnd(h)
  BY DEF Good, Coherent
<1>1. /\ c \in A /\ A \in SUBSET Node
      /\ \A k \in A : h.next[k] # NULL => h.next[k] \in A
      /\ \A T \in SUBSET Node :
           c \in T /\ (\A k \in T : h.next[k] # NULL => h.next[k] \in T) => A \subseteq T
  BY <1>0, AfterFacts
<1> HIDE DEF A
<1>2. ASSUME NEW k \in A PROVE h.parent[k] = h.parent[c] /\ SameSort(k, c)
  <2> DEFINE T == {m \in Node : h.parent[m] = h.parent[c] /\ SameSort(m, c)}
  <2>1. c \in T /\ T \in SUBSET Node
    BY DEF SameSort
  <2>2. ASSUME NEW m \in T, h.next[m] # NULL PROVE h.next[m] \in T
    <3>1. h.next[m] \in Node
      BY <1>0, <2>2, HeapFields DEF Ptr
    <3> QED
      BY <1>0, <2>2, <3>1 DEF ListsAgree, SameSort
  <2> QED
    BY <1>1, <2>1, <2>2
<1>3. ASSUME NEW k \in A, k # c PROVE h.prev[k] \in A
  <2> SUFFICES ASSUME h.prev[k] \notin A PROVE FALSE
    OBVIOUS
  <2> DEFINE T == A \ {k}
  <2>1. c \in T /\ T \in SUBSET Node
    BY <1>1, <1>3
  <2>2. ASSUME NEW m \in T, h.next[m] # NULL PROVE h.next[m] \in T
    BY <1>0, <1>1, <2>2 DEF ListsAgree
  <2>3. A \subseteq T
    BY <1>1, <2>1, <2>2
  <2> QED
    BY <2>3
<1>4. ASSUME NEW k \in Node \ A PROVE h.next[k] \notin A /\ h.prev[k] \notin A
  <2>1. h.next[k] \notin A
    BY <1>0, <1>1, <1>3, <1>4, Sorts DEF ListsAgree
  <2>2. h.prev[k] \notin A
    BY <1>0, <1>1, <1>4, Sorts DEF ListsAgree
  <2> QED
    BY <2>1, <2>2
<1>5. \E k \in A : h.next[k] = NULL
  <2> SUFFICES ASSUME \A k \in A : h.next[k] # NULL PROVE FALSE
    OBVIOUS
  <2> QED
    BY <1>0, <1>1 DEF ListsEnd
<1> QED
  BY <1>1, <1>2, <1>3, <1>4, <1>5 DEF A

\* A list that is in no tree goes with all below it.
LEMMA ListSound ==
  ASSUME NEW h, NEW L, Sound(h, L), NEW n \in Node, h.parent[n] = NULL, h.prev[n] = NULL
  PROVE  LET S == Below(h, After(h, n)) IN
         S \subseteq Node /\ Sound(Release(h, S), L \ S) /\ Order(h, Release(h, S), S)
<1> DEFINE N == After(h, n)
           S == Below(h, N)
<1>0. Good(h) /\ h \in Heap /\ EndsAgree(h)
  BY DEF Sound, Good, Coherent
<1>1. /\ N \in SUBSET Node
      /\ \A k \in N : h.parent[k] = NULL
      /\ \A k \in Node \ N : h.next[k] \notin N /\ h.prev[k] \notin N
  BY <1>0, AfterFirst
<1> HIDE DEF N
<1>2. /\ N \subseteq S /\ S \subseteq Node
      /\ \A k \in Node : h.parent[k] \in S => k \in S
      /\ \A k \in S \ N : h.parent[k] \in S
  BY <1>0, <1>1, BelowFacts
<1> HIDE DEF S
<1>3. S \in SUBSET Place
  BY <1>2, Sorts
<1>4. Apart(h, S, {})
  <2>1. \A k \in Node \ S : h.next[k] \notin N /\ h.prev[k] \notin N /\ h.doc[k] \notin S
    BY <1>0, <1>1, <1>2, HeapFields, Sorts DEF Ptr
  <2>2. \A x \in Place \ (S \cup {}) : h.first[x] \notin N /\ h.last[x] \notin N
    BY <1>0, <1>1, Sorts DEF EndsAgree
  <2>3. \A e \in Elements \ S : h.props[e] \notin N
    BY <1>0, <1>1, Sorts DEF EndsAgree
  <2> QED
    BY <1>0, <1>2, <1>3, <2>1, <2>2, <2>3, CutApart
<1> QED
  BY <1>2, <1>3, <1>4, ReleaseSound, ReleaseOrder DEF S, N

\* A document goes with its tree if no other node has it.
LEMMA DocSound ==
  ASSUME NEW h, NEW L, Sound(h, L), NEW d \in Doc,
         \A k \in (Node \cap L) \ Below(h, ChildrenOf(h, d)) : h.doc[k] # d
  PROVE  LET S == {d} \cup Below(h, ChildrenOf(h, d)) IN
         S \subseteq Place /\ Sound(Release(h, S), L \ S) /\ Order(h, Release(h, S), S)
<1> DEFINE C == ChildrenOf(h, d)
           B == Below(h, C)
           S == {d} \cup B
<1>0. Good(h) /\ h \in Heap /\ EndsAgree(h) /\ Within(h, L) /\ d \in Place
  BY Sorts DEF Sound, Good, Coherent
<1>1. /\ C \in SUBSET Node /\ \A k \in C : h.parent[k] = d
      /\ \A k \in Node : h.parent[k] = d => k \in C
  <2>1. C \in SUBSET Node
    BY <1>0, AfterFacts, HeapFields, Sorts DEF ChildrenOf, From, Ptr
  <2>2. \A k \in Node : h.parent[k] = d => k \notin Attrs
    BY <1>0, Sorts DEF EndsAgree
  <2> QED
    BY <1>0, <2>1, <2>2, ListedIff
<1> HIDE DEF C
<1>2. /\ C \subseteq B /\ B \subseteq Node
      /\ \A k \in Node : h.parent[k] \in B => k \in B
      /\ \A k \in B \ C : h.parent[k] \in B
  BY <1>0, <1>1, BelowFacts
<1>3. \A k \in Node \ B : h.doc[k] # d
  BY <1>0, Sorts DEF Within, C
<1> HIDE DEF B
<1>4. S \in SUBSET Place
  BY <1>0, <1>2, Sorts
<1>5. Apart(h, S, {})
  <2> DEFINE N == {}
  <2>1. \A k \in Node : h.parent[k] \in S => k \in S
    BY <1>1, <1>2
  <2>2. \A k \in S \cap Node : h.parent[k] \in S \/ k \in N
    BY <1>1, <1>2, Sorts
  <2>3. \A k \in Node \ S : h.next[k] \notin N /\ h.prev[k] \notin N /\ h.doc[k] \notin S
    BY <1>0, <1>2, <1>3, HeapFields, Sorts DEF Ptr
  <2>4. \A x \in Place \ (S \cup {}) : h.first[x] \notin N /\ h.last[x] \notin N
    OBVIOUS
  <2>5. \A e \in Elements \ S : h.props[e] \notin N
    OBVIOUS
  <2> HIDE DEF N, S
  <2> QED
    BY <1>0, <1>4, <2>1, <2>2, <2>3, <2>4, <2>5, CutApart
<1> HIDE DEF S
<1>6. Sound(Release(h, S), L \ S) /\ Order(h, Release(h, S), S)
  BY <1>4, <1>5, ReleaseSound, ReleaseOrder
<1> QED
  BY <1>4, <1>6 DEF S, B, C

\* The values of an attribute go, and its child list is reset.
LEMMA ValuesSound ==
  ASSUME NEW h, NEW L, Sound(h, L), NEW a \in Attrs
  PROVE  LET S == Below(h, ChildrenOf(h, a))
             g == Empty(Release(h, S), a) IN
         /\ S \subseteq Node /\ Sound(g, L \ S) /\ a \notin S /\ Order(h, g, S)
         /\ g.first[a] = NULL /\ g.last[a] = NULL
         /\ \A k \in Node \ S : g.doc[k] = h.doc[k]
<1> DEFINE C == ChildrenOf(h, a)
           S == Below(h, C)
           r == Release(h, S)
           g == Empty(r, a)
<1>0. Good(h) /\ h \in Heap /\ EndsAgree(h) /\ ListsAgree(h) /\ Placed(h) /\ a \in Place /\ a \in Node
  BY Sorts DEF Sound, Good, Coherent
<1>1. /\ C \in SUBSET Node
      /\ \A k \in Node : k \in C <=> h.parent[k] = a /\ k \notin Attrs
  <2>1. C \in SUBSET Node
    BY <1>0, AfterFacts, HeapFields, Sorts DEF ChildrenOf, From, Ptr
  <2> QED
    BY <1>0, <2>1, ListedIff
<1> HIDE DEF C
<1>2. /\ C \subseteq S /\ S \subseteq Node
      /\ \A k \in Node : h.parent[k] \in S => k \in S
      /\ \A k \in S \ C : h.parent[k] \in S
  BY <1>0, <1>1, BelowFacts
<1>3. C \subseteq Texts /\ \A k \in Node : h.parent[k] \notin C
  BY <1>0, <1>1, Sorts DEF Placed, MayHold
<1>4. S \subseteq C
  BY <1>0, <1>1, <1>3, BelowFacts
<1> HIDE DEF S
<1>5. S \in SUBSET Place /\ a \notin S /\ \A k \in Node : h.parent[k] = a => k \in S
  <2>1. \A k \in Node : h.parent[k] = a => k \notin Attrs
    BY <1>0, Sorts DEF EndsAgree
  <2> QED
    BY <1>1, <1>2, <1>3, <1>4, <2>1, Sorts
<1>6. Apart(h, S, {a})
  <2> DEFINE N == S
             A == {a}
  <2>1. ASSUME NEW k \in Node \ S
        PROVE  h.next[k] \notin S /\ h.prev[k] \notin S /\ h.doc[k] \notin S
    <3>1. h.next[k] \notin S
      BY <1>0, <1>1, <1>2, <1>4, <1>5, Sorts DEF ListsAgree
    <3>2. h.prev[k] \notin S
      BY <1>0, <1>1, <1>2, <1>4, <1>5, Sorts DEF ListsAgree
    <3>3. h.doc[k] \notin S
      BY <1>0, <1>2, HeapFields, Sorts DEF Ptr
    <3> QED
      BY <3>1, <3>2, <3>3
  <2>2. ASSUME NEW x \in Place \ (S \cup A) PROVE h.first[x] \notin S /\ h.last[x] \notin S
    BY <1>0, <1>1, <1>4, HeapFields, Sorts DEF EndsAgree, Ptr
  <2>3. ASSUME NEW e \in Elements \ S PROVE h.props[e] \notin S
    BY <1>0, <1>3, <1>4, HeapFields, Sorts DEF Ptr
  <2>4. \A k \in Node \ S : h.parent[k] \notin S
    BY <1>2
  <2> QED
    BY <2>1, <2>2, <2>3, <2>4 DEF Apart
<1>7. r \in Heap /\ Without(r, h, S, {})
  BY <1>0, ReleaseFields
<1>8. g \in Heap /\ g.first[a] = NULL /\ g.last[a] = NULL
      /\ \A k \in Node \ S : g.doc[k] = h.doc[k]
  BY <1>0, <1>7, HeapFields, Sorts DEF Empty, Put, Heap, Without, Ptr
<1>9. Without(g, h, S, {a})
  BY <1>0, <1>7, HeapFields DEF Empty, Put, Without
<1> HIDE DEF g, r
<1>10. Sound(g, L \ S)
  <2> DEFINE A == {a}
  <2>1. /\ A \in SUBSET Place /\ Apart(h, S, A) /\ Without(g, h, S, A)
        /\ \A k \in Node \ Attrs : h.parent[k] \in A => k \in S
    BY <1>0, <1>5, <1>6, <1>9
  <2> HIDE DEF A
  <2> QED
    BY <1>5, <1>8, <2>1, WithoutSound
<1>11. Order(h, g, S)
  BY <1>0, <1>6, <1>9, <1>10, DropOrder DEF Apart, Without, Sound
<1> QED
  BY <1>2, <1>5, <1>8, <1>10, <1>11 DEF g, r, S, C

\* A list has one last node.
LEMMA LastUnique ==
  ASSUME NEW h, Good(h), NEW c \in Node, h.prev[c] = NULL,
         NEW a \in After(h, c), h.next[a] = NULL, NEW b \in After(h, c), h.next[b] = NULL
  PROVE  a = b
<1>0. h \in Heap /\ ListsAgree(h) /\ ListsEnd(h)
  BY DEF Good, Coherent
<1>1. /\ After(h, c) \in SUBSET Node
      /\ \A k \in After(h, c) : k # c => h.prev[k] \in After(h, c)
  BY AfterFirst
<1> SUFFICES ASSUME a # b PROVE FALSE
  OBVIOUS
<1> DEFINE Y == {m \in After(h, c) : a \notin After(h, m)}
<1>2. b \in Y
  <2> DEFINE T == {b}
  <2>1. b \in Node /\ b \in T /\ T \in SUBSET Node /\ \A k \in T : h.next[k] # NULL => h.next[k] \in T
    BY <1>1
  <2> HIDE DEF T
  <2>2. After(h, b) \subseteq T
    BY <1>0, <2>1, AfterFacts
  <2> QED
    BY <2>2 DEF T
<1>3. ASSUME NEW m \in Y PROVE h.prev[m] \in Y
  <2>1. m # c /\ m \in Node
    BY <1>1
  <2> DEFINE q == h.prev[m]
  <2>2. q \in After(h, c) /\ q \in Node /\ h.next[q] = m
    BY <1>0, <1>1, <2>1, Sorts DEF ListsAgree
  <2> DEFINE W == {q} \cup After(h, m)
  <2>3. q \in W /\ W \in SUBSET Node /\ \A k \in W : h.next[k] # NULL => h.next[k] \in W
    BY <1>0, <2>1, <2>2, AfterFacts
  <2>4. a \notin W
    BY <2>1, <2>2, Sorts
  <2> HIDE DEF W, q
  <2>5. After(h, q) \subseteq W
    BY <1>0, <2>2, <2>3, AfterFacts
  <2> QED
    BY <2>2, <2>4, <2>5 DEF q
<1>4. Y \in SUBSET Node
  BY <1>1
<1> HIDE DEF Y
<1> QED
  BY <1>0, <1>2, <1>3, <1>4 DEF ListsEnd

\* g is h with the parentless list from c put after the children of p.
Appended(g, h, p, c, end) ==
  /\ g \in Heap
  /\ g.doc = h.doc
  /\ \A k \in Node :
       /\ g.parent[k] = IF k \in After(h, c) THEN p ELSE h.parent[k]
       /\ g.prev[k] = IF k = c THEN h.last[p] ELSE h.prev[k]
       /\ g.next[k] = IF k = h.last[p] THEN c ELSE h.next[k]
  /\ \A x \in Place :
       /\ g.first[x] = IF x = p /\ h.first[p] = NULL THEN c ELSE h.first[x]
       /\ g.last[x] = IF x = p THEN end ELSE h.last[x]
  /\ g.props = h.props

\* Appending a parentless list keeps the links coherent.
LEMMA AppendSound ==
  ASSUME NEW h, NEW L, Sound(h, L), NEW p \in Place, p \in L, NEW c \in Node \ Attrs, c \in L,
         h.parent[c] = NULL, h.prev[c] = NULL,
         \A k \in After(h, c) : MayHold(p, k) /\ (p \notin Attrs => DocOf(h, p) \in {NULL, h.doc[k]}),
         NEW end \in After(h, c), h.next[end] = NULL, NEW g, Appended(g, h, p, c, end)
  PROVE  Sound(g, L) /\ Order(h, g, After(h, c))
<1> DEFINE l == After(h, c)
           pv == h.last[p]
<1>0. /\ h \in Heap /\ ListsAgree(h) /\ EndsAgree(h) /\ ListsEnd(h) /\ Placed(h)
      /\ DocsAgree(h) /\ Within(h, L) /\ L \subseteq Place /\ Good(h)
  BY DEF Sound, Good, Coherent
<1>1. /\ l \in SUBSET Node /\ c \in l
      /\ \A k \in l : /\ h.parent[k] = NULL /\ k \notin Attrs
                      /\ h.next[k] # NULL => h.next[k] \in l
                      /\ k # c => h.prev[k] \in l
      /\ \A k \in Node \ l : h.next[k] \notin l /\ h.prev[k] \notin l
  BY <1>0, AfterFirst DEF SameSort
<1>2. \A k \in l : h.next[k] = NULL <=> k = end
  BY <1>0, LastUnique
<1>3. end \in l
  OBVIOUS
<1>4. pv \in Ptr(Node) /\ pv \notin l /\ pv \in Ptr(L)
      /\ (pv # NULL => /\ pv \in Node \ Attrs /\ h.parent[pv] = p /\ h.next[pv] = NULL)
      /\ (pv = NULL <=> h.first[p] = NULL) /\ p # NULL
  <2>1. pv \in Ptr(Node) /\ pv \in Ptr(L) /\ p # NULL
    BY <1>0, HeapFields, Sorts DEF Within, Ptr
  <2> QED
    BY <1>0, <1>1, <2>1, Sorts DEF EndsAgree, Ptr
<1>5. /\ g \in Heap
      /\ g.doc = h.doc
      /\ \A k \in Node :
           /\ g.parent[k] = IF k \in l THEN p ELSE h.parent[k]
           /\ g.prev[k] = IF k = c THEN pv ELSE h.prev[k]
           /\ g.next[k] = IF k = pv THEN c ELSE h.next[k]
      /\ \A x \in Place :
           /\ g.first[x] = IF x = p /\ pv = NULL THEN c ELSE h.first[x]
           /\ g.last[x] = IF x = p THEN end ELSE h.last[x]
      /\ g.props = h.props
  BY <1>4 DEF Appended
<1>10. /\ \A k \in l : MayHold(p, k)
       /\ \A k \in l : p \notin Attrs => DocOf(h, p) \in {NULL, h.doc[k]}
  OBVIOUS
<1> HIDE DEF l, pv
<1>6. ListsAgree(g)
  <2>1. ASSUME NEW k \in Node, g.next[k] # NULL
        PROVE  /\ g.prev[g.next[k]] = k /\ g.parent[g.next[k]] = g.parent[k]
               /\ SameSort(k, g.next[k])
    <3>1. CASE k = pv
      BY <1>0, <1>1, <1>4, <1>5, <3>1, Sorts DEF SameSort
    <3>2. CASE k # pv
      <4>1. g.next[k] = h.next[k] /\ h.next[k] \in Node /\ h.prev[h.next[k]] = k
            /\ h.parent[h.next[k]] = h.parent[k] /\ SameSort(k, h.next[k])
        BY <1>0, <1>5, <2>1, <3>2, HeapFields DEF ListsAgree, Ptr
      <4>2. h.next[k] # c
        BY <1>0, <2>1, <4>1, Sorts
      <4>3. k \in l <=> h.next[k] \in l
        BY <1>1, <2>1, <4>1
      <4> QED
        BY <1>5, <4>1, <4>2, <4>3
    <3> QED
      BY <3>1, <3>2
  <2>2. ASSUME NEW k \in Node, g.prev[k] # NULL PROVE g.next[g.prev[k]] = k
    <3>1. CASE k = c
      BY <1>4, <1>5, <2>2, <3>1 DEF Ptr
    <3>2. CASE k # c
      <4>1. g.prev[k] = h.prev[k] /\ h.prev[k] \in Node /\ h.next[h.prev[k]] = k /\ k # NULL
        BY <1>0, <1>5, <2>2, <3>2, HeapFields, Sorts DEF ListsAgree, Ptr
      <4> QED
        BY <1>4, <1>5, <4>1, Sorts
    <3> QED
      BY <3>1, <3>2
  <2> QED
    BY <2>1, <2>2 DEF ListsAgree
<1>7. EndsAgree(g)
  <2>1. ASSUME NEW k \in Node \ Attrs, g.parent[k] # NULL
        PROVE  /\ g.prev[k] = NULL <=> g.first[g.parent[k]] = k
               /\ g.next[k] = NULL <=> g.last[g.parent[k]] = k
    <3>1. CASE k \in l
      <4>1. g.parent[k] = p /\ h.first[p] \notin l /\ h.last[p] \notin l
        BY <1>0, <1>1, <1>4, <1>5, <3>1, Sorts DEF EndsAgree
      <4>2. g.prev[k] = NULL <=> g.first[p] = k
        BY <1>0, <1>1, <1>4, <1>5, <3>1, <4>1, Sorts
      <4>3. g.next[k] = NULL <=> g.last[p] = k
        BY <1>1, <1>2, <1>4, <1>5, <3>1
      <4> QED
        BY <4>1, <4>2, <4>3
    <3>2. CASE k \notin l /\ h.parent[k] = p
      <4>1. g.parent[k] = p /\ k # c /\ k # end /\ k # NULL
        BY <1>1, <1>3, <1>5, <3>2, Sorts
      <4>2. /\ h.prev[k] = NULL <=> h.first[p] = k
            /\ h.next[k] = NULL <=> pv = k
        BY <1>0, <2>1, <3>2, <4>1 DEF EndsAgree, pv
      <4>3. g.prev[k] = NULL <=> g.first[p] = k
        BY <1>4, <1>5, <4>1, <4>2
      <4>4. g.next[k] # NULL /\ g.last[p] # k
        BY <1>1, <1>5, <4>1, <4>2, Sorts
      <4> QED
        BY <4>1, <4>3, <4>4
    <3>3. CASE k \notin l /\ h.parent[k] # p
      <4>1. g.parent[k] = h.parent[k] /\ h.parent[k] \in Place /\ k # c /\ k # pv
        BY <1>0, <1>1, <1>4, <1>5, <2>1, <3>3, HeapFields, Sorts DEF Ptr
      <4> QED
        BY <1>0, <1>5, <2>1, <3>3, <4>1 DEF EndsAgree
    <3> QED
      BY <3>1, <3>2, <3>3
  <2>2. \A a \in Attrs : g.parent[a] # NULL =>
          /\ g.parent[a] \in Elements
          /\ g.prev[a] = NULL <=> g.props[g.parent[a]] = a
    BY <1>0, <1>1, <1>5, Sorts DEF EndsAgree
  <2>3. ASSUME NEW x \in Place
        PROVE  /\ g.first[x] = NULL <=> g.last[x] = NULL
               /\ g.first[x] # NULL => g.first[x] \notin Attrs /\ g.parent[g.first[x]] = x
               /\ g.last[x] # NULL => g.last[x] \notin Attrs /\ g.parent[g.last[x]] = x
    <3>1. /\ h.first[x] = NULL <=> h.last[x] = NULL
          /\ h.first[x] # NULL => h.first[x] \in Node \ Attrs /\ h.parent[h.first[x]] = x
          /\ h.last[x] # NULL => h.last[x] \in Node \ Attrs /\ h.parent[h.last[x]] = x
      BY <1>0, HeapFields, Sorts DEF EndsAgree, Ptr
    <3>2. CASE x = p
      <4>1. end \in Node \ Attrs /\ c \in Node \ Attrs /\ g.parent[end] = p /\ g.parent[c] = p
        BY <1>1, <1>3, <1>5
      <4>2. h.first[p] # NULL => g.parent[h.first[p]] = p
        BY <1>1, <1>5, <3>1, <3>2
      <4> QED
        BY <1>4, <1>5, <3>1, <3>2, <4>1, <4>2, Sorts
    <3>3. CASE x # p
      BY <1>1, <1>5, <3>1, <3>3, Sorts
    <3> QED
      BY <3>2, <3>3
  <2>4. \A e \in Elements : g.props[e] # NULL => g.parent[g.props[e]] = e
    BY <1>0, <1>1, <1>5, HeapFields, Sorts DEF EndsAgree, Ptr
  <2> QED
    BY <2>1, <2>2, <2>3, <2>4 DEF EndsAgree
<1>8. ListsEnd(g)
  <2> SUFFICES ASSUME NEW S \in SUBSET Node
               PROVE  /\ (\A k \in S : g.prev[k] \in S) => S = {}
                      /\ (\A k \in S : g.next[k] \in S) => S = {}
    BY DEF ListsEnd
  <2>1. ASSUME \A k \in S : g.prev[k] \in S PROVE S = {}
    <3>1. \A k \in S \ l : h.prev[k] \in S \ l
      BY <1>1, <1>5, <2>1
    <3>2. S \ l = {}
      BY <1>0, <3>1 DEF ListsEnd
    <3>3. \A k \in S : h.prev[k] \in S
      BY <1>1, <1>4, <1>5, <2>1, <3>2, Sorts
    <3> QED
      BY <1>0, <3>3 DEF ListsEnd
  <2>2. ASSUME \A k \in S : g.next[k] \in S PROVE S = {}
    <3>1. \A k \in S \cap l : h.next[k] \in S \cap l
      BY <1>1, <1>4, <1>5, <2>2, Sorts
    <3>2. S \cap l = {}
      BY <1>0, <3>1 DEF ListsEnd
    <3>3. \A k \in S : h.next[k] \in S
      BY <1>1, <1>5, <2>2, <3>2
    <3> QED
      BY <1>0, <3>3 DEF ListsEnd
  <2> QED
    BY <2>1, <2>2
<1>9. Placed(g)
  BY <1>0, <1>5, <1>10 DEF Placed
<1>11. DocsAgree(g)
  BY <1>0, <1>5, <1>10 DEF DocsAgree, DocOf
<1>12. l \subseteq L
  <2> DEFINE T == Node \cap L
  <2>1. c \in T /\ T \in SUBSET Node /\ \A k \in T : h.next[k] # NULL => h.next[k] \in T
    BY <1>0, HeapFields DEF Within, Ptr
  <2> HIDE DEF T
  <2>2. l \subseteq T
    BY <1>0, <2>1, AfterFacts DEF l
  <2> QED
    BY <2>2 DEF T
<1>13. Within(g, L)
  <2>1. ASSUME NEW k \in Node
        PROVE  /\ g.parent[k] # NULL => k \in L /\ g.parent[k] \in L
               /\ g.prev[k] # NULL => k \in L /\ g.prev[k] \in L
               /\ g.next[k] # NULL => k \in L /\ g.next[k] \in L
               /\ g.doc[k] # NULL => k \in L /\ g.doc[k] \in L
    BY <1>0, <1>4, <1>5, <1>12, Sorts DEF Within, Ptr
  <2>2. ASSUME NEW x \in Place
        PROVE  /\ g.first[x] # NULL => x \in L /\ g.first[x] \in L
               /\ g.last[x] # NULL => x \in L /\ g.last[x] \in L
    BY <1>0, <1>3, <1>5, <1>12, Sorts DEF Within
  <2>3. ASSUME NEW e \in Elements, g.props[e] # NULL PROVE e \in L /\ g.props[e] \in L
    BY <1>0, <1>5, <2>3 DEF Within
  <2> QED
    BY <2>1, <2>2, <2>3 DEF Within
<1>14. Order(h, g, l)
  <2> DEFINE d == [k \in l |-> NULL]
  <2>1. Good(g)
    BY <1>5, <1>6, <1>7, <1>8 DEF Good, Coherent
  <2>2. Leaves(h, l, d)
    BY <1>1 DEF Leaves
  <2>3. Leaves(g, l, d)
    BY <1>1, <1>4, <1>5 DEF Leaves
  <2>4. \A k \in Node \ l : /\ Past(h, l, d, k) = Past(g, l, d, k)
                            /\ g.parent[k] = h.parent[k]
    BY <1>1, <1>4, <1>5, Sorts DEF Past
  <2> HIDE DEF d
  <2> QED
    BY <1>0, <1>1, <2>1, <2>2, <2>3, <2>4, SameOrder
<1> QED
  BY <1>0, <1>5, <1>6, <1>7, <1>8, <1>9, <1>11, <1>13, <1>14 DEF Sound, Good, Coherent, l

\* The documents of a list that goes below p.
LEMMA ListDocs ==
  ASSUME NEW h, NEW L, Sound(h, L), NEW p \in Place, p \in L, NEW c \in Node, c \in L,
         h.parent[c] = NULL, h.prev[c] = NULL
  PROVE  LET s == SetTreeDocs(h, After(h, c), DocOf(h, p)) IN
         /\ Sound(s, L) /\ SameLinks(s, h) /\ After(s, c) = After(h, c)
         /\ DocOf(s, p) = DocOf(h, p)
         /\ \A k \in After(h, c) : s.doc[k] = DocOf(h, p)
<1> DEFINE A == After(h, c)
           d == DocOf(h, p)
           s == SetTreeDocs(h, A, d)
<1>0. Good(h) /\ h \in Heap /\ Within(h, L)
  BY DEF Sound, Good
<1>1. A \in SUBSET Node /\ \A k \in A : h.parent[k] = NULL
  BY <1>0, AfterFirst
<1>2. A \subseteq L
  <2> DEFINE T == Node \cap L
  <2>1. c \in T /\ T \in SUBSET Node /\ \A k \in T : h.next[k] # NULL => h.next[k] \in T
    BY <1>0, HeapFields DEF Within, Ptr
  <2> HIDE DEF T
  <2>2. A \subseteq T
    BY <1>0, <2>1, AfterFacts
  <2> QED
    BY <2>2 DEF T
<1>3. d \in Ptr(Doc) /\ d \in Ptr(L)
  BY <1>0, HeapFields, Sorts DEF DocOf, Within, Ptr, Place
<1> HIDE DEF A
<1>5. d = DocOf(h, p)
  OBVIOUS
<1> HIDE DEF d
<1>4. /\ Sound(s, L) /\ SameLinks(s, h) /\ \A n \in A : s.doc[n] = d
      /\ \A k \in Node : s.doc[k] \in {h.doc[k], d}
  BY <1>1, <1>2, <1>3, SetTreeDocsSound
<1> HIDE DEF s
<1>6. DocOf(s, p) = d
  BY <1>4, <1>5 DEF DocOf, Place
<1>7. After(s, c) = A
  BY <1>4 DEF A, After, SameLinks
<1> QED
  BY <1>4, <1>6, <1>7 DEF s, A, d

\* The fields after a list was appended.
LEMMA AppendFields ==
  ASSUME NEW h \in Heap, NEW u \in Heap, NEW p \in Place, NEW c \in Node, NEW end \in Node,
         NEW pv, pv = h.last[p], h.prev[c] = NULL,
         u.parent = h.parent, u.next = h.next, u.first = h.first, u.last = h.last,
         u.props = h.props, u.doc = h.doc,
         \A k \in Node \ {c} : u.prev[k] = h.prev[k],
         u.prev[c] = NULL \/ pv # NULL,
         NEW g,
         g = [parent |-> [n \in Node |-> IF n \in After(h, c) THEN p ELSE u.parent[n]],
              prev |-> IF pv = NULL THEN u.prev ELSE Put(u.prev, c, pv),
              next |-> Put(u.next, pv, c),
              first |-> IF u.first[p] = NULL THEN Put(u.first, p, c) ELSE u.first,
              last |-> Put(u.last, p, end),
              props |-> u.props,
              doc |-> u.doc]
  PROVE  Appended(g, h, p, c, end)
<1>1. /\ u.parent \in [Node -> Ptr(Place)] /\ u.prev \in [Node -> Ptr(Node)]
      /\ u.next \in [Node -> Ptr(Node)] /\ u.first \in [Place -> Ptr(Node)]
      /\ u.last \in [Place -> Ptr(Node)] /\ u.props \in [Elements -> Ptr(Attrs)]
      /\ u.doc \in [Node -> Ptr(Doc)]
      /\ p \in Ptr(Place) /\ pv \in Ptr(Node) /\ c \in Ptr(Node) /\ end \in Ptr(Node)
  BY HeapFields DEF Ptr
<1>2. g \in Heap
  <2>1. g.parent \in [Node -> Ptr(Place)]
    BY <1>1
  <2>2. g.prev \in [Node -> Ptr(Node)] /\ g.next \in [Node -> Ptr(Node)]
    BY <1>1, PutType
  <2>3. g.first \in [Place -> Ptr(Node)] /\ g.last \in [Place -> Ptr(Node)]
    BY <1>1, PutType
  <2> QED
    BY <1>1, <2>1, <2>2, <2>3 DEF Heap
<1>3. \A k \in Node :
        /\ g.parent[k] = IF k \in After(h, c) THEN p ELSE h.parent[k]
        /\ g.prev[k] = IF k = c THEN pv ELSE h.prev[k]
        /\ g.next[k] = IF k = pv THEN c ELSE h.next[k]
  BY <1>1 DEF Put
<1>4. \A x \in Place :
        /\ g.first[x] = IF x = p /\ h.first[p] = NULL THEN c ELSE h.first[x]
        /\ g.last[x] = IF x = p THEN end ELSE h.last[x]
  BY <1>1 DEF Put
<1> QED
  BY <1>2, <1>3, <1>4 DEF Appended

\* xmlAddChildList keeps the heap sound.
LEMMA AppendListSound ==
  ASSUME NEW h, NEW L, Sound(h, L), NEW p \in Place, p \in L, NEW c \in Node \ Attrs, c \in L,
         h.parent[c] = NULL, h.prev[c] = NULL, \A k \in After(h, c) : MayHold(p, k)
  PROVE  LET gone == IF h.last[p] \in Texts /\ c \in Texts THEN {c} ELSE {} IN
         /\ Sound(AppendList(h, p, c), L \ gone)
         /\ Order(h, AppendList(h, p, c), After(h, c))
<1> DEFINE s == SetTreeDocs(h, After(h, c), DocOf(h, p))
           pv == s.last[p]
           merge == pv \in Texts /\ c \in Texts
           start == IF merge THEN s.next[c] ELSE c
           l == From(s, start)
           end == CHOOSE m \in l : s.next[m] = NULL
           u == IF merge THEN Release(s, {c}) ELSE s
           g == [parent |-> [n \in Node |-> IF n \in l THEN p ELSE u.parent[n]],
                 prev |-> IF pv = NULL THEN u.prev ELSE Put(u.prev, start, pv),
                 next |-> Put(u.next, pv, start),
                 first |-> IF u.first[p] = NULL THEN Put(u.first, p, start) ELSE u.first,
                 last |-> Put(u.last, p, end),
                 props |-> u.props,
                 doc |-> u.doc]
<1>1. AppendList(h, p, c) = IF start = NULL THEN u ELSE g
  BY DEF AppendList
<1>2. /\ Sound(s, L) /\ SameLinks(s, h) /\ After(s, c) = After(h, c)
      /\ DocOf(s, p) = DocOf(h, p)
      /\ \A k \in After(s, c) : s.doc[k] = DocOf(s, p) /\ MayHold(p, k)
  BY ListDocs
<1>3. /\ Good(s) /\ s \in Heap /\ pv = h.last[p]
      /\ s.parent[c] = NULL /\ s.prev[c] = NULL
  BY <1>2 DEF Sound, Good, SameLinks
<1> HIDE DEF s
<1>4. /\ After(s, c) \in SUBSET Node /\ c \in After(s, c)
      /\ \A k \in After(s, c) : s.next[k] # NULL => s.next[k] \in After(s, c)
      /\ \E k \in After(s, c) : s.next[k] = NULL
  BY <1>3, AfterFirst
<1>5. CASE ~merge
  <2>1. start = c /\ start # NULL /\ u = s /\ l = After(s, c)
    BY <1>5, Sorts DEF From
  <2>2. end \in After(s, c) /\ s.next[end] = NULL
    BY <1>4, <2>1
  <2> HIDE DEF end
  <2>3. Appended(g, s, p, c, end)
    <3>1. end \in Node /\ pv = s.last[p]
      BY <1>4, <2>2
    <3>2. g = [parent |-> [n \in Node |-> IF n \in After(s, c) THEN p ELSE s.parent[n]],
               prev |-> IF pv = NULL THEN s.prev ELSE Put(s.prev, c, pv),
               next |-> Put(s.next, pv, c),
               first |-> IF s.first[p] = NULL THEN Put(s.first, p, c) ELSE s.first,
               last |-> Put(s.last, p, end),
               props |-> s.props,
               doc |-> s.doc]
      BY <2>1
    <3> HIDE DEF g, pv
    <3> QED
      BY <1>3, <3>1, <3>2, AppendFields
  <2>4. Sound(g, L) /\ Order(h, g, After(h, c))
    <3> HIDE DEF g
    <3>1. Sound(g, L) /\ Order(s, g, After(s, c))
      BY <1>2, <1>3, <2>2, <2>3, AppendSound
    <3> QED
      BY <1>2, <3>1, SameLinksOrder, OrderThen
  <2>5. L \ {} = L
    OBVIOUS
  <2> QED
    BY <1>1, <1>3, <1>5, <2>1, <2>4, <2>5
<1>6. CASE merge /\ start = NULL
  <2>1. ~Linked(s, c) /\ u = Release(s, {c}) /\ c \in Texts
    BY <1>3, <1>6 DEF Linked
  <2>2. Sound(u, L \ {c}) /\ Order(s, u, {c})
    BY <1>2, <2>1, TextSound
  <2>3. Order(h, u, After(h, c))
    <3>1. Order(h, s, {}) /\ {c} \subseteq After(h, c)
      BY <1>2, <1>4, SameLinksOrder
    <3> HIDE DEF u
    <3> QED
      BY <2>2, <3>1, OrderThen
  <2> QED
    BY <1>1, <1>3, <1>6, <2>2, <2>3
<1>7. CASE merge /\ start # NULL
  <2> DEFINE v == Unlink(s, c)
             w == Release(v, {c})
             M == L \ {c}
  <2>1. /\ c \in Texts /\ start = s.next[c] /\ u = Release(s, {c}) /\ l = After(s, start)
        /\ pv \in Texts /\ pv # NULL
    BY <1>7, Sorts DEF From
  <2>2. Sound(w, M) /\ w \in Heap /\ Good(w)
    <3>1. Sound(v, L) /\ ~Linked(v, c)
      BY <1>2, UnlinkSound
    <3> HIDE DEF v, M
    <3>2. Sound(w, L \ {c})
      BY <2>1, <3>1, TextSound
    <3> QED
      BY <3>2 DEF Sound, Good, M
  <2>3. /\ start \in Node \ Attrs /\ start # c /\ s.prev[start] = c
        /\ s.parent[start] = NULL /\ start \in M
        /\ start \in After(s, c)
    <3>1. start \in Node /\ s.prev[start] = c /\ s.parent[start] = NULL /\ SameSort(c, start)
          /\ start \in L /\ start \in After(s, c)
      BY <1>2, <1>3, <1>4, <1>7, <2>1, HeapFields DEF Sound, Good, Coherent, ListsAgree, Within, Ptr
    <3>2. start # c
      BY <1>3, <3>1, Sorts
    <3> QED
      BY <3>1, <3>2, Sorts DEF SameSort
  <2>4. /\ \A k \in Node :
             /\ w.parent[k] = IF k = c THEN NULL ELSE s.parent[k]
             /\ w.prev[k] = IF k \in {c, start} THEN NULL ELSE s.prev[k]
             /\ w.next[k] = IF k = c THEN NULL ELSE s.next[k]
             /\ w.doc[k] = IF k = c THEN NULL ELSE s.doc[k]
        /\ \A x \in Place \ {c} : w.first[x] = s.first[x] /\ w.last[x] = s.last[x]
        /\ w.first[c] = NULL /\ w.last[c] = NULL
        /\ w.props = [e \in Elements |-> s.props[e]]
    <3>1. Good(v) /\ v \in Heap /\ c \in Node /\ v.doc = s.doc
      BY <1>3, UnlinkGood, UnlinkFields DEF Good
    <3>2. Without(w, v, {c}, {})
      BY <3>1, ReleaseFields
    <3>3. /\ \A k \in Node : s.next[k] # c
          /\ \A x \in Place : s.first[x] # c /\ s.last[x] # c
          /\ \A e \in Elements : s.props[e] # c
          /\ \A k \in Node : s.prev[k] = c => k = start
      BY <1>3, <2>1, Sorts DEF Good, Coherent, ListsAgree, EndsAgree
    <3>4. /\ \A k \in Node \ {c} :
               /\ v.parent[k] = s.parent[k] /\ v.next[k] = s.next[k]
               /\ v.prev[k] = IF k = start THEN NULL ELSE s.prev[k]
          /\ \A x \in Place : v.first[x] = s.first[x] /\ v.last[x] = s.last[x]
          /\ \A e \in Elements : v.props[e] = s.props[e]
      BY <1>3, <2>3, <3>3, UnlinkFields
    <3> HIDE DEF v, w
    <3>5. w.props \in [Elements -> Ptr(Attrs)] /\ \A e \in Elements : w.props[e] = s.props[e]
      BY <2>1, <2>2, <3>2, <3>4, HeapFields, Sorts DEF Without
    <3> QED
      BY <1>3, <3>1, <3>2, <3>4, <3>5, Sorts DEF Without
  <2> HIDE DEF v, w, M
  <2>5. c \notin l /\ l \subseteq After(s, c) /\ l \in SUBSET Node
    <3> DEFINE T == After(s, c) \ {c}
    <3>1. T \in SUBSET Node /\ start \in T
      BY <1>4, <2>3
    <3>2. ASSUME NEW k \in T, s.next[k] # NULL PROVE s.next[k] \in T
      BY <1>3, <1>4, <3>1, <3>2, Sorts DEF Good, Coherent, ListsAgree
    <3> HIDE DEF T
    <3>3. l \subseteq T
      BY <1>3, <2>1, <2>3, <3>1, <3>2, AfterFacts
    <3> QED
      BY <1>4, <3>3 DEF T
  <2>6. l = After(w, start)
    <3>1. /\ start \in l
          /\ \A k \in l : s.next[k] # NULL => s.next[k] \in l
          /\ \A T \in SUBSET Node :
               start \in T /\ (\A k \in T : s.next[k] # NULL => s.next[k] \in T) => l \subseteq T
      BY <1>3, <2>1, <2>3, AfterFacts
    <3>2. /\ start \in After(w, start) /\ After(w, start) \in SUBSET Node
          /\ \A k \in After(w, start) : w.next[k] # NULL => w.next[k] \in After(w, start)
          /\ \A T \in SUBSET Node :
               start \in T /\ (\A k \in T : w.next[k] # NULL => w.next[k] \in T)
                 => After(w, start) \subseteq T
      BY <2>2, <2>3, AfterFacts
    <3> HIDE DEF l
    <3>3. After(w, start) \subseteq l
      BY <2>4, <2>5, <3>1, <3>2
    <3>4. l \subseteq After(w, start)
      BY <2>4, <2>5, <3>1, <3>2, <3>3
    <3> QED
      BY <3>3, <3>4
  <2>7. end \in l /\ s.next[end] = NULL
    <3>1. w.prev[start] = NULL
      BY <2>3, <2>4
    <3>2. \E k \in After(w, start) : w.next[k] = NULL
      BY <2>2, <2>3, <3>1, AfterFirst
    <3>3. \E k \in l : s.next[k] = NULL
      BY <2>4, <2>5, <2>6, <3>2
    <3> QED
      BY <3>3
  <2> HIDE DEF end, l
  <2>8. p # c /\ p \in M /\ pv \in Ptr(Node)
    BY <1>2, <1>4, <2>1, Sorts DEF MayHold, M, Ptr
  <2>9. u \in Heap /\ Without(u, s, {c}, {})
    BY <1>3, <2>1, ReleaseFields
  <2> HIDE DEF u
  <2>10. /\ u.parent = w.parent /\ u.next = w.next /\ u.first = w.first /\ u.last = w.last
         /\ u.props = w.props /\ u.doc = w.doc
         /\ \A k \in Node \ {start} : u.prev[k] = w.prev[k]
    <3>1. /\ u.parent \in [Node -> Ptr(Place)] /\ w.parent \in [Node -> Ptr(Place)]
          /\ u.next \in [Node -> Ptr(Node)] /\ w.next \in [Node -> Ptr(Node)]
          /\ u.doc \in [Node -> Ptr(Doc)] /\ w.doc \in [Node -> Ptr(Doc)]
          /\ u.first \in [Place -> Ptr(Node)] /\ w.first \in [Place -> Ptr(Node)]
          /\ u.last \in [Place -> Ptr(Node)] /\ w.last \in [Place -> Ptr(Node)]
          /\ u.props \in [Elements -> Ptr(Attrs)]
      BY <2>2, <2>9, HeapFields
    <3>2. \A k \in Node : /\ u.parent[k] = w.parent[k] /\ u.next[k] = w.next[k]
                          /\ u.doc[k] = w.doc[k]
                          /\ k # start => u.prev[k] = w.prev[k]
      BY <2>4, <2>9 DEF Without
    <3>3. \A x \in Place : u.first[x] = w.first[x] /\ u.last[x] = w.last[x]
      BY <2>4, <2>9 DEF Without
    <3>4. \A e \in Elements : u.props[e] = w.props[e]
      <4>1. \A e \in Elements : e # c
        BY <2>1, Sorts
      <4>2. \A e \in Elements : u.props[e] = s.props[e]
        BY <2>9, <4>1 DEF Without
      <4> QED
        BY <2>4, <4>2
    <3>5. u.parent = w.parent /\ u.next = w.next /\ u.doc = w.doc
      BY <3>1, <3>2
    <3>6. u.first = w.first /\ u.last = w.last
      BY <3>1, <3>3
    <3>7. u.props = w.props
      BY <2>4, <3>1, <3>4
    <3> QED
      BY <3>2, <3>5, <3>6, <3>7
  <2>11. pv = w.last[p] /\ w.parent[start] = NULL /\ w.prev[start] = NULL
    BY <2>3, <2>4, <2>8
  <2>12. g = [parent |-> [n \in Node |-> IF n \in After(w, start) THEN p ELSE u.parent[n]],
              prev |-> IF pv = NULL THEN u.prev ELSE Put(u.prev, start, pv),
              next |-> Put(u.next, pv, start),
              first |-> IF u.first[p] = NULL THEN Put(u.first, p, start) ELSE u.first,
              last |-> Put(u.last, p, end),
              props |-> u.props,
              doc |-> u.doc]
    BY <2>6
  <2>13. Appended(g, w, p, start, end)
    <3> HIDE DEF g, pv, start
    <3> QED
      BY <2>1, <2>2, <2>3, <2>5, <2>7, <2>9, <2>10, <2>11, <2>12, AppendFields
  <2>14. \A k \in After(w, start) :
           MayHold(p, k) /\ (p \notin Attrs => DocOf(w, p) \in {NULL, w.doc[k]})
    BY <1>2, <2>4, <2>5, <2>6, <2>8 DEF DocOf, Place
  <2>15. end \in After(w, start) /\ w.next[end] = NULL
    BY <2>4, <2>5, <2>6, <2>7
  <2>16. Sound(g, M) /\ Order(w, g, After(w, start))
    <3> HIDE DEF g, start
    <3> QED
      BY <2>2, <2>3, <2>8, <2>11, <2>13, <2>14, <2>15, AppendSound
  <2>17. Order(h, g, After(h, c))
    <3>1. Order(h, s, {}) /\ {c} \subseteq After(h, c) /\ l \subseteq After(h, c)
      BY <1>2, <1>4, <2>5, SameLinksOrder
    <3>2. Order(s, w, {c})
      <4>1. \A k \in Node : s.next[k] # c
        BY <1>3, <2>1, Sorts DEF Good, Coherent, ListsAgree
      <4> QED
        BY <1>3, <2>2, <2>4, <4>1, DropOrder
    <3>3. Order(h, w, After(h, c))
      BY <3>1, <3>2, OrderThen
    <3>4. Order(w, g, l)
      BY <2>6, <2>16
    <3> HIDE DEF g
    <3> QED
      BY <3>1, <3>3, <3>4, OrderThen
  <2> QED
    BY <1>1, <1>3, <1>7, <2>16, <2>17 DEF M
<1> QED
  BY <1>5, <1>6, <1>7

\* A store of the value that is there.
LEMMA PutSame ==
  ASSUME NEW A, NEW B, NEW f \in [A -> B], NEW x, NEW v, x \notin A \/ f[x] = v
  PROVE  Put(f, x, v) = f
  BY DEF Put

\* xmlDocSetRootElement keeps the heap sound: the node that is taken out although it
\* names its new parent already has no neighbours.
LEMMA SetRootSound ==
  ASSUME NEW h, NEW L, Sound(h, L), NEW d \in Doc, d \in L, NEW r \in Elements, r \in L,
         h.parent[r] = NULL => ~Linked(h, r)
  PROVE  /\ Sound(SetRootTo(h, d, r), L)
         /\ Order(h, SetRootTo(h, d, r), {r, Root(h, d)} \ {NULL})
<1> DEFINE old == Root(h, d)
           u == IF h.parent[r] # NULL THEN Unlink(h, r) ELSE h
           w == IF u.doc[r] # d THEN PropagateDoc(u, r, d) ELSE u
           g == [parent |-> Put(w.parent, r, d), prev |-> w.prev, next |-> w.next,
                 first |-> w.first, last |-> w.last, props |-> w.props,
                 doc |-> Put(w.doc, r, d)]
           only == [parent |-> g.parent, prev |-> Put(g.prev, r, NULL),
                    next |-> Put(g.next, r, NULL), first |-> Put(g.first, d, r),
                    last |-> Put(g.last, d, r), props |-> g.props, doc |-> g.doc]
           pv == g.prev[old]
           nx == g.next[old]
           instead ==
             [parent |-> Put(g.parent, old, NULL),
              prev |-> Put(Put(Put(g.prev, r, pv), nx, r), old, NULL),
              next |-> Put(Put(Put(g.next, pv, r), r, nx), old, NULL),
              first |-> IF pv = NULL THEN Put(g.first, d, r) ELSE g.first,
              last |-> IF nx = NULL THEN Put(g.last, d, r) ELSE g.last,
              props |-> g.props, doc |-> g.doc]
<1>1. SetRootTo(h, d, r) = IF old = r THEN h
                           ELSE IF old # NULL THEN instead
                           ELSE IF g.first[d] = NULL THEN only
                           ELSE AddSiblingTo(g, g.last[d], r)
  BY DEF SetRootTo
<1> DEFINE S == {r, old} \ {NULL}
<1>0. r \in Node /\ r \notin Attrs /\ r # NULL /\ d \in Place /\ d # NULL /\ d \notin Node /\ d \notin Attrs
  BY Sorts
<1>2. Sound(u, L) /\ ~Linked(u, r) /\ u.doc = h.doc
      /\ \A k \in Node \ {r} : u.parent[k] = h.parent[k]
  BY <1>0, UnlinkSound, UnlinkFields DEF Sound
<1>11. Order(h, u, {r})
  <2>1. Good(h)
    BY DEF Sound
  <2> QED
    BY <1>0, <2>1, UnlinkOrder, SameLinksOrder DEF SameLinks
<1> HIDE DEF u
<1>3. /\ Sound(w, L) /\ ~Linked(w, r) /\ w.doc[r] = d
      /\ \A k \in Node \ {r} : w.parent[k] = h.parent[k]
      /\ SameLinks(w, u)
  <2>1. CASE u.doc[r] = d
    BY <1>2, <2>1 DEF SameLinks
  <2>2. CASE u.doc[r] # d
    <3>1. /\ Good(u) /\ Placed(u) /\ Within(u, L) /\ L \subseteq Place /\ DocsBut(u, r)
          /\ u.parent[r] = NULL
      BY <1>2 DEF Sound, DocsBut, DocsAgree, Linked
    <3>2. /\ Sound(PropagateDoc(u, r, d), L) /\ SameLinks(PropagateDoc(u, r, d), u)
          /\ PropagateDoc(u, r, d).doc[r] = d
      BY <1>0, <3>1, PropagateSound
    <3> QED
      BY <1>2, <2>2, <3>2 DEF SameLinks, Linked
  <2> QED
    BY <2>1, <2>2
<1> HIDE DEF w
<1>12. Order(h, w, {r})
  <2>1. SameLinks(w, u)
    BY <1>3
  <2> QED
    BY ONLY <1>11, <2>1, OrderSame, Zenon
<1>13. {r} \subseteq S /\ {r} \subseteq Node
  BY <1>0
<1>4. /\ Good(w) /\ w \in Heap /\ ListsAgree(w) /\ EndsAgree(w)
      /\ w.parent[r] = NULL /\ w.prev[r] = NULL /\ w.next[r] = NULL
      /\ w.parent \in [Node -> Ptr(Place)] /\ w.prev \in [Node -> Ptr(Node)]
      /\ w.next \in [Node -> Ptr(Node)] /\ w.first \in [Place -> Ptr(Node)]
      /\ w.last \in [Place -> Ptr(Node)] /\ w.doc \in [Node -> Ptr(Doc)]
      /\ w.props \in [Elements -> Ptr(Attrs)]
  BY <1>3, HeapFields DEF Sound, Good, Coherent, Linked
<1>5. /\ \A k \in Node : w.next[k] # r /\ w.prev[k] # r
      /\ \A x \in Place : w.first[x] # r /\ w.last[x] # r
  BY <1>0, <1>3, <1>4, NobodyNames
<1>6. g.doc = w.doc
  BY <1>3, <1>4 DEF Put
<1>7. MayHold(d, r)
  BY DEF MayHold
<1>8. CASE old # NULL /\ old # r
  <2>1. old \in Elements /\ h.parent[old] = d
    BY <1>8, RootFacts DEF Sound
  <2>2. /\ old \in Node /\ old \notin Attrs /\ w.parent[old] = d /\ old # NULL
        /\ SameSort(old, r)
    BY <1>0, <1>3, <1>8, <2>1, Sorts DEF SameSort
  <2>3. old \in L
    BY <1>0, <1>3, <2>2 DEF Sound, Within
  <2> HIDE DEF old
  <2>4. pv = w.prev[old] /\ nx = w.next[old] /\ pv # r /\ nx # r
    BY <1>5, <2>2
  <2>5. InPlaceOf(w, old, r) = instead
    <3> DEFINE i == InPlaceOf(w, old, r)
    <3> HIDE DEF pv, nx
    <3>1. pv = NULL <=> w.first[d] = old
      BY <1>4, <2>2, <2>4, Sorts DEF EndsAgree
    <3>2. nx = NULL <=> w.last[d] = old
      BY <1>4, <2>2, <2>4, Sorts DEF EndsAgree
    <3>3. i.parent = instead.parent
      BY <1>0, <2>2 DEF InPlaceOf, Put
    <3>4. nx # old /\ pv # old
      <4>1. ListsEnd(w)
        BY <1>4 DEF Good, Coherent
      <4>2. \A k \in Node : w.next[k] # k /\ w.prev[k] # k
        <5> SUFFICES ASSUME NEW k \in Node PROVE w.next[k] # k /\ w.prev[k] # k
          OBVIOUS
        <5>1. {k} \in SUBSET Node /\ {k} # {}
          OBVIOUS
        <5> QED
          BY <4>1, <5>1 DEF ListsEnd
      <4> QED
        BY <2>2, <2>4, <4>2
    <3>5. i.prev = instead.prev
      BY <1>0, <1>4, <2>2, <2>4, <3>4 DEF InPlaceOf, Put
    <3>6. i.next = instead.next
      BY <1>0, <1>4, <2>2, <2>4, <3>4 DEF InPlaceOf, Put
    <3>7. i.first = instead.first
      <4>1. i.first = Swap(w.first, d, old, r)
        BY <1>0, <2>2 DEF InPlaceOf
      <4>2. instead.first = IF pv = NULL THEN Put(w.first, d, r) ELSE w.first
        OBVIOUS
      <4> HIDE DEF i, instead
      <4>3. Swap(w.first, d, old, r) = IF w.first[d] = old THEN Put(w.first, d, r) ELSE w.first
        BY <1>4 DEF Swap, Put
      <4> QED
        BY <3>1, <4>1, <4>2, <4>3
    <3>8. i.last = instead.last
      <4>1. i.last = Swap(w.last, d, old, r)
        BY <1>0, <2>2 DEF InPlaceOf
      <4>2. instead.last = IF nx = NULL THEN Put(w.last, d, r) ELSE w.last
        OBVIOUS
      <4> HIDE DEF i, instead
      <4>3. Swap(w.last, d, old, r) = IF w.last[d] = old THEN Put(w.last, d, r) ELSE w.last
        BY <1>4 DEF Swap, Put
      <4> QED
        BY <3>2, <4>1, <4>2, <4>3
    <3>9. i.props = instead.props
      BY <1>0, <1>4, Sorts DEF InPlaceOf, Swap
    <3>10. i.doc = instead.doc
      BY <1>6 DEF InPlaceOf
    <3> QED
      BY <3>3, <3>5, <3>6, <3>7, <3>8, <3>9, <3>10 DEF InPlaceOf
  <2>6. Sound(InPlaceOf(w, old, r), L) /\ Order(w, InPlaceOf(w, old, r), {old, r})
    BY <1>0, <1>3, <1>7, <1>8, <2>2, <2>3, ReplaceSound DEF DocOf
  <2>7. {old, r} = S
    BY <1>0, <2>2
  <2>8. Order(h, InPlaceOf(w, old, r), S)
    <3> HIDE DEF S
    <3> QED
      BY <1>12, <1>13, <2>6, <2>7, OrderThen
  <2> QED
    BY <1>1, <1>8, <2>5, <2>6, <2>8 DEF old
<1>9. CASE old = NULL /\ g.first[d] = NULL
  <2>1. Gap(w, r, d, NULL, NULL)
    BY <1>0, <1>4, <1>9 DEF Gap, EndsAgree, Ptr
  <2>2. only = Link(w, r, d, NULL, NULL)
    <3>1. NULL \notin Node /\ Put(w.prev, r, NULL) \in [Node -> Ptr(Node)]
          /\ Put(w.next, r, NULL) \in [Node -> Ptr(Node)]
      BY <1>4, PutType, Sorts DEF Ptr
    <3>2. Put(Put(w.prev, r, NULL), NULL, r) = Put(w.prev, r, NULL)
      BY <3>1, PutSame
    <3>3. Put(Put(w.next, r, NULL), NULL, r) = Put(w.next, r, NULL)
      BY <3>1, PutSame
    <3> QED
      BY <1>0, <1>6, <3>2, <3>3 DEF Link
  <2>3. Sound(Link(w, r, d, NULL, NULL), L)
    <3>1. {d, NULL} \subseteq Ptr(L) /\ DocOf(w, d) \in {NULL, w.doc[r]}
      BY <1>3 DEF Ptr, DocOf
    <3> QED
      BY <1>0, <1>3, <1>7, <2>1, <3>1, LinkSound
  <2>4. Order(h, Link(w, r, d, NULL, NULL), S)
    <3>1. Order(w, Link(w, r, d, NULL, NULL), {r})
      BY <1>0, <1>3, <1>4, <2>1, LinkOrder
    <3> HIDE DEF S
    <3> QED
      BY <1>12, <1>13, <3>1, OrderThen
  <2> QED
    BY <1>0, <1>1, <1>9, <2>2, <2>3, <2>4
<1>10. CASE old = NULL /\ g.first[d] # NULL
  <2> DEFINE x == g.last[d]
  <2>1. x = w.last[d] /\ x \in Node /\ x \notin Attrs /\ w.parent[x] = d /\ x # r /\ x \in L
    BY <1>0, <1>3, <1>4, <1>5, <1>10, Sorts DEF EndsAgree, Ptr, Sound, Within
  <2> HIDE DEF x
  <2>2. Linked(g, r) /\ Unlink(g, r) = w
    <3>1. Linked(g, r)
      BY <1>0, <1>4 DEF Linked, Put
    <3>2. g.parent[r] = d /\ g.prev[r] = NULL /\ g.next[r] = NULL
      BY <1>0, <1>4 DEF Put
    <3> DEFINE y == Unlink(g, r)
    <3>3. y.parent = w.parent
      BY <1>0, <1>4 DEF Unlink, Put
    <3>4. y.prev = w.prev /\ y.next = w.next
      <4>1. NULL \notin Node
        BY Sorts
      <4>2. y.prev = Put(Put(w.prev, NULL, NULL), r, NULL) /\ y.next = Put(Put(w.next, NULL, NULL), r, NULL)
        BY <3>2 DEF Unlink
      <4>3. Put(w.prev, NULL, NULL) = w.prev /\ Put(w.next, NULL, NULL) = w.next
        BY <1>4, <4>1 DEF Put
      <4>4. Put(w.prev, r, NULL) = w.prev /\ Put(w.next, r, NULL) = w.next
        BY <1>4 DEF Put
      <4> QED
        BY <4>2, <4>3, <4>4
    <3>5. y.first = w.first /\ y.last = w.last
      <4>1. y.first = Swap(w.first, d, r, NULL) /\ y.last = Swap(w.last, d, r, NULL)
        BY <1>0, <3>2 DEF Unlink
      <4> QED
        BY <1>0, <1>4, <1>5, <4>1 DEF Swap
    <3>6. y.props = w.props
      BY <1>0, <1>4, Sorts DEF Unlink, Swap
    <3>7. y.doc = w.doc
      BY <1>6 DEF Unlink
    <3>8. y = w
      BY <1>4, <3>3, <3>4, <3>5, <3>6, <3>7 DEF Unlink, Heap
    <3> QED
      BY <3>1, <3>8
  <2>3. AddSiblingTo(g, x, r) = AddSiblingTo(w, x, r)
    <3> HIDE DEF g
    <3> QED
      BY <1>3, <1>6, <2>2 DEF AddSiblingTo
  <2>4. Sound(AddSiblingTo(w, x, r), L) /\ Order(w, AddSiblingTo(w, x, r), {r})
    BY <1>0, <1>3, <1>7, <2>1, AddSiblingSound DEF SameSort
  <2>5. Order(h, AddSiblingTo(w, x, r), S)
    <3> HIDE DEF S
    <3> QED
      BY <1>12, <1>13, <2>4, OrderThen
  <2> QED
    BY <1>0, <1>1, <1>10, <2>3, <2>4, <2>5 DEF x
<1>14. CASE old = r
  <2>1. Order(h, h, S)
    BY SameLinksOrder DEF SameLinks
  <2> QED
    BY <1>1, <1>14, <2>1
<1> QED
  BY <1>8, <1>9, <1>10, <1>14

\* The application keeps to all of its part.
Careful == {"alone", "unlinked", "childless", "own"} \subseteq Obligations

\* The inductive invariant: an operation relies on the links of nodes it was
\* not asked about, on documents and on what is not allocated, so that none
\* of the properties is inductive without the others.
IInv == TypeOK /\ Sound(heap, live)

\* With nothing allocated nothing is linked.
LEMMA InitSound == Init => IInv
<1> SUFFICES ASSUME Init PROVE IInv
  OBVIOUS
<1>1. /\ heap \in Heap /\ live = {} /\ moved = {}
      /\ \A n \in Node : heap.parent[n] = NULL /\ heap.prev[n] = NULL /\ heap.next[n] = NULL
                         /\ heap.doc[n] = NULL
      /\ \A x \in Place : heap.first[x] = NULL /\ heap.last[x] = NULL
      /\ \A e \in Elements : heap.props[e] = NULL
  BY DEF Init, Heap, Ptr
<1>2. ListsEnd(heap)
  BY <1>1, Sorts DEF ListsEnd
<1>3. ListsAgree(heap) /\ EndsAgree(heap) /\ Placed(heap) /\ DocsAgree(heap) /\ Within(heap, live)
  <2>1. ListsAgree(heap) /\ Placed(heap) /\ DocsAgree(heap)
    BY <1>1 DEF ListsAgree, Placed, DocsAgree
  <2>2. EndsAgree(heap)
    BY <1>1, Sorts DEF EndsAgree
  <2>3. Within(heap, live)
    BY <1>1 DEF Within
  <2> QED
    BY <2>1, <2>2, <2>3
<1> QED
  BY <1>1, <1>2, <1>3 DEF IInv, TypeOK, Sound, Good, Coherent

\* What a step does to the nodes that it may not move.
Stay == Order(heap, heap', moved')

Done == /\ live' \subseteq Place /\ moved' \subseteq Node /\ Sound(heap', live')
        /\ Stay

\* What a call frees is what it may move.
LEMMA FreeDone ==
  ASSUME Good(heap), live \subseteq Place, NEW S, S \subseteq Place, Free(heap, S),
         Sound(Release(heap, S), live \ S), Order(heap, Release(heap, S), S)
  PROVE  Done
<1>1. /\ heap' = Release(heap, S) /\ live' = live \ S /\ moved' = S \cap Node
  BY DEF Free
<1> DEFINE g == Release(heap, S)
<1>2. heap \in Heap /\ g \in Heap
  BY DEF Sound, Good
<1> HIDE DEF g
<1>3. ASSUME NEW n \in Node \ (S \cap Node), g.parent[n] = heap.parent[n],
             After(g, n) \ S = After(heap, n) \ S
      PROVE  After(g, n) \ (S \cap Node) = After(heap, n) \ (S \cap Node)
  <2>1. After(g, n) \subseteq Node /\ After(heap, n) \subseteq Node
    BY <1>2, AfterFacts
  <2> QED
    BY <1>3, <2>1
<1>4. Order(heap, g, S)
  BY DEF g
<1>5. Order(heap, g, S \cap Node)
  BY <1>3, <1>4 DEF Order
<1> QED
  BY <1>1, <1>5 DEF Done, Stay, g

\* The calls that allocate keep the invariant.
LEMMA BuildSound == IInv /\ Build => IInv' /\ Stay
<1> SUFFICES ASSUME IInv, Build PROVE IInv' /\ Stay
  OBVIOUS
<1>0. /\ Sound(heap, live) /\ heap \in Heap /\ live \subseteq Place /\ Within(heap, live)
      /\ \A x \in Doc \cap live : x \in Ptr(Doc) /\ x \in Ptr(live)
      /\ NULL \in Ptr(Doc) /\ NULL \in Ptr(live)
      /\ \A n \in Node : heap.doc[n] \in Ptr(Doc) /\ heap.doc[n] \in Ptr(live)
  BY HeapFields DEF IInv, Sound, Good, Within, Ptr
<1> SUFFICES Done
  BY DEF Done, IInv, TypeOK, Sound, Good
<1>1. ASSUME NEW d \in Doc, NewDoc(d)
      PROVE  Done
  <2>1. live' \in SUBSET Place /\ live \subseteq live'
    BY <1>0, <1>1, Sorts DEF NewDoc
  <2> QED
    BY <1>0, <1>1, <2>1, SoundMore, SameOrderAs DEF NewDoc, Done, Stay
<1>2. ASSUME NEW n \in Elements \cup Texts, NEW d \in Ptr(Doc \cap live), NewNode(n, d)
      PROVE  Done
  <2> DEFINE S == {n}
  <2>1. S \in SUBSET Node /\ S \cap live = {} /\ d \in Ptr(Doc) /\ d \in Ptr(live)
    BY <1>2, Sorts DEF NewNode, Fresh, Ptr
  <2>2. heap' = SetDocs(heap, S, d) /\ live' = live \cup S /\ moved' = S
    BY <1>2 DEF NewNode
  <2> HIDE DEF S
  <2>3. Sound(heap', live') /\ SameLinks(heap', heap)
    BY <1>0, <2>1, <2>2, FreshSound
  <2>4. Order(heap, heap', S)
    BY <2>3, SameLinksOrder
  <2> QED
    BY <2>1, <2>2, <2>3, <2>4 DEF Sound, Done, Stay
<1>3. ASSUME NEW p \in live, NEW e \in Elements, NewChild(p, e)
      PROVE  Done
  <2> DEFINE S == {e}
             d == DocOf(heap, p)
             g == SetDocs(heap, S, d)
  <2>1. /\ S \in SUBSET Node /\ S \cap live = {} /\ p # e /\ e \in S
        /\ p \in Place /\ p \notin Attrs /\ MayHold(p, e)
        /\ d \in Ptr(Doc) /\ d \in Ptr(live)
    BY <1>0, <1>3, Sorts DEF NewChild, Fresh, DocOf, MayHold, Place, Node, Ptr
  <2>2. heap' = Link(g, e, p, heap.last[p], NULL) /\ live' = live \cup S /\ moved' = S
    BY <1>3 DEF NewChild
  <2>3. \A k \in S : k = e
    OBVIOUS
  <2> HIDE DEF S
  <2>4. DocOf(heap, p) = d
    OBVIOUS
  <2> HIDE DEF d
  <2>5. /\ Sound(g, live \cup S) /\ SameLinks(g, heap)
        /\ \A k \in Node : g.doc[k] = IF k \in S THEN d ELSE heap.doc[k]
        /\ \A n \in S : ~Linked(g, n)
    <3>1. Sound(heap, live) /\ S \in SUBSET Node /\ S \cap live = {} /\ d \in Ptr(Doc) /\ d \in Ptr(live)
      BY <1>0, <2>1
    <3>2. \A k \in Node : g.doc[k] = IF k \in S THEN d ELSE heap.doc[k]
      BY DEF SetDocs
    <3> QED
      BY <3>1, <3>2, FreshSound
  <2> HIDE DEF g
  <2>6. Gap(g, e, p, g.last[p], NULL) /\ g.last[p] \in Ptr(live \cup S)
    BY <2>1, <2>5, LastGap, Sorts
  <2>7. {p, g.last[p], NULL} \subseteq Ptr(live \cup S) /\ e \in live \cup S
    BY <2>1, <2>6 DEF Ptr
  <2>8. DocOf(g, p) \in {NULL, g.doc[e]}
    BY <2>1, <2>3, <2>4, <2>5 DEF DocOf, Place
  <2>9. Sound(Link(g, e, p, g.last[p], NULL), live \cup S)
    BY <2>1, <2>5, <2>6, <2>7, <2>8, LinkSound
  <2>10. Order(heap, Link(g, e, p, g.last[p], NULL), S)
    BY <2>1, <2>5, <2>6, SameLinksOrder, OrderLink DEF Sound
  <2> QED
    BY <2>1, <2>2, <2>5, <2>9, <2>10 DEF SameLinks, Sound, Done, Stay
<1>4. ASSUME NEW e \in Ptr(Elements \cap live), NEW a \in Attrs, NEW t \in Texts, NewProp(e, a, t)
      PROVE  Done
  <2> DEFINE S == {a, t}
             M == live \cup S
             d == IF e = NULL THEN NULL ELSE heap.doc[e]
             g == SetDocs(heap, S, d)
             h == Link(g, t, a, NULL, NULL)
  <2>1. /\ S \in SUBSET Node /\ S \cap live = {} /\ a \in S /\ t \in S
        /\ a \in Place /\ a # t /\ MayHold(a, t) /\ a \in Node /\ t \in Node \ Attrs /\ a \in Attrs
        /\ d \in Ptr(Doc) /\ d \in Ptr(live) /\ e # a /\ e # t
        /\ e # NULL => e \in Elements /\ e \in live /\ e \in Node /\ e \notin Doc
    BY <1>0, <1>4, Sorts DEF NewProp, Fresh, MayHold, Ptr
  <2>2. /\ heap' = IF e = NULL THEN h ELSE Link(h, a, e, LastProp(h, e), NULL)
        /\ live' = M /\ moved' = S
    BY <1>4 DEF NewProp
  <2>3. e # NULL => heap.doc[e] = d
    OBVIOUS
  <2>4. \A k \in S : k = a \/ k = t
    OBVIOUS
  <2> HIDE DEF S, d, M
  <2>5. /\ Sound(g, M) /\ SameLinks(g, heap)
        /\ \A k \in Node : g.doc[k] = IF k \in S THEN d ELSE heap.doc[k]
        /\ \A n \in S : ~Linked(g, n)
    <3>1. \A k \in Node : g.doc[k] = IF k \in S THEN d ELSE heap.doc[k]
      BY DEF SetDocs
    <3> QED
      BY <1>0, <2>1, <3>1, FreshSound DEF M
  <2> HIDE DEF g
  <2>12. g.first[a] = NULL /\ g.last[a] = NULL
    BY <1>0, <2>1, <2>5, Blank DEF SameLinks
  <2>6. a \in M /\ t \in M /\ (e # NULL => e \in M) /\ NULL \in Ptr(M) /\ a \in Ptr(M)
    BY <2>1 DEF M, Ptr
  <2>7. Gap(g, t, a, NULL, NULL)
    BY <2>1, <2>12, Sorts DEF Gap, Ptr
  <2>8. /\ Sound(h, M) /\ h.doc = g.doc
    <3>1. {a, NULL} \subseteq Ptr(M)
      BY <2>6
    <3> QED
      BY <2>1, <2>5, <2>6, <2>7, <3>1, LinkSound
  <2>13. Order(heap, h, S)
    BY <2>1, <2>5, <2>7, SameLinksOrder, OrderLink DEF Sound
  <2>9. ~Linked(h, a)
    <3>1. g \in Heap
      BY <2>5 DEF Sound, Good
    <3>2. /\ t \in Node /\ a \in Ptr(Place) /\ NULL \in Ptr(Node) \ {t}
      BY <2>1, Sorts DEF Ptr
    <3>3. h.parent[a] = g.parent[a] /\ h.prev[a] = g.prev[a] /\ h.next[a] = g.next[a]
      BY <2>1, <3>1, <3>2, LinkFields, Sorts
    <3>4. ~Linked(g, a)
      BY <2>1, <2>5
    <3> HIDE DEF h
    <3> QED
      BY <3>3, <3>4 DEF Linked
  <2> HIDE DEF h
  <2>10. CASE e = NULL
    BY <2>1, <2>2, <2>8, <2>10, <2>13 DEF Sound, Done, Stay
  <2>11. CASE e # NULL
    <3>1. Gap(h, a, e, LastProp(h, e), NULL) /\ LastProp(h, e) \in Ptr(M)
      BY <2>1, <2>8, <2>9, <2>11, LastPropGap
    <3>2. {e, LastProp(h, e), NULL} \subseteq Ptr(M)
      BY <2>6, <2>11, <3>1 DEF Ptr
    <3>3. DocOf(h, e) \in {NULL, h.doc[a]}
      BY <2>1, <2>3, <2>4, <2>5, <2>8, <2>11 DEF DocOf
    <3>4. MayHold(e, a)
      BY <2>1, <2>11 DEF MayHold
    <3>5. Sound(Link(h, a, e, LastProp(h, e), NULL), M)
      BY <2>1, <2>6, <2>8, <2>9, <3>1, <3>2, <3>3, <3>4, LinkSound
    <3>6. Order(heap, Link(h, a, e, LastProp(h, e), NULL), S)
      BY <2>1, <2>8, <2>9, <2>13, <3>1, OrderLink DEF Sound
    <3> QED
      BY <2>1, <2>2, <2>11, <3>5, <3>6 DEF Sound, Done, Stay
  <2> QED
    BY <2>10, <2>11
<1>5. ASSUME NEW e \in Elements \cap live, NEW a \in Attrs \cap live, NEW t \in Texts,
             SetNsProp(e, a, t)
      PROVE  Done
  <2> DEFINE old == Below(heap, ChildrenOf(heap, a))
             r == Empty(Release(heap, old), a)
             S == {t}
             d == heap.doc[e]
             g == SetDocs(r, S, d)
             M == live \ old
  <2>1. /\ heap' = Link(g, t, a, NULL, NULL) /\ live' = M \cup S /\ moved' = old \cup S
    BY <1>5 DEF SetNsProp
  <2>2. /\ S \in SUBSET Node /\ S \cap M = {} /\ t \in S /\ t \in Node \ Attrs
        /\ a \in Place /\ a # t /\ MayHold(a, t)
        /\ d \in Ptr(Doc) /\ d \in Ptr(live)
    BY <1>0, <1>5, Sorts DEF SetNsProp, Fresh, MayHold
  <2>3. /\ old \subseteq Node /\ Sound(r, M) /\ a \notin old
        /\ r.first[a] = NULL /\ r.last[a] = NULL /\ Order(heap, r, old)
    BY <1>0, ValuesSound
  <2>4. d \in Ptr(M) /\ a \in M
    BY <1>5, <2>2, <2>3, Sorts DEF Ptr
  <2> HIDE DEF old, r, S, d, M
  <2>5. /\ Sound(g, M \cup S) /\ SameLinks(g, r) /\ ~Linked(g, t)
    BY <2>2, <2>3, <2>4, FreshSound
  <2> HIDE DEF g
  <2>6. Gap(g, t, a, NULL, NULL)
    BY <2>2, <2>3, <2>5, Sorts DEF Gap, Ptr, SameLinks
  <2>7. {a, NULL} \subseteq Ptr(M \cup S) /\ t \in M \cup S
    BY <2>2, <2>4 DEF Ptr
  <2>8. Sound(Link(g, t, a, NULL, NULL), M \cup S)
    BY <1>5, <2>2, <2>5, <2>6, <2>7, LinkSound
  <2>9. Order(heap, Link(g, t, a, NULL, NULL), old \cup S)
    <3>1. Order(heap, g, old \cup S)
      <4>1. Order(r, g, S)
        BY <2>5, SameLinksOrder
      <4> QED
        BY <2>3, <4>1, OrderThen
    <3> QED
      BY <2>2, <2>5, <2>6, <3>1, OrderLink DEF Sound
  <2> QED
    BY <2>1, <2>2, <2>3, <2>8, <2>9 DEF Sound, Done, Stay
<1>6. ASSUME NEW p \in Node \cap live, NEW t \in Texts, AddContent(p, t)
      PROVE  Done
  <2> DEFINE S == {t}
             d == heap.doc[p]
             g == SetDocs(heap, S, d)
  <2>1. /\ S \in SUBSET Node /\ S \cap live = {} /\ p # t /\ t \in S /\ t \in Node \ Attrs
        /\ p \in Place /\ MayHold(p, t)
        /\ d \in Ptr(Doc) /\ d \in Ptr(live)
    BY <1>0, <1>6, Sorts DEF AddContent, Fresh, MayHold
  <2>2. heap' = Link(g, t, p, heap.last[p], NULL) /\ live' = live \cup S /\ moved' = S
    BY <1>6 DEF AddContent
  <2>3. \A k \in S : k = t
    OBVIOUS
  <2> HIDE DEF S
  <2>5. /\ Sound(g, live \cup S) /\ SameLinks(g, heap)
        /\ \A k \in Node : g.doc[k] = IF k \in S THEN d ELSE heap.doc[k]
        /\ \A n \in S : ~Linked(g, n)
    <3> HIDE DEF d
    <3>1. \A k \in Node : g.doc[k] = IF k \in S THEN d ELSE heap.doc[k]
      BY DEF SetDocs
    <3> QED
      BY <1>0, <2>1, <3>1, FreshSound
  <2> HIDE DEF g
  <2>6. Gap(g, t, p, g.last[p], NULL) /\ g.last[p] \in Ptr(live \cup S)
    BY <2>1, <2>5, LastGap
  <2>7. {p, g.last[p], NULL} \subseteq Ptr(live \cup S) /\ t \in live \cup S
    BY <2>1, <2>6 DEF Ptr
  <2>8. DocOf(g, p) \in {NULL, g.doc[t]}
    BY <2>1, <2>3, <2>5, Sorts DEF DocOf
  <2>9. Sound(Link(g, t, p, g.last[p], NULL), live \cup S)
    BY <2>1, <2>5, <2>6, <2>7, <2>8, LinkSound
  <2>10. Order(heap, Link(g, t, p, g.last[p], NULL), S)
    BY <2>1, <2>5, <2>6, SameLinksOrder, OrderLink DEF Sound
  <2> QED
    BY <2>1, <2>2, <2>5, <2>9, <2>10 DEF SameLinks, Sound, Done, Stay
<1> QED
  BY <1>1, <1>2, <1>3, <1>4, <1>5, <1>6 DEF Build, Nodes

\* The calls that move nodes keep the invariant.
LEMMA EditSound == ASSUME Careful PROVE IInv /\ Edit => IInv' /\ Stay
<1> SUFFICES ASSUME Careful, IInv, Edit PROVE IInv' /\ Stay
  OBVIOUS
<1>0. /\ Sound(heap, live) /\ heap \in Heap /\ Good(heap) /\ live \subseteq Place
      /\ DocsAgree(heap) /\ Within(heap, live)
      /\ \A n \in Node : heap.doc[n] \in Ptr(Doc) /\ heap.doc[n] \in Ptr(live)
  BY HeapFields DEF IInv, Sound, Good, Within, Ptr
<1> SUFFICES Done
  BY DEF Done, IInv, TypeOK, Sound, Good
<1>1. ASSUME NEW n \in Node \cap live, UnlinkNode(n)
      PROVE  Done
  BY <1>0, <1>1, UnlinkSound, UnlinkOrder DEF UnlinkNode, Change, Done, Stay
<1>2. ASSUME NEW p \in live, NEW c \in Node \cap live, AddChild(p, c)
      PROVE  Done
  <2>1. p \in Place /\ MayHold(p, c)
    BY <1>0, <1>2, Sorts DEF AddChild, Fits
  <2>2. Sound(AddChildTo(heap, p, c), live) /\ Order(heap, AddChildTo(heap, p, c), {c})
    BY <1>0, <2>1, AddChildSound
  <2> QED
    BY <1>0, <1>2, <2>2 DEF AddChild, Change, Done, Stay
<1>3. ASSUME NEW x \in Node \cap live, NEW c \in Node \cap live, AddSibling(x, c)
      PROVE  Done
  <2>1. x # c /\ SameSort(x, c) /\ (heap.parent[x] # NULL => MayHold(heap.parent[x], c))
    BY <1>3 DEF AddSibling, Fits
  <2>2. Sound(AddSiblingTo(heap, x, c), live) /\ Order(heap, AddSiblingTo(heap, x, c), {c})
    BY <1>0, <2>1, AddSiblingSound
  <2> QED
    BY <1>0, <1>3, <2>2 DEF AddSibling, Change, Done, Stay
\* Insertion of c below p, next to x, where it is no neighbour of x.
<1>4. ASSUME NEW x \in Node \cap live, NEW c \in Node \cap live, NEW pv, NEW nx,
             x # c, SameSort(x, c), Fits(heap.parent[x], c),
             \/ pv = x /\ nx = heap.next[x] /\ c # nx
             \/ pv = heap.prev[x] /\ nx = x /\ c # pv,
             InsertBetween(c, heap.parent[x], pv, nx, heap.doc[x])
      PROVE  Done
  <2> DEFINE u == Unlink(heap, c)
             p == heap.parent[x]
             d == heap.doc[x]
             l == Insert(heap, c, p, pv, nx, d)
             same == IF c \in Attrs THEN SameName(heap, p, c) ELSE NULL
             keep == same \in {NULL, c}
             gone == IF keep THEN {} ELSE Owned(l, same)
  <2>1. /\ Sound(u, live) /\ ~Linked(u, c) /\ u.parent[x] = p
        /\ (heap.next[x] # c => u.next[x] = heap.next[x])
        /\ (heap.prev[x] # c => u.prev[x] = heap.prev[x])
    BY <1>0, <1>4, UnlinkSound, UnlinkFields
  <2> HIDE DEF u
  <2>2. Gap(u, c, p, pv, nx) /\ {p, pv, nx} \subseteq Ptr(live)
    <3>1. CASE pv = x /\ nx = heap.next[x] /\ c # nx
      BY <1>4, <2>1, <3>1, NextGap
    <3>2. CASE pv = heap.prev[x] /\ nx = x /\ c # pv
      BY <1>4, <2>1, <3>2, PrevGap
    <3> QED
      BY <1>4, <3>1, <3>2
  <2>3. /\ p # NULL => MayHold(p, c)
        /\ p \notin Attrs \cup {NULL} => DocOf(heap, p) \in {NULL, d}
        /\ d \in Ptr(Doc) /\ d \in Ptr(live)
    BY <1>0, <1>4 DEF Fits, DocsAgree
  <2>4. /\ heap' = IF keep THEN l ELSE Remove(l, same)
        /\ live' = live \ gone
        /\ moved' = {c} \cup gone
    BY <1>4 DEF InsertBetween
  <2>5. ~keep => same \in Attrs
    BY <1>0, SameNameFacts
  <2> HIDE DEF p, d, same
  <2>6. Sound(l, live) /\ Order(heap, l, {c})
    BY <1>0, <2>2, <2>3, InsertSound DEF u
  <2> HIDE DEF l
  <2>7. CASE keep
    BY <1>0, <2>4, <2>6, <2>7 DEF Done, Stay
  <2>8. CASE ~keep
    <3>1. /\ Sound(Remove(l, same), live \ Owned(l, same))
          /\ Order(l, Remove(l, same), Owned(l, same))
      BY <2>5, <2>6, <2>8, RemoveSound
    <3>2. Owned(l, same) \subseteq Node
      BY <2>5, <2>6, <2>8, OwnedFacts, Sorts DEF Sound
    <3>3. Order(heap, Remove(l, same), {c} \cup Owned(l, same))
      BY <2>6, <3>1, OrderThen
    <3> QED
      BY <1>0, <2>4, <2>8, <3>1, <3>2, <3>3 DEF Done, Stay
  <2> QED
    BY <2>7, <2>8
<1>5. ASSUME NEW x \in Node \cap live, NEW c \in Node \cap live, AddNextSibling(x, c)
      PROVE  Done
  BY <1>4, <1>5 DEF AddNextSibling
<1>6. ASSUME NEW x \in Node \cap live, NEW c \in Node \cap live, AddPrevSibling(x, c)
      PROVE  Done
  BY <1>4, <1>6 DEF AddPrevSibling
<1>7. ASSUME NEW p \in live, NEW c \in Node \cap live, AddChildList(p, c)
      PROVE  Done
  <2>1. /\ p \in Place /\ p # NULL /\ c \notin Attrs /\ heap.parent[c] = NULL /\ heap.prev[c] = NULL
        /\ \A k \in After(heap, c) : MayHold(p, k)
    BY <1>0, <1>7, Sorts DEF AddChildList, Fits
  <2> DEFINE gone == IF heap.last[p] \in Texts /\ c \in Texts THEN {c} ELSE {}
  <2>2. /\ Sound(AppendList(heap, p, c), live \ gone)
        /\ Order(heap, AppendList(heap, p, c), After(heap, c))
    BY <1>0, <1>7, <2>1, AppendListSound
  <2>3. heap' = AppendList(heap, p, c) /\ live' = live \ gone /\ moved' = After(heap, c)
    BY <1>7 DEF AddChildList
  <2>4. After(heap, c) \subseteq Node
    BY <1>0, AfterFacts
  <2> QED
    BY <1>0, <2>2, <2>3, <2>4 DEF Done, Stay
<1>8. ASSUME NEW old \in Node \cap live, NEW c \in Node \cap live, ReplaceNode(old, c)
      PROVE  Done
  <2>1. old # c /\ SameSort(old, c) /\ heap.parent[old] # NULL /\ MayHold(heap.parent[old], c)
    BY <1>8 DEF ReplaceNode, Fits
  <2>2. Sound(TakePlace(heap, old, c), live) /\ Order(heap, TakePlace(heap, old, c), {old, c})
    BY <1>0, <2>1, TakePlaceSound
  <2> QED
    BY <1>0, <1>8, <2>2 DEF ReplaceNode, Change, Done, Stay
<1>9. ASSUME NEW d \in Doc \cap live, NEW r \in Elements \cap live, SetRoot(d, r)
      PROVE  Done
  <2>1. heap.parent[r] = NULL => ~Linked(heap, r)
    BY <1>9 DEF SetRoot, Keeps, Careful
  <2>2. /\ Sound(SetRootTo(heap, d, r), live)
        /\ Order(heap, SetRootTo(heap, d, r), {r, Root(heap, d)} \ {NULL})
    BY <1>0, <2>1, SetRootSound
  <2>3. Root(heap, d) # NULL => Root(heap, d) \in Node
    BY <1>0, RootFacts, Sorts
  <2> QED
    BY <1>0, <1>9, <2>2, <2>3, Sorts DEF SetRoot, Change, Done, Stay
<1>10. ASSUME NEW n \in Node \cap live, NEW d \in Ptr(Doc \cap live), SetTreeDoc(n, d)
       PROVE  Done
  <2> DEFINE S == {n}
  <2>1. S \in SUBSET (Node \cap live) /\ \A k \in S : heap.parent[k] = NULL
    BY <1>10 DEF SetTreeDoc
  <2>2. d \in Ptr(Doc) /\ d \in Ptr(live)
    BY DEF Ptr
  <2> HIDE DEF S
  <2>3. /\ Sound(SetTreeDocs(heap, S, d), live)
        /\ SameLinks(SetTreeDocs(heap, S, d), heap)
    BY <1>0, <2>1, <2>2, SetTreeDocsSound
  <2>4. Order(heap, SetTreeDocs(heap, S, d), {})
    BY <2>3, SameLinksOrder
  <2> QED
    BY <1>0, <1>10, <2>3, <2>4 DEF SetTreeDoc, Change, S, Done, Stay
<1> QED
  BY <1>1, <1>2, <1>3, <1>5, <1>6, <1>7, <1>8, <1>9, <1>10 DEF Edit, Nodes

\* The calls that free keep the invariant.
LEMMA DiscardSound == ASSUME Careful PROVE IInv /\ Discard => IInv' /\ Stay
<1> SUFFICES ASSUME Careful, IInv, Discard PROVE IInv' /\ Stay
  OBVIOUS
<1>0. Sound(heap, live) /\ heap \in Heap /\ Good(heap) /\ live \subseteq Place
  BY DEF IInv, Sound, Good
<1> SUFFICES Done
  BY DEF Done, IInv, TypeOK, Sound, Good
<1>1. ASSUME NEW a \in Attrs \cap live, RemoveProp(a)
      PROVE  Done
  BY <1>0, <1>1, RemoveSound, OwnedFacts, Sorts DEF RemoveProp, Done, Stay
<1>2. ASSUME NEW t \in Texts \cap live, NEW s \in Texts \cap live, TextMerge(t, s)
      PROVE  Done
  <2>1. ~Linked(heap, s)
    BY <1>2 DEF TextMerge, Keeps, Careful
  <2> QED
    BY <1>0, <1>2, <2>1, TextSound, FreeDone, Sorts DEF TextMerge
<1>3. ASSUME NEW n \in Node \cap live, FreeNode(n)
      PROVE  Done
  <2>1. ~Linked(heap, n) /\ (n \in Attrs \/ heap.first[n] = NULL)
    BY <1>3 DEF FreeNode, Keeps, Careful
  <2>2. /\ Sound(Release(heap, Owned(heap, n)), live \ Owned(heap, n))
        /\ Order(heap, Release(heap, Owned(heap, n)), Owned(heap, n))
    BY <1>0, <2>1, OwnedSound
  <2>3. Owned(heap, n) \subseteq Place
    BY <1>0, OwnedFacts, Sorts
  <2> QED
    BY <1>0, <1>3, <2>2, <2>3, FreeDone DEF FreeNode
<1>4. ASSUME NEW n \in Node \cap live, FreeNodeList(n)
      PROVE  Done
  BY <1>0, <1>4, ListSound, FreeDone, Sorts DEF FreeNodeList
<1>5. ASSUME NEW d \in Doc \cap live, FreeDoc(d)
      PROVE  Done
  <2>1. \A k \in (Node \cap live) \ Below(heap, ChildrenOf(heap, d)) : heap.doc[k] # d
    BY <1>5 DEF FreeDoc, Keeps, Careful, Nodes
  <2>2. LET S == {d} \cup Below(heap, ChildrenOf(heap, d)) IN
        S \subseteq Place /\ Sound(Release(heap, S), live \ S) /\ Order(heap, Release(heap, S), S)
    BY <1>0, <2>1, DocSound
  <2> QED
    BY <1>0, <1>5, <2>2, FreeDone DEF FreeDoc
<1> QED
  BY <1>1, <1>2, <1>3, <1>4, <1>5 DEF Discard, Nodes

\* Every step keeps the invariant.
LEMMA StepSound == ASSUME Careful PROVE IInv /\ [Next]_vars => IInv' /\ (UNCHANGED vars \/ Stay)
<1>1. IInv /\ UNCHANGED vars => IInv'
  BY DEF IInv, TypeOK, Sound, vars
<1> QED
  BY <1>1, BuildSound, EditSound, DiscardSound DEF Next

\* The invariant holds throughout.
LEMMA AlwaysSound == ASSUME Careful PROVE Spec => []IInv
<1>1. Init => IInv
  BY InitSound
<1>2. IInv /\ [Next]_vars => IInv'
  BY StepSound
<1> QED
  BY <1>1, <1>2, PTL DEF Spec

\* The link fields hold pointers of their sorts, whatever is called.
THEOREM TypeCorrect == ASSUME Careful PROVE Spec => []TypeOK
<1>1. IInv => TypeOK
  BY DEF IInv
<1> QED
  BY <1>1, AlwaysSound, PTL

\* Whatever is called in whatever order, next, prev, first, last, properties and parent
\* describe the same lists (unlink_node, add_child, insert_node, xmlReplaceNode and others).
THEOREM AlwaysCoherent == ASSUME Careful PROVE Spec => []LinksCoherent
<1>1. IInv => LinksCoherent
  BY DEF IInv, Sound, Good, LinksCoherent
<1> QED
  BY <1>1, AlwaysSound, PTL

\* No node is lost: one that names a parent is found by walking the lists of the parent.
THEOREM AlwaysListed == ASSUME Careful PROVE Spec => []EveryChildIsListed
<1>1. IInv => EveryChildIsListed
  <2> SUFFICES ASSUME IInv, NEW n \in Node, heap.parent[n] # NULL
               PROVE  n \in Listed(heap, heap.parent[n])
    BY DEF EveryChildIsListed
  <2>1. Good(heap) /\ heap.parent[n] \in Place
    BY HeapFields DEF IInv, Sound, Good, Ptr
  <2> QED
    BY <2>1, ListedIff
<1> QED
  BY <1>1, AlwaysSound, PTL

\* A tree has one document, so that node_set_doc may stop where it finds the document set.
THEOREM AlwaysOneDoc == ASSUME Careful PROVE Spec => []DocOfParent
<1>1. IInv => DocOfParent
  BY DEF IInv, Sound, DocOfParent
<1> QED
  BY <1>1, AlwaysSound, PTL

\* No link, document pointer or list head names a structure that was freed.
THEOREM NeverDangling == ASSUME Careful PROVE Spec => []NoDangling
<1>1. IInv => NoDangling
  BY DEF IInv, Sound, NoDangling
<1> QED
  BY <1>1, AlwaysSound, PTL

\* Whatever is called, every node that the call was not asked to move stays below its
\* parent and before the same of those nodes: no list loses a member or changes its
\* order when a neighbour is unlinked, inserted, replaced, merged or freed.
THEOREM OthersAlwaysStay == ASSUME Careful PROVE Spec => OthersStay
<1>1. IInv /\ [Next]_vars =>
        [\A n \in Node \ moved' :
           /\ heap'.parent[n] = heap.parent[n]
           /\ After(heap', n) \ moved' = After(heap, n) \ moved']_vars
  BY StepSound DEF Stay, Order
<1> QED
  BY <1>1, AlwaysSound, PTL DEF Spec, OthersStay

=============================================================================
