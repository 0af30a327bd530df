----------------------------- MODULE TreeLinks -----------------------------
(* The links of the document tree, and the calls that change them.  A node *)
(* is in the child list of its parent, an attribute in the property list   *)
(* of its element, through pointers kept in several structures at once:    *)
(* each call below rewrites all of them by hand.                           *)
(*                                                                         *)
(* Texts stand for every node that has neither children nor properties;    *)
(* their contents, names and namespaces are left out, except that two      *)
(* attributes with the same AttrName have the same name and namespace.     *)
(* Declarations, entity references and failed allocations are left out.    *)
EXTENDS FiniteSets, Integers

CONSTANTS Elements, Texts, Attrs, Doc, NULL,
          AttrName,     \* the name and namespace of each attribute
          Obligations,  \* what the application keeps to, see Keeps
          MaxLive       \* bound: how many structures are allocated at once

Node == Elements \cup Texts \cup Attrs
Place == Node \cup Doc

ASSUME TreeAssumption ==
  /\ Elements \cap Texts = {} /\ Elements \cap Attrs = {} /\ Texts \cap Attrs = {}
  /\ Doc \cap Node = {} /\ NULL \notin Place

VARIABLES
  heap,    \* the link fields of every structure
  live,    \* the structures that are allocated
  moved    \* history: the nodes the last call may move or free

vars == <<heap, live, moved>>

Ptr(S) == S \cup {NULL}

Heap == [parent : [Node -> Ptr(Place)], prev : [Node -> Ptr(Node)],
         next : [Node -> Ptr(Node)], first : [Place -> Ptr(Node)],
         last : [Place -> Ptr(Node)], props : [Elements -> Ptr(Attrs)],
         doc : [Node -> Ptr(Doc)]]

TypeOK == heap \in Heap /\ live \subseteq Place /\ moved \subseteq Node

\* The part of the application: calls it does not make although the code
\* would carry them out.
Keeps(what, fact) == what \in Obligations => fact

----------------------------------------------------------------------------
\* A store through a pointer, none if it is NULL; and one that is made only
\* if the field still names old.
Put(f, x, v) == [k \in DOMAIN f |-> IF k = x THEN v ELSE f[k]]
Swap(f, x, old, new) == [k \in DOMAIN f |-> IF k = x /\ f[k] = old THEN new ELSE f[k]]

DocOf(h, x) == IF x \in Doc THEN x ELSE h.doc[x]

Linked(h, n) == h.parent[n] # NULL \/ h.prev[n] # NULL \/ h.next[n] # NULL

\* The nodes from x to the end of its list, the least set that holds x and
\* the next of each member.
After(h, x) ==
  LET closed == {T \in SUBSET (Node \ {x}) :
                   \A k \in T \cup {x} : h.next[k] \in T \cup {x, NULL}}
  IN {x} \cup {m \in Node : \A T \in closed : m \in T}
From(h, x) == IF x = NULL THEN {} ELSE After(h, x)

\* The two lists of p, found as the code finds them.
ChildrenOf(h, p) == From(h, h.first[p])
PropsOf(h, e) == IF e \in Elements THEN From(h, h.props[e]) ELSE {}
Listed(h, p) == ChildrenOf(h, p) \cup PropsOf(h, p)

\* S and what is below it, without entering nodes that are not in E.
Reach(h, S, E) ==
  LET edges == UNION {{p} \X (Listed(h, p) \cap E) : p \in S \cup E}
      closed == {T \in SUBSET (E \ S) :
                   \A e \in edges : e[1] \in S \cup T => e[2] \in S \cup T}
  IN S \cup {m \in Node : \A T \in closed : m \in T}
Below(h, S) == Reach(h, S, Node)

\* n and its ancestors.
Above(h, n) ==
  LET up[x \in Ptr(Place)] == IF x \in Node THEN {x} \cup up[h.parent[x]] ELSE {x}
  IN up[n]

----------------------------------------------------------------------------
\* What a place may hold; the calls do not check it.
MayHold(p, n) == \/ p \in Elements
                 \/ p \in Doc /\ n \in Elements \cup Texts
                 \/ p \in Attrs /\ n \in Texts

SetDocs(h, S, d) ==
  [parent |-> h.parent, prev |-> h.prev, next |-> h.next, first |-> h.first,
   last |-> h.last, props |-> h.props,
   doc |-> [n \in Node |-> IF n \in S THEN d ELSE h.doc[n]]]

\* A fault: what is below the node keeps its document.
PropagateDoc_Flat(h, n, d) == SetDocs(h, After(h, n), d)

\* propagate_doc visits the siblings that follow n too.
PropagateDoc(h, n, d) == SetDocs(h, Below(h, After(h, n)), d)

\* xmlSetTreeDoc of each node in S.  It does not enter a node that has the
\* document already, except that an attribute is always entered.
SetTreeDocs(h, S, d) ==
  LET others == {k \in Node : h.doc[k] # d} IN
  IF S \cap others = {} THEN h
  ELSE SetDocs(h, Reach(h, S \cap others, Attrs \cup others), d)

\* A fault: the parent still ends with the node.
Unlink_KeepsLast(h, n) ==
  LET pv == h.prev[n]
      nx == h.next[n]
      p == h.parent[n]
      holder == IF p = NULL THEN h.doc[n] ELSE IF n \in Attrs THEN NULL ELSE p
  IN [parent |-> Put(h.parent, n, NULL),
      prev |-> Put(Put(h.prev, nx, pv), n, NULL),
      next |-> Put(Put(h.next, pv, nx), n, NULL),
      first |-> Swap(h.first, holder, n, nx),
      last |-> h.last,
      props |-> Swap(h.props, IF n \in Attrs THEN p ELSE NULL, n, nx),
      doc |-> h.doc]

Unlink(h, n) ==
  LET pv == h.prev[n]
      nx == h.next[n]
      p == h.parent[n]
      \* whose first and last are looked at
      holder == IF p = NULL THEN h.doc[n] ELSE IF n \in Attrs THEN NULL ELSE p
  IN [parent |-> Put(h.parent, n, NULL),
      prev |-> Put(Put(h.prev, nx, pv), n, NULL),
      next |-> Put(Put(h.next, pv, nx), n, NULL),
      first |-> Swap(h.first, holder, n, nx),
      last |-> Swap(h.last, holder, n, pv),
      props |-> Swap(h.props, IF n \in Attrs THEN p ELSE NULL, n, nx),
      doc |-> h.doc]

\* Faults: a node of any sort becomes the first property, and one that is the
\* first child is linked from its neighbours only.
Link_Unsorted(h, n, p, pv, nx) ==
  [parent |-> Put(h.parent, n, p),
   prev |-> Put(Put(h.prev, n, pv), nx, n),
   next |-> Put(Put(h.next, n, nx), pv, n),
   first |-> h.first, last |-> h.last,
   props |-> IF pv = NULL THEN Put(h.props, p, n) ELSE h.props,
   doc |-> h.doc]
Link_NotFirst(h, n, p, pv, nx) ==
  LET isAttr == n \in Attrs IN
  [parent |-> Put(h.parent, n, p),
   prev |-> Put(Put(h.prev, n, pv), nx, n),
   next |-> Put(Put(h.next, n, nx), pv, n),
   first |-> h.first,
   last |-> IF ~isAttr /\ nx = NULL THEN Put(h.last, p, n) ELSE h.last,
   props |-> IF isAttr /\ pv = NULL THEN Put(h.props, p, n) ELSE h.props,
   doc |-> h.doc]

\* The stores that put an unlinked n between two neighbours below p.
Link(h, n, p, pv, nx) ==
  LET isAttr == n \in Attrs IN
  [parent |-> Put(h.parent, n, p),
   prev |-> Put(Put(h.prev, n, pv), nx, n),
   next |-> Put(Put(h.next, n, nx), pv, n),
   first |-> IF ~isAttr /\ pv = NULL THEN Put(h.first, p, n) ELSE h.first,
   last |-> IF ~isAttr /\ nx = NULL THEN Put(h.last, p, n) ELSE h.last,
   props |-> IF isAttr /\ pv = NULL THEN Put(h.props, p, n) ELSE h.props,
   doc |-> h.doc]

\* The last node of the property list, found by walking it.
LastProp(h, e) ==
  IF h.props[e] = NULL THEN NULL
  ELSE CHOOSE a \in PropsOf(h, e) : h.next[a] = NULL

Tail(h, p, n) == IF n \in Attrs THEN LastProp(h, p) ELSE h.last[p]

\* The structures in S are released.
Release(h, S) ==
  [parent |-> [n \in Node |-> IF n \in S THEN NULL ELSE h.parent[n]],
   prev |-> [n \in Node |-> IF n \in S THEN NULL ELSE h.prev[n]],
   next |-> [n \in Node |-> IF n \in S THEN NULL ELSE h.next[n]],
   first |-> [x \in Place |-> IF x \in S THEN NULL ELSE h.first[x]],
   last |-> [x \in Place |-> IF x \in S THEN NULL ELSE h.last[x]],
   props |-> [e \in Elements |-> IF e \in S THEN NULL ELSE h.props[e]],
   doc |-> [n \in Node |-> IF n \in S THEN NULL ELSE h.doc[n]]]

\* The child list of x is reset.
Empty(h, x) ==
  [parent |-> h.parent, prev |-> h.prev, next |-> h.next,
   first |-> Put(h.first, x, NULL), last |-> Put(h.last, x, NULL),
   props |-> h.props, doc |-> h.doc]

\* A fault: the values of attributes are forgotten.
Owned_NoValues(h, n) == {n} \cup PropsOf(h, n)

\* What goes with a node: the properties of an element and the values of
\* attributes, but not the children of an element.
Owned(h, n) ==
  {n} \cup Below(h, PropsOf(h, n)) \cup (IF n \in Attrs THEN Below(h, ChildrenOf(h, n)) ELSE {})

\* The first attribute of e that has the name of a.
SameName(h, e, a) ==
  LET hits == {b \in PropsOf(h, e) : AttrName[b] = AttrName[a]} IN
  IF e \notin Elements \/ hits = {} THEN NULL
  ELSE CHOOSE b \in hits : hits \subseteq After(h, b)

----------------------------------------------------------------------------
\* xmlAddChild
AddChildTo(h, p, c) ==
  LET u == IF Linked(h, c) THEN Unlink(h, c) ELSE h
      l == Link(u, c, p, Tail(u, p, c), NULL)
      d == DocOf(h, p)
  IN IF d # NULL /\ l.doc[c] # d THEN PropagateDoc(l, c, d) ELSE l

\* A fault: what followed x is lost.
AddSiblingTo_Last(h, x, c) ==
  LET u == IF Linked(h, c) THEN Unlink(h, c) ELSE h
      l == [parent |-> Put(u.parent, c, u.parent[x]), prev |-> Put(u.prev, c, x),
            next |-> Put(Put(u.next, c, NULL), x, c),
            first |-> u.first, last |-> Swap(u.last, u.parent[x], x, c),
            props |-> u.props, doc |-> u.doc]
      d == h.doc[x]
  IN IF d # NULL /\ l.doc[c] # d THEN PropagateDoc(l, c, d) ELSE l

\* xmlAddSibling: the properties and the first child cannot change.
AddSiblingTo(h, x, c) ==
  LET u == IF Linked(h, c) THEN Unlink(h, c) ELSE h
      l == [parent |-> Put(u.parent, c, u.parent[x]),
            prev |-> Put(Put(u.prev, c, x), u.next[x], c),
            next |-> Put(Put(u.next, c, u.next[x]), x, c),
            first |-> u.first,
            last |-> Swap(u.last, u.parent[x], x, c),
            props |-> u.props,
            doc |-> u.doc]
      d == h.doc[x]
  IN IF d # NULL /\ l.doc[c] # d THEN PropagateDoc(l, c, d) ELSE l

\* xmlRemoveProp of an attribute that is in a list.
Remove(h, a) == Release(Unlink(h, a), Owned(h, a))

\* xmlInsertNode, and xmlInsertProp up to the attribute that had the name.
Insert(h, c, p, pv, nx, d) ==
  Link(SetTreeDocs(Unlink(h, c), {c}, d), c, p, pv, nx)

\* The stores that put an unlinked c where old is.
InPlaceOf(h, old, c) ==
  LET p == h.parent[old]
      pv == h.prev[old]
      nx == h.next[old]
      list == IF c \in Attrs THEN NULL ELSE p
  IN [parent |-> Put(Put(h.parent, c, p), old, NULL),
      prev |-> Put(Put(Put(h.prev, c, pv), old, NULL), nx, c),
      next |-> Put(Put(Put(h.next, c, nx), old, NULL), pv, c),
      first |-> Swap(h.first, list, old, c),
      last |-> Swap(h.last, list, old, c),
      props |-> Swap(h.props, IF c \in Attrs THEN p ELSE NULL, old, c),
      doc |-> h.doc]

\* xmlReplaceNode
TakePlace(h, old, c) ==
  InPlaceOf(SetTreeDocs(Unlink(h, c), {c}, h.doc[old]), old, c)

\* xmlAddChildList: c is the first of a list without a parent.
AppendList(h, p, c) ==
  LET s == SetTreeDocs(h, After(h, c), DocOf(h, p))
      pv == s.last[p]
      merge == pv \in Texts /\ c \in Texts
      start == IF merge THEN s.next[c] ELSE c
      l == From(s, start)
      end == CHOOSE m \in l : s.next[m] = NULL
      u == IF merge THEN Release(s, {c}) ELSE s
  IN IF start = NULL THEN u
     ELSE [parent |-> [n \in Node |-> IF n \in l THEN p ELSE u.parent[n]],
           prev |-> IF pv = NULL THEN u.prev ELSE Put(u.prev, start, pv),
           next |-> Put(u.next, pv, start),
           first |-> IF u.first[p] = NULL THEN Put(u.first, p, start) ELSE u.first,
           last |-> Put(u.last, p, end),
           props |-> u.props,
           doc |-> u.doc]

\* xmlDocGetRootElement
Root(h, d) ==
  LET es == ChildrenOf(h, d) \cap Elements IN
  IF es = {} THEN NULL ELSE CHOOSE e \in es : es \subseteq After(h, e)

\* xmlDocSetRootElement
SetRootTo(h, d, r) ==
  LET old == Root(h, d)
      u == IF h.parent[r] # NULL THEN Unlink(h, r) ELSE h
      w == IF u.doc[r] # d THEN PropagateDoc(u, r, d) ELSE u
      g == [parent |-> Put(w.parent, r, d), prev |-> w.prev, next |-> w.next,
            first |-> w.first, last |-> w.last, props |-> w.props,
            doc |-> Put(w.doc, r, d)]
      only == [parent |-> g.parent, prev |-> Put(g.prev, r, NULL),
               next |-> Put(g.next, r, NULL), first |-> Put(g.first, d, r),
               last |-> Put(g.last, d, r), props |-> g.props, doc |-> g.doc]
      pv == g.prev[old]
      nx == g.next[old]
      instead ==
        [parent |-> Put(g.parent, old, NULL),
         prev |-> Put(Put(Put(g.prev, r, pv), nx, r), old, NULL),
         next |-> Put(Put(Put(g.next, pv, r), r, nx), old, NULL),
         first |-> IF pv = NULL THEN Put(g.first, d, r) ELSE g.first,
         last |-> IF nx = NULL THEN Put(g.last, d, r) ELSE g.last,
         props |-> g.props, doc |-> g.doc]
  IN IF old = r THEN h
     ELSE IF old # NULL THEN instead
     ELSE IF g.first[d] = NULL THEN only
     ELSE AddSiblingTo(g, g.last[d], r)

----------------------------------------------------------------------------
Nodes == Node \cap live

\* n can go below p: the application adds no node to itself or to a
\* descendant, and nothing where it does not belong.
Fits(p, n) == n \notin Above(heap, p) /\ (p # NULL => MayHold(p, n))

\* There is room for the structures of S.
Fresh(S) == S \cap live = {} /\ Cardinality(live \cup S) <= MaxLive

SameSort(m, n) == (m \in Attrs) = (n \in Attrs)

Change(h, S) == heap' = h /\ moved' = S /\ UNCHANGED live

Free(h, S) == heap' = Release(h, S) /\ moved' = S \cap Node /\ live' = live \ S

Init ==
  /\ heap = [parent |-> [n \in Node |-> NULL], prev |-> [n \in Node |-> NULL],
             next |-> [n \in Node |-> NULL], first |-> [x \in Place |-> NULL],
             last |-> [x \in Place |-> NULL], props |-> [e \in Elements |-> NULL],
             doc |-> [n \in Node |-> NULL]]
  /\ live = {}
  /\ moved = {}

NewDoc(d) ==
  /\ Fresh({d})
  /\ live' = live \cup {d}
  /\ moved' = {}
  /\ UNCHANGED heap

\* xmlNewDocNode, xmlNewDocText, and without a document xmlNewNode, xmlNewText
NewNode(n, d) ==
  /\ Fresh({n})
  /\ heap' = SetDocs(heap, {n}, d)
  /\ live' = live \cup {n}
  /\ moved' = {n}

\* xmlNewChild, xmlNewTextChild
NewChild(p, e) ==
  /\ p \notin Attrs /\ p \notin Texts
  /\ Fresh({e})
  /\ heap' = Link(SetDocs(heap, {e}, DocOf(heap, p)), e, p, heap.last[p], NULL)
  /\ live' = live \cup {e}
  /\ moved' = {e}

\* xmlNewProp and the creating branch of xmlSetNsProp, with a value
NewProp(e, a, t) ==
  /\ Fresh({a, t})
  /\ LET d == IF e = NULL THEN NULL ELSE heap.doc[e]
         h == Link(SetDocs(heap, {a, t}, d), t, a, NULL, NULL)
     IN heap' = IF e = NULL THEN h ELSE Link(h, a, e, LastProp(h, e), NULL)
  /\ live' = live \cup {a, t}
  /\ moved' = {a, t}

\* xmlSetNsProp of an attribute that exists: a new text is its value.
SetNsProp(e, a, t) ==
  /\ a = SameName(heap, e, a) /\ Fresh({t})
  /\ LET old == Below(heap, ChildrenOf(heap, a))
         r == Empty(Release(heap, old), a)
     IN /\ heap' = Link(SetDocs(r, {t}, heap.doc[e]), t, a, NULL, NULL)
        /\ live' = (live \ old) \cup {t}
        /\ moved' = old \cup {t}

\* xmlNodeAddContent: the new text, unless the last child is a text.
AddContent(p, t) ==
  /\ p \in Elements \cup Attrs /\ Fresh({t})
  /\ heap.last[p] \notin Texts
  /\ heap' = Link(SetDocs(heap, {t}, heap.doc[p]), t, p, heap.last[p], NULL)
  /\ live' = live \cup {t}
  /\ moved' = {t}

UnlinkNode(n) == Change(Unlink(heap, n), {n})

AddChild(p, c) == Fits(p, c) /\ Change(AddChildTo(heap, p, c), {c})

AddSibling(x, c) ==
  /\ x # c /\ SameSort(x, c)
  /\ Fits(heap.parent[x], c) /\ c \notin Above(heap, x)
  /\ Change(AddSiblingTo(heap, x, c), {c})

\* The attribute that had the name of c, found first, is destroyed last.
InsertBetween(c, p, pv, nx, d) ==
  LET same == IF c \in Attrs THEN SameName(heap, p, c) ELSE NULL
      keep == same \in {NULL, c}
      l == Insert(heap, c, p, pv, nx, d)
      gone == IF keep THEN {} ELSE Owned(l, same)
  IN /\ heap' = IF keep THEN l ELSE Remove(l, same)
     /\ live' = live \ gone
     /\ moved' = {c} \cup gone

AddNextSibling(x, c) ==
  /\ x # c /\ c # heap.next[x] /\ SameSort(x, c)
  /\ Fits(heap.parent[x], c) /\ c \notin Above(heap, x)
  /\ InsertBetween(c, heap.parent[x], x, heap.next[x], heap.doc[x])

AddPrevSibling(x, c) ==
  /\ x # c /\ c # heap.prev[x] /\ SameSort(x, c)
  /\ Fits(heap.parent[x], c) /\ c \notin Above(heap, x)
  /\ InsertBetween(c, heap.parent[x], heap.prev[x], x, heap.doc[x])

AddChildList(p, c) ==
  /\ c \notin Attrs /\ heap.parent[c] = NULL /\ heap.prev[c] = NULL
  /\ \A n \in After(heap, c) : Fits(p, n)
  /\ LET l == AppendList(heap, p, c)
         gone == IF heap.last[p] \in Texts /\ c \in Texts THEN {c} ELSE {}
     IN heap' = l /\ live' = live \ gone /\ moved' = After(heap, c)

ReplaceNode(old, c) ==
  /\ old # c /\ SameSort(old, c)
  /\ heap.parent[old] # NULL
  /\ Fits(heap.parent[old], c)
  /\ Change(TakePlace(heap, old, c), {old, c})

SetRoot(d, r) ==
  /\ Keeps("alone", heap.parent[r] = NULL => ~Linked(heap, r))
  /\ Change(SetRootTo(heap, d, r), {r, Root(heap, d)} \ {NULL})

SetTreeDoc(n, d) ==
  /\ heap.parent[n] = NULL
  /\ Change(SetTreeDocs(heap, {n}, d), {})

RemoveProp(a) ==
  /\ heap.parent[a] # NULL
  /\ heap' = Remove(heap, a)
  /\ live' = live \ Owned(heap, a)
  /\ moved' = Owned(heap, a)

\* xmlTextMerge: the second text is freed.
TextMerge(t, s) ==
  /\ t # s
  /\ Keeps("unlinked", ~Linked(heap, s))
  /\ Free(heap, {s})

\* xmlFreeNode: the node has to be unlinked.
FreeNode(n) ==
  /\ ~Linked(heap, n)
  /\ Keeps("childless", n \notin Attrs => heap.first[n] = NULL)
  /\ Free(heap, Owned(heap, n))

\* xmlFreeNodeList of a list that is not in a tree
FreeNodeList(n) ==
  /\ heap.parent[n] = NULL /\ heap.prev[n] = NULL /\ n \notin Attrs
  /\ Free(heap, Below(heap, After(heap, n)))

FreeDoc(d) ==
  LET tree == Below(heap, ChildrenOf(heap, d)) IN
  /\ Keeps("own", \A n \in Nodes \ tree : heap.doc[n] # d)
  /\ Free(heap, {d} \cup tree)

Build ==
  \/ \E d \in Doc : NewDoc(d)
  \/ \E n \in Elements \cup Texts, d \in Ptr(Doc \cap live) : NewNode(n, d)
  \/ \E p \in live, e \in Elements : NewChild(p, e)
  \/ \E e \in Ptr(Elements \cap live), a \in Attrs, t \in Texts : NewProp(e, a, t)
  \/ \E e \in Elements \cap live, a \in Attrs \cap live, t \in Texts : SetNsProp(e, a, t)
  \/ \E p \in Nodes, t \in Texts : AddContent(p, t)

Edit ==
  \/ \E n \in Nodes : UnlinkNode(n)
  \/ \E p \in live, c \in Nodes : AddChild(p, c)
  \/ \E x \in Nodes, c \in Nodes : AddSibling(x, c)
  \/ \E x \in Nodes, c \in Nodes : AddNextSibling(x, c)
  \/ \E x \in Nodes, c \in Nodes : AddPrevSibling(x, c)
  \/ \E p \in live, c \in Nodes : AddChildList(p, c)
  \/ \E old \in Nodes, c \in Nodes : ReplaceNode(old, c)
  \/ \E d \in Doc \cap live, r \in Elements \cap live : SetRoot(d, r)
  \/ \E n \in Nodes, d \in Ptr(Doc \cap live) : SetTreeDoc(n, d)

Discard ==
  \/ \E a \in Attrs \cap live : RemoveProp(a)
  \/ \E t \in Texts \cap live, s \in Texts \cap live : TextMerge(t, s)
  \/ \E n \in Nodes : FreeNode(n)
  \/ \E n \in Nodes : FreeNodeList(n)
  \/ \E d \in Doc \cap live : FreeDoc(d)

Next == Build \/ Edit \/ Discard

Spec == Init /\ [][Next]_vars

----------------------------------------------------------------------------
\* The two directions of a list agree, and a list holds siblings of a sort.
ListsAgree(h) ==
  \A n \in Node :
    /\ h.next[n] # NULL => /\ h.prev[h.next[n]] = n
                           /\ h.parent[h.next[n]] = h.parent[n]
                           /\ SameSort(n, h.next[n])
    /\ h.prev[n] # NULL => h.next[h.prev[n]] = n

\* A node without a neighbour is where its parent says the list ends.
EndsAgree(h) ==
  /\ \A n \in Node \ Attrs : h.parent[n] # NULL =>
       /\ h.prev[n] = NULL <=> h.first[h.parent[n]] = n
       /\ h.next[n] = NULL <=> h.last[h.parent[n]] = n
  /\ \A a \in Attrs : h.parent[a] # NULL =>
       /\ h.parent[a] \in Elements
       /\ h.prev[a] = NULL <=> h.props[h.parent[a]] = a
  /\ \A p \in Place :
       /\ h.first[p] = NULL <=> h.last[p] = NULL
       /\ h.first[p] # NULL => h.first[p] \notin Attrs /\ h.parent[h.first[p]] = p
       /\ h.last[p] # NULL => h.last[p] \notin Attrs /\ h.parent[h.last[p]] = p
  /\ \A e \in Elements : h.props[e] # NULL => h.parent[h.props[e]] = e

\* No list is circular: a set of nodes cannot hold every neighbour.
ListsEnd(h) ==
  \A S \in SUBSET Node :
    /\ (\A n \in S : h.prev[n] \in S) => S = {}
    /\ (\A n \in S : h.next[n] \in S) => S = {}

\* After every call the pointers that describe one list describe the same
\* list: next and prev, the parent's first and last child, and the head of
\* the properties.
Coherent(h) == ListsAgree(h) /\ EndsAgree(h) /\ ListsEnd(h)
LinksCoherent == Coherent(heap)

\* A node whose parent is p is found by walking the lists of p: what a walk
\* frees, copies, serialises or moves to another document is the whole tree.
EveryChildIsListed ==
  \A n \in Node : heap.parent[n] # NULL => n \in Listed(heap, heap.parent[n])

\* A child or an attribute has the document of its parent if that has one,
\* so that xmlSetTreeDoc may stop at a node that has the document already.
\* The values of attributes are left out: xmlSetNsProp gives a new value
\* the document of the element, and xmlAddChild leaves an attribute added
\* to an element without a document in its own.
DocsAgree(h) ==
  \A n \in Node : h.parent[n] \notin Attrs \cup {NULL} =>
    DocOf(h, h.parent[n]) \in {NULL, h.doc[n]}
DocOfParent == DocsAgree(heap)

\* Only structures in L have links, and to structures in L.
Within(h, L) ==
  LET Ok(x, v) == v # NULL => x \in L /\ v \in L IN
  /\ \A n \in Node :
       Ok(n, h.parent[n]) /\ Ok(n, h.prev[n]) /\ Ok(n, h.next[n]) /\ Ok(n, h.doc[n])
  /\ \A x \in Place : Ok(x, h.first[x]) /\ Ok(x, h.last[x])
  /\ \A e \in Elements : Ok(e, h.props[e])

\* No structure in use names one that was freed.
NoDangling == Within(heap, live)

\* A call leaves every node it was not asked to move below the same parent,
\* and before the same of those nodes.
OthersStay ==
  [][\A n \in Node \ moved' :
       /\ heap'.parent[n] = heap.parent[n]
       /\ After(heap', n) \ moved' = After(heap, n) \ moved']_vars

============================================================================
