---------------------------- MODULE MCPushDriver ----------------------------
(* Instances of PushDriver: documents put together from constructs, cut    *)
(* anywhere by the caller.                                                 *)
EXTENDS PushDriver, SequencesExt, FiniteSets

Con(k, nm, bad) == [k |-> k, nm |-> nm, bad |-> bad]
Good(k) == Con(k, "a", "no")

Cells(con) == [i \in 1 .. Size(con.k) |-> [con |-> con, part |-> i]]
Stream(cons) == FlattenSeq([i \in DOMAIN cons |-> Cells(cons[i])])
Streams(alphabet, n) == {Stream(s) : s \in UNION {[1 .. m -> alphabet] : m \in 0 .. n}}

MCNames == {"a", "b"}

\* Any four constructs out of the ones that move the phase.
Structure == {Good("open"), Con("open", "b", "no"), Good("close"), Good("empty"),
              Good("text"), Good("pi")}
MCStructureDocs == Streams(Structure, 4)

\* A prolog of every shape, before a root.
Prolog == {Good("decl"), Good("ws"), Good("pi"), Good("comment"),
           Good("doctype"), Good("cdata"), Con("pi", "a", "scan"),
           Con("open", "a", "name"), Good("close"), Good("ref")}
Subset(bad) == <<Good("dtdhead"), Con("subset", "a", bad)>>
MCPrologDocs ==
  {Stream(p \o <<Good("empty")>>) : p \in UNION {[1 .. m -> Prolog] : m \in 0 .. 2}}
    \cup {Stream(<<x>> \o Subset(b) \o <<y, Good("empty")>>) :
             x \in {Good("decl"), Con("decl", "a", "scan"), Good("ws")},
             b \in {"no", "scan"}, y \in {Good("comment"), Good("doctype")}}

\* Content and epilog, with the faults that are reported there.
Inner == {Good("text"), Con("text", "a", "scan"), Good("ref"),
          Con("ref", "a", "scan"), Good("cdata"), Good("comment"),
          Con("empty", "a", "scan"), Con("open", "b", "name"),
          Good("decl"), Good("doctype"), Con("close", "b", "no")}
Outer == {Good("ws"), Good("decl"), Good("comment"), Good("text"), Good("half"), Good("badunit")}
Epilogs == {<<>>} \cup {<<x>> : x \in Outer} \cup {<<Good("ws"), Good("half")>>}
ContentDocs(n, epilogs) ==
  {Stream(<<Good("open")>> \o s \o <<Good("close")>> \o t) :
      s \in UNION {[1 .. m -> Inner] : m \in 0 .. n}, t \in epilogs}
MCContentDocs == ContentDocs(2, Epilogs)

MCDocs == MCStructureDocs \cup MCPrologDocs \cup MCContentDocs

\* Documents with a namespace error, which is recorded but not fatal.
MCNamespaceDocs ==
  {Stream(<<Con("empty", "a", "ns")>> \o t) :
      t \in UNION {[1 .. m -> {Good("ws"), Good("text"), Good("empty"),
                               Good("pi"), Good("comment"), Good("cdata")}] : m \in 0 .. 2}}

=============================================================================
