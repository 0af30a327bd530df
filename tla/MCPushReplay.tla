---------------------------- MODULE MCPushReplay ----------------------------
(***************************************************************************)
(* Small documents for PushReplay.  A document is given as the kinds of    *)
(* its items; every document may also lack its last byte, unless that is   *)
(* the last byte of a wide character: what is told of a character cut at   *)
(* the end of a document is not modelled.                                  *)
(***************************************************************************)
EXTENDS PushReplay

CONSTANTS Kinds,        \* kinds of items the documents are made of
          MaxItems      \* items of a document, inside and after the root

Spelled(kind) ==
  IF kind \in Markup \cup {"wide"}
  THEN << [kind |-> kind, last |-> FALSE], [kind |-> kind, last |-> TRUE] >>
  ELSE << [kind |-> kind, last |-> TRUE] >>

Bytes(kinds) == FoldLeft(LAMBDA b, k : b \o Spelled(k), <<>>, kinds)

\* The epilog begins at i.
EpilogAt(kinds, i) ==
  LET Count(S) == Cardinality({j \in 1..(i - 1) : kinds[j] \in S})
  IN  /\ Count({"open", "empty"}) > 0
      /\ Count({"open"}) = Count({"close", "stray"})

\* An unfinished processing instruction of the epilog is left out: on the
\* replay engine a non-final call takes it for extra content.
NoPiInEpilog(kinds) ==
  \A i \in DOMAIN kinds : kinds[i] = "pi" => ~EpilogAt(kinds, i)

\* Any items, or a root and any items in it and after it.
MCDocuments ==
  LET Lists(n) == {l \in UNION {[1..i -> Kinds] : i \in 0..n} : NoPiInEpilog(l)}
      rooted == {<<"open">> \o l : l \in Lists(MaxItems)}
      whole == {Bytes(l) : l \in Lists(MaxItems - 1)
                                \cup {r \in rooted : NoPiInEpilog(r)}}
      cut == {SubSeq(d, 1, Len(d) - 1) : d \in whole \ {<<>>}}
  IN  whole \cup {d \in cut : d = <<>> \/ d[Len(d)] # Spelled("wide")[1]}

\* A document with text, and one with an error.
MCAgain ==
  {Bytes(<<"open", "char", "close">>), Bytes(<<"open", "stray">>)}

\* Without wide characters the documents are those of the theorems on what is
\* told.
ASSUME OrdinaryDocuments ==
  "wide" \notin Kinds => \A d \in Documents \cup Again : Ordinary(d)
=============================================================================
