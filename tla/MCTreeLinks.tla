---------------------------- MODULE MCTreeLinks ----------------------------
(* Instances of TreeLinks: all attributes have one name, so that inserting *)
(* one below an element destroys the other.                                *)
EXTENDS TreeLinks, TLC

MCAttrName == [a \in Attrs |-> "name"]

Perms == Permutations(Elements) \cup Permutations(Texts)
           \cup Permutations(Attrs) \cup Permutations(Doc)

AllObligations == {"alone", "unlinked", "childless", "own"}

\* The application merges texts that are siblings in a tree, too.
MergesSiblings == {"alone", "childless", "own"}

\* The history is not part of the state.
View == <<heap, live>>

============================================================================
