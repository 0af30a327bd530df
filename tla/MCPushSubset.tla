---------------------------- MODULE MCPushSubset ----------------------------
(* Instance of PushSubset: a `[' followed by up to four pieces, so that    *)
(* comments, quotes, brackets and their fragments meet in every order.     *)
EXTENDS PushSubset, SequencesExt

Pieces == { <<"<", "!", "-", "-">>, <<"-", "-", ">">>, <<"]">>, <<">">>,
            <<"'">>, <<"sp">>, <<"-">>, <<"]", "sp", ">">> }

MCDocs == { <<"[">> \o FlattenSeq(p) : p \in TupleOf(Pieces, 4) }

\* Well-formed subsets only: declarations and comments, whose literals may
\* hold brackets, then `]' S? `>'.
Declarations == { <<"sp">>, <<"<", "x", "'", "]", "'", ">">>,
                  <<"<", "x", "dq", "[", "dq", ">">>,
                  <<"<", "!", "-", "-", "]", "-", "-", ">">> }

MCLegalDocs == { <<"[">> \o FlattenSeq(p) \o e :
                   p \in BoundedSeq(Declarations, 2),
                   e \in { <<"]", ">">>, <<"]", "sp", ">">> } }
=============================================================================
