------------------------------ MODULE MCWriter ------------------------------
(* Instances of Writer: two names, so that an end tag can have a wrong one, *)
(* and declarations that clash, the empty URI among them.                   *)
EXTENDS Writer, TLC

MCDecl == {[prefix |-> "p", uri |-> "u"], [prefix |-> "p", uri |-> "v"],
           [prefix |-> "", uri |-> ""]}

AllObligations == {"declared", "encoded", "misc"}

\* The application ends any element with FullEndElement.
EndsInFull == {"encoded", "misc"}

=============================================================================
