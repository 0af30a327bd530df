--------------------------- MODULE MCPushCharData ---------------------------
(* Instances of PushCharData: every text of up to four bytes, and longer   *)
(* ones of the bytes that can be split: line ends, `]]>', characters.      *)
EXTENDS PushCharData, SequencesExt

Ended(texts) == texts \cup {Append(s, "<") : s \in texts}

MCLineEnds == Ended(BoundedSeq({"x", "cr", "lf"}, 6))

MCDocs == MCLineEnds
            \cup Ended(BoundedSeq({"x", "cr", "lf", "]", ">", "lead", "cont"}, 4)
                         \cup BoundedSeq({"x", "]", ">"}, 6)
                         \cup BoundedSeq({"x", "lead", "cont"}, 5)
                         \cup BoundedSeq({"x", "ctl", "]"}, 4))
=============================================================================
