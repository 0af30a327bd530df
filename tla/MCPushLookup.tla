---------------------------- MODULE MCPushLookup ----------------------------
(* Instance of PushLookup: every stream over the bytes one family of        *)
(* lookups tells apart, each read by every lookup.                          *)
EXTENDS PushLookup

TagBytes == {">", "'", "dq", "x"}
TextBytes == {"<", "&", ">", ";", "x"}
StringBytes == {"?", "-", ">"}
SectionBytes == {"]", ">", "x"}

\* Streams that vary in some of their bytes.
Varied(bytes, where) ==
  {[i \in 0 .. N - 1 |-> IF i \in where THEN v[i] ELSE "x"] : v \in [where -> bytes]}

MCByte == TagBytes \cup TextBytes \cup StringBytes \cup SectionBytes
MCKinds == AllKinds
MCDocs == Varied(TagBytes, 0 .. 4) \cup Varied(TextBytes, 0 .. 3)
            \cup {d \in Varied(StringBytes, 0 .. 6) : d[0] = "?"}
            \cup Varied(SectionBytes, N - 4 .. N - 1)
=============================================================================
