---------------------------- MODULE MCPushInput ----------------------------
(***************************************************************************)
(* Small sources for PushInput: each signature with units that are cut,    *)
(* paired and malformed behind it, and a declaration with text behind it.  *)
(***************************************************************************)
EXTENDS PushInput

Tails(bytes, n) == [1..n -> bytes]
Behind(head, bytes, n) == {head \o t : t \in Tails(bytes, n)}

Bom16 == <<"FE", "FF">>
Bom8 == <<"EF", "BB", "BF">>
Decl == <<"3C", "3F", "78", "6D", "6C", "E", "3F", "3E">>

\* No signature names the encoding of these: text, a processing instruction
\* of another name, and a declaration that names nothing.
Plain == {<<"3C", "61", "61", "3F", "3E">>, <<"3C", "3F", "61", "3F", "3E", "61">>,
          <<"3C", "3F", "78", "6D", "6C", "3F", "3E", "61">>,
          Bom8 \o <<"3C", "61">>, <<"EF", "BB">>,
          <<"4C", "6F", "A7", "94", "C3", "61", "C3", "61">>}

Units == Behind(Bom16, {"61", "D8", "DC"}, 5)
           \cup Behind(<<"00", "3C", "00", "3F">>, {"00", "3F", "3E", "D8"}, 4)
           \cup Behind(<<"00", "00", "00", "3C">>, {"00", "61"}, 5)

\* Every byte of the tail means something in each of the declared encodings,
\* or is for the decoder to refuse.
Declared == Behind(Decl, {"61", "82", "A0", "1B"}, 3)

SmallSources == Plain \cup Units \cup Declared
UndefinedSources == Behind(Decl, {"61", "C3", "81"}, 2)
MarkedSources == {Bom8 \o Decl \o <<"61">>}
EscapedSources ==
  {<<"3C", "3F", "78", "6D", "6C", "E", "1B", "1B", "3F", "3E", "61">>}
=============================================================================
