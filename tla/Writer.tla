------------------------------- MODULE Writer -------------------------------
(* The streaming writer.  It keeps one flat state and the names of the open *)
(* elements; what is open in the text it has written is a matter of nesting *)
(* and has to be what the state says.  The text is read back here by out,   *)
(* which knows only XML: each call below tells what it writes through Lex.  *)
(*                                                                          *)
(* Contents, indentation, quote characters, output errors and the Format    *)
(* variants are left out, arguments are valid, and what a declaration says  *)
(* is not looked at.                                                        *)
EXTENDS Integers, Sequences, FiniteSets, SequencesExt

CONSTANTS Name,         \* names of elements
          Decl,         \* namespace declarations, a prefix and a URI each
          Obligations,  \* what the application keeps to, see Keeps
          MaxDepth      \* bound: how many elements are open at once

ASSUME DeclAssumption == \A d \in Decl : DOMAIN d = {"prefix", "uri"}

VARIABLES
  state,     \* WriterState
  stack,     \* names of the open elements, depth of them
  startTag,  \* in_start_tag
  pending,   \* pending_ns, declarations that wait for the end of the tag
  bare,      \* dtd_bare
  encoder,   \* encoder_active
  rest,      \* the calls that a Write call has still to make
  \* History.
  out,       \* what is open in the text written so far
  asked,     \* the declarations that were asked for in the open start tag
  astray,    \* those that were not written in the tag they were asked for
  base,      \* how many elements were open before a Write call, -1 without
  emptyUri,  \* that call closed a tag in which a URI is empty
  refused    \* a call that XML allows was refused

fields == <<state, stack, startTag, pending, bare, encoder>>
vars == <<fields, rest, out, asked, astray, base, emptyUri, refused>>

DtdText == [DTDElem |-> "DTDElemText", DTDAttr |-> "DTDAttrText",
            DTDEntity |-> "DTDEntityText", DTD |-> "DTDText"]

WriterState == {"None", "Element", "Attribute", "CData", "Comment", "PI"}
                 \cup DOMAIN DtdText \cup {DtdText[s] : s \in DOMAIN DtdText}

Lexical == {"text", "tag", "value", "cdata", "comment", "pi", "element", "attlist",
            "entity", "quoted"}

Calls == {"WriteString", "EndElement", "EndCDATA", "EndComment", "EndPI", "EndDTD",
          "EndDTDElement", "EndDTDAttlist", "EndDTDEntity"}

TypeOK ==
  /\ state \in WriterState /\ stack \in Seq(Name) /\ startTag \in BOOLEAN
  /\ pending \in SUBSET Decl /\ bare \in BOOLEAN /\ encoder \in BOOLEAN
  /\ rest \in Seq(Calls) /\ base \in Int /\ emptyUri \in BOOLEAN /\ refused \in BOOLEAN
  /\ out \in [elems : Seq(Name), dtd : {"out", "doctype", "subset"}, lex : Lexical,
              ok : BOOLEAN]
  /\ asked \in SUBSET Decl /\ astray \in SUBSET Decl

Keeps(what, fact) == what \in Obligations => fact

----------------------------------------------------------------------------
\* XML: a token may stand in the lexical context from, and to follows it.
Lex(o, from, to) ==
  [elems |-> o.elems, dtd |-> o.dtd, lex |-> to, ok |-> o.ok /\ o.lex \in from]

\* Markup that may not stand between DOCTYPE and the internal subset.
Markup(o, to) ==
  [elems |-> o.elems, dtd |-> o.dtd, lex |-> to,
   ok |-> o.ok /\ o.lex = "text" /\ o.dtd # "doctype"]

OpenTag(o, n) ==
  [elems |-> Append(o.elems, n), dtd |-> o.dtd, lex |-> "tag",
   ok |-> o.ok /\ o.lex = "text" /\ o.dtd = "out"]

EmptyTag(o) ==
  [elems |-> Front(o.elems), dtd |-> o.dtd, lex |-> "text", ok |-> o.ok /\ o.lex = "tag"]

EndTag(o, n) ==
  [elems |-> Front(o.elems), dtd |-> o.dtd, lex |-> "text",
   ok |-> o.ok /\ o.lex = "text" /\ o.elems # <<>> /\ Last(o.elems) = n]

Doctype(o, from, to) ==
  [elems |-> o.elems, dtd |-> to, lex |-> o.lex,
   ok |-> o.ok /\ o.lex = "text" /\ o.dtd \in from]

----------------------------------------------------------------------------
\* What XML allows the application to write next.
InDocument == out.dtd = "out" /\ out.lex \in {"text", "tag"}
TopLevel == out.dtd = "out" /\ out.lex = "text" /\ out.elems = <<>>
InDtd == out.dtd # "out" /\ out.lex = "text"
InSubset == out.dtd = "subset" /\ out.lex = "text"

\* What a call may return once it has closed an open start tag, as a sum of
\* counts.  Each write counts 0 with an encoder, and with a write callback as
\* long as fewer than 256 bytes wait; write_slice of an empty URI counts -1
\* even then.  Without either, or when the bytes are flushed, what is counted
\* outweighs that: such a sum is 1 here.
Empties == {d \in pending : d.uri = ""}
MutedCount == IF startTag THEN 0 - Cardinality(Empties) ELSE 0
Counts == {MutedCount} \cup (IF encoder THEN {} ELSE {1})

\* A fault: a count of nothing is taken for an error.
Failed_Zero(count) == count \in {-1, 0}

\* The Write functions take -1 for an error.
Failed(count) == count = -1

\* The call closes a tag with an empty URI.
EmptyUriShut == startTag /\ Empties # {}

\* The application calls a Start function, or a Write function that goes on
\* with the calls r unless the count of the first was taken for an error.
Begin(R, fails) ==
  /\ rest = <<>>
  /\ \E r \in R :
       /\ rest' = IF fails THEN <<>> ELSE r
       /\ base' = IF r = <<>> THEN -1 ELSE Len(out.elems)
       /\ emptyUri' = (r # <<>> /\ EmptyUriShut)

\* The application calls f, or a Write function goes on with it.
Call(f, legal, fails) ==
  \/ rest = <<>> /\ legal /\ UNCHANGED rest /\ base' = -1 /\ emptyUri' = FALSE
  \/ /\ rest # <<>> /\ Head(rest) = f
     /\ rest' = IF fails THEN <<>> ELSE Tail(rest)
     /\ emptyUri' = (emptyUri \/ EmptyUriShut)
     /\ UNCHANGED base

Refuse == refused' = TRUE /\ UNCHANGED <<fields, out, asked, astray>>

\* A fault: the tag is ended and its declarations go on waiting.
CloseTag_Keeps ==
  /\ startTag' = FALSE
  /\ pending' = pending
  /\ asked' = IF startTag THEN {} ELSE asked
  /\ astray' = IF startTag THEN astray \cup (asked \ pending) \cup (pending \ asked)
               ELSE astray

\* close_start_tag: `>', after the declarations.
Closed == IF startTag THEN Lex(out, {"tag"}, "text") ELSE out
CloseTag ==
  /\ startTag' = FALSE
  /\ pending' = IF startTag THEN {} ELSE pending
  /\ asked' = IF startTag THEN {} ELSE asked
  /\ astray' = IF startTag THEN astray \cup (asked \ pending) \cup (pending \ asked)
               ELSE astray

Init ==
  /\ state = "None" /\ stack = <<>> /\ startTag = FALSE /\ pending = {}
  /\ bare = FALSE /\ encoder = FALSE /\ rest = <<>>
  /\ out = [elems |-> <<>>, dtd |-> "out", lex |-> "text", ok |-> TRUE]
  /\ asked = {} /\ astray = {} /\ base = -1 /\ emptyUri = FALSE /\ refused = FALSE

StartDocument(enc) ==
  /\ TopLevel
  /\ Begin({<<>>}, FALSE)
  /\ state' = "None"
  /\ encoder' = (encoder \/ enc)
  /\ UNCHANGED <<stack, startTag, pending, bare, out, asked, astray, refused>>

\* EndElement until no element is open.
EndDocument ==
  /\ InDocument
  /\ Begin({<<>>}, FALSE)
  /\ state' = "None"
  /\ IF stack = <<>> THEN UNCHANGED <<stack, startTag, pending, out, asked, astray>>
     ELSE /\ stack' = <<>>
          /\ out' = [elems |-> <<>>, dtd |-> out.dtd, lex |-> "text",
                     ok |-> out.ok /\ out.elems = stack /\ (out.lex = "tag" <=> startTag)]
          /\ CloseTag
  /\ UNCHANGED <<bare, encoder, refused>>

\* xmlTextWriterStartElement, with D = {} or without a URI, and
\* xmlTextWriterStartElementNS; WriteElement and WriteElementNS begin so.
StartElement(n, D) ==
  /\ InDocument /\ Len(stack) < MaxDepth
  /\ \E count \in Counts :
       Begin({<<>>, <<"EndElement">>, <<"WriteString", "EndElement">>}, Failed(count))
  /\ out' = OpenTag(Closed, n)
  /\ state' = "Element" /\ stack' = Append(stack, n) /\ startTag' = TRUE
  /\ pending' = (IF startTag THEN {} ELSE pending) \cup D
  /\ asked' = D
  /\ astray' = IF startTag THEN astray \cup (asked \ pending) \cup (pending \ asked)
               ELSE astray
  /\ UNCHANGED <<bare, encoder, refused>>

EndElement ==
  /\ Call("EndElement", InDocument /\ out.elems # <<>>, stack = <<>>)
  /\ IF stack = <<>> THEN Refuse
     ELSE /\ out' = IF startTag THEN EmptyTag(out) ELSE EndTag(out, Last(stack))
          /\ state' = "None" /\ stack' = Front(stack)
          /\ CloseTag
          /\ UNCHANGED <<bare, encoder, refused>>

\* The start tag is ended without its declarations.
FullEndElement ==
  /\ InDocument /\ out.elems # <<>>
  /\ Keeps("declared", pending = {})
  /\ Begin({<<>>}, FALSE)
  /\ IF stack = <<>> THEN Refuse
     ELSE /\ out' = EndTag(Closed, Last(stack))
          /\ state' = "None" /\ stack' = Front(stack) /\ startTag' = FALSE
          /\ asked' = {}
          /\ astray' = astray \cup asked
          /\ UNCHANGED <<pending, bare, encoder, refused>>

\* queue_attr_ns_decl: a prefix has one URI in a tag.
Clashes(D) == \E d \in D, p \in pending : d.prefix = p.prefix /\ d # p

\* xmlTextWriterWriteAttribute and WriteAttributeNS, and the calls that leave
\* the value open
Attribute(D, next, to) ==
  /\ out.lex = "tag" /\ \A d \in D, p \in asked : d.prefix = p.prefix => d = p
  /\ Begin({<<>>}, FALSE)
  /\ IF ~startTag \/ Clashes(D) THEN Refuse
     ELSE /\ out' = Lex(out, {"tag"}, to)
          /\ state' = next
          /\ pending' = pending \cup D /\ asked' = asked \cup D
          /\ UNCHANGED <<stack, startTag, bare, encoder, astray, refused>>

WriteAttribute(D) == Attribute(D, "Element", "tag")
StartAttribute(D) == Attribute(D, "Attribute", "value")

EndAttribute ==
  /\ out.lex = "value"
  /\ Begin({<<>>}, FALSE)
  /\ IF state # "Attribute" THEN Refuse
     ELSE /\ out' = Lex(out, {"value"}, "tag")
          /\ state' = "Element"
          /\ UNCHANGED <<stack, startTag, pending, bare, encoder, asked, astray, refused>>

\* A fault: the content of an entity is not quoted.
Opened_Bare(o) == IF state = "DTD" THEN Doctype(o, {"doctype"}, "subset") ELSE o

\* What a declaration is in when its first content was written.
Opened(o) ==
  IF state = "DTD" THEN Doctype(o, {"doctype"}, "subset")
  ELSE IF state = "DTDEntity" THEN Lex(o, {"entity"}, "quoted") ELSE o

\* Text may stand everywhere but in a tag or before the internal subset.
Text(o) == [elems |-> o.elems, dtd |-> o.dtd, lex |-> o.lex,
            ok |-> o.ok /\ o.lex \notin {"tag", "entity"} /\ o.dtd # "doctype"]

\* xmlTextWriterWriteString, WriteRaw and WriteRawLen, which differ in what
\* they escape
WriteString ==
  /\ \E count \in Counts : Call("WriteString", TRUE, state = "Element" /\ Failed(count))
  /\ out' = Text(IF state = "Element" THEN Closed ELSE Opened(out))
  /\ state' = IF state \in DOMAIN DtdText THEN DtdText[state] ELSE state
  /\ IF state = "Element" THEN CloseTag ELSE UNCHANGED <<startTag, pending, asked, astray>>
  /\ UNCHANGED <<stack, bare, encoder, refused>>

\* xmlTextWriterWriteBase64 and WriteBinHex look at nothing but the tag.
WriteEncoded ==
  /\ Keeps("encoded", InDocument)
  /\ Begin({<<>>}, FALSE)
  /\ out' = Text(Closed)
  /\ CloseTag
  /\ UNCHANGED <<state, stack, bare, encoder, refused>>

Start(next, to) ==
  /\ out' = Markup(Closed, to)
  /\ state' = next
  /\ CloseTag
  /\ UNCHANGED <<stack, bare, encoder, refused>>

StartCDATA ==
  /\ InDocument /\ out.elems # <<>>
  /\ \E count \in Counts :
       Begin({<<>>, <<"EndCDATA">>, <<"WriteString", "EndCDATA">>}, Failed(count))
  /\ Start("CData", "cdata")

StartComment ==
  /\ InDocument \/ InSubset
  /\ Keeps("misc", InDocument)
  /\ \E count \in Counts : Begin({<<>>, <<"WriteString", "EndComment">>}, count < 0)
  /\ Start("Comment", "comment")

StartPI ==
  /\ InDocument \/ InSubset
  /\ Keeps("misc", InDocument)
  /\ \E count \in Counts :
       Begin({<<>>, <<"EndPI">>, <<"WriteString", "EndPI">>}, Failed(count))
  /\ Start("PI", "pi")

\* The End functions of what is not an element.
End(f, states, from, next) ==
  /\ Call(f, out.lex \in from, state \notin states)
  /\ IF state \notin states THEN Refuse
     ELSE /\ out' = Lex(out, from, "text")
          /\ state' = next
          /\ UNCHANGED <<stack, startTag, pending, encoder, asked, astray, refused>>

EndCDATA == End("EndCDATA", {"CData"}, {"cdata"}, "None") /\ UNCHANGED bare
EndComment == End("EndComment", {"Comment"}, {"comment"}, "None") /\ UNCHANGED bare
EndPI == End("EndPI", {"PI"}, {"pi"}, "None") /\ UNCHANGED bare

StartDTD ==
  /\ TopLevel
  /\ Begin({<<>>, <<"EndDTD">>, <<"WriteString", "EndDTD">>}, FALSE)
  /\ IF stack # <<>> THEN Refuse
     ELSE /\ out' = Doctype(out, {"out"}, "doctype")
          /\ state' = "DTD"
          /\ UNCHANGED <<stack, startTag, pending, bare, encoder, asked, astray, refused>>

\* `]>' or `>'
EndDTD ==
  /\ Call("EndDTD", InDtd, state \notin {"DTD", "DTDText"})
  /\ IF state \notin {"DTD", "DTDText"} THEN Refuse
     ELSE /\ out' = Doctype(out, IF state = "DTD" THEN {"doctype"} ELSE {"subset"}, "out")
          /\ state' = "None"
          /\ UNCHANGED <<stack, startTag, pending, bare, encoder, asked, astray, refused>>

\* A fault: declarations are for a document type only.
MayDeclare_InDtd == state \in {"DTD", "DTDText"}

\* dtd_child_begin
MayDeclare == state \in {"DTD", "DTDText"} \/ (state = "None" /\ stack = <<>>)
Subset == IF state = "DTD" THEN Doctype(out, {"doctype"}, "subset") ELSE out

Declaration(R, next, to) ==
  /\ InDtd \/ TopLevel
  /\ Begin(R, FALSE)
  /\ IF ~MayDeclare THEN Refuse
     ELSE /\ out' = Markup(Subset, to)
          /\ state' = next /\ bare' = (state = "None")
          /\ UNCHANGED <<stack, startTag, pending, encoder, asked, astray, refused>>

StartDTDElement ==
  Declaration({<<>>, <<"WriteString", "EndDTDElement">>}, "DTDElem", "element")
\* xmlTextWriterStartDTDAttribute and StartDTDAttlist are the same.
StartDTDAttlist ==
  Declaration({<<>>, <<"WriteString", "EndDTDAttlist">>}, "DTDAttr", "attlist")
StartDTDEntity ==
  Declaration({<<>>, <<"WriteString", "EndDTDEntity">>, <<"EndDTDEntity">>},
              "DTDEntity", "entity")

\* A fault: a bare declaration goes back to a subset, too.
EndDeclaration_InDtd(f, states, from) ==
  /\ End(f, states, from, "DTDText")
  /\ bare' = IF state \in states THEN FALSE ELSE bare

EndDeclaration(f, states, from) ==
  /\ End(f, states, from, IF bare THEN "None" ELSE "DTDText")
  /\ bare' = IF state \in states THEN FALSE ELSE bare

EndDTDElement == EndDeclaration("EndDTDElement", {"DTDElem", "DTDElemText"}, {"element"})
EndDTDAttlist == EndDeclaration("EndDTDAttlist", {"DTDAttr", "DTDAttrText"}, {"attlist"})
EndDTDEntity ==
  EndDeclaration("EndDTDEntity", {"DTDEntity", "DTDEntityText"}, {"entity", "quoted"})

WriteDTDNotation ==
  /\ InDtd
  /\ Begin({<<>>}, FALSE)
  /\ IF state \notin {"DTD", "DTDText"} THEN Refuse
     ELSE /\ out' = Markup(Subset, "text")
          /\ state' = "DTDText"
          /\ UNCHANGED <<stack, startTag, pending, bare, encoder, asked, astray, refused>>

Elements ==
  \/ \E n \in Name, D \in {{}} \cup {{d} : d \in Decl} : StartElement(n, D)
  \/ EndElement \/ FullEndElement
  \/ \E D \in {{}} \cup {{d} : d \in Decl} : WriteAttribute(D) \/ StartAttribute(D)
  \/ EndAttribute

Contents ==
  \/ WriteString \/ WriteEncoded
  \/ StartCDATA \/ EndCDATA \/ StartComment \/ EndComment \/ StartPI \/ EndPI

Dtd ==
  \/ StartDTD \/ EndDTD \/ WriteDTDNotation
  \/ StartDTDElement \/ EndDTDElement \/ StartDTDAttlist \/ EndDTDAttlist
  \/ StartDTDEntity \/ EndDTDEntity

Next == Elements \/ Contents \/ Dtd \/ EndDocument \/ \E e \in BOOLEAN : StartDocument(e)

Spec == Init /\ [][Next]_vars

----------------------------------------------------------------------------
\* Whatever XML allows the application to write next, the text stays one that
\* XML allows: each call finds out, from the flat state, what is open.
WellFormed == out.ok

\* A call that XML allows is not refused.
NothingRefused == ~refused

\* The declarations of a tag are written in that tag, and only there.
DeclaredInItsTag == astray = {}

\* What was open before a Write call is what is open.
Balanced == Len(out.elems) = base /\ out.lex = "text"

\* What the Write call began is open, and nothing else is.
LeftBegun ==
  \/ Len(out.elems) = base + 1 /\ out.lex \in {"tag", "text"}
  \/ Len(out.elems) = base /\ out.lex \in {"cdata", "comment", "pi"}

\* A Write call that has returned left open what was open before it.  Only when
\* it closed a tag with an empty URI may it have stopped half-way, as if that
\* were an error; then what it began, and no more, is still open.
WriteCallsBalance ==
  rest = <<>> /\ base # -1 => Balanced \/ (emptyUri /\ LeftBegun)

\* What is open in the text, told from the fields alone.
ContextOf(s, tag) ==
  CASE tag -> IF s = "Attribute" THEN "value" ELSE "tag"
    [] s = "CData" -> "cdata"
    [] s = "Comment" -> "comment"
    [] s = "PI" -> "pi"
    [] s \in {"DTDElem", "DTDElemText"} -> "element"
    [] s \in {"DTDAttr", "DTDAttrText"} -> "attlist"
    [] s = "DTDEntity" -> "entity"
    [] s = "DTDEntityText" -> "quoted"
    [] OTHER -> "text"

\* The flat state and the names are the nesting of the text: what is innermost,
\* which elements are open around it, and whether it is in a document type.
StateIsNesting ==
  /\ out.elems = stack
  /\ out.lex = ContextOf(state, startTag)
  /\ out.dtd = CASE state = "DTD" -> "doctype"
                 [] state = "DTDText" -> "subset"
                 [] out.lex \in {"element", "attlist", "entity", "quoted"} ->
                      IF bare THEN "out" ELSE "subset"
                 [] OTHER -> "out"

=============================================================================
