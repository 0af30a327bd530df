---------------------------- MODULE Writer_proofs ----------------------------
(* The invariants of Writer for every set of names and declarations and     *)
(* every depth, as long as the application keeps to its part.               *)
EXTENDS Writer, SequenceTheorems, FiniteSetTheorems, TLAPS

\* The application keeps to all of its part.
Careful == {"declared", "encoded", "misc"} \subseteq Obligations

\* A start tag is open in the states that say so, and its declarations wait.
Tags ==
  /\ startTag => state \in {"Element", "Attribute"} /\ pending = asked
  /\ ~startTag => state # "Attribute" /\ pending = {} /\ asked = {}
  /\ startTag \/ state = "Element" => stack # <<>>

\* A document type and declarations stand before the elements.
Declaring == {"DTDElem", "DTDElemText", "DTDAttr", "DTDAttrText", "DTDEntity", "DTDEntityText"}
Prolog ==
  /\ state \in Declaring \cup {"DTD", "DTDText"} => stack = <<>>
  /\ bare => state \in Declaring

\* The states in which a Write call goes on with the End function e.
Ends(e, s) ==
  \/ e = "EndElement" /\ s = "Element"
  \/ e = "EndCDATA" /\ s = "CData"
  \/ e = "EndComment" /\ s = "Comment"
  \/ e = "EndPI" /\ s = "PI"
  \/ e = "EndDTD" /\ s \in {"DTD", "DTDText"}
  \/ e = "EndDTDElement" /\ s \in {"DTDElem", "DTDElemText"}
  \/ e = "EndDTDAttlist" /\ s \in {"DTDAttr", "DTDAttrText"}
  \/ e = "EndDTDEntity" /\ s \in {"DTDEntity", "DTDEntityText"}

\* What a Write call has still to do fits what is open.
Underway ==
  rest # <<>> =>
    /\ base \in Nat
    /\ \E e \in Calls \ {"WriteString"} :
         /\ rest = <<e>> \/ rest = <<"WriteString", e>>
         /\ Ends(e, state)
         /\ Len(stack) = IF e = "EndElement" THEN base + 1 ELSE base

\* The inductive invariant: the state is told apart by what the calls look
\* at, so that what is open in the text follows from the fields.
IInv ==
  /\ TypeOK /\ WellFormed /\ StateIsNesting /\ NothingRefused /\ DeclaredInItsTag
  /\ WriteCallsBalance /\ Tags /\ Prolog /\ Underway

\* What is open in the text is told by the fields, one state at a time.
LEMMA Context ==
  ASSUME IInv
  PROVE  /\ out \in [elems : Seq(Name), dtd : {"out", "doctype", "subset"}, lex : Lexical, ok : BOOLEAN]
         /\ out.elems = stack /\ out.ok = TRUE /\ stack \in Seq(Name)
         /\ state \in {"None", "Element", "Attribute", "CData", "Comment", "PI", "DTD", "DTDText",
                       "DTDElem", "DTDElemText", "DTDAttr", "DTDAttrText", "DTDEntity", "DTDEntityText"}
         /\ out.lex = "tag" <=> state = "Element" /\ startTag
         /\ out.lex = "value" <=> state = "Attribute"
         /\ out.lex = "cdata" <=> state = "CData"
         /\ out.lex = "comment" <=> state = "Comment"
         /\ out.lex = "pi" <=> state = "PI"
         /\ out.lex = "element" <=> state \in {"DTDElem", "DTDElemText"}
         /\ out.lex = "attlist" <=> state \in {"DTDAttr", "DTDAttrText"}
         /\ out.lex = "entity" <=> state = "DTDEntity"
         /\ out.lex = "quoted" <=> state = "DTDEntityText"
         /\ out.lex = "text" <=> state \in {"None", "DTD", "DTDText"} \/ (state = "Element" /\ ~startTag)
         /\ out.dtd = "doctype" <=> state = "DTD"
         /\ out.dtd = "subset" <=> state = "DTDText" \/ (state \in Declaring /\ ~bare)
         /\ out.dtd = "out" <=> state \notin {"DTD", "DTDText"} /\ (state \in Declaring => bare)
<1>1. TypeOK /\ StateIsNesting /\ Tags /\ WellFormed
  BY DEF IInv
<1>2. state \in {"None", "Element", "Attribute", "CData", "Comment", "PI", "DTD", "DTDText",
                       "DTDElem", "DTDElemText", "DTDAttr", "DTDAttrText", "DTDEntity", "DTDEntityText"}
  BY <1>1 DEF TypeOK, WriterState, DtdText
<1>3. out.lex = ContextOf(state, startTag) /\ out.elems = stack
  BY <1>1 DEF StateIsNesting
<1>4. startTag => state \in {"Element", "Attribute"}
  BY <1>1 DEF Tags
<1>5. ~startTag => state # "Attribute"
  BY <1>1 DEF Tags
<1>6. startTag \in BOOLEAN /\ bare \in BOOLEAN /\ stack \in Seq(Name)
      /\ out \in [elems : Seq(Name), dtd : {"out", "doctype", "subset"}, lex : Lexical, ok : BOOLEAN]
  BY <1>1 DEF TypeOK
<1>7. out.ok = TRUE
  BY <1>1, <1>6 DEF WellFormed
<1>8. /\ out.lex = "tag" <=> state = "Element" /\ startTag
      /\ out.lex = "value" <=> state = "Attribute"
      /\ out.lex = "cdata" <=> state = "CData"
      /\ out.lex = "comment" <=> state = "Comment"
      /\ out.lex = "pi" <=> state = "PI"
      /\ out.lex = "element" <=> state \in {"DTDElem", "DTDElemText"}
      /\ out.lex = "attlist" <=> state \in {"DTDAttr", "DTDAttrText"}
      /\ out.lex = "entity" <=> state = "DTDEntity"
      /\ out.lex = "quoted" <=> state = "DTDEntityText"
      /\ out.lex = "text" <=> state \in {"None", "DTD", "DTDText"} \/ (state = "Element" /\ ~startTag)
  BY <1>2, <1>3, <1>4, <1>5 DEF ContextOf
<1>9. out.dtd = CASE state = "DTD" -> "doctype"
                 [] state = "DTDText" -> "subset"
                 [] out.lex \in {"element", "attlist", "entity", "quoted"} ->
                      IF bare THEN "out" ELSE "subset"
                 [] OTHER -> "out"
  BY <1>1 DEF StateIsNesting
<1>10. out.lex \in {"element", "attlist", "entity", "quoted"} <=> state \in Declaring
  BY <1>2, <1>8 DEF Declaring
<1> QED
  BY <1>2, <1>3, <1>6, <1>7, <1>8, <1>9, <1>10 DEF Declaring

\* A count is less than nothing only where a tag with an empty URI is closed.
LEMMA Counted ==
  ASSUME NEW count \in Counts, startTag \in BOOLEAN
  PROVE  /\ Failed(count) \in BOOLEAN /\ (count < 0) \in BOOLEAN
         /\ Failed(count) => EmptyUriShut
         /\ count < 0 => EmptyUriShut
<1>1. CASE EmptyUriShut
  BY <1>1 DEF Failed
<1>2. CASE ~EmptyUriShut
  <2>1. MutedCount = 0
    <3>1. CASE startTag
      <4>1. Empties = {}
        BY <1>2, <3>1 DEF EmptyUriShut
      <4>2. Cardinality(Empties) = 0
        BY <4>1, FS_EmptySet
      <4> QED
        BY <3>1, <4>2 DEF MutedCount
    <3>2. CASE ~startTag
      BY <3>2 DEF MutedCount
    <3> QED
      BY <3>1, <3>2
  <2>2. count = 0 \/ count = 1
    BY <2>1 DEF Counts
  <2> QED
    BY <2>2 DEF Failed
<1> QED
  BY <1>1, <1>2

\* A Write call can only go on with what it has still to do.
LEMMA Going ==
  ASSUME IInv, rest # <<>>
  PROVE  /\ base \in Nat
         /\ \/ /\ Head(rest) # "WriteString" /\ Tail(rest) = <<>> /\ Ends(Head(rest), state)
               /\ Len(stack) = IF Head(rest) = "EndElement" THEN base + 1 ELSE base
            \/ /\ Head(rest) = "WriteString"
               /\ \E e \in Calls \ {"WriteString"} :
                    /\ Tail(rest) = <<e>>
                    /\ Ends(e, state)
                    /\ Len(stack) = IF e = "EndElement" THEN base + 1 ELSE base
<1>1. PICK e \in Calls \ {"WriteString"} :
         /\ rest = <<e>> \/ rest = <<"WriteString", e>>
         /\ Ends(e, state)
         /\ Len(stack) = IF e = "EndElement" THEN base + 1 ELSE base
  BY DEF IInv, Underway
<1>2. base \in Nat
  BY DEF IInv, Underway
<1>3. CASE rest = <<e>>
  <2>1. Head(rest) = e /\ Tail(rest) = <<>>
    BY <1>3
  <2> QED
    BY <1>1, <1>2, <2>1
<1>4. CASE rest = <<"WriteString", e>>
  <2>1. Head(rest) = "WriteString" /\ Tail(rest) = <<e>>
    BY <1>4
  <2> QED
    BY <1>1, <1>2, <2>1
<1> QED
  BY <1>1, <1>3, <1>4

\* The names without the last one.
LEMMA Shorter ==
  ASSUME NEW s \in Seq(Name), s # <<>>
  PROVE  /\ Front(s) \in Seq(Name) /\ Len(Front(s)) = Len(s) - 1
         /\ Last(s) \in Name /\ Len(s) \in Nat \ {0}
<1>1. Len(s) \in Nat \ {0}
  BY EmptySeq
<1>2. \A i \in 1 .. Len(s) - 1 : s[i] \in Name
  BY <1>1, ElementOfSeq
<1>3. Front(s) \in Seq(Name)
      /\ Len(Front(s)) = Len(s) - 1
  <2> DEFINE m == Len(s) - 1
  <2>1. m \in Nat /\ 1 \in Int /\ m \in Int
    BY <1>1
  <2>2. Front(s) = SubSeq(s, 1, m)
    BY DEF Front
  <2> HIDE DEF m
  <2>3. \A i \in 1 .. m : s[i] \in Name
    BY <1>2 DEF m
  <2>4. SubSeq(s, 1, m) \in Seq(Name) /\ Len(SubSeq(s, 1, m)) = IF 1 <= m THEN m - 1 + 1 ELSE 0
    BY <2>1, <2>3, SubSeqProperties
  <2>5. Len(SubSeq(s, 1, m)) = m
    BY <2>1, <2>4
  <2> QED
    BY <2>2, <2>4, <2>5 DEF m
<1>4. Last(s) \in Name
  BY <1>1, ElementOfSeq DEF Last
<1> QED
  BY <1>1, <1>3, <1>4

\* The names with one more.
LEMMA Longer ==
  ASSUME NEW s \in Seq(Name), NEW n \in Name
  PROVE  Append(s, n) \in Seq(Name) /\ Append(s, n) # <<>> /\ Len(Append(s, n)) = Len(s) + 1
  BY AppendProperties

\* A call that is not part of a Write call.
LEMMA Plain ==
  ASSUME Begin({<<>>}, FALSE)
  PROVE  /\ rest' = <<>> /\ base' = -1 /\ rest' \in Seq(Calls) /\ base' \in Int
         /\ emptyUri' \in BOOLEAN /\ Underway' /\ WriteCallsBalance'
<1>1. rest' = <<>> /\ base' = -1 /\ emptyUri' \in BOOLEAN
  BY DEF Begin
<1>2. <<>> \in Seq(Calls)
  BY EmptySeq
<1> QED
  BY <1>1, <1>2 DEF Underway, WriteCallsBalance

\* A Start function leaves to a Write call what it has to do after it, or the
\* Write call leaves what was started when its count was taken for an error.
LEMMA Started ==
  ASSUME IInv, NEW R, NEW f \in BOOLEAN, f => EmptyUriShut, Begin(R, f),
         NEW e \in Calls \ {"WriteString"}, R \subseteq {<<>>, <<e>>, <<"WriteString", e>>},
         Ends(e, state'), out'.elems = stack',
         \/ e = "EndElement" /\ Len(stack') = Len(stack) + 1 /\ out'.lex \in {"tag", "text"}
         \/ /\ e # "EndElement" /\ Len(stack') = Len(stack)
            /\ ~f \/ out'.lex \in {"cdata", "comment", "pi"}
  PROVE  /\ rest' \in Seq(Calls) /\ base' \in Int /\ emptyUri' \in BOOLEAN
         /\ Underway' /\ WriteCallsBalance'
<1>1. PICK r \in R : /\ rest' = IF f THEN <<>> ELSE r
                     /\ base' = IF r = <<>> THEN -1 ELSE Len(out.elems)
                     /\ emptyUri' = (r # <<>> /\ EmptyUriShut)
  BY DEF Begin
<1>2. Len(out.elems) = Len(stack) /\ Len(stack) \in Nat
  BY Context
<1>3. "WriteString" \in Calls /\ e \in Calls
  BY DEF Calls
<1>4. emptyUri' \in BOOLEAN
  BY <1>1
<1>5. CASE r = <<>>
  <2>1. rest' = <<>> /\ base' = -1
    BY <1>1, <1>5
  <2>2. rest' \in Seq(Calls)
    BY <2>1, EmptySeq
  <2> QED
    BY <1>4, <2>1, <2>2 DEF Underway, WriteCallsBalance
<1>6. CASE r = <<e>> \/ r = <<"WriteString", e>>
  <2>1. r \in Seq(Calls) /\ r # <<>>
    <3>1. CASE r = <<e>>
      BY <1>3, <3>1
    <3>2. CASE r = <<"WriteString", e>>
      BY <1>3, <3>2
    <3> QED
      BY <1>6, <3>1, <3>2
  <2>2. base' = Len(stack)
    BY <1>1, <1>2, <2>1
  <2>3. CASE ~f
    <3>1. rest' = r
      BY <1>1, <2>3
    <3>2. WriteCallsBalance'
      BY <2>1, <3>1 DEF WriteCallsBalance
    <3>3. Len(stack') = IF e = "EndElement" THEN Len(stack) + 1 ELSE Len(stack)
      OBVIOUS
    <3>4. Underway'
      BY <1>2, <1>6, <2>2, <3>1, <3>3 DEF Underway
    <3> QED
      BY <1>2, <1>4, <2>1, <2>2, <3>1, <3>2, <3>4
  <2>4. CASE f
    <3>1. rest' = <<>> /\ emptyUri'
      BY <1>1, <2>1, <2>4
    <3>2. rest' \in Seq(Calls)
      BY <3>1, EmptySeq
    <3>3. LeftBegun'
      BY <1>2, <2>2, <2>4 DEF LeftBegun
    <3> QED
      BY <1>2, <1>4, <2>2, <3>1, <3>2, <3>3 DEF Underway, WriteCallsBalance
  <2> QED
    BY <2>3, <2>4
<1> QED
  BY <1>1, <1>5, <1>6

\* An End function ends a Write call, or stands for itself.
LEMMA Ended ==
  ASSUME IInv, NEW f \in Calls \ {"WriteString"}, NEW legal, NEW fails, Call(f, legal, fails),
         Ends(f, state) => ~fails
  PROVE  /\ rest' = <<>> /\ rest' \in Seq(Calls) /\ base' \in Int /\ emptyUri' \in BOOLEAN /\ Underway'
         /\ (rest = <<>> /\ legal) \/ Ends(f, state)
         /\ base' # -1 => Len(stack) = IF f = "EndElement" THEN base' + 1 ELSE base'
<1>0. <<>> \in Seq(Calls) /\ emptyUri' \in BOOLEAN
  BY EmptySeq DEF Call
<1>1. CASE rest = <<>>
  <2>1. legal /\ rest' = <<>> /\ base' = -1
    BY <1>1 DEF Call
  <2> QED
    BY <1>0, <1>1, <2>1 DEF Underway
<1>2. CASE rest # <<>>
  <2>1. Head(rest) = f /\ rest' = (IF fails THEN <<>> ELSE Tail(rest)) /\ base' = base
    BY <1>2 DEF Call
  <2>2. base \in Nat /\ Tail(rest) = <<>> /\ Ends(f, state)
        /\ Len(stack) = IF f = "EndElement" THEN base + 1 ELSE base
    BY <1>2, <2>1, Going
  <2>3. rest' = <<>> /\ base' \in Nat
    BY <2>1, <2>2
  <2>4. Underway'
    BY <2>3 DEF Underway
  <2>5. rest' \in Seq(Calls) /\ base' \in Int
    BY <1>0, <2>3
  <2>6. Len(stack) = IF f = "EndElement" THEN base' + 1 ELSE base'
    BY <2>1, <2>2
  <2> QED
    BY <1>0, <2>2, <2>3, <2>4, <2>5, <2>6
<1> QED
  BY <1>1, <1>2

\* Each call of the application preserves the invariant.
LEMMA StartElementSafe ==
  ASSUME Careful, IInv, NEW n \in Name, NEW D \in SUBSET Decl, StartElement(n, D)
  PROVE  IInv'
<1>0. /\ TypeOK /\ out.elems = stack /\ out.ok = TRUE /\ stack \in Seq(Name) /\ Tags /\ Prolog
      /\ bare \in BOOLEAN /\ encoder \in BOOLEAN /\ ~bare
      /\ out.lex \in {"text", "tag"} /\ out.dtd = "out"
  BY Context DEF IInv, TypeOK, StartElement, InDocument, Prolog, Declaring
<1>1. /\ state' = "Element" /\ stack' = Append(stack, n) /\ startTag' = TRUE
      /\ pending' = (IF startTag THEN {} ELSE pending) \cup D /\ asked' = D
      /\ bare' = bare /\ encoder' = encoder /\ refused' = refused
      /\ out' = OpenTag(Closed, n)
      /\ astray' = IF startTag THEN astray \cup (asked \ pending) \cup (pending \ asked) ELSE astray
  BY DEF StartElement
<1>2. Closed.elems = stack /\ Closed.dtd = "out" /\ Closed.lex = "text" /\ Closed.ok = TRUE
  <2>1. CASE startTag
    BY <1>0, <2>1, Context DEF Closed, Lex, IInv, Tags
  <2>2. CASE ~startTag
    BY <1>0, <2>2, Context DEF Closed
  <2> QED
    BY <2>1, <2>2
<1>3. out'.elems = stack' /\ out'.dtd = "out" /\ out'.lex = "tag" /\ out'.ok = TRUE
      /\ out' \in [elems : Seq(Name), dtd : {"out", "doctype", "subset"}, lex : Lexical, ok : BOOLEAN]
  BY <1>0, <1>1, <1>2, Longer DEF OpenTag, Lexical
<1>4. pending' = asked' /\ astray' = {}
  BY <1>0, <1>1 DEF Tags, IInv, DeclaredInItsTag
<1>5. rest' \in Seq(Calls) /\ base' \in Int /\ emptyUri' \in BOOLEAN /\ Underway' /\ WriteCallsBalance'
  <2>1. PICK count \in Counts :
          Begin({<<>>, <<"EndElement">>, <<"WriteString", "EndElement">>}, Failed(count))
    BY DEF StartElement
  <2>2. Failed(count) \in BOOLEAN /\ (Failed(count) => EmptyUriShut)
    BY <1>0, Counted DEF TypeOK
  <2>3. /\ Ends("EndElement", state') /\ Len(stack') = Len(stack) + 1
        /\ "EndElement" \in Calls \ {"WriteString"}
        /\ out'.elems = stack' /\ out'.lex \in {"tag", "text"}
    BY <1>0, <1>1, <1>3, Longer DEF Ends, Calls
  <2> QED
    BY <2>1, <2>2, <2>3, Started
<1>6. TypeOK'
  BY <1>0, <1>1, <1>3, <1>4, <1>5, Longer DEF TypeOK, WriterState
<1>7. StateIsNesting'
  BY <1>0, <1>1, <1>3 DEF StateIsNesting, ContextOf
<1>9. Tags' /\ Prolog'
  BY <1>0, <1>1, <1>4, Longer DEF Tags, Prolog, Declaring
<1> QED
  BY <1>1, <1>3, <1>4, <1>5, <1>6, <1>7, <1>9
     DEF IInv, WellFormed, NothingRefused, DeclaredInItsTag

\* What closing the start tag leaves of it.
LEMMA Closing ==
  ASSUME IInv, state # "Attribute"
  PROVE  /\ Closed.elems = stack /\ Closed.dtd = out.dtd /\ Closed.ok = TRUE
         /\ Closed.lex = IF out.lex = "tag" THEN "text" ELSE out.lex
<1>1. CASE startTag
  BY <1>1, Context DEF Closed, Lex, IInv, Tags
<1>2. CASE ~startTag
  BY <1>2, Context DEF Closed
<1> QED
  BY <1>1, <1>2

\* The histories and the fields when a start tag was closed.
LEMMA ClosingTag ==
  ASSUME IInv, CloseTag
  PROVE  /\ startTag' = FALSE /\ pending' = {} /\ asked' = {} /\ astray' = {}
<1>1. Tags /\ astray = {} /\ startTag \in BOOLEAN
  BY DEF IInv, DeclaredInItsTag, TypeOK
<1>2. startTag' = FALSE /\ pending' = {} /\ asked' = {} /\ astray' = {}
  BY <1>1 DEF CloseTag, Tags
<1> QED
  BY <1>2

\* Where content may stand outside a document type, the state does not tell
\* apart more than the start tag.
LEMMA Inside ==
  ASSUME IInv, InDocument
  PROVE  state \in {"None", "Element"} /\ ~bare /\ out.dtd = "out"
         /\ out.lex = IF startTag THEN "tag" ELSE "text"
<1>1. out.lex \in {"text", "tag"} /\ out.dtd = "out"
  BY DEF InDocument
<1>2. state \in {"None", "Element"}
  BY <1>1, Context
<1>3. ~bare
  BY <1>2 DEF IInv, Prolog, Declaring
<1> QED
  BY <1>1, <1>2, <1>3, Context DEF IInv, Tags

\* EndElement, called by the application or by a Write call.
LEMMA EndElementSafe ==
  ASSUME IInv, EndElement
  PROVE  IInv'
<1>1. Call("EndElement", InDocument /\ out.elems # <<>>, stack = <<>>)
  BY DEF EndElement
<1>2. Ends("EndElement", state) => stack # <<>>
  BY DEF Ends, IInv, Tags
<1>3. /\ rest' = <<>> /\ rest' \in Seq(Calls) /\ base' \in Int /\ emptyUri' \in BOOLEAN /\ Underway'
      /\ (rest = <<>> /\ InDocument /\ out.elems # <<>>) \/ Ends("EndElement", state)
      /\ base' # -1 => Len(stack) = base' + 1
  BY <1>1, <1>2, Ended DEF Calls
<1>4. stack # <<>> /\ state \in {"None", "Element"} /\ ~bare /\ out.dtd = "out"
      /\ out.lex = IF startTag THEN "tag" ELSE "text"
  <2>1. CASE InDocument /\ out.elems # <<>>
    BY <2>1, Inside, Context
  <2>2. CASE Ends("EndElement", state)
    <3>1. state = "Element"
      BY <2>2 DEF Ends
    <3> QED
      BY <3>1, <1>2, <2>2, Context DEF IInv, Tags, Prolog, Declaring
  <2> QED
    BY <1>3, <2>1, <2>2
<1>5. /\ out' = IF startTag THEN EmptyTag(out) ELSE EndTag(out, Last(stack))
      /\ state' = "None" /\ stack' = Front(stack) /\ CloseTag
      /\ bare' = bare /\ encoder' = encoder /\ refused' = refused
  BY <1>4 DEF EndElement
<1>6. TypeOK /\ NothingRefused /\ stack \in Seq(Name)
  BY DEF IInv, TypeOK
<1>7. stack' \in Seq(Name) /\ Len(stack') = Len(stack) - 1 /\ Len(stack) \in Nat
  BY <1>4, <1>5, <1>6, Shorter
<1>8. out'.elems = stack' /\ out'.dtd = "out" /\ out'.lex = "text" /\ out'.ok = TRUE
      /\ out' \in [elems : Seq(Name), dtd : {"out", "doctype", "subset"}, lex : Lexical, ok : BOOLEAN]
  BY <1>4, <1>5, <1>7, Context DEF EmptyTag, EndTag, Lexical
<1>9. startTag' = FALSE /\ pending' = {} /\ asked' = {} /\ astray' = {}
  BY <1>5, ClosingTag
<1>10. TypeOK'
  BY <1>3, <1>5, <1>6, <1>7, <1>8, <1>9 DEF TypeOK, WriterState
<1>11. StateIsNesting'
  BY <1>5, <1>8, <1>9 DEF StateIsNesting, ContextOf
<1>12. WriteCallsBalance'
  BY <1>3, <1>7, <1>8 DEF WriteCallsBalance, Balanced
<1>13. Tags' /\ Prolog'
  BY <1>4, <1>5, <1>9 DEF Tags, Prolog, Declaring
<1> QED
  BY <1>3, <1>5, <1>6, <1>8, <1>9, <1>10, <1>11, <1>12, <1>13
     DEF IInv, WellFormed, NothingRefused, DeclaredInItsTag

\* FullEndElement, with no declaration waiting.
LEMMA FullEndElementSafe ==
  ASSUME Careful, IInv, FullEndElement
  PROVE  IInv'
<1>1. rest' \in Seq(Calls) /\ base' \in Int /\ emptyUri' \in BOOLEAN /\ Underway' /\ WriteCallsBalance'
  BY Plain DEF FullEndElement
<1>2. stack # <<>> /\ state \in {"None", "Element"} /\ ~bare /\ out.dtd = "out"
  BY Inside, Context DEF FullEndElement
<1>3. /\ out' = EndTag(Closed, Last(stack))
      /\ state' = "None" /\ stack' = Front(stack) /\ startTag' = FALSE
      /\ asked' = {} /\ astray' = astray \cup asked
      /\ pending' = pending /\ bare' = bare /\ encoder' = encoder /\ refused' = refused
  BY <1>2 DEF FullEndElement
<1>4. TypeOK /\ NothingRefused /\ Tags /\ stack \in Seq(Name) /\ astray = {}
  BY DEF IInv, TypeOK, DeclaredInItsTag
<1>5. pending = {} /\ asked = {}
  BY <1>4 DEF FullEndElement, Careful, Keeps, Tags, TypeOK
<1>6. stack' \in Seq(Name) /\ Len(stack') = Len(stack) - 1 /\ Len(stack) \in Nat
  BY <1>2, <1>3, <1>4, Shorter
<1>7. Closed.elems = stack /\ Closed.dtd = "out" /\ Closed.ok = TRUE /\ Closed.lex = "text"
  BY <1>2, Closing, Inside DEF FullEndElement, InDocument
<1>8. out'.elems = stack' /\ out'.dtd = "out" /\ out'.lex = "text" /\ out'.ok = TRUE
      /\ out' \in [elems : Seq(Name), dtd : {"out", "doctype", "subset"}, lex : Lexical, ok : BOOLEAN]
  BY <1>2, <1>3, <1>6, <1>7 DEF EndTag, Lexical
<1>9. pending' = {} /\ asked' = {} /\ astray' = {}
  BY <1>3, <1>4, <1>5
<1>10. TypeOK'
  BY <1>1, <1>3, <1>4, <1>6, <1>8, <1>9 DEF TypeOK, WriterState
<1>11. StateIsNesting'
  BY <1>3, <1>8 DEF StateIsNesting, ContextOf
<1>12. Tags' /\ Prolog'
  BY <1>2, <1>3, <1>9 DEF Tags, Prolog, Declaring
<1> QED
  BY <1>1, <1>3, <1>4, <1>8, <1>9, <1>10, <1>11, <1>12
     DEF IInv, WellFormed, NothingRefused, DeclaredInItsTag

\* EndDocument, which ends all the open elements.
LEMMA EndDocumentSafe ==
  ASSUME IInv, EndDocument
  PROVE  IInv'
<1>1. rest' \in Seq(Calls) /\ base' \in Int /\ emptyUri' \in BOOLEAN /\ Underway' /\ WriteCallsBalance'
  BY Plain DEF EndDocument
<1>2. state \in {"None", "Element"} /\ ~bare /\ out.dtd = "out"
      /\ out.lex = IF startTag THEN "tag" ELSE "text"
  BY Inside DEF EndDocument
<1>3. TypeOK /\ NothingRefused /\ Tags /\ astray = {} /\ out.elems = stack /\ out.ok = TRUE
      /\ startTag \in BOOLEAN
  BY Context DEF IInv, TypeOK, DeclaredInItsTag
<1>4. state' = "None" /\ bare' = bare /\ encoder' = encoder /\ refused' = refused
  BY DEF EndDocument
<1>5. /\ stack' = <<>> /\ startTag' = FALSE /\ pending' = {} /\ asked' = {} /\ astray' = {}
      /\ out'.elems = <<>> /\ out'.dtd = "out" /\ out'.lex = "text" /\ out'.ok = TRUE
      /\ out' \in [elems : Seq(Name), dtd : {"out", "doctype", "subset"}, lex : Lexical, ok : BOOLEAN]
  <2>1. CASE stack = <<>>
    <3>1. UNCHANGED <<stack, startTag, pending, out, asked, astray>>
      BY <2>1 DEF EndDocument
    <3>2. ~startTag
      BY <1>3, <2>1 DEF Tags
    <3> QED
      BY <1>2, <1>3, <1>4, <2>1, <3>1, <3>2, Context DEF Tags
  <2>2. CASE stack # <<>>
    <3>1. /\ stack' = <<>>
          /\ out' = [elems |-> <<>>, dtd |-> out.dtd, lex |-> "text",
                     ok |-> out.ok /\ out.elems = stack /\ (out.lex = "tag" <=> startTag)]
          /\ CloseTag
      BY <2>2 DEF EndDocument
    <3>2. out.lex = "tag" <=> startTag
      BY <1>2
    <3>3. startTag' = FALSE /\ pending' = {} /\ asked' = {} /\ astray' = {}
      BY <3>1, ClosingTag
    <3>4. <<>> \in Seq(Name)
      BY EmptySeq
    <3> QED
      BY <1>2, <1>3, <3>1, <3>2, <3>3, <3>4 DEF Lexical
  <2> QED
    BY <2>1, <2>2
<1>6. TypeOK'
  <2>1. <<>> \in Seq(Name)
    BY EmptySeq
  <2> QED
    BY <1>1, <1>3, <1>4, <1>5, <2>1 DEF TypeOK, WriterState
<1>7. StateIsNesting'
  BY <1>4, <1>5 DEF StateIsNesting, ContextOf
<1>8. Tags' /\ Prolog'
  BY <1>2, <1>4, <1>5 DEF Tags, Prolog, Declaring
<1> QED
  BY <1>1, <1>3, <1>4, <1>5, <1>6, <1>7, <1>8
     DEF IInv, WellFormed, NothingRefused, DeclaredInItsTag

\* StartDocument, before any element.
LEMMA StartDocumentSafe ==
  ASSUME IInv, NEW enc \in BOOLEAN, StartDocument(enc)
  PROVE  IInv'
<1>1. rest' \in Seq(Calls) /\ base' \in Int /\ emptyUri' \in BOOLEAN /\ Underway' /\ WriteCallsBalance'
  BY Plain DEF StartDocument
<1>2. InDocument /\ stack = <<>> /\ out.lex = "text"
  BY Context DEF StartDocument, TopLevel, InDocument
<1>3. TypeOK /\ NothingRefused /\ Tags /\ astray = {} /\ out.elems = stack /\ out.ok = TRUE
  BY Context DEF IInv, DeclaredInItsTag
<1>4. state = "None" /\ ~startTag /\ pending = {} /\ ~bare
  BY <1>2, <1>3, Inside DEF Tags, TypeOK
<1>5. /\ state' = "None" /\ encoder' = (encoder \/ enc) /\ stack' = stack
      /\ startTag' = startTag /\ pending' = pending /\ bare' = bare /\ out' = out
      /\ asked' = asked /\ astray' = astray /\ refused' = refused
  BY DEF StartDocument
<1>6. TypeOK'
  BY <1>1, <1>3, <1>5 DEF TypeOK, WriterState
<1>7. StateIsNesting'
  BY <1>4, <1>5 DEF IInv, StateIsNesting, ContextOf
<1>8. Tags' /\ Prolog'
  BY <1>2, <1>3, <1>4, <1>5 DEF Tags, Prolog, Declaring
<1> QED
  BY <1>1, <1>3, <1>5, <1>6, <1>7, <1>8
     DEF IInv, WellFormed, NothingRefused, DeclaredInItsTag

\* WriteAttribute and StartAttribute, whose declarations do not clash.
LEMMA AttributeSafe ==
  ASSUME Careful, IInv, NEW D \in SUBSET Decl, NEW next, NEW to,
         \/ next = "Element" /\ to = "tag"
         \/ next = "Attribute" /\ to = "value",
         Attribute(D, next, to)
  PROVE  IInv'
<1>1. rest' \in Seq(Calls) /\ base' \in Int /\ emptyUri' \in BOOLEAN /\ Underway' /\ WriteCallsBalance'
  BY Plain DEF Attribute
<1>2. state = "Element" /\ startTag /\ out.lex = "tag" /\ out.dtd = "out" /\ out.elems = stack
      /\ out.ok = TRUE
  BY Context DEF Attribute, Declaring
<1>3. TypeOK /\ NothingRefused /\ Tags /\ astray = {} /\ pending = asked /\ stack # <<>>
  BY <1>2 DEF IInv, DeclaredInItsTag, Tags
<1>4. ~Clashes(D)
  BY <1>3 DEF Attribute, Clashes
<1>5. /\ out' = Lex(out, {"tag"}, to) /\ state' = next
      /\ pending' = pending \cup D /\ asked' = asked \cup D
      /\ stack' = stack /\ startTag' = startTag /\ bare' = bare /\ encoder' = encoder
      /\ astray' = astray /\ refused' = refused
  BY <1>2, <1>4 DEF Attribute
<1>6. out'.elems = stack' /\ out'.dtd = "out" /\ out'.lex = to /\ out'.ok = TRUE
      /\ out' \in [elems : Seq(Name), dtd : {"out", "doctype", "subset"}, lex : Lexical, ok : BOOLEAN]
  BY <1>2, <1>5, Context DEF Lex, Lexical
<1>7. TypeOK'
  BY <1>1, <1>3, <1>5, <1>6 DEF TypeOK, WriterState
<1>8. StateIsNesting'
  BY <1>2, <1>5, <1>6 DEF StateIsNesting, ContextOf
<1>10. ~bare
  BY <1>2 DEF IInv, Prolog, Declaring
<1>11. Tags' /\ Prolog'
  BY <1>2, <1>3, <1>5, <1>10 DEF Tags, Prolog, Declaring
<1> QED
  BY <1>1, <1>3, <1>5, <1>6, <1>7, <1>8, <1>11
     DEF IInv, WellFormed, NothingRefused, DeclaredInItsTag

\* EndAttribute leaves the tag open.
LEMMA EndAttributeSafe ==
  ASSUME IInv, EndAttribute
  PROVE  IInv'
<1>1. rest' \in Seq(Calls) /\ base' \in Int /\ emptyUri' \in BOOLEAN /\ Underway' /\ WriteCallsBalance'
  BY Plain DEF EndAttribute
<1>2. state = "Attribute" /\ out.lex = "value" /\ out.dtd = "out" /\ out.elems = stack
      /\ out.ok = TRUE
  BY Context DEF EndAttribute, Declaring
<1>3. TypeOK /\ NothingRefused /\ Tags /\ astray = {} /\ startTag /\ ~bare
  BY <1>2 DEF IInv, DeclaredInItsTag, Tags, Prolog, Declaring
<1>4. /\ out' = Lex(out, {"value"}, "tag") /\ state' = "Element"
      /\ stack' = stack /\ startTag' = startTag /\ pending' = pending /\ bare' = bare
      /\ encoder' = encoder /\ asked' = asked /\ astray' = astray /\ refused' = refused
  BY <1>2 DEF EndAttribute
<1>5. out'.elems = stack' /\ out'.dtd = "out" /\ out'.lex = "tag" /\ out'.ok = TRUE
      /\ out' \in [elems : Seq(Name), dtd : {"out", "doctype", "subset"}, lex : Lexical, ok : BOOLEAN]
  BY <1>2, <1>4, Context DEF Lex, Lexical
<1>6. TypeOK'
  BY <1>1, <1>3, <1>4, <1>5 DEF TypeOK, WriterState
<1>7. StateIsNesting'
  BY <1>3, <1>4, <1>5 DEF StateIsNesting, ContextOf
<1>8. Tags' /\ Prolog'
  BY <1>3, <1>4 DEF Tags, Prolog, Declaring
<1> QED
  BY <1>1, <1>3, <1>4, <1>5, <1>6, <1>7, <1>8
     DEF IInv, WellFormed, NothingRefused, DeclaredInItsTag

\* WriteString, which opens what a declaration needs, in or out of a Write call.
LEMMA WriteStringSafe ==
  ASSUME IInv, WriteString
  PROVE  IInv'
<1>1. PICK count \in Counts : Call("WriteString", TRUE, state = "Element" /\ Failed(count))
  BY DEF WriteString
<1>0. Failed(count) => EmptyUriShut
  BY Counted DEF IInv, TypeOK
<1>2. TypeOK /\ NothingRefused /\ Tags /\ Prolog /\ astray = {} /\ stack \in Seq(Name)
      /\ bare \in BOOLEAN /\ startTag \in BOOLEAN
  BY DEF IInv, DeclaredInItsTag, TypeOK
<1>3. /\ out' = Text(IF state = "Element" THEN Closed ELSE Opened(out))
      /\ state' = (IF state \in DOMAIN DtdText THEN DtdText[state] ELSE state)
      /\ stack' = stack /\ bare' = bare /\ encoder' = encoder /\ refused' = refused
  BY DEF WriteString
<1>4. /\ startTag' = (IF state = "Element" THEN FALSE ELSE startTag)
      /\ pending' = (IF state = "Element" THEN {} ELSE pending)
      /\ asked' = (IF state = "Element" THEN {} ELSE asked)
      /\ astray' = {}
  <2>1. CASE state = "Element"
    BY <2>1, ClosingTag DEF WriteString
  <2>2. CASE state # "Element"
    <3>1. startTag' = startTag /\ pending' = pending /\ asked' = asked /\ astray' = astray
      BY <2>2 DEF WriteString
    <3> QED
      BY <1>2, <2>2, <3>1
  <2> QED
    BY <2>1, <2>2
<1>5. state \in {"None", "Element", "Attribute", "CData", "Comment", "PI", "DTD", "DTDText",
                 "DTDElem", "DTDElemText", "DTDAttr", "DTDAttrText", "DTDEntity", "DTDEntityText"}
  BY Context
<1>6. /\ state = "DTD" => state' = "DTDText"
      /\ state = "DTDElem" => state' = "DTDElemText"
      /\ state = "DTDAttr" => state' = "DTDAttrText"
      /\ state = "DTDEntity" => state' = "DTDEntityText"
      /\ state \notin {"DTD", "DTDElem", "DTDAttr", "DTDEntity"} => state' = state
  BY <1>3 DEF DtdText
<1>7. /\ out' \in [elems : Seq(Name), dtd : {"out", "doctype", "subset"}, lex : Lexical, ok : BOOLEAN]
      /\ out'.elems = stack /\ out'.ok = TRUE
      /\ out'.dtd = IF out.dtd = "doctype" THEN "subset" ELSE out.dtd
      /\ out'.lex = IF out.lex = "tag" THEN "text" ELSE IF out.lex = "entity" THEN "quoted" ELSE out.lex
  <2>1. CASE state = "Element"
    BY <1>3, <2>1, Closing, Context DEF Text, Lexical, Declaring
  <2>2. CASE state = "DTD"
    BY <1>3, <2>2, Context DEF Text, Opened, Doctype, Lexical
  <2>3. CASE state = "DTDEntity"
    BY <1>3, <2>3, Context DEF Text, Opened, Lex, Lexical
  <2>4. CASE state \notin {"Element", "DTD", "DTDEntity"}
    <3>1. out' = [elems |-> out.elems, dtd |-> out.dtd, lex |-> out.lex,
                  ok |-> out.ok /\ out.lex \notin {"tag", "entity"} /\ out.dtd # "doctype"]
      BY <1>3, <2>4 DEF Text, Opened
    <3>2. out.lex \notin {"tag", "entity"} /\ out.dtd # "doctype" /\ out.elems = stack /\ out.ok = TRUE
          /\ out.lex \in Lexical /\ out.dtd \in {"out", "doctype", "subset"}
      BY <2>4, Context
    <3> QED
      BY <1>2, <3>1, <3>2
  <2> QED
    BY <2>1, <2>2, <2>3, <2>4
<1>8. rest' \in Seq(Calls) /\ base' \in Int /\ emptyUri' \in BOOLEAN /\ Underway' /\ WriteCallsBalance'
  <2>0. <<>> \in Seq(Calls) /\ emptyUri' \in BOOLEAN
    BY <1>1, EmptySeq DEF Call
  <2>1. CASE rest = <<>>
    <3>1. rest' = <<>> /\ base' = -1
      BY <1>1, <2>1 DEF Call
    <3> QED
      BY <2>0, <3>1 DEF Underway, WriteCallsBalance
  <2>2. CASE rest # <<>>
    <3>1. /\ Head(rest) = "WriteString" /\ base' = base /\ emptyUri' = (emptyUri \/ EmptyUriShut)
          /\ rest' = IF state = "Element" /\ Failed(count) THEN <<>> ELSE Tail(rest)
      BY <1>1, <2>2 DEF Call
    <3>2. base \in Nat
      BY <2>2, Going
    <3>3. PICK e \in Calls \ {"WriteString"} :
            /\ Tail(rest) = <<e>> /\ Ends(e, state)
            /\ Len(stack) = IF e = "EndElement" THEN base + 1 ELSE base
      BY <2>2, <3>1, Going
    <3>4. CASE ~(state = "Element" /\ Failed(count))
      <4>1. Ends(e, state')
        BY <1>6, <3>3 DEF Ends
      <4>2. rest' = <<e>>
        BY <3>1, <3>3, <3>4
      <4>3. rest' # <<>> /\ rest' \in Seq(Calls)
        BY <4>2
      <4>4. Len(stack') = IF e = "EndElement" THEN base' + 1 ELSE base'
        BY <1>3, <3>1, <3>3
      <4>5. Underway'
        BY <3>1, <3>2, <4>1, <4>2, <4>4 DEF Underway
      <4>6. WriteCallsBalance'
        BY <4>3 DEF WriteCallsBalance
      <4> QED
        BY <2>0, <3>1, <3>2, <4>3, <4>5, <4>6
    <3>5. CASE state = "Element" /\ Failed(count)
      <4>1. rest' = <<>> /\ emptyUri'
        BY <1>0, <3>1, <3>5
      <4>2. Len(stack) = base + 1
        BY <3>3, <3>5 DEF Ends
      <4>3. out.lex \in {"tag", "text"}
        BY <1>2, <3>5, Context
      <4>4. Len(out'.elems) = base' + 1 /\ out'.lex = "text"
        BY <1>7, <3>1, <4>2, <4>3
      <4>5. LeftBegun'
        BY <4>4 DEF LeftBegun
      <4>6. WriteCallsBalance' /\ Underway'
        BY <4>1, <4>5 DEF WriteCallsBalance, Underway
      <4>7. rest' \in Seq(Calls)
        BY ONLY <2>0, <4>1
      <4>8. base' \in Int
        BY <3>1, <3>2
      <4> QED
        BY <2>0, <4>6, <4>7, <4>8
    <3> QED
      BY <3>4, <3>5
  <2> QED
    BY <2>1, <2>2
<1>9. TypeOK'
  <2>1. state' \in WriterState
    BY <1>5, <1>6 DEF WriterState, DtdText
  <2> QED
    BY <1>2, <1>3, <1>4, <1>7, <1>8, <2>1 DEF TypeOK
<1>10. StateIsNesting'
  BY <1>2, <1>3, <1>4, <1>5, <1>6, <1>7, Context DEF StateIsNesting, ContextOf, Declaring, Tags
<1>11. Tags' /\ Prolog'
  BY <1>2, <1>3, <1>4, <1>5, <1>6 DEF Tags, Prolog, Declaring
<1> QED
  BY <1>2, <1>3, <1>4, <1>7, <1>8, <1>9, <1>10, <1>11
     DEF IInv, WellFormed, NothingRefused, DeclaredInItsTag

\* WriteBase64 and WriteBinHex in the content of an element.
LEMMA WriteEncodedSafe ==
  ASSUME Careful, IInv, WriteEncoded
  PROVE  IInv'
<1>1. rest' \in Seq(Calls) /\ base' \in Int /\ emptyUri' \in BOOLEAN /\ Underway' /\ WriteCallsBalance'
  BY Plain DEF WriteEncoded
<1>2. InDocument
  BY DEF WriteEncoded, Careful, Keeps
<1>3. TypeOK /\ NothingRefused /\ Tags /\ Prolog
  BY DEF IInv
<1>4. state \in {"None", "Element"} /\ ~bare /\ out.dtd = "out"
      /\ out.lex = (IF startTag THEN "tag" ELSE "text")
  BY <1>2, Inside
<1>5. Closed.elems = stack /\ Closed.dtd = "out" /\ Closed.ok = TRUE /\ Closed.lex = "text"
  BY <1>4, Closing
<1>6. /\ out' = Text(Closed) /\ CloseTag
      /\ state' = state /\ stack' = stack /\ bare' = bare /\ encoder' = encoder /\ refused' = refused
  BY DEF WriteEncoded
<1>7. out'.elems = stack' /\ out'.dtd = "out" /\ out'.lex = "text" /\ out'.ok = TRUE
      /\ out' \in [elems : Seq(Name), dtd : {"out", "doctype", "subset"}, lex : Lexical, ok : BOOLEAN]
  BY <1>5, <1>6, Context DEF Text, Lexical
<1>8. startTag' = FALSE /\ pending' = {} /\ asked' = {} /\ astray' = {}
  BY <1>6, ClosingTag
<1>9. TypeOK'
  BY <1>1, <1>3, <1>6, <1>7, <1>8 DEF TypeOK
<1>10. StateIsNesting'
  BY <1>4, <1>6, <1>7, <1>8 DEF StateIsNesting, ContextOf
<1>11. Tags' /\ Prolog'
  BY <1>3, <1>4, <1>6, <1>8 DEF Tags, Prolog, Declaring
<1> QED
  BY <1>1, <1>3, <1>6, <1>7, <1>8, <1>9, <1>10, <1>11
     DEF IInv, WellFormed, NothingRefused, DeclaredInItsTag

\* What the start of a CDATA section, a comment or a PI leaves, but for the
\* calls that go on with it.
LEMMA StartSafe ==
  ASSUME IInv, InDocument, NEW next, NEW to, NEW R, NEW f \in BOOLEAN, f => EmptyUriShut,
         NEW e \in Calls \ {"WriteString", "EndElement"},
         \/ next = "CData" /\ to = "cdata" /\ e = "EndCDATA"
         \/ next = "Comment" /\ to = "comment" /\ e = "EndComment"
         \/ next = "PI" /\ to = "pi" /\ e = "EndPI",
         R \subseteq {<<>>, <<e>>, <<"WriteString", e>>},
         Begin(R, f), Start(next, to)
  PROVE  IInv'
<1>1. TypeOK /\ NothingRefused /\ Tags /\ Prolog
  BY DEF IInv
<1>2. state \in {"None", "Element"} /\ ~bare /\ out.dtd = "out"
      /\ out.lex = (IF startTag THEN "tag" ELSE "text")
  BY Inside
<1>3. Closed.elems = stack /\ Closed.dtd = "out" /\ Closed.ok = TRUE /\ Closed.lex = "text"
  BY <1>2, Closing
<1>4. /\ out' = Markup(Closed, to) /\ CloseTag
      /\ state' = next /\ stack' = stack /\ bare' = bare /\ encoder' = encoder /\ refused' = refused
  BY DEF Start
<1>5. out'.elems = stack' /\ out'.dtd = "out" /\ out'.lex = to /\ out'.ok = TRUE
      /\ out' \in [elems : Seq(Name), dtd : {"out", "doctype", "subset"}, lex : Lexical, ok : BOOLEAN]
  BY <1>3, <1>4, Context DEF Markup, Lexical
<1>6. startTag' = FALSE /\ pending' = {} /\ asked' = {} /\ astray' = {}
  BY <1>4, ClosingTag
<1>7. rest' \in Seq(Calls) /\ base' \in Int /\ emptyUri' \in BOOLEAN /\ Underway' /\ WriteCallsBalance'
  <2>1. Ends(e, state') /\ out'.elems = stack'
    BY <1>4, <1>5 DEF Ends
  <2>2. e # "EndElement" /\ e \in Calls \ {"WriteString"} /\ Len(stack') = Len(stack)
        /\ out'.lex \in {"cdata", "comment", "pi"}
    BY <1>4, <1>5
  <2> QED
    BY <2>1, <2>2, Started
<1>8. TypeOK'
  BY <1>1, <1>4, <1>5, <1>6, <1>7 DEF TypeOK, WriterState
<1>9. StateIsNesting'
  BY <1>2, <1>4, <1>5, <1>6 DEF StateIsNesting, ContextOf
<1>10. Tags' /\ Prolog'
  BY <1>1, <1>2, <1>4, <1>6 DEF Tags, Prolog, Declaring
<1> QED
  BY <1>1, <1>4, <1>5, <1>6, <1>7, <1>8, <1>9, <1>10
     DEF IInv, WellFormed, NothingRefused, DeclaredInItsTag

\* StartCDATA is such a start.
LEMMA StartCDATASafe ==
  ASSUME IInv, StartCDATA
  PROVE  IInv'
<1>0. PICK count \in Counts :
        Begin({<<>>, <<"EndCDATA">>, <<"WriteString", "EndCDATA">>}, Failed(count))
  BY DEF StartCDATA
<1>1. InDocument /\ Start("CData", "cdata")
  BY DEF StartCDATA
<1>2. Failed(count) \in BOOLEAN /\ (Failed(count) => EmptyUriShut)
  BY Counted DEF IInv, TypeOK
<1>3. "EndCDATA" \in Calls \ {"WriteString", "EndElement"}
  BY DEF Calls
<1> QED
  BY <1>0, <1>1, <1>2, <1>3, StartSafe

\* StartComment is such a start, outside a document type.
LEMMA StartCommentSafe ==
  ASSUME Careful, IInv, StartComment
  PROVE  IInv'
<1>0. PICK count \in Counts : Begin({<<>>, <<"WriteString", "EndComment">>}, count < 0)
  BY DEF StartComment
<1>1. InDocument /\ Start("Comment", "comment")
  BY DEF StartComment, Careful, Keeps
<1>2. (count < 0) \in BOOLEAN /\ (count < 0 => EmptyUriShut)
  BY Counted DEF IInv, TypeOK
<1>3. "EndComment" \in Calls \ {"WriteString", "EndElement"}
  BY DEF Calls
<1>4. {<<>>, <<"WriteString", "EndComment">>}
        \subseteq {<<>>, <<"EndComment">>, <<"WriteString", "EndComment">>}
  OBVIOUS
<1> QED
  BY <1>0, <1>1, <1>2, <1>3, <1>4, StartSafe

\* StartPI is such a start, outside a document type.
LEMMA StartPISafe ==
  ASSUME Careful, IInv, StartPI
  PROVE  IInv'
<1>0. PICK count \in Counts :
        Begin({<<>>, <<"EndPI">>, <<"WriteString", "EndPI">>}, Failed(count))
  BY DEF StartPI
<1>1. InDocument /\ Start("PI", "pi")
  BY DEF StartPI, Careful, Keeps
<1>2. Failed(count) \in BOOLEAN /\ (Failed(count) => EmptyUriShut)
  BY Counted DEF IInv, TypeOK
<1>3. "EndPI" \in Calls \ {"WriteString", "EndElement"}
  BY DEF Calls
<1> QED
  BY <1>0, <1>1, <1>2, <1>3, StartSafe

\* The end of what is not an element and not in a document type.
LEMMA EndSafe ==
  ASSUME IInv, NEW f \in Calls \ {"WriteString", "EndElement"}, NEW st, NEW lx,
         \/ f = "EndCDATA" /\ st = "CData" /\ lx = "cdata"
         \/ f = "EndComment" /\ st = "Comment" /\ lx = "comment"
         \/ f = "EndPI" /\ st = "PI" /\ lx = "pi",
         End(f, {st}, {lx}, "None"), bare' = bare
  PROVE  IInv'
<1>1. TypeOK /\ NothingRefused /\ Tags /\ Prolog /\ astray = {} /\ stack \in Seq(Name)
  BY DEF IInv, DeclaredInItsTag, TypeOK
<1>2. Call(f, out.lex \in {lx}, state \notin {st}) /\ (Ends(f, state) => state = st)
  BY DEF End, Ends
<1>3. /\ rest' = <<>> /\ rest' \in Seq(Calls) /\ base' \in Int /\ emptyUri' \in BOOLEAN /\ Underway'
      /\ (rest = <<>> /\ out.lex \in {lx}) \/ Ends(f, state)
      /\ base' # -1 => Len(stack) = base'
  <2>1. f # "EndElement" /\ f \in Calls \ {"WriteString"} /\ (Ends(f, state) => ~(state \notin {st}))
    BY <1>2
  <2>2. /\ rest' = <<>> /\ rest' \in Seq(Calls) /\ base' \in Int /\ emptyUri' \in BOOLEAN /\ Underway'
        /\ (rest = <<>> /\ out.lex \in {lx}) \/ Ends(f, state)
        /\ base' # -1 => Len(stack) = IF f = "EndElement" THEN base' + 1 ELSE base'
    BY <1>2, <2>1, Ended
  <2> QED
    BY <2>1, <2>2
<1>4. state = st
  BY <1>2, <1>3, Context
<1>5. out.lex = lx /\ out.dtd = "out" /\ out.elems = stack /\ out.ok = TRUE
  BY <1>4, Context DEF Declaring
<1>6. /\ out' = Lex(out, {lx}, "text") /\ state' = "None"
      /\ stack' = stack /\ startTag' = startTag /\ pending' = pending /\ bare' = bare
      /\ encoder' = encoder /\ asked' = asked /\ astray' = astray /\ refused' = refused
  BY <1>4 DEF End
<1>7. ~startTag /\ ~bare
  BY <1>1, <1>4 DEF Tags, Prolog, Declaring
<1>8. out'.elems = stack' /\ out'.dtd = "out" /\ out'.lex = "text" /\ out'.ok = TRUE
      /\ out' \in [elems : Seq(Name), dtd : {"out", "doctype", "subset"}, lex : Lexical, ok : BOOLEAN]
  BY <1>5, <1>6, Context DEF Lex, Lexical
<1>9. TypeOK'
  BY <1>1, <1>3, <1>6, <1>8 DEF TypeOK, WriterState
<1>10. StateIsNesting'
  BY <1>6, <1>7, <1>8 DEF StateIsNesting, ContextOf
<1>11. WriteCallsBalance'
  BY <1>3, <1>6, <1>8 DEF WriteCallsBalance, Balanced
<1>12. Tags' /\ Prolog'
  BY <1>1, <1>6, <1>7 DEF Tags, Prolog, Declaring
<1> QED
  BY <1>1, <1>3, <1>6, <1>8, <1>9, <1>10, <1>11, <1>12
     DEF IInv, WellFormed, NothingRefused, DeclaredInItsTag

\* StartDTD, before any element.
LEMMA StartDTDSafe ==
  ASSUME IInv, StartDTD
  PROVE  IInv'
<1>1. TypeOK /\ NothingRefused /\ Tags /\ Prolog /\ astray = {}
  BY DEF IInv, DeclaredInItsTag
<1>2. InDocument /\ stack = <<>> /\ out.lex = "text" /\ out.dtd = "out" /\ out.elems = stack
      /\ out.ok = TRUE
  BY Context DEF StartDTD, TopLevel, InDocument
<1>3. ~startTag /\ ~bare
  BY <1>1, <1>2, Inside DEF Tags
<1>4. /\ out' = Doctype(out, {"out"}, "doctype") /\ state' = "DTD"
      /\ stack' = stack /\ startTag' = startTag /\ pending' = pending /\ bare' = bare
      /\ encoder' = encoder /\ asked' = asked /\ astray' = astray /\ refused' = refused
  BY <1>2 DEF StartDTD
<1>5. out'.elems = stack' /\ out'.dtd = "doctype" /\ out'.lex = "text" /\ out'.ok = TRUE
      /\ out' \in [elems : Seq(Name), dtd : {"out", "doctype", "subset"}, lex : Lexical, ok : BOOLEAN]
  BY <1>2, <1>4, Context DEF Doctype, Lexical
<1>6. rest' \in Seq(Calls) /\ base' \in Int /\ emptyUri' \in BOOLEAN /\ Underway' /\ WriteCallsBalance'
  <2>1. Begin({<<>>, <<"EndDTD">>, <<"WriteString", "EndDTD">>}, FALSE)
    BY DEF StartDTD
  <2>2. Ends("EndDTD", state') /\ "EndDTD" \in Calls \ {"WriteString"}
    BY <1>4 DEF Ends, Calls
  <2>3. "EndDTD" # "EndElement" /\ FALSE \in BOOLEAN /\ Len(stack') = Len(stack) /\ out'.elems = stack'
    BY <1>4, <1>5
  <2> QED
    BY <2>1, <2>2, <2>3, Started
<1>7. TypeOK'
  BY <1>1, <1>4, <1>5, <1>6 DEF TypeOK, WriterState, DtdText
<1>8. StateIsNesting'
  BY <1>3, <1>4, <1>5 DEF StateIsNesting, ContextOf
<1>9. Tags' /\ Prolog'
  BY <1>1, <1>2, <1>3, <1>4 DEF Tags, Prolog
<1> QED
  BY <1>1, <1>4, <1>5, <1>6, <1>7, <1>8, <1>9
     DEF IInv, WellFormed, NothingRefused, DeclaredInItsTag

\* EndDTD, with or without a subset.
LEMMA EndDTDSafe ==
  ASSUME IInv, EndDTD
  PROVE  IInv'
<1>1. TypeOK /\ NothingRefused /\ Tags /\ Prolog /\ astray = {}
  BY DEF IInv, DeclaredInItsTag
<1>2. Call("EndDTD", InDtd, state \notin {"DTD", "DTDText"})
      /\ (Ends("EndDTD", state) => state \in {"DTD", "DTDText"})
  BY DEF EndDTD, Ends
<1>3. /\ rest' = <<>> /\ rest' \in Seq(Calls) /\ base' \in Int /\ emptyUri' \in BOOLEAN /\ Underway'
      /\ (rest = <<>> /\ InDtd) \/ Ends("EndDTD", state)
      /\ base' # -1 => Len(stack) = base'
  <2>1. "EndDTD" \in Calls \ {"WriteString"} /\ (Ends("EndDTD", state) => ~(state \notin {"DTD", "DTDText"}))
    BY <1>2 DEF Calls
  <2>2. /\ rest' = <<>> /\ rest' \in Seq(Calls) /\ base' \in Int /\ emptyUri' \in BOOLEAN /\ Underway'
        /\ (rest = <<>> /\ InDtd) \/ Ends("EndDTD", state)
        /\ base' # -1 => Len(stack) = IF "EndDTD" = "EndElement" THEN base' + 1 ELSE base'
    BY <1>2, <2>1, Ended
  <2> QED
    BY <2>2
<1>4. state \in {"DTD", "DTDText"}
  BY <1>2, <1>3, Context DEF InDtd, Declaring
<1>5. out.lex = "text" /\ out.elems = stack /\ out.ok = TRUE
      /\ out.dtd = IF state = "DTD" THEN "doctype" ELSE "subset"
  BY <1>4, Context
<1>6. /\ out' = Doctype(out, IF state = "DTD" THEN {"doctype"} ELSE {"subset"}, "out")
      /\ state' = "None"
      /\ stack' = stack /\ startTag' = startTag /\ pending' = pending /\ bare' = bare
      /\ encoder' = encoder /\ asked' = asked /\ astray' = astray /\ refused' = refused
  BY <1>4 DEF EndDTD
<1>7. ~startTag /\ ~bare
  BY <1>1, <1>4 DEF Tags, Prolog, Declaring
<1>8. out'.elems = stack' /\ out'.dtd = "out" /\ out'.lex = "text" /\ out'.ok = TRUE
      /\ out' \in [elems : Seq(Name), dtd : {"out", "doctype", "subset"}, lex : Lexical, ok : BOOLEAN]
  BY <1>5, <1>6, Context DEF Doctype, Lexical
<1>9. TypeOK'
  BY <1>1, <1>3, <1>6, <1>8 DEF TypeOK, WriterState
<1>10. StateIsNesting'
  BY <1>6, <1>7, <1>8 DEF StateIsNesting, ContextOf
<1>11. WriteCallsBalance'
  BY <1>3, <1>6, <1>8 DEF WriteCallsBalance, Balanced
<1>12. Tags' /\ Prolog'
  BY <1>1, <1>6, <1>7 DEF Tags, Prolog, Declaring
<1> QED
  BY <1>1, <1>3, <1>6, <1>8, <1>9, <1>10, <1>11, <1>12
     DEF IInv, WellFormed, NothingRefused, DeclaredInItsTag

\* Where a declaration may stand, dtd_child_begin lets it begin.
LEMMA Declarable ==
  ASSUME IInv, InDtd \/ TopLevel
  PROVE  /\ MayDeclare /\ state \in {"None", "DTD", "DTDText"} /\ stack = <<>> /\ ~startTag /\ ~bare
         /\ Subset.elems = stack /\ Subset.lex = "text" /\ Subset.ok = TRUE
         /\ Subset.dtd = IF state = "None" THEN "out" ELSE "subset"
<1>1. state \in {"None", "DTD", "DTDText"} /\ stack = <<>>
  <2>1. CASE InDtd
    <3>1. state \in {"DTD", "DTDText"}
      BY <2>1, Context DEF InDtd, Declaring
    <3> QED
      BY <3>1 DEF IInv, Prolog
  <2>2. CASE TopLevel
    <3>1. stack = <<>> /\ out.lex = "text" /\ out.dtd = "out"
      BY <2>2, Context DEF TopLevel
    <3> QED
      BY <3>1, Context DEF IInv, Tags
  <2> QED
    BY <2>1, <2>2
<1>2. ~startTag /\ ~bare
  BY <1>1 DEF IInv, Tags, Prolog, Declaring
<1>3. MayDeclare
  BY <1>1 DEF MayDeclare
<1>4. /\ out.elems = stack /\ out.ok = TRUE /\ out.lex = "text"
      /\ out.dtd = IF state = "None" THEN "out" ELSE IF state = "DTD" THEN "doctype" ELSE "subset"
  BY <1>1, Context DEF Declaring
<1>5. CASE state = "DTD"
  <2>1. Subset = [elems |-> out.elems, dtd |-> "subset", lex |-> out.lex,
                  ok |-> out.ok /\ out.lex = "text" /\ out.dtd \in {"doctype"}]
    BY <1>5 DEF Subset, Doctype
  <2> QED
    BY <1>1, <1>2, <1>3, <1>4, <1>5, <2>1
<1>6. CASE state # "DTD"
  BY <1>1, <1>2, <1>3, <1>4, <1>6 DEF Subset
<1> QED
  BY <1>5, <1>6

\* A declaration begins, in a document type or bare.
LEMMA DeclarationSafe ==
  ASSUME IInv, NEW R, NEW next, NEW to, NEW e \in Calls \ {"WriteString", "EndElement"},
         \/ next = "DTDElem" /\ to = "element" /\ e = "EndDTDElement"
         \/ next = "DTDAttr" /\ to = "attlist" /\ e = "EndDTDAttlist"
         \/ next = "DTDEntity" /\ to = "entity" /\ e = "EndDTDEntity",
         R \subseteq {<<>>, <<e>>, <<"WriteString", e>>},
         Declaration(R, next, to)
  PROVE  IInv'
<1>1. TypeOK /\ NothingRefused /\ Tags /\ Prolog /\ astray = {}
  BY DEF IInv, DeclaredInItsTag
<1>2. /\ MayDeclare /\ state \in {"None", "DTD", "DTDText"} /\ stack = <<>> /\ ~startTag /\ ~bare
      /\ Subset.elems = stack /\ Subset.lex = "text" /\ Subset.ok = TRUE
      /\ Subset.dtd = IF state = "None" THEN "out" ELSE "subset"
  BY Declarable DEF Declaration
<1>3. /\ out' = Markup(Subset, to) /\ state' = next /\ bare' = (state = "None")
      /\ stack' = stack /\ startTag' = startTag /\ pending' = pending
      /\ encoder' = encoder /\ asked' = asked /\ astray' = astray /\ refused' = refused
  BY <1>2 DEF Declaration
<1>4. /\ out'.elems = stack' /\ out'.lex = to /\ out'.ok = TRUE
      /\ out'.dtd = IF state = "None" THEN "out" ELSE "subset"
      /\ out' \in [elems : Seq(Name), dtd : {"out", "doctype", "subset"}, lex : Lexical, ok : BOOLEAN]
  BY <1>2, <1>3, Context DEF Markup, Lexical
<1>5. rest' \in Seq(Calls) /\ base' \in Int /\ emptyUri' \in BOOLEAN /\ Underway' /\ WriteCallsBalance'
  <2>1. Begin(R, FALSE)
    BY DEF Declaration
  <2>2. Ends(e, state')
    BY <1>3 DEF Ends
  <2>3. e # "EndElement" /\ e \in Calls \ {"WriteString"} /\ FALSE \in BOOLEAN
        /\ Len(stack') = Len(stack) /\ out'.elems = stack'
    BY <1>3, <1>4
  <2> QED
    BY <2>1, <2>2, <2>3, Started
<1>6. TypeOK'
  BY <1>1, <1>3, <1>4, <1>5 DEF TypeOK, WriterState, DtdText
<1>7. StateIsNesting'
  BY <1>2, <1>3, <1>4 DEF StateIsNesting, ContextOf
<1>8. Tags' /\ Prolog'
  BY <1>1, <1>2, <1>3 DEF Tags, Prolog, Declaring
<1> QED
  BY <1>1, <1>3, <1>4, <1>5, <1>6, <1>7, <1>8
     DEF IInv, WellFormed, NothingRefused, DeclaredInItsTag

\* StartDTDElement is such a declaration.
LEMMA StartDTDElementSafe == ASSUME IInv, StartDTDElement PROVE IInv'
<1>1. Declaration({<<>>, <<"WriteString", "EndDTDElement">>}, "DTDElem", "element")
  BY DEF StartDTDElement
<1>2. "EndDTDElement" \in Calls \ {"WriteString", "EndElement"}
  BY DEF Calls
<1>3. {<<>>, <<"WriteString", "EndDTDElement">>}
        \subseteq {<<>>, <<"EndDTDElement">>, <<"WriteString", "EndDTDElement">>}
  OBVIOUS
<1> QED
  BY <1>1, <1>2, <1>3, DeclarationSafe

\* StartDTDAttlist is such a declaration.
LEMMA StartDTDAttlistSafe == ASSUME IInv, StartDTDAttlist PROVE IInv'
<1>1. Declaration({<<>>, <<"WriteString", "EndDTDAttlist">>}, "DTDAttr", "attlist")
  BY DEF StartDTDAttlist
<1>2. "EndDTDAttlist" \in Calls \ {"WriteString", "EndElement"}
  BY DEF Calls
<1>3. {<<>>, <<"WriteString", "EndDTDAttlist">>}
        \subseteq {<<>>, <<"EndDTDAttlist">>, <<"WriteString", "EndDTDAttlist">>}
  OBVIOUS
<1> QED
  BY <1>1, <1>2, <1>3, DeclarationSafe

\* StartDTDEntity is such a declaration.
LEMMA StartDTDEntitySafe == ASSUME IInv, StartDTDEntity PROVE IInv'
<1>1. Declaration({<<>>, <<"WriteString", "EndDTDEntity">>, <<"EndDTDEntity">>}, "DTDEntity", "entity")
  BY DEF StartDTDEntity
<1>2. "EndDTDEntity" \in Calls \ {"WriteString", "EndElement"}
  BY DEF Calls
<1>3. {<<>>, <<"WriteString", "EndDTDEntity">>, <<"EndDTDEntity">>}
        \subseteq {<<>>, <<"EndDTDEntity">>, <<"WriteString", "EndDTDEntity">>}
  OBVIOUS
<1> QED
  BY <1>1, <1>2, <1>3, DeclarationSafe

\* The end of a declaration, back in the subset or to a document without one.
LEMMA EndDeclarationSafe ==
  ASSUME IInv, NEW f \in Calls \ {"WriteString", "EndElement"}, NEW states, NEW from,
         \/ f = "EndDTDElement" /\ states = {"DTDElem", "DTDElemText"} /\ from = {"element"}
         \/ f = "EndDTDAttlist" /\ states = {"DTDAttr", "DTDAttrText"} /\ from = {"attlist"}
         \/ f = "EndDTDEntity" /\ states = {"DTDEntity", "DTDEntityText"}
            /\ from = {"entity", "quoted"},
         EndDeclaration(f, states, from)
  PROVE  IInv'
<1>1. TypeOK /\ NothingRefused /\ Tags /\ Prolog /\ astray = {} /\ bare \in BOOLEAN
  BY DEF IInv, DeclaredInItsTag, TypeOK
<1>2. End(f, states, from, IF bare THEN "None" ELSE "DTDText")
  BY DEF EndDeclaration
<1>3. Call(f, out.lex \in from, state \notin states)
  BY <1>2 DEF End
<1>4. Ends(f, state) => state \in states
  BY DEF Ends
<1>5. /\ rest' = <<>> /\ rest' \in Seq(Calls) /\ base' \in Int /\ emptyUri' \in BOOLEAN /\ Underway'
      /\ (rest = <<>> /\ out.lex \in from) \/ Ends(f, state)
      /\ base' # -1 => Len(stack) = base'
  <2>1. f # "EndElement" /\ f \in Calls \ {"WriteString"} /\ (Ends(f, state) => ~(state \notin states))
    BY <1>4
  <2>2. /\ rest' = <<>> /\ rest' \in Seq(Calls) /\ base' \in Int /\ emptyUri' \in BOOLEAN /\ Underway'
        /\ (rest = <<>> /\ out.lex \in from) \/ Ends(f, state)
        /\ base' # -1 => Len(stack) = IF f = "EndElement" THEN base' + 1 ELSE base'
    BY <1>3, <2>1, Ended
  <2> QED
    BY <2>1, <2>2
<1>6. state \in states
  BY <1>4, <1>5, Context
<1>7. state \in Declaring
  BY <1>6 DEF Declaring
<1>8. out.lex \in from /\ out.elems = stack /\ out.ok = TRUE
      /\ out.dtd = IF bare THEN "out" ELSE "subset"
  BY <1>1, <1>6, <1>7, Context DEF Declaring
<1>9. /\ out' = Lex(out, from, "text") /\ state' = (IF bare THEN "None" ELSE "DTDText")
      /\ bare' = FALSE /\ stack' = stack /\ startTag' = startTag /\ pending' = pending
      /\ encoder' = encoder /\ asked' = asked /\ astray' = astray /\ refused' = refused
  BY <1>2, <1>6 DEF End, EndDeclaration
<1>10. stack = <<>> /\ ~startTag
  BY <1>1, <1>7 DEF Tags, Prolog, Declaring
<1>11. /\ out'.elems = stack' /\ out'.lex = "text" /\ out'.ok = TRUE
       /\ out'.dtd = IF bare THEN "out" ELSE "subset"
       /\ out' \in [elems : Seq(Name), dtd : {"out", "doctype", "subset"}, lex : Lexical, ok : BOOLEAN]
  BY <1>8, <1>9, Context DEF Lex, Lexical
<1>12. TypeOK'
  BY <1>1, <1>5, <1>9, <1>11 DEF TypeOK, WriterState, DtdText
<1>13. StateIsNesting'
  BY <1>1, <1>9, <1>10, <1>11 DEF StateIsNesting, ContextOf
<1>14. WriteCallsBalance'
  BY <1>5, <1>9, <1>11 DEF WriteCallsBalance, Balanced
<1>15. Tags' /\ Prolog'
  BY <1>1, <1>9, <1>10 DEF Tags, Prolog, Declaring
<1> QED
  BY <1>1, <1>5, <1>9, <1>11, <1>12, <1>13, <1>14, <1>15
     DEF IInv, WellFormed, NothingRefused, DeclaredInItsTag

\* A notation is written whole.
LEMMA WriteDTDNotationSafe ==
  ASSUME IInv, WriteDTDNotation
  PROVE  IInv'
<1>1. TypeOK /\ NothingRefused /\ Tags /\ Prolog /\ astray = {}
  BY DEF IInv, DeclaredInItsTag
<1>2. state \in {"DTD", "DTDText"}
  BY Context DEF WriteDTDNotation, InDtd, Declaring
<1>3. /\ stack = <<>> /\ ~startTag /\ ~bare
      /\ Subset.elems = stack /\ Subset.lex = "text" /\ Subset.ok = TRUE /\ Subset.dtd = "subset"
  BY <1>2, Declarable DEF WriteDTDNotation
<1>4. /\ out' = Markup(Subset, "text") /\ state' = "DTDText"
      /\ stack' = stack /\ startTag' = startTag /\ pending' = pending /\ bare' = bare
      /\ encoder' = encoder /\ asked' = asked /\ astray' = astray /\ refused' = refused
  BY <1>2 DEF WriteDTDNotation
<1>5. /\ out'.elems = stack' /\ out'.lex = "text" /\ out'.ok = TRUE /\ out'.dtd = "subset"
      /\ out' \in [elems : Seq(Name), dtd : {"out", "doctype", "subset"}, lex : Lexical, ok : BOOLEAN]
  BY <1>3, <1>4, Context DEF Markup, Lexical
<1>6. rest' \in Seq(Calls) /\ base' \in Int /\ emptyUri' \in BOOLEAN /\ Underway' /\ WriteCallsBalance'
  BY Plain DEF WriteDTDNotation
<1>7. TypeOK'
  BY <1>1, <1>4, <1>5, <1>6 DEF TypeOK, WriterState, DtdText
<1>8. StateIsNesting'
  BY <1>3, <1>4, <1>5 DEF StateIsNesting, ContextOf
<1>9. Tags' /\ Prolog'
  BY <1>1, <1>3, <1>4 DEF Tags, Prolog, Declaring
<1> QED
  BY <1>1, <1>4, <1>5, <1>6, <1>7, <1>8, <1>9
     DEF IInv, WellFormed, NothingRefused, DeclaredInItsTag

\* The invariant holds of a new writer.
LEMMA InitSafe == Init => IInv
<1> SUFFICES ASSUME Init PROVE IInv
  OBVIOUS
<1>1. <<>> \in Seq(Name) /\ <<>> \in Seq(Calls)
  BY EmptySeq
<1>2. TypeOK
  <2>1. out \in [elems : Seq(Name), dtd : {"out", "doctype", "subset"}, lex : Lexical, ok : BOOLEAN]
    BY <1>1 DEF Init, Lexical
  <2>2. state \in WriterState /\ stack \in Seq(Name) /\ rest \in Seq(Calls) /\ base \in Int
    BY <1>1 DEF Init, WriterState
  <2> QED
    BY <2>1, <2>2 DEF Init, TypeOK
<1>3. StateIsNesting
  BY DEF Init, StateIsNesting, ContextOf
<1> QED
  BY <1>2, <1>3 DEF Init, IInv, WellFormed, NothingRefused, DeclaredInItsTag, WriteCallsBalance,
     Tags, Prolog, Declaring, Underway

\* It is inductive.
LEMMA StepSafe ==
  ASSUME Careful, IInv, [Next]_vars
  PROVE  IInv'
<1>1. CASE UNCHANGED vars
  BY <1>1 DEF vars, fields, IInv, TypeOK, WellFormed, StateIsNesting, NothingRefused, DeclaredInItsTag,
     WriteCallsBalance, Balanced, LeftBegun, Tags, Prolog, Underway
<1>2. CASE Elements
  <2>1. CASE \E n \in Name, D \in {{}} \cup {{d} : d \in Decl} : StartElement(n, D)
    <3>1. PICK n \in Name, D \in SUBSET Decl : StartElement(n, D)
      BY <2>1
    <3> QED
      BY <3>1, StartElementSafe
  <2>2. CASE EndElement
    BY <2>2, EndElementSafe
  <2>3. CASE FullEndElement
    BY <2>3, FullEndElementSafe
  <2>4. CASE \E D \in {{}} \cup {{d} : d \in Decl} : WriteAttribute(D) \/ StartAttribute(D)
    <3>1. PICK D \in SUBSET Decl : WriteAttribute(D) \/ StartAttribute(D)
      BY <2>4
    <3>2. Attribute(D, "Element", "tag") \/ Attribute(D, "Attribute", "value")
      BY <3>1 DEF WriteAttribute, StartAttribute
    <3>3. CASE Attribute(D, "Element", "tag")
      BY <3>1, <3>3, AttributeSafe
    <3>4. CASE Attribute(D, "Attribute", "value")
      BY <3>1, <3>4, AttributeSafe
    <3> QED
      BY <3>2, <3>3, <3>4
  <2>5. CASE EndAttribute
    BY <2>5, EndAttributeSafe
  <2> QED
    BY <1>2, <2>1, <2>2, <2>3, <2>4, <2>5 DEF Elements
<1>3. CASE Contents
  <2>1. CASE EndCDATA
    <3>1. End("EndCDATA", {"CData"}, {"cdata"}, "None") /\ bare' = bare
      BY <2>1 DEF EndCDATA
    <3>2. "EndCDATA" \in Calls \ {"WriteString", "EndElement"}
      BY DEF Calls
    <3> QED
      BY <3>1, <3>2, EndSafe
  <2>2. CASE EndComment
    <3>1. End("EndComment", {"Comment"}, {"comment"}, "None") /\ bare' = bare
      BY <2>2 DEF EndComment
    <3>2. "EndComment" \in Calls \ {"WriteString", "EndElement"}
      BY DEF Calls
    <3> QED
      BY <3>1, <3>2, EndSafe
  <2>3. CASE EndPI
    <3>1. End("EndPI", {"PI"}, {"pi"}, "None") /\ bare' = bare
      BY <2>3 DEF EndPI
    <3>2. "EndPI" \in Calls \ {"WriteString", "EndElement"}
      BY DEF Calls
    <3> QED
      BY <3>1, <3>2, EndSafe
  <2> QED
    BY <1>3, <2>1, <2>2, <2>3, WriteStringSafe, WriteEncodedSafe, StartCDATASafe, StartCommentSafe,
       StartPISafe DEF Contents
<1>4. CASE Dtd
  <2>1. CASE EndDTDElement
    <3>1. EndDeclaration("EndDTDElement", {"DTDElem", "DTDElemText"}, {"element"})
      BY <2>1 DEF EndDTDElement
    <3>2. "EndDTDElement" \in Calls \ {"WriteString", "EndElement"}
      BY DEF Calls
    <3> QED
      BY <3>1, <3>2, EndDeclarationSafe
  <2>2. CASE EndDTDAttlist
    <3>1. EndDeclaration("EndDTDAttlist", {"DTDAttr", "DTDAttrText"}, {"attlist"})
      BY <2>2 DEF EndDTDAttlist
    <3>2. "EndDTDAttlist" \in Calls \ {"WriteString", "EndElement"}
      BY DEF Calls
    <3> QED
      BY <3>1, <3>2, EndDeclarationSafe
  <2>3. CASE EndDTDEntity
    <3>1. EndDeclaration("EndDTDEntity", {"DTDEntity", "DTDEntityText"}, {"entity", "quoted"})
      BY <2>3 DEF EndDTDEntity
    <3>2. "EndDTDEntity" \in Calls \ {"WriteString", "EndElement"}
      BY DEF Calls
    <3> QED
      BY <3>1, <3>2, EndDeclarationSafe
  <2> QED
    BY <1>4, <2>1, <2>2, <2>3, StartDTDSafe, EndDTDSafe, WriteDTDNotationSafe, StartDTDElementSafe,
       StartDTDAttlistSafe, StartDTDEntitySafe DEF Dtd
<1>5. CASE EndDocument
  BY <1>5, EndDocumentSafe
<1>6. CASE \E e \in BOOLEAN : StartDocument(e)
  BY <1>6, StartDocumentSafe
<1> QED
  BY <1>1, <1>2, <1>3, <1>4, <1>5, <1>6 DEF Next

\* It holds throughout.
LEMMA AlwaysSafe == ASSUME Careful PROVE Spec => []IInv
  BY InitSafe, StepSafe, PTL DEF Spec

\* The fields of the writer keep their types.
THEOREM TypeCorrect == ASSUME Careful PROVE Spec => []TypeOK
<1>1. IInv => TypeOK
  BY DEF IInv
<1> QED
  BY <1>1, AlwaysSafe, PTL

\* Whatever XML allows the application to write next, for every set of names
\* and declarations and every depth, the text written is one that XML allows:
\* the calls of mod.rs tell from one flat state what is open.
THEOREM AlwaysWellFormed == ASSUME Careful PROVE Spec => []WellFormed
<1>1. IInv => WellFormed
  BY DEF IInv
<1> QED
  BY <1>1, AlwaysSafe, PTL

\* The flat state and the names are what is open in the text.
THEOREM AlwaysNested == ASSUME Careful PROVE Spec => []StateIsNesting
<1>1. IInv => StateIsNesting
  BY DEF IInv
<1> QED
  BY <1>1, AlwaysSafe, PTL

\* No call that XML allows is refused with -1.
THEOREM NeverRefused == ASSUME Careful PROVE Spec => []NothingRefused
<1>1. IInv => NothingRefused
  BY DEF IInv
<1> QED
  BY <1>1, AlwaysSafe, PTL

\* Each namespace declaration is written in the tag it was asked for, when no
\* element with declarations waiting is ended by FullEndElement.
THEOREM AlwaysDeclared == ASSUME Careful PROVE Spec => []DeclaredInItsTag
<1>1. IInv => DeclaredInItsTag
  BY DEF IInv
<1> QED
  BY <1>1, AlwaysSafe, PTL

\* A Write call leaves open what was open before it, with or without an encoder
\* or a write callback, unless it closed a tag with an empty URI: then the count
\* may have passed for an error, and just what the call began is still open.
THEOREM AlwaysBalanced == ASSUME Careful PROVE Spec => []WriteCallsBalance
<1>1. IInv => WriteCallsBalance
  BY DEF IInv
<1> QED
  BY <1>1, AlwaysSafe, PTL

=============================================================================
