------------------------------ MODULE PushDriver ------------------------------
(***************************************************************************)
(* The persistent push driver: xmlParseChunk on a context that keeps one   *)
(* parser alive between calls (push_persistent, drive_persistent, the      *)
(* step_* states and the terminate block of pushdrive.rs).                 *)
(*                                                                         *)
(* The stream is a sequence of cells.  A cell is as much of a construct as *)
(* one of the driver's availability gates tells apart: of `<a b="c">', the *)
(* `<', the rest up to the terminator, and the terminator.  The caller     *)
(* hands cells over in chunks of any size, says on each call whether it is *)
(* the last, and its callbacks may call xmlStopParser.  One action is one  *)
(* iteration of the driver's loop, or the terminate block.  The lookups    *)
(* answer whether a construct was received whole; PushLookup and           *)
(* PushSubset show that they do.                                           *)
(***************************************************************************)
EXTENDS Integers, Sequences

CONSTANTS
  Docs,       \* the streams considered, sequences of cells
  Names,      \* element names
  Detect,     \* cells needed before the encoding is decided (four bytes)
  Big,        \* XML_PARSER_BIG_BUFFER_SIZE, in cells
  Stops       \* whether a callback may call xmlStopParser

Fault == {"no",      \* nothing wrong
          "scan",    \* a fatal diagnostic, though a token is produced
          "name",    \* a start tag whose name does not parse
          "ns"}      \* a namespace error: not fatal, but recorded in errNo

Kind == {"decl", "open", "empty", "close", "text", "ws", "pi", "comment",
         "cdata", "ref", "doctype", "dtdhead", "subset",
         "half", "badunit"}   \* the last two: source units that do not decode

Construct == [k : Kind, nm : Names, bad : Fault]

Size(k) == CASE k \in {"text", "ws", "half", "badunit"} -> 1
             [] k \in {"ref", "dtdhead", "subset"}      -> 2
             [] OTHER                                   -> 3

Cell == [con : Construct, part : 1 .. 3]

ASSUME DriverAssumption ==
  /\ Docs \subseteq Seq(Cell)
  /\ Detect \in Nat \ {0}
  /\ Big \in Nat \ {0}
  /\ Stops \in BOOLEAN

VARIABLES
  doc,        \* the whole stream
  recv,       \* cells handed over by the caller
  have,       \* cells materialized, the scanner's end of input
  truncated,  \* source_truncated: the final call left an incomplete unit
  pos,        \* cells consumed
  phase,      \* PushMachine.phase
  open,       \* PushMachine.open_elements, outermost first
  startDoc, endDoc,      \* start_document_fired, end_document_fired
  fatal,      \* PushMachine.fatal
  c,          \* the context: disableSAX, errNo, wellFormed, and the SAX log
  pc, term,   \* inside a call: which part of it, and its `terminate' flag
  ret         \* what the last call returned (PushProgress)

vars == <<doc, recv, have, truncated, pos, phase, open, startDoc, endDoc,
          fatal, c, pc, term, ret>>

Phase == {"START", "XML_DECL", "MISC", "PROLOG", "DTD", "START_TAG",
          "CONTENT", "END_TAG", "EPILOG", "EOF"}

ErrNo == {"ok", "fatal", "ns", "stop"}
Event == {"startDocument", "endDocument", "start", "end", "text", "pi",
          "comment", "cdata", "ref", "internalSubset", "externalSubset",
          "error", "fatal"}

----------------------------------------------------------------------------
(* The context.                                                            *)

E(ev, nm) == [ev |-> ev, nm |-> nm]
Leaf(ev) == E(ev, "")

\* A context: disableSAX, errNo, wellFormed, and the log.
Ctxt(d, e, w, l) == [disableSAX |-> d, errNo |-> e, wellFormed |-> w, log |-> l]

\* raise_parser_error at the fatal level, no recovery, no probe
RaiseFatal(x) == Ctxt(1, "fatal", FALSE, Append(x.log, Leaf("fatal")))

\* raise_parser_error at the error level
RaiseError(x) ==
  Ctxt(x.disableSAX, "ns", x.wellFormed, Append(x.log, Leaf("error")))

\* xmlStopParser, called with log l
Stopped(x, l) == IF x.errNo = "ok" THEN Ctxt(2, "stop", FALSE, l)
                                   ELSE Ctxt(2, x.errNo, x.wellFormed, l)

\* A fault: the callbacks are not gated by disableSAX.
Deliver_Ungated(x, evs, s) ==
  IF s = 0 THEN Ctxt(x.disableSAX, x.errNo, x.wellFormed, x.log \o evs)
  ELSE Stopped(x, x.log \o SubSeq(evs, 1, s))

\* The callbacks of one step: gated by sax_blocked, and the application may
\* stop the parser inside the s-th (s = 0: it does not).
Deliver(x, evs, s) ==
  IF x.disableSAX # 0 THEN x
  ELSE IF s = 0 THEN Ctxt(0, x.errNo, x.wellFormed, x.log \o evs)
  ELSE Stopped(x, x.log \o SubSeq(evs, 1, s))

StopPoints(evs) == IF Stops THEN 0 .. Len(evs) ELSE {0}

\* finish_document: endDocument, once, whatever disableSAX says
Finished(x) == IF endDoc THEN x
               ELSE Ctxt(x.disableSAX, x.errNo, x.wellFormed,
                         Append(x.log, Leaf("endDocument")))

----------------------------------------------------------------------------
(* The cursor.                                                             *)

Avail == have - pos
Cur == doc[pos + 1].con
Whole == Avail >= Size(Cur.k)

IsText(k) == k \in {"text", "ws"}
IsMarkup(k) == k \notin {"text", "ws", "ref"}        \* begins with `<'

\* A fault: a run is recognized and nothing of it consumed.
RunEnds_Empty(e, kinds) == e = pos

\* e is the end of the run of cells of some kinds that begins at the cursor.
RunEnds(e, kinds) ==
  /\ \A i \in pos + 1 .. e : doc[i].con.k \in kinds
  /\ e < have => doc[e + 1].con.k \notin kinds

----------------------------------------------------------------------------
(* How an iteration ends.                                                  *)

Return(r) == pc' = "idle" /\ ret' = r

\* StepOutcome::Advanced
Advance == UNCHANGED <<fatal, pc, ret>>

\* StepOutcome::Fatal and Unsupported: mark_fatal, and skip the terminate block
Fail == fatal' = TRUE /\ Return("fatal")

\* The loop is left without a fatal (Parked, Complete, no more input).
Progress == IF phase # "EOF" THEN "need"
            ELSE IF Avail = 0 THEN "complete" ELSE "await"

\* Faults: the terminate block is forgotten, and it runs on every call.
Leave_IgnoresTerm == /\ Return(Progress)
                     /\ UNCHANGED <<pos, phase, open, startDoc, endDoc, fatal, c>>
Leave_AlwaysTerminates ==
  /\ pc' = "final" /\ UNCHANGED ret
  /\ UNCHANGED <<pos, phase, open, startDoc, endDoc, fatal, c>>

Leave == /\ IF term THEN pc' = "final" /\ UNCHANGED ret ELSE Return(Progress)
         /\ UNCHANGED <<pos, phase, open, startDoc, endDoc, fatal, c>>

Input == <<doc, recv, have, truncated, term>>

\* A fault: the document is finished but the phase is not moved.
EndAt_KeepsPhase(x) == phase' = phase /\ c' = Finished(x) /\ endDoc' = TRUE

\* set_phase(EOF); finish_document
EndAt(x) == phase' = "EOF" /\ c' = Finished(x) /\ endDoc' = TRUE

Live == pc = "loop" /\ ~fatal /\ c.disableSAX = 0
InPhase(ps) == Live /\ phase \in ps /\ Avail > 0

\* A fault: the end of the root is not noticed.
AfterTag_AlwaysContent(stack) == "CONTENT"

\* The phase after a tag: on the outermost level the document is over.
AfterTag(stack) == IF stack = <<>> THEN "EPILOG" ELSE "CONTENT"

----------------------------------------------------------------------------
Init == /\ doc \in Docs
        /\ recv = 0 /\ have = 0 /\ truncated = FALSE /\ pos = 0
        /\ phase = "START" /\ open = <<>>
        /\ startDoc = FALSE /\ endDoc = FALSE /\ fatal = FALSE
        /\ c = Ctxt(0, "ok", TRUE, <<>>)
        /\ pc = "idle" /\ term = FALSE /\ ret = "none"

\* What the decoder has materialized once n cells were received.
Decoded(n, t) ==
  IF have = 0 /\ n < Detect /\ ~t THEN 0
  ELSE IF n > 0 /\ doc[n].con.k \in {"half", "badunit"} THEN n - 1 ELSE n

\* source_encoding_error: a decided source holds a definitely invalid unit
Invalid(n, t) == /\ n > 0 /\ doc[n].con.k = "badunit"
                 /\ n >= Detect \/ t \/ have > 0

\* xmlParseChunk, accepted
Chunk == /\ pc = "idle" /\ c.disableSAX = 0 /\ ~fatal
         /\ \E n \in recv .. Len(doc), t \in BOOLEAN :
               /\ ~Invalid(n, t)
               /\ recv' = n /\ term' = t
               /\ have' = Decoded(n, t)
               /\ truncated' = (t /\ n > 0 /\ doc[n].con.k = "half")
         /\ pc' = "loop"
         /\ UNCHANGED <<doc, pos, phase, open, startDoc, endDoc, fatal, c, ret>>

\* xmlParseChunk, when the decoder meets a unit that is definitely invalid:
\* reported before anything that this chunk brought is parsed
ChunkInvalid == /\ pc = "idle" /\ c.disableSAX = 0 /\ ~fatal
                /\ \E n \in recv .. Len(doc), t \in BOOLEAN :
                      /\ Invalid(n, t)
                      /\ recv' = n /\ term' = t
                      /\ have' = Decoded(n, t)
                /\ phase' = IF phase = "START" THEN "XML_DECL" ELSE phase
                /\ c' = RaiseFatal(c)
                /\ Fail
                /\ UNCHANGED <<doc, truncated, pos, open, startDoc, endDoc>>

\* xmlParseChunk once disableSAX is set: the recorded errNo, and nothing else
Refuse == /\ pc = "idle" /\ c.disableSAX # 0
          /\ Return("refused")
          /\ UNCHANGED <<doc, recv, have, truncated, pos, phase, open, startDoc,
                         endDoc, fatal, c, term>>

\* The loop's own checks.
Latch == /\ pc = "loop" /\ (fatal \/ c.disableSAX # 0)
         /\ Fail
         /\ UNCHANGED <<Input, pos, phase, open, startDoc, endDoc, c>>

Exhausted == /\ Live /\ (phase = "EOF" \/ Avail = 0)
             /\ Leave /\ UNCHANGED Input

----------------------------------------------------------------------------
(* The phases.                                                             *)

StepStart == /\ InPhase({"START"})
             /\ phase' = "XML_DECL"
             /\ Advance
             /\ UNCHANGED <<Input, pos, open, startDoc, endDoc, c>>

\* A fault: a lone `<' is taken for a construct.
Undecided_Never == FALSE

\* `<' or `<!' alone says nothing yet: the avail gates shared by the phases
Undecided == IsMarkup(Cur.k) /\ Avail < 2

XmlDeclPark == /\ InPhase({"XML_DECL"}) /\ ~term
               /\ \/ Avail < 2
                  \/ Cur.k \in {"decl", "pi"} /\ ~Whole
               /\ Leave /\ UNCHANGED Input

StepXmlDecl ==
  /\ InPhase({"XML_DECL"})
  /\ term \/ (Avail >= 2 /\ (Cur.k \in {"decl", "pi"} => Whole))
  /\ LET isDecl == Cur.k = "decl" /\ Avail >= 2
         x == IF isDecl /\ (~Whole \/ Cur.bad = "scan") THEN RaiseFatal(c)
                                                        ELSE c
     IN  /\ pos' = IF ~isDecl THEN pos
                   ELSE IF Whole THEN pos + Size("decl") ELSE have
         /\ \E s \in StopPoints(<<Leaf("startDocument")>>) :
               c' = Deliver(x, <<Leaf("startDocument")>>, s)
  /\ startDoc' = TRUE
  /\ phase' = "MISC"
  /\ IF c'.disableSAX # 0 THEN Fail ELSE Advance
  /\ UNCHANGED <<Input, open, endDoc>>

Misc == {"MISC", "PROLOG", "EPILOG"}

SkipBlanks == /\ InPhase(Misc) /\ Cur.k = "ws"
              /\ \E e \in pos .. have : RunEnds(e, {"ws"}) /\ pos' = e
              /\ Advance
              /\ UNCHANGED <<Input, phase, open, startDoc, endDoc, c>>

\* The constructs that MISC and CONTENT scan where they stand.  A declaration
\* past the start is read as an instruction, whose target is reserved.
Inline(p) == IF p = "CONTENT" THEN {"decl", "pi", "comment", "cdata"}
                              ELSE {"decl", "pi", "comment"}

InlineEvent(k) == Leaf(IF k = "decl" THEN "pi" ELSE k)

Doctype == phase = "MISC" /\ Cur.k \in {"doctype", "dtdhead"}

\* lookup_gt on a DOCTYPE finds the first `>', which for one with an internal
\* subset is inside the subset.
DoctypeReady == Avail >= 3

MiscPark == /\ InPhase(Misc) /\ ~term
            /\ \/ Undecided
               \/ Cur.k \in Inline(phase) /\ ~Whole
               \/ Doctype /\ ~DoctypeReady
            /\ Leave /\ UNCHANGED Input

ContentPark == /\ InPhase({"CONTENT"}) /\ ~term
               /\ \/ Undecided
                  \/ Cur.k \in Inline(phase) \cup {"ref"} /\ ~Whole
                  \/ /\ IsText(Cur.k)
                     /\ Avail < Big
                     /\ RunEnds(have, {"text", "ws"})
               /\ Leave /\ UNCHANGED Input

\* scan_pi, scan_comment, scan_cdata.  Cut off by the end of the document, or
\* at a reserved target, the scan records a fatal first, which suppresses the
\* event.
ScanInline ==
  /\ InPhase(Misc \cup {"CONTENT"}) /\ Cur.k \in Inline(phase)
  /\ IF term THEN Avail >= 2 ELSE Whole
  /\ LET x == IF ~Whole \/ Cur.bad = "scan" \/ Cur.k = "decl"
              THEN RaiseFatal(c) ELSE c
     IN  \E s \in StopPoints(<<InlineEvent(Cur.k)>>) :
            c' = Deliver(x, <<InlineEvent(Cur.k)>>, s)
  /\ pos' = IF Whole THEN pos + Size(Cur.k) ELSE have
  /\ Advance
  /\ UNCHANGED <<Input, phase, open, startDoc, endDoc>>

\* step_doctype_decl, without an internal subset
StepDoctype ==
  /\ InPhase({"MISC"}) /\ Cur.k = "doctype"
  /\ IF term THEN Avail >= 2 ELSE DoctypeReady
  /\ LET x == IF Whole THEN c ELSE RaiseFatal(c)
         evs == <<Leaf("internalSubset"), Leaf("externalSubset")>>
     IN  \E s \in StopPoints(evs) : c' = Deliver(x, evs, s)
  /\ pos' = IF Whole THEN pos + Size(Cur.k) ELSE have
  /\ phase' = "PROLOG"
  /\ Advance
  /\ UNCHANGED <<Input, open, startDoc, endDoc>>

\* step_doctype_decl, up to the `[' of an internal subset; cut off before it,
\* the head is a DOCTYPE that is not finished
StepDoctypeHead ==
  /\ InPhase({"MISC"}) /\ Cur.k = "dtdhead"
  /\ IF term THEN Avail >= 2 ELSE DoctypeReady
  /\ LET x == IF Avail >= 3 THEN c ELSE RaiseFatal(c)
     IN  \E s \in StopPoints(<<Leaf("internalSubset")>>) :
            c' = Deliver(x, <<Leaf("internalSubset")>>, s)
  /\ pos' = pos + Size(Cur.k)
  /\ phase' = IF Avail >= 3 THEN "DTD" ELSE "PROLOG"
  /\ Advance
  /\ UNCHANGED <<Input, open, startDoc, endDoc>>

SubsetPark == /\ InPhase({"DTD"}) /\ ~term /\ ~Whole
              /\ Leave /\ UNCHANGED Input

\* step_doctype_subset
StepSubset ==
  /\ InPhase({"DTD"}) /\ (term \/ Whole)
  /\ phase' = "PROLOG"
  /\ pos' = IF Whole THEN pos + Size(Cur.k) ELSE have
  /\ IF Whole /\ Cur.bad = "no"
     THEN /\ \E s \in StopPoints(<<Leaf("externalSubset")>>) :
                c' = Deliver(c, <<Leaf("externalSubset")>>, s)
          /\ Advance
     ELSE c' = RaiseFatal(c) /\ Fail
  /\ UNCHANGED <<Input, open, startDoc, endDoc>>

\* The tail of step_misc: nothing that belongs here.
Unrecognized == /\ Cur.k # "ws"
                /\ term \/ ~Undecided
                /\ Cur.k \in Inline(phase) => Avail < 2
                /\ Doctype => Avail < 2

MiscTail == /\ InPhase({"MISC", "PROLOG"}) /\ Unrecognized
            /\ phase' = "START_TAG"
            /\ Advance
            /\ UNCHANGED <<Input, pos, open, startDoc, endDoc, c>>

\* A fault: unread input is not reported.
EofCheck_IgnoresUnread == IF c.errNo = "ok" /\ truncated THEN RaiseFatal(c) ELSE c

\* check_eof: extra content, then an incomplete source unit; only while the
\* context is free of errors
EofCheck == IF c.errNo # "ok" THEN c
            ELSE IF Avail > 0 \/ truncated THEN RaiseFatal(c) ELSE c

EpilogTail == /\ InPhase({"EPILOG"}) /\ Unrecognized
              /\ EndAt(EofCheck)
              /\ fatal' = (EofCheck # c)
              /\ UNCHANGED <<Input, pos, open, startDoc, pc, ret>>

----------------------------------------------------------------------------
(* Start tags.                                                             *)

StartTagPark == /\ InPhase({"START_TAG"}) /\ ~term
                /\ \/ Avail < 2
                   \/ IsMarkup(Cur.k) /\ Avail < 3
                /\ Leave /\ UNCHANGED Input

\* lookup_gt: the first `>' of whatever begins with this `<'
TagReady == /\ InPhase({"START_TAG"})
            /\ term \/ (Avail >= 2 /\ (IsMarkup(Cur.k) => Avail >= 3))

\* "Start tag expected, '<' not found"
NotATag == /\ TagReady /\ ~IsMarkup(Cur.k)
           /\ EndAt(RaiseFatal(c))
           /\ Fail
           /\ UNCHANGED <<Input, pos, open, startDoc>>

\* Not a name after `<', or a DOCTYPE where none may stand: NAME_REQUIRED,
\* with the cursor put back one byte past the `<'.
NotAName == \/ Avail < 2
            \/ Cur.k \in {"doctype", "dtdhead"}
            \/ Cur.k \in {"open", "empty"} /\ Cur.bad = "name"
BadName == /\ TagReady /\ IsMarkup(Cur.k) /\ NotAName
           /\ EndAt(RaiseFatal(c))
           /\ pos' = pos + 1
           /\ Fail
           /\ UNCHANGED <<Input, open, startDoc>>

\* A token that is no start tag at all (`</a>', a CDATA section): unsupported.
WrongToken == /\ TagReady /\ ~NotAName
              /\ Cur.k \notin {"open", "empty"} /\ IsMarkup(Cur.k)
              /\ EndAt(RaiseFatal(c))
              /\ pos' = IF Whole THEN pos + Size(Cur.k) ELSE have
              /\ Fail
              /\ UNCHANGED <<Input, open, startDoc>>

\* What scanning the tag's inside reports before the start event.
Scanned == CASE Cur.bad = "scan" -> RaiseFatal(c)
             [] Cur.bad = "ns"   -> RaiseError(c)
             [] OTHER            -> c

\* A tag the document ends in: the start event fires, then GT_REQUIRED; the
\* element is not opened.
CutTag == /\ TagReady /\ Cur.k \in {"open", "empty"} /\ ~NotAName /\ ~Whole
          /\ LET evs == <<E("start", Cur.nm)>>
             IN  \E s \in StopPoints(evs) : c' = RaiseFatal(Deliver(Scanned, evs, s))
          /\ pos' = have
          /\ phase' = AfterTag(open)
          /\ Fail
          /\ UNCHANGED <<Input, open, startDoc, endDoc>>

OpenTag == /\ TagReady /\ Cur.k = "open" /\ ~NotAName /\ Whole
           /\ LET evs == <<E("start", Cur.nm)>>
              IN  \E s \in StopPoints(evs) : c' = Deliver(Scanned, evs, s)
           /\ pos' = pos + Size(Cur.k)
           /\ open' = Append(open, Cur.nm)
           /\ phase' = "CONTENT"
           /\ Advance
           /\ UNCHANGED <<Input, startDoc, endDoc>>

EmptyTag == /\ TagReady /\ Cur.k = "empty" /\ ~NotAName /\ Whole
            /\ LET evs == <<E("start", Cur.nm), E("end", Cur.nm)>>
               IN  \E s \in StopPoints(evs) : c' = Deliver(Scanned, evs, s)
            /\ pos' = pos + Size(Cur.k)
            /\ phase' = AfterTag(open)
            /\ Advance
            /\ UNCHANGED <<Input, open, startDoc, endDoc>>

----------------------------------------------------------------------------
(* Content and end tags.                                                   *)

ContentTag == /\ InPhase({"CONTENT"}) /\ IsMarkup(Cur.k)
              /\ term \/ Avail >= 2
              /\ Cur.k \in Inline(phase) => Avail < 2
              /\ phase' = IF Cur.k = "close" /\ Avail >= 2 THEN "END_TAG"
                                                          ELSE "START_TAG"
              /\ Advance
              /\ UNCHANGED <<Input, pos, open, startDoc, endDoc, c>>

\* The `&' arm: a reference that fails leaves the phase alone.
Reference == /\ InPhase({"CONTENT"}) /\ Cur.k = "ref" /\ (term \/ Whole)
             /\ pos' = IF Whole THEN pos + Size("ref") ELSE have
             /\ IF Whole /\ Cur.bad = "no"
                THEN /\ \E s \in StopPoints(<<Leaf("ref")>>) :
                           c' = Deliver(c, <<Leaf("ref")>>, s)
                     /\ Advance
                ELSE c' = RaiseFatal(c) /\ Fail
             /\ UNCHANGED <<Input, phase, open, startDoc, endDoc>>

\* scan_char_data: everything received up to the next `<' or `&'.  A fault in
\* the run (`]]>') is raised at once, and suppresses the text before it that
\* was not flushed yet (PushCharData says when that is).
TextEvents(n) == [i \in 1 .. n |-> Leaf("text")]
Sound(from, to) == \A i \in from + 1 .. to : doc[i].con.bad = "no"
CharData ==
  /\ InPhase({"CONTENT"}) /\ IsText(Cur.k)
  /\ \E e \in pos .. have :
        /\ RunEnds(e, {"text", "ws"})
        /\ term \/ Avail >= Big \/ e < have
        /\ pos' = e
        /\ \/ /\ Sound(pos, e)
              /\ \E s \in StopPoints(TextEvents(e - pos)) :
                    c' = Deliver(c, TextEvents(e - pos), s)
           \/ \E f \in pos .. e - 1 :      \* the first fault
                 /\ Sound(pos, f) /\ ~Sound(pos, f + 1)
                 /\ \E g \in pos .. f : \E s \in StopPoints(TextEvents(g - pos)) :
                       c' = RaiseFatal(Deliver(c, TextEvents(g - pos), s))
  /\ Advance
  /\ UNCHANGED <<Input, phase, open, startDoc, endDoc>>

EndTagPark == /\ InPhase({"END_TAG"}) /\ ~term /\ ~Whole
              /\ Leave /\ UNCHANGED Input

\* The element is closed even when the tag does not match.  An end tag with
\* no open element is "unsupported".
EndTag ==
  /\ InPhase({"END_TAG"}) /\ (term \/ Whole)
  /\ pos' = IF Whole THEN pos + Size(Cur.k) ELSE have
  /\ IF open = <<>>
     THEN EndAt(RaiseFatal(c)) /\ Fail /\ UNCHANGED open
     ELSE LET top == open[Len(open)]
              x == IF Whole THEN c ELSE RaiseFatal(c)
              y == IF Cur.nm = top THEN x ELSE RaiseFatal(x)
              evs == <<E("end", top)>>
          IN  /\ \E s \in StopPoints(evs) : c' = Deliver(y, evs, s)
              /\ open' = SubSeq(open, 1, Len(open) - 1)
              /\ phase' = AfterTag(open')
              /\ Advance
              /\ UNCHANGED endDoc
  /\ UNCHANGED <<Input, startDoc>>

----------------------------------------------------------------------------
\* terminate_document
Terminate ==
  /\ pc = "final"
  /\ LET x == IF phase \in {"EOF", "EPILOG"} THEN EofCheck ELSE RaiseFatal(c)
     IN  /\ IF phase # "EOF" THEN EndAt(x)
                             ELSE c' = x /\ UNCHANGED <<phase, endDoc>>
         /\ fatal' = (x # c)
         /\ Return(IF x # c THEN "fatal"
                   ELSE IF Avail = 0 THEN "complete" ELSE "await")
  /\ UNCHANGED <<Input, pos, open, startDoc>>

Step == \/ StepStart \/ XmlDeclPark \/ StepXmlDecl
        \/ SkipBlanks \/ MiscPark \/ ScanInline
        \/ StepDoctype \/ StepDoctypeHead \/ SubsetPark \/ StepSubset
        \/ MiscTail \/ EpilogTail
        \/ StartTagPark \/ NotATag \/ BadName \/ WrongToken
        \/ CutTag \/ OpenTag \/ EmptyTag
        \/ ContentPark \/ ContentTag \/ Reference \/ CharData
        \/ EndTagPark \/ EndTag

Drive == Latch \/ Exhausted \/ Step \/ Terminate

Next == Chunk \/ ChunkInvalid \/ Refuse \/ Drive

Spec == Init /\ [][Next]_vars

\* A call runs to its end on the caller's thread; nothing else is promised.
FairSpec == Spec /\ WF_vars(Drive)

----------------------------------------------------------------------------
Context == [disableSAX : 0 .. 2, errNo : ErrNo, wellFormed : BOOLEAN,
            log : Seq([ev : Event, nm : Names \cup {""}])]

TypeOK ==
  /\ doc \in Seq(Cell)
  /\ recv \in 0 .. Len(doc)
  /\ have \in 0 .. recv
  /\ pos \in 0 .. have
  /\ truncated \in BOOLEAN
  /\ phase \in Phase
  /\ open \in Seq(Names)
  /\ startDoc \in BOOLEAN /\ endDoc \in BOOLEAN /\ fatal \in BOOLEAN
  /\ c \in Context
  /\ pc \in {"idle", "loop", "final"}
  /\ term \in BOOLEAN
  /\ ret \in {"none", "need", "complete", "await", "fatal", "refused"}

\* The log as the application saw it.
EventAt(i) == c.log[i].ev

(***************************************************************************)
(* The phase and the element stack, kept apart in PushMachine, agree: only *)
(* content has open elements, and content has at least one.  The driver's  *)
(* "end tag with no open element" is then out of reach, and the epilog is  *)
(* entered exactly when the root closes.                                   *)
(***************************************************************************)
PhaseMatchesStack ==
  /\ phase \in {"CONTENT", "END_TAG"} => open # <<>>
  /\ phase \in {"START", "XML_DECL", "MISC", "PROLOG", "DTD", "EPILOG"}
        => open = <<>>

(***************************************************************************)
(* endDocument is dispatched at most once, whichever of the seven places   *)
(* that call finish_document gets there first, and nothing but the         *)
(* diagnostics of a refeed follows it.                                     *)
(***************************************************************************)
EndDocumentIsLast ==
  \A i, j \in 1 .. Len(c.log) :
     i < j /\ EventAt(i) = "endDocument" => EventAt(j) = "fatal"

(***************************************************************************)
(* After a fatal error no callback but endDocument reaches the             *)
(* application, on that call or on any later one.                          *)
(***************************************************************************)
SilentAfterFatal ==
  \A i, j \in 1 .. Len(c.log) :
     i < j /\ EventAt(i) = "fatal" => EventAt(j) \in {"fatal", "endDocument"}

(***************************************************************************)
(* A terminating call settles the document: when it returns the context    *)
(* has reached EOF with endDocument dispatched, or it refuses all further  *)
(* input.  It never suspends, and never leaves bytes after the document    *)
(* unreported: drive_persistent says of AwaitTermination that it is "only  *)
(* reachable on a non-terminating call".                                   *)
(***************************************************************************)
TerminateSettles ==
  pc = "idle" /\ term => /\ ret # "await"
                         /\ \/ phase = "EOF" /\ endDoc
                            \/ c.disableSAX # 0

(***************************************************************************)
(* push.rs on end_document_fired: "on the terminating call (or a fatal),   *)
(* never merely because a complete document sits in a non-final chunk".    *)
(***************************************************************************)
EndDocumentOnlyAtTheEnd ==
  [][endDoc' /\ ~endDoc => term \/ fatal']_vars

(***************************************************************************)
(* Every call to xmlParseChunk returns: no iteration of the driver's loop  *)
(* is taken for ever without consuming input or moving the phase.          *)
(***************************************************************************)
CallsReturn == pc # "idle" ~> pc = "idle"

----------------------------------------------------------------------------
(* What the driver shows of the SAX protocol.                              *)

Quiet == fatal \/ c.disableSAX # 0
Stage == CASE ~startDoc                   -> "fresh"
           [] startDoc /\ open # <<>>     -> "content"
           [] startDoc /\ open = <<>> /\ phase \in {"EPILOG", "EOF"} -> "epilog"
           [] OTHER                       -> "prolog"

Sax == INSTANCE SaxProtocol WITH log <- c.log, stage <- Stage, elems <- open,
                                 quiet <- Quiet, ended <- endDoc

(***************************************************************************)
(* The driver implements the SAX protocol: the events the application      *)
(* receives nest as the open-element stack says, whatever the chunks.      *)
(***************************************************************************)
ImplementsSax == Sax!Spec

----------------------------------------------------------------------------
(* The inductive invariant.                                                *)

\* What the log of a context may look like, and what the flags say of it.
LogOK(x, ended) ==
  /\ x \in Context
  /\ \A i, j \in 1 .. Len(x.log) : i < j =>
        /\ x.log[i].ev = "endDocument" => x.log[j].ev = "fatal"
        /\ x.log[i].ev = "fatal" => x.log[j].ev \in {"fatal", "endDocument"}
  /\ ~ended => \A i \in 1 .. Len(x.log) : x.log[i].ev # "endDocument"
  /\ x.disableSAX = 0 => \A i \in 1 .. Len(x.log) : x.log[i].ev # "fatal"

IInv ==
  /\ TypeOK
  /\ recv > 0 /\ doc[recv].con.k \in {"half", "badunit"} => have < recv
  /\ PhaseMatchesStack
  /\ LogOK(c, endDoc)
  /\ endDoc => phase = "EOF"
=============================================================================
