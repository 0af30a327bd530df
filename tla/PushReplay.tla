----------------------------- MODULE PushReplay -----------------------------
(***************************************************************************)
(* xmlParseChunk as a whole: the choice of the engine, the replay engine,  *)
(* and the side tables a push context keeps between calls                  *)
(* (src/src/xml/parser/helpers.rs), with the parser the replay engine runs *)
(* over everything received so far (src/src/xml/parser/state.rs).          *)
(*                                                                         *)
(* The replay engine keeps no parser between calls.  A non-final call      *)
(* parses the whole input silently (the probe), and again with delivery,   *)
(* leaving out what ends at or below the offset that was delivered before. *)
(* The persistent engine is reduced here to what PushDriver and            *)
(* PushCharData say of it: it reports a construct once it is whole, and a  *)
(* text run once something follows it.                                     *)
(*                                                                         *)
(* A document is a sequence of bytes.  Markup takes two of them, and so    *)
(* does a "wide" character; what lies between the first and the last byte  *)
(* of a tag is left out.  startDocument and endDocument, which the replay  *)
(* engine repeats and push.rs says it does, are left out of the log.       *)
(***************************************************************************)
EXTENDS Naturals, Sequences, FiniteSets, SequencesExt

CONSTANTS Documents,      \* the documents a consumer may push
          Again,          \* those it may push with the context used again
          Contexts,       \* how the consumer sets its context up
          InitialSizes,   \* bytes the constructor may be given
          MaxChunk,       \* bound on the bytes of one call
          MaxReuses,      \* bound on how often the context is used again
          DecideBytes,    \* bytes needed to decide the source's encoding
          NoInput,        \* no stashed input
          NoSession,      \* no persistent session
          NoCall          \* no call was made yet

Markup == {"open", "close", "stray", "empty", "pi", "comment"}
Text == {"char", "wide", "blank", "cr", "lf"}
Byte == [kind : Markup \cup Text, last : BOOLEAN]
CR == [kind |-> "cr", last |-> TRUE]
CRs(n) == [i \in 1..n |-> CR]

\* "plain": nothing is asked for that the persistent engine does not do;
\* "option": an option it does not do; "zeroed": wellFormed set to zero by
\* the consumer before the first chunk.
ASSUME ReplayConstants ==
  /\ Documents \subseteq Seq(Byte) /\ Again \subseteq Seq(Byte)
  /\ Contexts \subseteq {"plain", "option", "zeroed"}
  /\ InitialSizes \subseteq Nat
  /\ MaxChunk \in Nat /\ MaxReuses \in Nat /\ DecideBytes \in Nat
  /\ NoInput \notin Seq(Byte) /\ NoSession \notin Seq(Byte)
  /\ NoCall \notin BOOLEAN

VARIABLES
  doc,       \* the document the consumer is pushing
  context,   \* how the context was set up
  fed,       \* bytes of doc given to the context
  closed,    \* the terminating call was made
  ctxt,      \* the fields of _xmlParserCtxt the calls decide on
  push,      \* PUSH_STATE of the context
  stash,     \* PARSER_INPUT_STASH of the context
  session,   \* PUSH_SESSIONS of the context: the input of its parser
  cursor,    \* how far that parser has got
  log,       \* where the items reported for doc begin, in order
  failed,    \* whether the last call returned an error
  reuses     \* how often the context was used again

vars == <<doc, context, fed, closed, ctxt, push, stash, session, cursor,
          log, failed, reuses>>
-----------------------------------------------------------------------------
(* The parser over one input, from its first byte.  b is the offset below  *)
(* which events are left out; mode is "probe", "partial" or "resume" for   *)
(* the parsers of the replay engine, "driver" for a non-final call of the  *)
(* persistent one, whose terminating call is a "resume" from its cursor.   *)

\* The character at offset i goes on in the next byte.
GoesOn(in, i) ==
  \/ ~in[i].last
  \/ in[i].kind = "cr" /\ in[i + 1].kind = "lf"

Begins(in, p) == p = 1 \/ ~GoesOn(in, p - 1)

\* A fault: a run is not split where the delivery ended.
TokenEnd_NoSplit(in, p, b) ==
  IF in[p].kind \in Markup THEN Min({p + 1, Len(in)})
  ELSE Max({q \in p..Len(in) : \A i \in p..q : in[i].kind \in Text})

\* A run of characters that begins in what was delivered ends where that
\* ends, unless a character goes on across it.
TokenEnd(in, p, b) ==
  IF in[p].kind \in Markup THEN Min({p + 1, Len(in)})
  ELSE LET run == Max({q \in p..Len(in) : \A i \in p..q : in[i].kind \in Text})
       IN  IF p <= b /\ b < run
           THEN IF GoesOn(in, b) THEN b + 1 ELSE b
           ELSE run

\* The numbers up to n that are in S, in order.
InOrder(S, n) ==
  LET upto[i \in 0..n] ==
        IF i = 0 THEN <<>>
        ELSE IF i \in S THEN Append(upto[i - 1], i) ELSE upto[i - 1]
  IN  upto[n]

Characters(in, p, e) == InOrder({i \in p..e : Begins(in, i)}, e)

Fire(s, mode, b, e, items) ==
  IF mode = "probe" \/ ~s.wellFormed \/ e <= b THEN s
  ELSE [s EXCEPT !.log = @ \o items]

\* A fatal error; one of a parser that delivers stops the context too.
Fatal(s) == [s EXCEPT !.wellFormed = FALSE]

Stop(s, how, at) == [s EXCEPT !.stop = how, !.at = at]

\* The input ends in the markup at p.  A processing instruction then reads
\* as the end of the input, and after the root what is left is extra content.
CutMarkup(s, in, p, mode) ==
  CASE mode = "driver" -> Stop(s, "paused", p - 1)
    [] mode = "resume" -> Stop(Fatal(s), "failed", p - 1)
    [] OTHER ->
         IF in[p].kind # "pi" THEN Stop(s, "truncated", p - 1)
         ELSE IF s.phase # "epilog" THEN Stop(s, "paused", p - 1)
         ELSE Stop(Fatal(s), "failed", p - 1)

Nest(s, kind) ==
  LET depth == CASE kind = "open" -> s.depth + 1
                 [] kind \in {"close", "stray"} -> s.depth - 1
                 [] OTHER -> s.depth
  IN  [s EXCEPT !.depth = depth,
                !.phase = IF depth = 0 THEN "epilog" ELSE "content"]

\* A stray end tag is fatal and closes the open element all the same.
WholeMarkup(s, in, p, mode, b) ==
  LET kind == in[p].kind
      fired == Fire(s, mode, b, p + 1, <<p>>)
  IN  CASE kind \in {"pi", "comment"} -> fired
        [] kind \in {"open", "empty"} /\ s.phase # "epilog" -> Nest(fired, kind)
        [] kind = "close" /\ s.phase = "content" -> Nest(fired, kind)
        [] kind = "stray" /\ s.phase = "content" ->
             Nest(Fatal(s), kind)
        [] OTHER -> Stop(Fatal(s), "failed", p - 1)

\* The first bytes of a character at the end of the input are an error in
\* every mode of the replay engine, raised before the run is reported.
Run(s, in, p, e, mode, b) ==
  IF s.phase # "content"
  THEN IF \A i \in p..e : in[i].kind \in {"blank", "cr", "lf"} THEN s
       ELSE Stop(Fatal(s), "failed", p - 1)
  ELSE CASE mode = "driver" /\ e = Len(in) -> Stop(s, "paused", p - 1)
         [] mode # "driver" /\ e = Len(in) /\ ~in[e].last -> Fatal(s)
         [] OTHER -> Fire(s, mode, b, e, Characters(in, p, e))

Token(s, in, p, mode, b) ==
  IF s.stop # "none" \/ p < s.next THEN s
  ELSE LET e == TokenEnd(in, p, b)
           t == CASE in[p].kind \in Text -> Run(s, in, p, e, mode, b)
                  [] in[p].kind \in Markup /\ e = p -> CutMarkup(s, in, p, mode)
                  [] OTHER -> WholeMarkup(s, in, p, mode, b)
       IN  [t EXCEPT !.next = e + 1]

Start == [next |-> 1, depth |-> 0, phase |-> "prolog", stop |-> "none",
          at |-> 0, wellFormed |-> TRUE, log |-> <<>>]

\* All the tokens of the input, one after the other.
Tokens(in, b, mode) ==
  LET upto[p \in 0..Len(in)] ==
        IF p = 0 THEN Start ELSE Token(upto[p - 1], in, p, mode, b)
  IN  upto[Len(in)]

\* parse_document: the end of the input pauses a probe or a partial delivery
\* before the root is closed, and is fatal to the others.
Parse(in, b, mode) ==
  LET s == Tokens(in, b, mode)
  IN  IF s.stop # "none" THEN s
      ELSE IF s.phase = "epilog" THEN Stop(s, "done", Len(in))
      ELSE IF mode = "resume" THEN Stop(Fatal(s), "failed", Len(in))
      ELSE Stop(s, "paused", Len(in))
-----------------------------------------------------------------------------
NoPush == [delivered |-> 0, pending |-> 0, pushContext |-> FALSE]

\* Of instate only the end of a document is told apart.  Every engine starts
\* a parse from these; the consumer's wellFormed, which
\* decides about entities only, is put back before and overwritten again.
Fresh == [wellFormed |-> TRUE, disableSAX |-> FALSE, instate |-> "other"]

\* The context after a parser that delivers.
After(s, instate) ==
  [wellFormed |-> s.wellFormed, disableSAX |-> ~s.wellFormed,
   instate |-> instate]

\* push_persistent_eligible: made anew on every call.
Eligible == push.pushContext /\ context # "option" /\ ctxt.wellFormed

\* A call that does not terminate keeps back the `\r' its chunk ends with.
Deferred(k, terminate) ==
  IF ~terminate /\ k > 0 /\ doc[fed + k] = CR THEN 1 ELSE 0

Slice(k, terminate) == SubSeq(doc, fed + 1, fed + k - Deferred(k, terminate))

Stashed == IF stash = NoInput THEN <<>> ELSE stash

\* The context was stopped: the call reports what was recorded.
Refuse(k, terminate) ==
  /\ ctxt.disableSAX
  /\ failed' = TRUE
  /\ UNCHANGED <<ctxt, push, stash, session, cursor, log>>

\* The withheld `\r' joins the input after the parse, unparsed.
PersistentChunk(k, terminate) ==
  /\ ~ctxt.disableSAX
  /\ Eligible
  /\ LET in == (IF session = NoSession THEN Stashed ELSE session)
                 \o Slice(k, terminate)
         from == IF session = NoSession THEN 0 ELSE cursor
         parked == ~terminate /\ Len(in) < DecideBytes
         s == Parse(in, from, IF terminate THEN "resume" ELSE "driver")
     IN  /\ session' = in \o CRs(Deferred(k, terminate))
         /\ cursor' = IF parked THEN from ELSE s.at
         /\ ctxt' = IF ~parked THEN After(s, "other")
                    ELSE IF session = NoSession THEN Fresh ELSE ctxt
         /\ log' = IF parked THEN log ELSE log \o s.log
         /\ failed' = (~parked /\ ~s.wellFormed)
  /\ stash' = NoInput
  /\ UNCHANGED push

ReplayGuard == ~ctxt.disableSAX /\ ~Eligible

\* The document was read to its end: the replay engine parses nothing more.
AtEof(k, terminate) ==
  /\ ReplayGuard
  /\ ctxt.instate = "EOF"
  /\ failed' = ~ctxt.wellFormed
  /\ UNCHANGED <<ctxt, push, stash, session, cursor, log>>

\* A fault: only new bytes bring the withheld `\r's back.
Restores_OnlyWithBytes(k, terminate) ==
  push.pending > 0 /\ Slice(k, terminate) # <<>>

\* The withheld `\r's go before the new bytes, when there are any or the call
\* terminates.
Restores(k, terminate) ==
  push.pending > 0 /\ (Slice(k, terminate) # <<>> \/ terminate)

\* A fault: the withheld `\r's are appended after the new bytes.
Base_CRsLast(k, terminate) ==
  Stashed \o Slice(k, terminate)
          \o (IF Restores(k, terminate) THEN CRs(push.pending) ELSE <<>>)

Base(k, terminate) ==
  Stashed \o (IF Restores(k, terminate) THEN CRs(push.pending) ELSE <<>>)
          \o Slice(k, terminate)

Pending(k, terminate) ==
  Deferred(k, terminate)
    + (IF Restores(k, terminate) THEN 0 ELSE push.pending)

\* The encoding is not decided yet: nothing is parsed.
ReplayParked(k) ==
  /\ ReplayGuard
  /\ ctxt.instate # "EOF"
  /\ Len(Base(k, FALSE)) < DecideBytes
  /\ stash' = Base(k, FALSE)
  /\ push' = [push EXCEPT !.pending = Pending(k, FALSE)]
  /\ failed' = FALSE
  /\ UNCHANGED <<ctxt, session, cursor, log>>

\* How far a non-final call has delivered, from the stop of its delivery.
Boundary(probe, s, n) ==
  IF probe.stop = "truncated" THEN Max({push.delivered, s.at}) ELSE n

\* The probe says which delivery: of a document that ends here, or of the
\* constructs that are whole so far.  Only the first reports its outcome.
ReplayNonFinal(k) ==
  /\ ReplayGuard
  /\ ctxt.instate # "EOF"
  /\ LET base == Base(k, FALSE)
         probe == Parse(base, 0, "probe")
         ended == probe.stop \in {"done", "failed"}
         s == Parse(base, push.delivered, IF ended THEN "resume" ELSE "partial")
     IN  /\ Len(base) >= DecideBytes
         /\ ctxt' = After(s, "other")
         /\ push' = [delivered |-> Boundary(probe, s, Len(base)),
                     pending |-> Pending(k, FALSE),
                     pushContext |-> push.pushContext]
         /\ stash' = base
         /\ log' = log \o s.log
         /\ failed' = (ended /\ ~s.wellFormed)
  /\ UNCHANGED <<session, cursor>>

\* The terminating call parses all of it and drops what was kept.
ReplayFinal(k) ==
  /\ ReplayGuard
  /\ ctxt.instate # "EOF"
  /\ LET s == Parse(Base(k, TRUE), push.delivered, "resume")
     IN  /\ ctxt' = After(s, IF s.stop = "done" THEN "EOF" ELSE "other")
         /\ log' = log \o s.log
         /\ failed' = ~s.wellFormed
  /\ stash' = NoInput
  /\ push' = NoPush
  /\ session' = NoSession /\ cursor' = 0

ReplayChunk(k, terminate) ==
  IF terminate THEN ReplayFinal(k) ELSE ReplayParked(k) \/ ReplayNonFinal(k)

\* xmlParseChunk with the next k bytes of the document.
ParseChunk(k, terminate) ==
  /\ fed + k <= Len(doc)
  /\ terminate => fed + k = Len(doc)
  /\ \/ Refuse(k, terminate)
     \/ PersistentChunk(k, terminate)
     \/ AtEof(k, terminate)
     \/ ReplayChunk(k, terminate)
  /\ fed' = fed + k
  /\ closed' = (closed \/ terminate)
  /\ UNCHANGED <<doc, context, reuses>>

\* The input a constructor stashes; it keeps no `\r' back.
Initial(d, k) == k <= Len(d) /\ (k > 0 => d[k] # CR)

NewDocument(d, k) ==
  /\ doc' = d /\ fed' = k
  /\ session' = NoSession /\ cursor' = 0
  /\ closed' = FALSE /\ log' = <<>> /\ failed' = NoCall
  /\ reuses < MaxReuses /\ reuses' = reuses + 1

\* xmlCtxtResetPush, between any two calls.
ResetPush(d, k) ==
  /\ Initial(d, k)
  /\ NewDocument(d, k)
  /\ stash' = SubSeq(d, 1, k)
  /\ push' = [NoPush EXCEPT !.pushContext = TRUE]
  /\ ctxt' = Fresh
  /\ UNCHANGED context

\* xmlFreeParserCtxt, and a push context that is given the same address.
Recreate(d, k, c) ==
  /\ Initial(d, k)
  /\ NewDocument(d, k)
  /\ stash' = SubSeq(d, 1, k)
  /\ push' = [NoPush EXCEPT !.pushContext = TRUE]
  /\ context' = c
  /\ ctxt' = [Fresh EXCEPT !.wellFormed = (c # "zeroed")]

\* xmlCtxtReset alone: chunks are still taken, by the replay engine.
Reset(d) ==
  /\ NewDocument(d, 0)
  /\ stash' = NoInput
  /\ push' = NoPush
  /\ ctxt' = Fresh
  /\ UNCHANGED context

Init ==
  /\ doc \in Documents /\ context \in Contexts
  /\ fed \in InitialSizes /\ Initial(doc, fed)
  /\ closed = FALSE
  /\ ctxt = [Fresh EXCEPT !.wellFormed = (context # "zeroed")]
  /\ push = [NoPush EXCEPT !.pushContext = TRUE]
  /\ stash = SubSeq(doc, 1, fed)
  /\ session = NoSession /\ cursor = 0
  /\ log = <<>> /\ failed = NoCall /\ reuses = 0

Next ==
  \/ \E k \in 0..MaxChunk, terminate \in BOOLEAN : ParseChunk(k, terminate)
  \/ \E d \in Again, k \in InitialSizes : ResetPush(d, k)
  \/ \E d \in Again, k \in InitialSizes, c \in Contexts : Recreate(d, k, c)
  \/ \E d \in Again : Reset(d)

Spec == Init /\ [][Next]_vars
-----------------------------------------------------------------------------
(* What a document says, read off its bytes and not off the parser.        *)

\* The item that begins at p: its markup, or its character.
IsItem(p) == Begins(doc, p)
ItemEnd(p) ==
  IF \/ doc[p].kind \in Markup \cup {"wide"}
     \/ doc[p].kind = "cr" /\ p < Len(doc) /\ doc[p + 1].kind = "lf"
  THEN p + 1 ELSE p

Before(d, p, kinds) ==
  {q \in 1..(p - 1) : Begins(d, q) /\ d[q].kind \in kinds}
Depth(d, p) ==
  Cardinality(Before(d, p, {"open"})) - Cardinality(Before(d, p, {"close", "stray"}))
DepthAt(p) == Depth(doc, p)
RootBegun(p) == Before(doc, p, {"open", "empty"}) # {}

\* The item at p is against the grammar, whatever follows it.
Wrong(p) ==
  \/ doc[p].kind = "stray"
  \/ ~RootBegun(p) /\ doc[p].kind \in {"close", "char", "wide"}
  \/ /\ RootBegun(p) /\ DepthAt(p) = 0
     /\ doc[p].kind \in {"open", "close", "empty", "char", "wide"}

WrongWithin(n) == \E p \in 1..n : IsItem(p) /\ ItemEnd(p) <= n /\ Wrong(p)

\* The document may not end where it does.
Unfinished ==
  \/ doc # <<>> /\ ~doc[Len(doc)].last
  \/ ~RootBegun(Len(doc) + 1)
  \/ DepthAt(Len(doc) + 1) # 0

\* The items of the first n bytes that a handler is told of: those that are
\* whole, of the root's content or markup, and before the first wrong one.
Told(p, n) ==
  /\ IsItem(p) /\ ItemEnd(p) <= n
  /\ ~\E q \in 1..p : IsItem(q) /\ Wrong(q)
  /\ doc[p].kind \in Text => DepthAt(p) > 0

Expected(n) == InOrder({p \in 1..n : Told(p, n)}, n)

\* What the replay engine is known not to bear is left out: a wide character,
\* which a chunk may cut, and a processing instruction after the root.  The
\* two bytes of markup belong together.
Ordinary(d) ==
  \A i \in 1..Len(d) :
    /\ d[i].kind # "wide"
    /\ d[i].kind \in Text => d[i].last
    /\ d[i].kind \in Markup => IF d[i].last
         THEN i > 1 /\ d[i - 1] = [kind |-> d[i].kind, last |-> FALSE]
         ELSE i < Len(d) => d[i + 1] = [kind |-> d[i].kind, last |-> TRUE]
    /\ d[i].kind = "pi" =>
         Before(d, i, {"open", "empty"}) = {} \/ Depth(d, i) # 0
-----------------------------------------------------------------------------
TypeOK ==
  /\ doc \in Seq(Byte) /\ context \in {"plain", "option", "zeroed"}
  /\ fed \in 0..Len(doc) /\ closed \in BOOLEAN
  /\ ctxt \in [wellFormed : BOOLEAN, disableSAX : BOOLEAN,
               instate : {"other", "EOF"}]
  /\ push \in [delivered : 0..fed, pending : 0..fed, pushContext : BOOLEAN]
  /\ stash = NoInput \/ stash \in Seq(Byte)
  /\ session = NoSession \/ session \in Seq(Byte)
  /\ cursor \in 0..fed
  /\ log \in Seq(1..Len(doc))
  /\ failed \in BOOLEAN \cup {NoCall}
  /\ reuses \in 0..MaxReuses

\* helpers.rs:1179-1205: what an engine holds, with the `\r's that are kept
\* back, is what the consumer gave it, in that order and nothing else.
Held ==
  IF session # NoSession THEN session ELSE Stashed \o CRs(push.pending)

InputInOrder == ~closed /\ ~ctxt.disableSAX => Held = SubSeq(doc, 1, fed)

\* helpers.rs:101-104 and 1262-1280: a non-final call of the replay engine
\* has told of every item that is whole by then, of each one once and in
\* order, and of nothing after an error; and it has stopped the context if
\* there is an error in what it read, and only then.  The persistent engine
\* may lag behind, but not leave anything out or repeat it.
EventsOnce ==
  LET n == fed - push.pending
  IN  /\ ~closed => IsPrefix(log, Expected(fed))
      /\ ~closed /\ session = NoSession /\ failed # NoCall /\ n >= DecideBytes
           => /\ log = Expected(n)
              /\ ctxt.disableSAX = WrongWithin(n)

\* helpers.rs:1399-1433: once the terminating call was made, the handlers
\* were told what one call with the whole document tells them, and the call
\* and each one after it reports a failure iff there is one.
SameOutcome ==
  closed => /\ log = Expected(Len(doc))
            /\ failed = (WrongWithin(Len(doc)) \/ Unfinished)
=============================================================================
