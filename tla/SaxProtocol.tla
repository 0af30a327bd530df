----------------------------- MODULE SaxProtocol -----------------------------
(***************************************************************************)
(* What a push parser promises the application: the stream of SAX events.  *)
(* startDocument comes first; start and end events nest; character data    *)
(* lies inside the root; once a fatal error was reported, or the           *)
(* application stopped the parser, nothing follows but further diagnostics *)
(* and one endDocument.  How the input was cut into chunks, and when the   *)
(* parser waits, do not appear here at all.                                *)
(***************************************************************************)
EXTENDS Integers, Sequences

VARIABLES log,     \* the events dispatched so far
          stage,   \* "fresh", "prolog", "content" or "epilog"
          elems,   \* elements begun and not ended, outermost first
          quiet,   \* a fatal was reported or the application stopped
          ended    \* endDocument was dispatched

saxVars == <<log, stage, elems, quiet, ended>>

Now == [stage |-> stage, elems |-> elems, quiet |-> quiet, ended |-> ended,
        ok |-> TRUE]

\* May event e be the next one?
May(s, e) ==
  \/ e.ev = "fatal"
  \/ e.ev = "endDocument" /\ ~s.ended /\ (s.quiet \/ s.stage = "epilog")
  \/ /\ ~s.quiet /\ ~s.ended
     /\ \/ e.ev = "startDocument" /\ s.stage = "fresh"
        \/ e.ev = "start" /\ s.stage \in {"prolog", "content"}
        \/ e.ev = "end" /\ s.elems # <<>> /\ s.elems[Len(s.elems)] = e.nm
        \/ e.ev \in {"text", "cdata", "ref"} /\ s.stage = "content"
        \/ e.ev \in {"internalSubset", "externalSubset"} /\ s.stage = "prolog"
        \/ e.ev \in {"pi", "comment", "error"} /\ s.stage # "fresh"

Moved(s, e) ==
  CASE e.ev = "fatal"         -> [s EXCEPT !.quiet = TRUE]
    [] e.ev = "endDocument"   -> [s EXCEPT !.ended = TRUE]
    [] e.ev = "startDocument" -> [s EXCEPT !.stage = "prolog"]
    [] e.ev = "start" -> [s EXCEPT !.stage = "content",
                                   !.elems = Append(@, e.nm)]
    [] e.ev = "end"   -> [s EXCEPT !.stage = IF Len(s.elems) = 1 THEN "epilog"
                                                                 ELSE @,
                                   !.elems = SubSeq(@, 1, Len(@) - 1)]
    [] OTHER -> s

\* The protocol after one event more, and after several.
Heard(s, e) == IF s.ok /\ May(s, e) THEN Moved(s, e) ELSE [s EXCEPT !.ok = FALSE]

After(s, evs) ==
  LET run[i \in 0 .. Len(evs)] == IF i = 0 THEN s ELSE Heard(run[i - 1], evs[i])
  IN  run[Len(evs)]

Init == /\ log = <<>> /\ stage = "fresh" /\ elems = <<>>
        /\ quiet = FALSE /\ ended = FALSE

\* Some events, each of them allowed where it stands.  Once quiet, the stage
\* and the stack no longer mean anything to the application.
Dispatch ==
  /\ Len(log) <= Len(log') /\ log = SubSeq(log', 1, Len(log))
  /\ LET evs == SubSeq(log', Len(log) + 1, Len(log'))
         s == After(Now, evs)
     IN  /\ s.ok
         /\ ended' = s.ended
         /\ s.quiet => quiet'
         /\ \/ quiet'
            \/ stage' = s.stage /\ elems' = s.elems

Spec == Init /\ [][Dispatch]_saxVars
=============================================================================
