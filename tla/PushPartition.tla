---------------------------- MODULE PushPartition ----------------------------
(***************************************************************************)
(* Two runs of the push driver over one document: the application first    *)
(* hands it over in chunks of its own choosing, then, to a fresh context,  *)
(* in a single terminating call.  What the first run did must not depend   *)
(* on the chunks.                                                          *)
(*                                                                         *)
(* The first run may be abandoned between any two calls.  If its last call *)
(* terminated the document, the second run gets the same cells; otherwise  *)
(* it gets any longer stream that the first run could still have received. *)
(***************************************************************************)
EXTENDS PushDriver, SequencesExt

\* Two faults are meant to depend on the chunks: an invalid source unit is
\* reported before anything its chunk brought is parsed, and a `]]>' in text
\* suppresses the text before it, as far as no earlier call delivered it.
Even == \A i \in DOMAIN doc :
           /\ doc[i].con.k # "badunit"
           /\ IsText(doc[i].con.k) => doc[i].con.bad = "no"

VARIABLES
  round,   \* 1 or 2
  first    \* what the first run left behind, once round = 2

pvars == <<vars, round, first>>

Nothing == [log |-> <<>>, ended |-> FALSE, failed |-> FALSE, all |-> 0]

PInit == Init /\ round = 1 /\ first = Nothing

\* A context is given at most one terminating call.
FirstRun == /\ round = 1
            /\ pc = "idle" => ~term
            /\ Chunk \/ ChunkInvalid \/ Drive
            /\ UNCHANGED <<round, first>>

\* A fresh context, and the stream that is to be handed over at once.
Restart == /\ round = 1 /\ pc = "idle"
           /\ round' = 2
           /\ \E n \in recv .. Len(doc) :
                 /\ term => n = recv
                 /\ first' = [log |-> c.log, ended |-> term,
                              failed |-> c.disableSAX # 0, all |-> n]
           /\ recv' = 0 /\ have' = 0 /\ truncated' = FALSE /\ pos' = 0
           /\ phase' = "START" /\ open' = <<>>
           /\ startDoc' = FALSE /\ endDoc' = FALSE /\ fatal' = FALSE
           /\ c' = Ctxt(0, "ok", TRUE, <<>>)
           /\ pc' = "idle" /\ term' = FALSE /\ ret' = "none"
           /\ UNCHANGED doc

WholeAtOnce == /\ round = 2
               /\ \/ /\ ret = "none" /\ pc = "idle"
                     /\ Chunk \/ ChunkInvalid
                     /\ recv' = first.all /\ term'
                  \/ Drive
               /\ UNCHANGED <<round, first>>

PNext == FirstRun \/ Restart \/ WholeAtOnce

PSpec == PInit /\ [][PNext]_pvars

\* A call runs on its caller's thread, in either run.
DriveOn == Drive /\ UNCHANGED <<round, first>>
PFairSpec == PSpec /\ WF_pvars(DriveOn)

Compared == round = 2 /\ pc = "idle" /\ ret # "none"

(***************************************************************************)
(* Partition independence: a document terminated by the application gives  *)
(* the events, the diagnostics and the order of a single call, however it  *)
(* was cut into chunks (persistent_driver_matches_the_recursive_parser_    *)
(* under_every_partition).                                                 *)
(***************************************************************************)
SameEvents == Compared /\ first.ended /\ Even => first.log = c.log

(***************************************************************************)
(* Nothing is delivered on suspicion: what a suspended driver has          *)
(* dispatched so far is a prefix of what any continuation of the stream    *)
(* dispatches, and a fatal it has raised is raised by every continuation.  *)
(***************************************************************************)
PrefixOfEveryContinuation ==
  Compared /\ ~first.ended /\ Even => IsPrefix(first.log, c.log)
=============================================================================
