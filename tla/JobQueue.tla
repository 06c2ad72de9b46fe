------------------------------ MODULE JobQueue ------------------------------
(***************************************************************************)
(* What the pipeline expects of a stream: at-least-once dispatch.  A sent  *)
(* job stays open until it is finished; it may be handed out, and          *)
(* finished, more than once.                                               *)
(***************************************************************************)
CONSTANT Jobs
VARIABLES
  sent,      \* jobs that were put on the stream
  open,      \* jobs some consumer will still be given
  finished   \* jobs a handler completed, or that were given up

Init == sent = {} /\ open = {} /\ finished = {}

Send(j) ==
  /\ sent' = sent \cup {j} /\ open' = open \cup {j}
  /\ UNCHANGED finished

Finish(j) ==
  /\ j \in open
  /\ finished' = finished \cup {j}
  /\ open' \in {open, open \ {j}}
  /\ UNCHANGED sent

\* The last copy goes, of a job that is finished.
Forget(j) ==
  /\ j \in open \cap finished
  /\ open' = open \ {j}
  /\ UNCHANGED <<sent, finished>>

Next == \E j \in Jobs : Send(j) \/ Finish(j) \/ Forget(j)

Spec == Init /\ [][Next]_<<sent, open, finished>>
=============================================================================
