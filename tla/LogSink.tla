------------------------------ MODULE LogSink ------------------------------
(***************************************************************************)
(* What a sink of nstl::log promises to the threads that log through it,   *)
(* without the queue and the background thread: the lines it accepts are   *)
(* written to the target in that order, each once, and a sink that is      *)
(* destroyed has written all of them.  A process that aborts promises      *)
(* nothing more.                                                           *)
(***************************************************************************)
EXTENDS Naturals, Sequences

CONSTANT Lines

VARIABLES
  accepted,           \* the lines push() took, in order
  written,            \* the lines the target got
  phase               \* "open", "closing", "closed" or "aborted"

vars == <<accepted, written, phase>>

Init ==
  /\ accepted = <<>>
  /\ written = <<>>
  /\ phase = "open"

Accept ==
  /\ phase = "open"
  /\ \E l \in Lines : accepted' = Append(accepted, l)
  /\ UNCHANGED <<written, phase>>

Write ==
  /\ phase \in {"open", "closing"}
  /\ Len(written) < Len(accepted)
  /\ written' = Append(written, accepted[Len(written) + 1])
  /\ UNCHANGED <<accepted, phase>>

\* The last reference to the sink is released, or a Terminate line stops it.
Close ==
  /\ phase = "open"
  /\ phase' = "closing"
  /\ UNCHANGED <<accepted, written>>

Closed ==
  /\ phase = "closing"
  /\ written = accepted
  /\ phase' = "closed"
  /\ UNCHANGED <<accepted, written>>

Abort ==
  /\ phase' = "aborted"
  /\ UNCHANGED <<accepted, written>>

Next == Accept \/ Write \/ Close \/ Closed \/ Abort

Safe == Init /\ [][Next]_vars

\* What was accepted is written, and closing ends.
Spec == Safe /\ WF_vars(Write) /\ WF_vars(Closed)
=============================================================================
