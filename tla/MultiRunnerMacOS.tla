-------------------------- MODULE MultiRunnerMacOS --------------------------
(***************************************************************************)
(* multi_runner on macOS (bin/main_macos.cpp), as what differs from Linux: *)
(* kqueue reports the exit of each child by name, once, so nothing         *)
(* coalesces; there are no pipes; and the runner leaves its own signals    *)
(* alone.  edges are here the children whose NOTE_EXIT is not reported.    *)
(***************************************************************************)
EXTENDS MultiRunnerLinux

macUnused == <<pipes, pending>>

\* The exit of a child that is being watched (external).
MacChildEnds(c, n) ==
  /\ child[c] = "running"
  /\ child' = [child EXCEPT ![c] = "zombie"]
  /\ code' = [code EXCEPT ![c] = n]
  /\ edges' = IF pc = "start" THEN edges ELSE edges \cup {c}
  /\ UNCHANGED <<signals, macUnused, pc, batch, state, incoming>>

MacChild(c) ==
  \/ \E n \in Codes : MacChildEnds(c, n)
  \/ c \in Heeding /\ signals[c] # {} /\ MacChildEnds(c, Killed)

\* A signal for the runner has its default action; the children are not told.
MacIncoming ==
  /\ pc \notin {"done", "aborted"}
  /\ pc' = "aborted"
  /\ incoming' = TRUE
  /\ UNCHANGED <<kids, macUnused, edges, batch, state>>

MacFork(c) == Fork(c)

\* EV_ADD for every child; one that has ended already is reported, too.
MacRegister ==
  /\ pc = "start"
  /\ pid = Children
  /\ edges' = {c \in Children : child[c] = "zombie"}
  /\ pc' = "loop"
  /\ UNCHANGED <<kids, macUnused, batch, state, incoming>>

\* kevent() reports some exits; NOTE_EXIT is reported once.
MacKevent ==
  /\ pc = "loop"
  /\ pid # {}
  /\ \E b \in SUBSET edges : b # {} /\ batch' = b /\ edges' = edges \ b
  /\ pc' = "events"
  /\ UNCHANGED <<kids, macUnused, state, incoming>>

\* waitpid() for the child of the event; the batch ends early with the last child.
MacReap(c) ==
  /\ pc = "events"
  /\ c \in batch
  /\ child' = [child EXCEPT ![c] = "gone"]
  /\ Forget(c)
  /\ \/ ReapFailure(c)
     \/ ~FirstFailure(c) /\ UNCHANGED <<exitCode, signals, stale, raised>>
  /\ batch' = IF pid' = {} THEN {} ELSE batch \ {c}
  /\ UNCHANGED <<code, macUnused, edges, pc, incoming>>

MacEventsDone == EventsDone

MacFinish ==
  /\ pc = "loop"
  /\ pid = {}
  /\ pc' = "done"
  /\ UNCHANGED <<kids, macUnused, edges, batch, state, incoming>>

\* fork() or kevent() fails.
MacFail ==
  /\ pc \in {"start", "loop"}
  /\ pc' = "aborted"
  /\ UNCHANGED <<kids, macUnused, edges, batch, state, incoming>>

MacMain ==
  \/ \E c \in Children : MacFork(c) \/ MacReap(c)
  \/ MacRegister \/ MacKevent \/ MacEventsDone \/ MacFinish

MacNext ==
  \/ MacMain \/ MacFail \/ MacIncoming
  \/ \E c \in Children : ~RunnerOver /\ MacChild(c)
  \/ RunnerOver /\ UNCHANGED runnerVars

MacSafe == RunnerInit /\ [][MacNext]_runnerVars
-----------------------------------------------------------------------------
(* Properties.                                                             *)

(***************************************************************************)
(* No exit is missed although NOTE_EXIT is reported once: a child to be    *)
(* reaped has an event to come or in the batch, and only such children do. *)
(***************************************************************************)
EveryExitIsReported ==
  \A c \in Children :
    /\ child[c] = "zombie" /\ ~RunnerOver /\ pc # "start" => c \in edges \cup batch
    /\ c \in edges \cup batch => child[c] = "zombie"

\* The inductive invariant: there are no pipes and no signals to read, an exit is in the
\* batch or to come, and kevent() is called only with the last batch handled.
MacInv ==
  /\ RunnerInv
  /\ EveryExitIsReported
  /\ pending = {}
  /\ \A c \in Children : unread[c] = 0
  /\ edges \cap batch = {}
  /\ batch # {} => pc \in {"events", "aborted"}
=============================================================================
