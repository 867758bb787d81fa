------------------------- MODULE MultiRunner_proofs -------------------------
(***************************************************************************)
(* Proofs about the builds of multi_runner, for every finite set of        *)
(* children, whichever of them heed signals, every set of stop signals and *)
(* of exit codes, and every amount of output.                              *)
(***************************************************************************)
EXTENDS MultiRunner, SequenceTheorems, TLAPS

USE RunnerAssumption DEF Killed

MainPcs == {"start", "loop", "wait", "events", "signal", "reap", "done", "aborted"}

\* The initial state satisfies the invariants of the builds for Linux and for macOS.
LEMMA InitInv == RunnerInit => LinuxInv /\ MacInv
<1> SUFFICES ASSUME RunnerInit PROVE LinuxInv /\ MacInv
  OBVIOUS
<1> USE DEF RunnerInit
<1>1. raised \in BOOLEAN /\ incoming \in BOOLEAN
  BY Zenon
<1>2. RunnerTypeOK
  BY <1>1 DEF RunnerTypeOK, PipesOK
<1>3. NoStaleKill /\ StartedAndEnded /\ SignalsAreRaised /\ RaisedHasCause
  BY DEF NoStaleKill, StartedAndEnded, SignalsAreRaised, RaisedHasCause
<1>4. EveryZombieIsAnnounced /\ EveryByteIsPrinted /\ BatchIsHandled
  BY DEF EveryZombieIsAnnounced, EveryByteIsPrinted, BatchIsHandled
<1>5. EveryExitIsReported /\ pending = {} /\ edges \cap batch = {} /\ batch = {}
      /\ \A c \in Children : unread[c] = 0
  BY DEF EveryExitIsReported
<1>6. QED
  BY <1>2, <1>3, <1>4, <1>5 DEF LinuxInv, MacInv, RunnerInv
-----------------------------------------------------------------------------
(* The steps and RunnerInv, which Linux and macOS have in common.          *)

(***************************************************************************)
(* A step of main() or of a pipe that leaves the children, their signals   *)
(* and the exit code alone: it may start the loop only with all children   *)
(* started and end it only with all reaped.                                *)
(***************************************************************************)
LEMMA MainStepInv ==
  ASSUME RunnerInv, UNCHANGED <<kids, state, incoming>>,
         pc' \in MainPcs,
         pc' \notin {"start", "aborted"} => pc \notin {"start", "aborted"} \/ pid = Children,
         pc' = "done" => pid = {},
         pending' \subseteq pending,
         edges' \subseteq Children,
         batch' \subseteq Children \cup {Sfd},
         PipesOK'
  PROVE  RunnerInv'
<1> USE DEF RunnerInv, kids, state, MainPcs
<1>1. RunnerTypeOK'
  BY DEF RunnerTypeOK
<1>2. StartedAndEnded'
  BY DEF RunnerTypeOK, StartedAndEnded
<1>3. NoStaleKill' /\ SignalsAreRaised'
  BY DEF NoStaleKill, SignalsAreRaised
<1>4. RaisedHasCause'
  BY DEF RaisedHasCause
<1>5. QED
  BY <1>1, <1>2, <1>3, <1>4

\* A child starts.
LEMMA ForkInv == ASSUME NEW c \in Children, RunnerInv, Fork(c) PROVE RunnerInv'
<1> USE DEF RunnerInv, Fork, pipes
<1>1. RunnerTypeOK'
  BY DEF RunnerTypeOK, PipesOK
<1>2. StartedAndEnded'
  BY DEF RunnerTypeOK, StartedAndEnded
<1>3. NoStaleKill' /\ SignalsAreRaised'
  BY DEF NoStaleKill, SignalsAreRaised
<1>4. RaisedHasCause'
  BY DEF RunnerTypeOK, RaisedHasCause
<1>5. QED
  BY <1>1, <1>2, <1>3, <1>4

\* A child ends: by itself with one of its codes, or by a signal, which raised announced.
LEMMA ChildEndsInv ==
  ASSUME NEW c \in Children, NEW n \in Codes \cup {Killed}, RunnerInv,
         n = Killed => signals[c] # {},
         child[c] = "running", child' = [child EXCEPT ![c] = "zombie"],
         code' = [code EXCEPT ![c] = n],
         pending' \in {pending, pending \cup {Chld}},
         edges' \subseteq Children, batch' = batch,
         UNCHANGED <<signals, pipes, pc, state, incoming>>
  PROVE  RunnerInv'
<1> USE DEF RunnerInv, pipes, state
<1>1. RunnerTypeOK'
  BY DEF RunnerTypeOK, PipesOK
<1>2. StartedAndEnded'
  BY DEF RunnerTypeOK, StartedAndEnded
<1>3. NoStaleKill'
  BY DEF NoStaleKill
<1>4. SignalsAreRaised'
  BY DEF RunnerTypeOK, SignalsAreRaised
<1>5. RaisedHasCause'
  BY DEF RunnerTypeOK, RaisedHasCause
<1>6. QED
  BY <1>1, <1>2, <1>3, <1>4, <1>5

\* kill() for children of which none is reaped.
LEMMA KillAllTold ==
  ASSUME RunnerInv, NEW s \in Stops, NEW cs \in SUBSET pid, KillAll(s, cs)
  PROVE  signals' \in [Children -> SUBSET Stops] /\ stale' = {}
BY DEF RunnerInv, KillAll, RunnerTypeOK, NoStaleKill

(***************************************************************************)
(* A child is reaped.  Its pid is forgotten before the rest is signalled,  *)
(* and the first failure is not that of a child the runner has ended: no   *)
(* signal was sent before raised is set.                                   *)
(***************************************************************************)
LEMMA ReapedInv ==
  ASSUME NEW c \in Children, RunnerInv, pc \in {"events", "reap"}, child[c] = "zombie",
         child' = [child EXCEPT ![c] = "gone"], Forget(c),
         \/ ReapFailure(c)
         \/ ~FirstFailure(c) /\ UNCHANGED <<exitCode, signals, stale, raised>>,
         batch' \subseteq batch, edges' = edges,
         UNCHANGED <<code, pipes, pending, pc, incoming>>
  PROVE  RunnerInv'
<1> USE DEF RunnerInv, pipes, Forget
<1>1. pid' = pid \ {c} /\ \A d \in pid' : child[d] # "gone"
  BY DEF RunnerTypeOK
<1>2. CASE ReapFailure(c)
  <2>1. /\ code[c] # 0 /\ ~raised /\ exitCode' = code[c]
        /\ signals' \in [Children -> SUBSET Stops] /\ stale' = {}
    <3>1. KillAll("TERM", pid \ {c})
      BY <1>1, <1>2, Zenon DEF ReapFailure
    <3>2. QED
      BY <1>1, <1>2, <3>1, KillAllTold DEF ReapFailure, FirstFailure
  <2>2. raised'
    BY <1>2, Zenon DEF ReapFailure
  <2>3. code[c] # Killed
    BY <2>1 DEF SignalsAreRaised
  <2>4. RunnerTypeOK'
    <3>1. raised' \in BOOLEAN
      BY <1>2, Zenon DEF ReapFailure
    <3>2. exitCode' \in Codes \cup {0, Killed}
      BY <2>1 DEF RunnerTypeOK
    <3>3. pid' = {d \in Children : child'[d] \in {"running", "zombie"}}
      BY <1>1 DEF RunnerTypeOK
    <3>4. PipesOK'
      BY DEF RunnerTypeOK, PipesOK
    <3>5. /\ child' \in [Children -> {"none", "running", "zombie", "gone"}]
          /\ edges' \subseteq Children /\ batch' \subseteq Children \cup {Sfd}
          /\ pid' \subseteq Children
      BY <1>1 DEF RunnerTypeOK
    <3>6. QED
      BY <2>1, <3>1, <3>2, <3>3, <3>4, <3>5, Zenon DEF RunnerTypeOK
  <2>5. NoStaleKill' /\ SignalsAreRaised' /\ RaisedHasCause'
    BY <2>1, <2>2, <2>3 DEF NoStaleKill, SignalsAreRaised, RaisedHasCause
  <2>6. StartedAndEnded'
    BY <1>1 DEF RunnerTypeOK, StartedAndEnded
  <2>7. QED
    BY <2>4, <2>5, <2>6
<1>3. CASE ~FirstFailure(c) /\ UNCHANGED <<exitCode, signals, stale, raised>>
  <2>1. RunnerTypeOK'
    BY <1>1, <1>3 DEF RunnerTypeOK, PipesOK
  <2>2. NoStaleKill' /\ SignalsAreRaised'
    BY <1>3 DEF NoStaleKill, SignalsAreRaised
  <2>3. RaisedHasCause'
    BY <1>3 DEF RunnerTypeOK, RaisedHasCause, FirstFailure
  <2>4. StartedAndEnded'
    BY <1>1 DEF RunnerTypeOK, StartedAndEnded
  <2>5. QED
    BY <2>1, <2>2, <2>3, <2>4
<1>4. QED
  BY <1>2, <1>3
-----------------------------------------------------------------------------
(* Linux                                                                   *)

\* A child writes: its pipe has an event to come.
LEMMA ChildWriteIInv == ASSUME NEW c \in Children, LinuxInv, ~RunnerOver, ChildWrite(c) PROVE LinuxInv'
<1> USE DEF LinuxInv, ChildWrite, kids, state, RunnerOver
<1>1. PipesOK'
  BY DEF RunnerInv, RunnerTypeOK, PipesOK
<1>2. RunnerInv'
  BY <1>1, MainStepInv DEF RunnerInv, RunnerTypeOK, MainPcs
<1>3. EveryZombieIsAnnounced' /\ BatchIsHandled'
  BY DEF EveryZombieIsAnnounced, BatchIsHandled
<1>4. EveryByteIsPrinted'
  BY DEF RunnerInv, RunnerTypeOK, PipesOK, EveryByteIsPrinted
<1>5. QED
  BY <1>2, <1>3, <1>4

\* A child ends: SIGCHLD is pending.
LEMMA ChildEndsIInv ==
  ASSUME NEW c \in Children, NEW n \in Codes \cup {Killed}, n = Killed => signals[c] # {},
         LinuxInv, ChildEnds(c, n)
  PROVE  LinuxInv'
<1> USE DEF LinuxInv, ChildEnds
<1>1. RunnerInv'
  <2>1. edges' \subseteq Children
    BY DEF RunnerInv, RunnerTypeOK
  <2>2. /\ child[c] = "running" /\ child' = [child EXCEPT ![c] = "zombie"]
        /\ code' = [code EXCEPT ![c] = n]
        /\ pending' \in {pending, pending \cup {Chld}} /\ batch' = batch
        /\ UNCHANGED <<signals, pipes, pc, state, incoming>>
    OBVIOUS
  <2>3. QED
    BY ONLY LinuxInv, c \in Children, n \in Codes \cup {Killed}, n = Killed => signals[c] # {},
            <2>1, <2>2, ChildEndsInv DEF LinuxInv
<1>2. EveryZombieIsAnnounced' /\ EveryByteIsPrinted' /\ BatchIsHandled'
  BY DEF EveryZombieIsAnnounced, EveryByteIsPrinted, BatchIsHandled, pipes
<1>3. QED
  BY <1>1, <1>2

\* A stop signal comes in for the runner.
LEMMA IncomingIInv == ASSUME NEW s \in Stops, LinuxInv, Incoming(s) PROVE LinuxInv'
<1> USE DEF LinuxInv, RunnerInv, Incoming, kids, pipes, state
<1>1. incoming' \in BOOLEAN
  BY Zenon
<1>2. RunnerTypeOK'
  BY <1>1 DEF RunnerTypeOK, PipesOK
<1>3. StartedAndEnded' /\ NoStaleKill' /\ SignalsAreRaised'
  BY DEF StartedAndEnded, NoStaleKill, SignalsAreRaised
<1>4. RaisedHasCause'
  BY DEF RaisedHasCause
<1>5. EveryZombieIsAnnounced' /\ EveryByteIsPrinted' /\ BatchIsHandled'
  BY DEF EveryZombieIsAnnounced, EveryByteIsPrinted, BatchIsHandled
<1>6. QED
  BY <1>2, <1>3, <1>4, <1>5

\* fork()
LEMMA ForkIInv == ASSUME NEW c \in Children, LinuxInv, Fork(c) PROVE LinuxInv'
<1>1. RunnerInv'
  BY ForkInv DEF LinuxInv
<1>2. EveryZombieIsAnnounced' /\ EveryByteIsPrinted' /\ BatchIsHandled'
  BY DEF LinuxInv, Fork, pipes, EveryZombieIsAnnounced, EveryByteIsPrinted, BatchIsHandled,
         RunnerInv, RunnerTypeOK
<1>3. QED
  BY <1>1, <1>2 DEF LinuxInv

(***************************************************************************)
(* The steps of the loop between the events.  EpollWait takes the edges it *)
(* reports into the batch, which was empty; ReapNone leaves the reaping    *)
(* only with no child to reap.                                             *)
(***************************************************************************)
LEMMA LoopStepIInv ==
  ASSUME LinuxInv,
         \/ Register \/ Loop \/ EpollWait \/ EventsDone \/ EventSignal \/ ReadChld \/ ReadNothing
         \/ ReapNone \/ Fail
  PROVE  LinuxInv'
<1> USE DEF LinuxInv, Register, Loop, EpollWait, EventsDone, EventSignal, ReadChld, ReadNothing,
            ReapNone, Fail
<1>0. UNCHANGED <<kids, pipes, state, incoming>>
  OBVIOUS
<1>1. PipesOK'
  BY ONLY <1>0, LinuxInv DEF LinuxInv, RunnerInv, RunnerTypeOK, PipesOK, pipes
<1>2. /\ pending' \subseteq pending /\ edges' \subseteq Children
      /\ batch' \subseteq Children \cup {Sfd}
  <2>1. edges \subseteq Children /\ batch \subseteq Children \cup {Sfd}
    BY DEF RunnerInv, RunnerTypeOK
  <2>2. CASE UNCHANGED <<pending, edges, batch>>
    BY ONLY <2>1, <2>2
  <2>3. CASE EpollWait
    BY ONLY <2>1, <2>3 DEF EpollWait
  <2>4. CASE EventSignal \/ ReadChld
    BY ONLY <2>1, <2>4 DEF EventSignal, ReadChld
  <2>5. QED
    BY <2>2, <2>3, <2>4
<1>3. /\ pc' \in MainPcs /\ pc' # "done"
      /\ pc' \notin {"start", "aborted"} => pc \notin {"start", "aborted"} \/ pid = Children
  BY DEF MainPcs
<1>4. RunnerInv'
  BY ONLY LinuxInv, <1>0, <1>1, <1>2, <1>3, MainStepInv DEF LinuxInv
<1> USE DEF kids, pipes, state
<1>5. EveryZombieIsAnnounced'
  BY DEF EveryZombieIsAnnounced
<1>6. BatchIsHandled'
  BY DEF BatchIsHandled
<1>7. EveryByteIsPrinted'
  BY DEF EveryByteIsPrinted, BatchIsHandled, RunnerInv, RunnerTypeOK
<1>8. QED
  BY <1>4, <1>5, <1>6, <1>7

\* read_pipe leaves nothing in the pipe it takes out of the batch.
LEMMA ReadPipeIInv == ASSUME NEW c \in Children, LinuxInv, ReadPipe(c) PROVE LinuxInv'
<1> USE DEF LinuxInv, ReadPipe, kids, state
<1>1. PipesOK'
  BY DEF RunnerInv, RunnerTypeOK, PipesOK
<1>2. RunnerInv'
  BY <1>1, MainStepInv DEF RunnerInv, RunnerTypeOK, MainPcs
<1>3. EveryZombieIsAnnounced' /\ BatchIsHandled'
  BY DEF EveryZombieIsAnnounced, BatchIsHandled
<1>4. EveryByteIsPrinted'
  BY DEF RunnerInv, RunnerTypeOK, PipesOK, EveryByteIsPrinted
<1>5. QED
  BY <1>2, <1>3, <1>4

\* A stop signal is forwarded to the children that have a pid: none of them is reaped.
LEMMA ReadStopIInv == ASSUME LinuxInv, ReadStop PROVE LinuxInv'
<1> USE DEF LinuxInv, RunnerInv, ReadStop, pipes
<1>1. PICK s \in pending \cap Stops : pending' = pending \ {s} /\ KillAll(s, pid)
  OBVIOUS
<1>2. /\ signals' \in [Children -> SUBSET Stops]
      /\ stale' = {}
  BY <1>1, KillAllTold
<1>3. raised' \in BOOLEAN /\ raised'
  BY Zenon
<1>4. RunnerTypeOK'
  BY <1>1, <1>2, <1>3 DEF RunnerTypeOK, PipesOK
<1>5. StartedAndEnded' /\ NoStaleKill' /\ SignalsAreRaised'
  BY <1>2 DEF StartedAndEnded, NoStaleKill, SignalsAreRaised
<1>6. RaisedHasCause'
  BY <1>1 DEF RaisedHasCause
<1>7. EveryZombieIsAnnounced'
  BY <1>1 DEF EveryZombieIsAnnounced
<1>8. EveryByteIsPrinted' /\ BatchIsHandled'
  BY DEF EveryByteIsPrinted, BatchIsHandled
<1>9. QED
  BY <1>4, <1>5, <1>6, <1>7, <1>8

\* waitpid() returns a child, and main() goes on reaping.
LEMMA ReapIInv == ASSUME NEW c \in Children, LinuxInv, Reap(c) PROVE LinuxInv'
<1>1. RunnerInv'
  BY ReapedInv DEF LinuxInv, Reap, AfterReap
<1>2. EveryZombieIsAnnounced' /\ EveryByteIsPrinted' /\ BatchIsHandled'
  BY DEF LinuxInv, Reap, AfterReap, pipes, EveryZombieIsAnnounced, EveryByteIsPrinted, BatchIsHandled
<1>3. QED
  BY <1>1, <1>2 DEF LinuxInv

\* All children are reaped, and the pipes are emptied.
LEMMA FinishIInv == ASSUME LinuxInv, Finish PROVE LinuxInv'
<1> USE DEF LinuxInv, Finish, kids, state
<1>1. PipesOK'
  BY DEF RunnerInv, RunnerTypeOK, PipesOK
<1>2. RunnerInv'
  BY <1>1, MainStepInv DEF RunnerInv, RunnerTypeOK, MainPcs
<1>3. EveryZombieIsAnnounced' /\ EveryByteIsPrinted' /\ BatchIsHandled'
  BY DEF RunnerInv, RunnerTypeOK, EveryZombieIsAnnounced, EveryByteIsPrinted, BatchIsHandled
<1>4. QED
  BY <1>2, <1>3

\* A step that changes nothing.
LEMMA StutterInv ==
  ASSUME UNCHANGED runnerVars
  PROVE  (LinuxInv => LinuxInv') /\ (MacInv => MacInv')
<1> USE DEF runnerVars, kids, pipes, state
<1>1. RunnerTypeOK => RunnerTypeOK'
  BY DEF RunnerTypeOK, PipesOK
<1>2. (NoStaleKill => NoStaleKill') /\ (StartedAndEnded => StartedAndEnded')
      /\ (SignalsAreRaised => SignalsAreRaised') /\ (RaisedHasCause => RaisedHasCause')
  BY DEF NoStaleKill, StartedAndEnded, SignalsAreRaised, RaisedHasCause
<1>3. (EveryZombieIsAnnounced => EveryZombieIsAnnounced') /\ (BatchIsHandled => BatchIsHandled')
      /\ (EveryByteIsPrinted => EveryByteIsPrinted') /\ (EveryExitIsReported => EveryExitIsReported')
  BY DEF EveryZombieIsAnnounced, BatchIsHandled, EveryByteIsPrinted, EveryExitIsReported, RunnerOver
<1>4. QED
  BY <1>1, <1>2, <1>3 DEF LinuxInv, MacInv, RunnerInv

\* Every step on Linux preserves the invariant.
LEMMA NextIInv == ASSUME LinuxInv, LinuxNext PROVE LinuxInv'
<1>1. ASSUME NEW c \in Children, Fork(c) \/ ReadPipe(c) \/ Reap(c) PROVE LinuxInv'
  BY <1>1, ForkIInv, ReadPipeIInv, ReapIInv
<1>2. CASE \/ Register \/ Loop \/ EpollWait \/ EventsDone \/ EventSignal \/ ReadChld
           \/ ReadNothing \/ ReapNone \/ Fail
  BY <1>2, LoopStepIInv
<1>3. CASE ReadStop \/ Finish
  BY <1>3, ReadStopIInv, FinishIInv
<1>4. ASSUME NEW c \in Children, ~RunnerOver, ChildWrite(c) PROVE LinuxInv'
  BY <1>4, ChildWriteIInv
<1>5. ASSUME NEW c \in Children, ChildExit(c) \/ ChildKilled(c) PROVE LinuxInv'
  <2>1. CASE ChildExit(c)
    BY <2>1, ChildEndsIInv DEF ChildExit
  <2>2. CASE ChildKilled(c)
    BY <2>2, ChildEndsIInv DEF ChildKilled
  <2>3. QED
    BY <1>5, <2>1, <2>2
<1>6. ASSUME NEW s \in Stops, Incoming(s) PROVE LinuxInv'
  BY <1>6, IncomingIInv
<1>7. CASE UNCHANGED runnerVars
  BY <1>7, StutterInv
<1>8. QED
  BY <1>1, <1>2, <1>3, <1>4, <1>5, <1>6, <1>7 DEF LinuxNext, Main
-----------------------------------------------------------------------------
(* macOS                                                                   *)

\* A child ends: its NOTE_EXIT is to come, or MacRegister will find the child ended.
LEMMA MacChildEndsInv ==
  ASSUME NEW c \in Children, NEW n \in Codes \cup {Killed}, n = Killed => signals[c] # {},
         MacInv, ~RunnerOver, MacChildEnds(c, n)
  PROVE  MacInv'
<1> USE DEF MacInv, MacChildEnds, macUnused
<1>1. RunnerInv'
  <2>1. edges' \subseteq Children
    BY DEF RunnerInv, RunnerTypeOK
  <2>2. /\ child[c] = "running" /\ child' = [child EXCEPT ![c] = "zombie"]
        /\ code' = [code EXCEPT ![c] = n]
        /\ pending' \in {pending, pending \cup {Chld}} /\ batch' = batch
        /\ UNCHANGED <<signals, pipes, pc, state, incoming>>
    OBVIOUS
  <2>3. QED
    BY ONLY MacInv, c \in Children, n \in Codes \cup {Killed}, n = Killed => signals[c] # {},
            <2>1, <2>2, ChildEndsInv DEF MacInv
<1> USE DEF pipes, RunnerOver
<1>2. EveryExitIsReported'
  BY DEF EveryExitIsReported, RunnerInv, RunnerTypeOK
<1>3. edges' \cap batch' = {}
  BY DEF EveryExitIsReported
<1>4. QED
  BY <1>1, <1>2, <1>3

\* A signal ends the runner, or a call of its own fails.
LEMMA MacAbortInv == ASSUME MacInv, MacIncoming \/ MacFail PROVE MacInv'
<1> USE DEF MacInv, MacIncoming, MacFail, macUnused, kids, pipes, state
<1>1. incoming' \in BOOLEAN
  <2>1. CASE MacIncoming
    BY <2>1, Zenon
  <2>2. CASE MacFail
    BY <2>2 DEF RunnerInv, RunnerTypeOK
  <2>3. QED
    BY <2>1, <2>2
<1>2. incoming => incoming'
  <2>1. CASE MacIncoming
    BY <2>1, Zenon
  <2>2. CASE MacFail
    BY <2>2
  <2>3. QED
    BY <2>1, <2>2
<1>3. RunnerTypeOK'
  BY <1>1 DEF RunnerInv, RunnerTypeOK, PipesOK
<1>4. StartedAndEnded' /\ NoStaleKill' /\ SignalsAreRaised'
  BY DEF RunnerInv, StartedAndEnded, NoStaleKill, SignalsAreRaised
<1>5. RaisedHasCause'
  BY <1>2 DEF RunnerInv, RaisedHasCause
<1>6. EveryExitIsReported'
  BY DEF EveryExitIsReported, RunnerOver
<1>7. QED
  BY <1>3, <1>4, <1>5, <1>6 DEF RunnerInv

\* fork()
LEMMA MacForkInv == ASSUME NEW c \in Children, MacInv, MacFork(c) PROVE MacInv'
<1> USE DEF MacInv, MacFork
<1>1. RunnerInv'
  BY ForkInv
<1>2. EveryExitIsReported'
  BY DEF EveryExitIsReported, Fork, RunnerOver, RunnerInv, RunnerTypeOK
<1>3. QED
  BY <1>1, <1>2 DEF Fork, pipes

(***************************************************************************)
(* The steps of the loop: MacRegister also watches the children that have  *)
(* ended already, and MacKevent moves events into the empty batch.         *)
(***************************************************************************)
LEMMA MacLoopStepInv ==
  ASSUME MacInv, MacRegister \/ MacKevent \/ MacEventsDone \/ MacFinish
  PROVE  MacInv'
<1> USE DEF MacInv, MacRegister, MacKevent, MacEventsDone, EventsDone, MacFinish, macUnused,
            kids, pipes, state
<1>1. PipesOK'
  BY DEF RunnerInv, RunnerTypeOK, PipesOK
<1>2. /\ pending' \subseteq pending /\ edges' \subseteq Children
      /\ batch' \subseteq Children \cup {Sfd}
  BY DEF RunnerInv, RunnerTypeOK
<1>3. /\ pc' \in MainPcs /\ (pc' = "done" => pid = {})
      /\ pc' \notin {"start", "aborted"} => pc \notin {"start", "aborted"} \/ pid = Children
  BY DEF MainPcs
<1>4. RunnerInv'
  BY <1>1, <1>2, <1>3, MainStepInv
<1>5. EveryExitIsReported'
  BY DEF EveryExitIsReported, RunnerOver
<1>6. edges' \cap batch' = {}
  OBVIOUS
<1>7. batch' # {} => pc' \in {"events", "aborted"}
  OBVIOUS
<1>8. QED
  BY <1>4, <1>5, <1>6, <1>7

\* The child of an event is reaped; when it was the last, no event is dropped with the batch.
LEMMA MacReapInv == ASSUME NEW c \in Children, MacInv, MacReap(c) PROVE MacInv'
<1> USE DEF MacInv, MacReap, macUnused, pipes
<1>1. child[c] = "zombie" /\ pid' = pid \ {c} /\ c \notin edges
  BY DEF EveryExitIsReported, Forget
<1>2. batch' = IF pid \ {c} = {} THEN {} ELSE batch \ {c}
  BY <1>1, Zenon
<1>3. RunnerInv'
  <2>1. batch' \subseteq batch
    BY ONLY <1>2
  <2>2. QED
    BY <1>1, <2>1, ReapedInv
<1>4. ASSUME NEW d \in Children, child'[d] = "zombie", ~RunnerOver', pc' # "start"
      PROVE  d \in edges' \cup batch'
  <2>1. d # c /\ child[d] = "zombie"
    BY <1>4 DEF RunnerInv, RunnerTypeOK
  <2>2. d \in pid /\ d \in edges \cup batch
    BY <1>4, <2>1 DEF RunnerInv, RunnerTypeOK, EveryExitIsReported, RunnerOver
  <2>3. batch' = batch \ {c}
    BY <1>2, <2>1, <2>2
  <2>4. QED
    BY ONLY MacReap(c), <2>1, <2>2, <2>3 DEF MacReap
<1>5. ASSUME NEW d \in Children, d \in edges' \cup batch' PROVE child'[d] = "zombie"
  <2>1. d # c /\ d \in edges \cup batch
    BY <1>1, <1>2, <1>5
  <2>2. QED
    BY <2>1 DEF EveryExitIsReported, RunnerInv, RunnerTypeOK
<1>6. EveryExitIsReported'
  BY ONLY <1>4, <1>5 DEF EveryExitIsReported
<1>7. edges' \cap batch' = {} /\ (batch' # {} => pc' \in {"events", "aborted"})
  BY <1>2
<1>8. pending' = {} /\ \A d \in Children : unread'[d] = 0
  OBVIOUS
<1>9. QED
  BY ONLY <1>3, <1>6, <1>7, <1>8 DEF MacInv

\* Every step on macOS preserves the invariant.
LEMMA MacNextInv == ASSUME MacInv, MacNext PROVE MacInv'
<1>1. ASSUME NEW c \in Children, MacFork(c) \/ MacReap(c) PROVE MacInv'
  BY <1>1, MacForkInv, MacReapInv
<1>2. CASE MacRegister \/ MacKevent \/ MacEventsDone \/ MacFinish
  BY <1>2, MacLoopStepInv
<1>3. CASE MacFail \/ MacIncoming
  BY <1>3, MacAbortInv
<1>4. ASSUME NEW c \in Children, ~RunnerOver, MacChild(c) PROVE MacInv'
  BY <1>4, MacChildEndsInv DEF MacChild
<1>5. CASE UNCHANGED runnerVars
  BY <1>5, StutterInv
<1>6. QED
  BY <1>1, <1>2, <1>3, <1>4, <1>5 DEF MacNext, MacMain
-----------------------------------------------------------------------------
(* Windows                                                                 *)

\* What the assumption says of the constants of the build for Windows.
LEMMA Win32Constants ==
  /\ Processes \in Nat \ {0}
  /\ Codes \subseteq Nat /\ Killed \in Nat \ (Codes \cup {0})
  /\ Events \subseteq {"C", "CLOSE", "LOGOFF", "SHUTDOWN"}
BY BuildsAssumption DEF Win!Win32Assumption

\* The initial state satisfies the invariant.
LEMMA Win32InitInv == Win!Init => Win!IInv
<1> SUFFICES ASSUME Win!Init PROVE Win!IInv
  OBVIOUS
<1> USE Win32Constants DEF Win!Init
<1>1. sendClose
  BY Zenon
<1>2. Win!TypeOK
  BY EmptySeq DEF Win!TypeOK
<1>3. Win!PidsAreLive /\ Win!StartedAndEnded
  BY DEF Win!PidsAreLive, Win!StartedAndEnded
<1>4. Win!CloseHasCause
  BY <1>1 DEF Win!CloseHasCause
<1>5. QED
  BY <1>2, <1>3, <1>4 DEF Win!IInv

(***************************************************************************)
(* A child ends: with a code of its own, by a console event it was told    *)
(* of, or terminated with exit_code by the timer routine.                  *)
(***************************************************************************)
LEMMA Win32ChildEndsInv ==
  ASSUME Win!IInv, NEW i \in 1..Processes, NEW n \in Codes \cup {0, Killed},
         n = Killed => ~sendClose,
         Win!ChildEnds(i, n), at' \in {at, at + 1},
         UNCHANGED <<told, slots, winSize, timer, end, console, sendClose, winExitCode, winPc>>
  PROVE  Win!IInv'
<1> USE Win32Constants DEF Win!IInv, Win!ChildEnds
<1>1. Win!TypeOK'
  BY DEF Win!TypeOK
<1>2. Win!PidsAreLive'
  BY DEF Win!TypeOK, Win!PidsAreLive
<1>3. Win!StartedAndEnded'
  BY DEF Win!TypeOK, Win!StartedAndEnded
<1>4. Win!CloseHasCause'
  BY DEF Win!TypeOK, Win!CloseHasCause
<1>5. QED
  BY <1>1, <1>2, <1>3, <1>4

(***************************************************************************)
(* A step of main() or of the timer that changes neither the children nor  *)
(* the list of their handles, nor the cause of the end.                    *)
(***************************************************************************)
LEMMA Win32KeptInv ==
  ASSUME Win!IInv,
         UNCHANGED <<winChild, winCode, slots, winSize, winExitCode>>,
         at' \in Nat, end' \in 0..Len(slots), timer' = "kill" => at' > 0,
         timer' \in {"none", "armed", "kill", "done"},
         winPc' \in {"start", "loop", "leave", "done", "aborted"},
         winPc' # "aborted" /\ winPc' # winPc => winPc # "start" /\ winPc' # "start",
         winPc' \in {"loop", "leave", "done"} => winPc \in {"loop", "leave", "done"},
         winPc' \in {"leave", "done"} => winSize = 0,
         console # Win!RunningTrue => console' # Win!RunningTrue,
         \/ UNCHANGED <<sendClose, told>> /\ (timer = "none" => timer' = "none")
         \/ console # Win!RunningTrue /\ ~sendClose'
  PROVE  Win!IInv'
<1> USE Win32Constants DEF Win!IInv
<1>1. Win!TypeOK'
  BY DEF Win!TypeOK
<1>2. Win!PidsAreLive'
  BY DEF Win!PidsAreLive
<1>3. Win!StartedAndEnded'
  BY DEF Win!StartedAndEnded
<1>4. Win!CloseHasCause'
  BY DEF Win!CloseHasCause
<1>5. QED
  BY <1>1, <1>2, <1>3, <1>4

\* CreateProcess: a child that starts is appended to the list.
LEMMA Win32CreateInv ==
  ASSUME Win!IInv, NEW i \in 1..Processes, Win!Create(i) PROVE Win!IInv'
<1> USE Win32Constants DEF Win!IInv, Win!Create, Win!list, Win!clock
<1>1. /\ Len(slots) \in Nat /\ slots \in Seq(0..Processes) /\ winSize = Len(slots)
      /\ winChild[i] = "none"
  BY DEF Win!TypeOK, Win!PidsAreLive
<1>2. CASE /\ winChild' = [winChild EXCEPT ![i] = "running"]
           /\ slots' = Append(slots, i) /\ winSize' = winSize + 1
  <2>1. /\ slots' \in Seq(0..Processes) /\ Len(slots') = Len(slots) + 1 /\ slots'[winSize'] = i
        /\ \A k \in 1..winSize : slots'[k] = slots[k]
    BY <1>1, <1>2, AppendProperties
  <2>2. Win!TypeOK'
    BY <1>1, <1>2, <2>1 DEF Win!TypeOK
  <2>3. Win!PidsAreLive'
    <3>1. \A k \in 1..winSize' : slots'[k] \in 1..Processes
                             /\ winChild'[slots'[k]] \in {"running", "ended"}
      BY <1>1, <1>2, <2>1 DEF Win!TypeOK, Win!PidsAreLive
    <3>2. ASSUME NEW j \in 1..winSize', NEW k \in 1..winSize', slots'[j] = slots'[k] PROVE j = k
      <4>1. \A m \in 1..winSize : slots[m] # i
        BY ONLY <1>1, Win!PidsAreLive DEF Win!PidsAreLive
      <4>2. winSize \in Nat /\ winSize' = winSize + 1
        BY <1>1, <1>2
      <4>3. CASE j \in 1..winSize /\ k \in 1..winSize
        BY <2>1, <3>2, <4>3 DEF Win!PidsAreLive
      <4>4. CASE j = winSize' \/ k = winSize'
        BY ONLY <2>1, <3>2, <4>1, <4>2, <4>4
      <4>5. QED
        BY ONLY <3>2, <4>2, <4>3, <4>4
    <3>3. ASSUME NEW d \in 1..Processes, winChild'[d] \in {"running", "ended"}
          PROVE  \E k \in 1..winSize' : slots'[k] = d
      <4>1. CASE d = i
        BY <1>1, <1>2, <2>1, <4>1
      <4>2. CASE d # i
        <5>1. PICK k \in 1..winSize : slots[k] = d
          BY <1>2, <3>3, <4>2 DEF Win!TypeOK, Win!PidsAreLive
        <5>2. QED
          BY <1>1, <1>2, <2>1, <5>1
      <4>3. QED
        BY <4>1, <4>2
    <3>4. winPc' = "start" => winSize' = Len(slots')
      BY <1>1, <1>2, <2>1
    <3>5. QED
      BY ONLY <3>1, <3>2, <3>3, <3>4 DEF Win!PidsAreLive
  <2>4. Win!StartedAndEnded'
    BY <1>1, <1>2 DEF Win!TypeOK, Win!StartedAndEnded
  <2>5. Win!CloseHasCause'
    BY <1>1, <1>2 DEF Win!TypeOK, Win!CloseHasCause
  <2>6. QED
    BY <2>2, <2>3, <2>4, <2>5
<1>3. CASE winChild' = [winChild EXCEPT ![i] = "failed"] /\ UNCHANGED <<slots, winSize>>
  <2>1. Win!TypeOK'
    BY <1>3 DEF Win!TypeOK
  <2>2. Win!PidsAreLive'
    BY <1>1, <1>3 DEF Win!TypeOK, Win!PidsAreLive
  <2>3. Win!StartedAndEnded'
    BY <1>1, <1>3 DEF Win!TypeOK, Win!StartedAndEnded
  <2>4. Win!CloseHasCause'
    BY <1>3 DEF Win!TypeOK, Win!CloseHasCause
  <2>5. QED
    BY <2>1, <2>2, <2>3, <2>4
<1>4. QED
  BY <1>2, <1>3

\* The first m - 1 elements of r are the first m of s without the k-th.
Removed(s, r, m, k) == \A j \in 1..(m - 1) : r[j] = IF j < k THEN s[j] ELSE s[j + 1]

\* r has the elements of s but the k-th, each as often as s.
Keeps(s, r, m, k) ==
  /\ \A j \in 1..(m - 1) : \E q \in 1..m : q # k /\ r[j] = s[q]
  /\ \A q \in 1..m : q # k => \E j \in 1..(m - 1) : r[j] = s[q]
  /\ (\A p, q \in 1..m : s[p] = s[q] => p = q)
       => \A i, j \in 1..(m - 1) : r[i] = r[j] => i = j

\* Moving up what is behind an erased element loses and repeats nothing else.
LEMMA RemovedKeeps ==
  ASSUME NEW s, NEW r, NEW m \in Nat, NEW k \in 1..m, Removed(s, r, m, k)
  PROVE  Keeps(s, r, m, k)
<1> USE DEF Removed
<1>1. ASSUME NEW j \in 1..(m - 1) PROVE \E q \in 1..m : q # k /\ r[j] = s[q]
  <2>1. CASE j < k
    BY <2>1
  <2>2. CASE ~(j < k)
    <3>1. j + 1 \in 1..m /\ j + 1 # k /\ r[j] = s[j + 1]
      BY <2>2
    <3>2. QED
      BY <3>1
  <2>3. QED
    BY <2>1, <2>2
<1>2. ASSUME NEW q \in 1..m, q # k PROVE \E j \in 1..(m - 1) : r[j] = s[q]
  <2>1. CASE q < k
    BY <2>1
  <2>2. CASE ~(q < k)
    <3>1. q - 1 \in 1..(m - 1) /\ ~(q - 1 < k) /\ (q - 1) + 1 = q
      BY <1>2, <2>2
    <3>2. r[q - 1] = s[q]
      BY <3>1
    <3>3. QED
      BY <3>1, <3>2
  <2>3. QED
    BY <2>1, <2>2
<1>3. ASSUME \A p, q \in 1..m : s[p] = s[q] => p = q,
             NEW i \in 1..(m - 1), NEW j \in 1..(m - 1), r[i] = r[j]
      PROVE  i = j
  <2> DEFINE from(x) == IF x < k THEN x ELSE x + 1
  <2>1. from(i) \in 1..m /\ from(j) \in 1..m /\ r[i] = s[from(i)] /\ r[j] = s[from(j)]
    OBVIOUS
  <2>2. from(i) = from(j)
    BY <1>3, <2>1
  <2>3. QED
    BY <2>2
<1>4. QED
  BY ONLY <1>1, <1>2, <1>3 DEF Keeps

\* What the list of handles is after the erasure of its k-th element.
LEMMA EraseMoves ==
  ASSUME Win!TypeOK, NEW k \in 1..winSize, Win!Erase(k)
  PROVE  /\ slots' \in Seq(0..Processes) /\ Len(slots') = Len(slots)
         /\ winSize' \in 0..Len(slots)
         /\ \A j \in 1..winSize' : slots'[j] = IF j < k THEN slots[j] ELSE slots[j + 1]
<1> USE Win32Constants DEF Win!TypeOK
<1> DEFINE f == [j \in 1..Len(slots) |-> IF j \in k..(winSize - 1) THEN slots[j + 1]
                                         ELSE IF j = k THEN 0 ELSE slots[j]]
<1>1. Len(slots) \in Nat /\ winSize \in Nat /\ winSize <= Len(slots)
  OBVIOUS
<1>2. ASSUME NEW j \in 1..Len(slots) PROVE f[j] \in 0..Processes
  <2>1. slots[j] \in 0..Processes /\ 0 \in 0..Processes
    BY <1>1
  <2>2. j \in k..(winSize - 1) => j + 1 \in 1..Len(slots)
    BY <1>1
  <2>3. j \in k..(winSize - 1) => slots[j + 1] \in 0..Processes
    <3>1. slots \in Seq(0..Processes)
      OBVIOUS
    <3>2. QED
      BY ONLY <2>2, <3>1, ElementOfSeq
  <2>4. QED
    BY <2>1, <2>3
<1>3. f \in Seq(0..Processes) /\ Len(f) = Len(slots)
  BY <1>1, <1>2, IsASeq, LenProperties
<1>4. slots' = f /\ winSize' = winSize - 1
  BY DEF Win!Erase
<1>5. QED
  BY <1>1, <1>3, <1>4

(***************************************************************************)
(* A child that has ended is removed: its handle leaves the list, and the  *)
(* first failure is not that of a child the runner told to end.            *)
(***************************************************************************)
LEMMA Win32RemoveChildInv ==
  ASSUME Win!IInv, NEW k \in 1..Processes, Win!RemoveChild(k) PROVE Win!IInv'
<1> USE Win32Constants DEF Win!IInv
<1> DEFINE i == slots[k]
<1>1. k \in 1..winSize /\ i \in 1..Processes /\ winChild[i] = "ended" /\ winPc = "loop" /\ winPc' = winPc
  BY DEF Win!RemoveChild, Win!Returned, Win!Signalled, Win!TypeOK, Win!PidsAreLive
<1>2. /\ winChild' = [winChild EXCEPT ![i] = "gone"] /\ Win!Erase(k)
      /\ UNCHANGED <<winCode, timer, at, end, console>>
  BY DEF Win!RemoveChild, Win!clock
<1>3. /\ slots' \in Seq(0..Processes) /\ Len(slots') = Len(slots)
      /\ winSize' \in 0..Len(slots) /\ winSize' = winSize - 1 /\ winSize \in Nat
      /\ \A j \in 1..winSize' : slots'[j] = IF j < k THEN slots[j] ELSE slots[j + 1]
  <2>1. winSize' = winSize - 1
    BY ONLY <1>2 DEF Win!Erase
  <2>2. Win!TypeOK /\ winSize \in Nat
    BY DEF Win!TypeOK
  <2>3. QED
    BY ONLY <1>1, <1>2, <2>1, <2>2, EraseMoves
<1>4. \/ /\ winCode[i] # 0 /\ sendClose /\ ~sendClose' /\ winExitCode' = winCode[i]
      \/ (winCode[i] = 0 \/ ~sendClose) /\ UNCHANGED <<winExitCode, sendClose, told>>
  BY Zenon DEF Win!RemoveChild, Win!FirstFailure
<1> HIDE DEF i
<1>5. Win!TypeOK'
  BY <1>1, <1>2, <1>3, <1>4 DEF Win!TypeOK, Win!CloseHasCause
<1>6. Win!PidsAreLive'
  <2>1. Keeps(slots, slots', winSize, k)
    <3>1. Removed(slots, slots', winSize, k)
      BY ONLY <1>3 DEF Removed
    <3>2. QED
      BY ONLY <1>1, <1>3, <3>1, RemovedKeeps
  <2>2. \A m \in 1..winSize : m # k => slots[m] # i
    BY <1>1 DEF Win!PidsAreLive, i
  <2>3. ASSUME NEW j \in 1..(winSize - 1)
        PROVE  slots'[j] \in 1..Processes /\ winChild'[slots'[j]] \in {"running", "ended"}
    <3>1. PICK q \in 1..winSize : q # k /\ slots'[j] = slots[q]
      BY ONLY <2>1, <2>3 DEF Keeps
    <3>2. slots[q] # i /\ slots[q] \in 1..Processes /\ winChild[slots[q]] \in {"running", "ended"}
      BY <2>2, <3>1 DEF Win!PidsAreLive
    <3>3. winChild'[slots[q]] = winChild[slots[q]]
      BY <1>2, <3>2 DEF Win!TypeOK
    <3>4. QED
      BY ONLY <3>1, <3>2, <3>3
  <2>4. \A j, m \in 1..(winSize - 1) : slots'[j] = slots'[m] => j = m
    BY <2>1 DEF Keeps, Win!PidsAreLive
  <2>5. ASSUME NEW d \in 1..Processes, winChild'[d] \in {"running", "ended"}
        PROVE  \E j \in 1..(winSize - 1) : slots'[j] = d
    <3>1. d # i /\ winChild[d] \in {"running", "ended"}
      BY <1>1, <1>2, <2>5 DEF Win!TypeOK
    <3>2. PICK q \in 1..winSize : slots[q] = d
      BY <3>1 DEF Win!PidsAreLive
    <3>3. q # k
      BY <3>1, <3>2 DEF i
    <3>4. QED
      BY ONLY <2>1, <3>2, <3>3 DEF Keeps
  <2>6. QED
    BY ONLY <1>1, <1>3, <2>3, <2>4, <2>5 DEF Win!PidsAreLive
<1>7. Win!StartedAndEnded'
  BY <1>1, <1>2 DEF Win!TypeOK, Win!StartedAndEnded
<1>8. Win!CloseHasCause'
  BY <1>1, <1>2, <1>4 DEF Win!TypeOK, Win!CloseHasCause
<1>9. QED
  BY <1>5, <1>6, <1>7, <1>8

(***************************************************************************)
(* The other steps of main(): they give up waiting for the event, relay a  *)
(* console event, fail, or leave the loop when the list is empty.          *)
(***************************************************************************)
LEMMA Win32MainInv ==
  ASSUME Win!IInv,
         \/ Win!RemoveEvent \/ Win!TimesUp \/ Win!WaitTooMany \/ Win!WaitFails \/ Win!CreateEventFails
         \/ Win!Leave \/ Win!Exit
  PROVE  Win!IInv'
<1> USE DEF Win!kids, Win!list, Win!clock
<1>0. /\ at \in Nat /\ end \in 0..Len(slots) /\ winSize \in 0..Len(slots)
      /\ timer \in {"none", "armed", "kill", "done"} /\ (timer = "kill" => at > 0)
      /\ winPc \in {"start", "loop", "leave", "done", "aborted"}
  BY DEF Win!IInv, Win!TypeOK
<1>1. CASE Win!RemoveEvent
  BY ONLY Win!IInv, <1>0, <1>1, Win32KeptInv DEF Win!RemoveEvent, Win!kids, Win!list, Win!clock
<1>2. CASE Win!TimesUp
  <2>1. ~sendClose'
    BY <1>2, Zenon DEF Win!TimesUp
  <2>2. QED
    BY ONLY Win!IInv, <1>0, <1>2, <2>1, Win32KeptInv DEF Win!TimesUp, Win!kids, Win!list, Win!clock
<1>3. CASE Win!WaitTooMany \/ Win!WaitFails
  BY ONLY Win!IInv, <1>0, <1>3, Win32KeptInv DEF Win!WaitTooMany, Win!WaitFails, Win!kids, Win!list, Win!clock
<1>4. CASE Win!CreateEventFails
  <2>1. ~sendClose'
    BY <1>4, Zenon DEF Win!CreateEventFails
  <2>2. QED
    BY ONLY Win!IInv, <1>0, <1>4, <2>1, Win32KeptInv DEF Win!CreateEventFails, Win!kids, Win!list, Win!clock
<1>5. CASE Win!Leave
  BY ONLY Win!IInv, <1>0, <1>5, Win32KeptInv DEF Win!Leave, Win!kids, Win!list, Win!clock
<1>6. CASE Win!Exit
  <2>1. winSize = 0
    BY <1>6 DEF Win!Exit, Win!IInv, Win!StartedAndEnded
  <2>2. QED
    BY ONLY Win!IInv, <1>0, <1>6, <2>1, Win32KeptInv DEF Win!Exit, Win!kids, Win!list, Win!clock
<1>7. QED
  BY <1>1, <1>2, <1>3, <1>4, <1>5, <1>6

\* The timer routine, which terminates children with exit_code.
LEMMA Win32TimerInv == ASSUME Win!IInv, Win!Timer \/ Win!TimerLate PROVE Win!IInv'
<1> USE DEF Win!kids, Win!list, Win!clock
<1>0. /\ at \in Nat /\ end \in 0..Len(slots) /\ winSize \in 0..Len(slots)
      /\ timer \in {"none", "armed", "kill", "done"} /\ (timer = "kill" => at > 0)
      /\ winPc \in {"start", "loop", "leave", "done", "aborted"}
  BY DEF Win!IInv, Win!TypeOK
<1>1. CASE Win!TimerFires
  BY ONLY Win!IInv, <1>0, <1>1, Win32KeptInv DEF Win!TimerFires, Win!kids, Win!list, Win!clock
<1>2. CASE Win!TimerKill
  <2>1. /\ slots[at] \in 0..Processes /\ at \in Nat /\ at > 0
        /\ winExitCode \in Codes \cup {0} /\ winExitCode # Killed /\ ~sendClose
    <3>1. timer = "kill" /\ at <= end
      BY <1>2 DEF Win!TimerKill
    <3>2. at \in Nat /\ at > 0 /\ at \in 1..Len(slots)
      BY <3>1 DEF Win!IInv, Win!TypeOK
    <3>3. slots[at] \in 0..Processes
      <4>1. slots \in Seq(0..Processes)
        BY DEF Win!IInv, Win!TypeOK
      <4>2. QED
        BY ONLY <3>2, <4>1, ElementOfSeq
    <3>4. winExitCode \in Codes \cup {0} /\ winExitCode # Killed /\ ~sendClose
      BY <3>1 DEF Win!IInv, Win!TypeOK, Win!CloseHasCause
    <3>5. QED
      BY <3>2, <3>3, <3>4
  <2>2. CASE slots[at] # 0 /\ winChild[slots[at]] = "running"
    <3>1. /\ slots[at] \in 1..Processes
          /\ Win!ChildEnds(slots[at], winExitCode) /\ at' \in {at, at + 1}
          /\ UNCHANGED <<told, slots, winSize, timer, end, console, sendClose, winExitCode, winPc>>
      BY <1>2, <2>1, <2>2, Win32Constants DEF Win!TimerKill
    <3>2. QED
      BY ONLY <2>1, <3>1, Win!IInv, Win32ChildEndsInv
  <2>3. CASE ~(slots[at] # 0 /\ winChild[slots[at]] = "running")
    BY ONLY Win!IInv, <1>0, <1>2, <2>1, <2>3, Win32KeptInv DEF Win!TimerKill, Win!kids, Win!list, Win!clock
  <2>4. QED
    BY <2>2, <2>3
<1>3. CASE Win!TimerSet
  BY ONLY Win!IInv, <1>0, <1>3, Win32KeptInv DEF Win!TimerSet, Win!kids, Win!list, Win!clock
<1>4. CASE Win!TimerLate
  BY ONLY Win!IInv, <1>0, <1>4, Win32KeptInv DEF Win!TimerLate, Win!kids, Win!list, Win!clock
<1>5. QED
  BY <1>1, <1>2, <1>3, <1>4 DEF Win!Timer

\* A child that ends by itself or on a console event, and the console handler.
LEMMA Win32OutsideInv ==
  ASSUME Win!IInv,
         \/ \E i \in 1..Processes : Win!ChildExit(i)
         \/ \E s \in Events : Win!ConsoleHandler(s)
  PROVE  Win!IInv'
<1> USE DEF Win!kids, Win!list, Win!clock
<1>1. ASSUME NEW i \in 1..Processes, Win!ChildExit(i) PROVE Win!IInv'
  <2>1. PICK n \in Codes \cup (IF i \in told THEN {Killed} ELSE {}) : Win!ChildEnds(i, n)
    BY <1>1 DEF Win!ChildExit
  <2>2. n \in Codes \cup {0, Killed} /\ (n = Killed => i \in told)
    BY <2>1, RunnerAssumption
  <2>3. i \in told => ~sendClose
    BY DEF Win!IInv, Win!CloseHasCause
  <2>4. QED
    BY <1>1, <2>1, <2>2, <2>3, Win32ChildEndsInv DEF Win!ChildExit
<1>2. ASSUME NEW s \in Events, Win!ConsoleHandler(s) PROVE Win!IInv'
  <2>1. console' # Win!RunningTrue
    BY <1>2, Win32Constants DEF Win!ConsoleHandler, Win!RunningTrue
  <2>2. QED
    BY <1>2, <2>1, Win32KeptInv DEF Win!ConsoleHandler, Win!IInv, Win!TypeOK, Win!StartedAndEnded
<1>3. QED
  BY <1>1, <1>2

\* A step that changes nothing of the build for Windows.
LEMMA Win32StutterInv == ASSUME Win!IInv, UNCHANGED winVars PROVE Win!IInv'
BY Win32KeptInv DEF winVars, Win!IInv, Win!TypeOK, Win!StartedAndEnded

\* Every step on Windows preserves the invariant.
LEMMA Win32NextInv == ASSUME Win!IInv, Win!Next PROVE Win!IInv'
<1>1. ASSUME NEW i \in 1..Processes, Win!Create(i) \/ Win!RemoveChild(i) PROVE Win!IInv'
  BY <1>1, Win32CreateInv, Win32RemoveChildInv
<1>2. CASE \/ Win!RemoveEvent \/ Win!TimesUp \/ Win!WaitTooMany \/ Win!WaitFails
           \/ Win!CreateEventFails \/ Win!Leave \/ Win!Exit
  BY <1>2, Win32MainInv
<1>3. CASE Win!Timer \/ Win!TimerLate
  BY <1>3, Win32TimerInv
<1>4. CASE \/ \E i \in 1..Processes : Win!ChildExit(i)
           \/ \E s \in Events : Win!ConsoleHandler(s)
  BY <1>4, Win32OutsideInv
<1>5. CASE UNCHANGED Win!vars
  BY <1>5, Win32StutterInv DEF Win!vars, Win!kids, Win!list, Win!clock, winVars
<1>6. QED
  BY <1>1, <1>2, <1>3, <1>4, <1>5 DEF Win!Next, Win!Main
-----------------------------------------------------------------------------
(* The theorems, for the builds together.                                  *)

\* The inductive invariant of whichever build runs.
AllInv ==
  /\ system # "macos" => LinuxInv
  /\ system = "macos" => MacInv
  /\ Win!IInv

(***************************************************************************)
(* On every system the invariant of its build holds in every reachable   *)
(* state.                                                                  *)
(***************************************************************************)
THEOREM InductiveInvariance == AllSafe => []AllInv
<1>1. AllInit => AllInv
  BY InitInv, Win32InitInv DEF AllInit, AllInv
<1>2. ASSUME AllInv, [AllNext]_allVars PROVE AllInv'
  <2>1. CASE On("linux", LinuxNext)
    BY <1>2, <2>1, NextIInv, Win32StutterInv DEF On, AllInv
  <2>2. CASE On("macos", MacNext)
    BY <1>2, <2>2, MacNextInv, Win32StutterInv DEF On, AllInv
  <2>3. CASE Win32(Win!Next)
    BY <1>2, <2>3, Win32NextInv, StutterInv DEF Win32, AllInv
  <2>4. CASE UNCHANGED allVars
    BY <1>2, <2>4, StutterInv, Win32StutterInv DEF allVars, AllInv
  <2>5. QED
    BY <1>2, <2>1, <2>2, <2>3, <2>4 DEF AllNext
<1>3. QED
  BY <1>1, <1>2, PTL DEF AllSafe

(***************************************************************************)
(* A signal is never sent to a child that has been reaped, whose pid may   *)
(* be another process by then (Linux and macOS).                           *)
(***************************************************************************)
THEOREM OnlyLivePidsAreKilled == AllSafe => []NoStaleKill
<1>1. AllInv => NoStaleKill
  BY DEF AllInv, LinuxInv, MacInv, RunnerInv
<1>2. QED
  BY <1>1, InductiveInvariance, PTL

(***************************************************************************)
(* What children write is never lost in an edge-triggered pipe, and all of *)
(* it is copied when the runner is done (Linux).                           *)
(***************************************************************************)
THEOREM OutputIsCopied == AllSafe => []EveryByteIsPrinted
<1>1. AllInv => EveryByteIsPrinted
  BY DEF AllInv, LinuxInv, MacInv, EveryByteIsPrinted
<1>2. QED
  BY <1>1, InductiveInvariance, PTL

\* On Linux only the reaping of a child sets exit_code ...
LEMMA ReapSetsExitCode ==
  ASSUME LinuxNext, exitCode' # exitCode PROVE \E c \in Children : Reap(c) /\ ReapFailure(c)
<1>1. ASSUME NEW c \in Children, Reap(c) PROVE ReapFailure(c)
  BY <1>1 DEF Reap
<1>2. CASE \/ \E c \in Children : Fork(c) \/ ReadPipe(c)
           \/ Register \/ Loop \/ EpollWait \/ EventsDone \/ EventSignal
           \/ ReadStop \/ ReadChld \/ ReadNothing \/ ReapNone \/ Finish \/ Fail
  BY <1>2 DEF Fork, ReadPipe, Register, Loop, EpollWait, EventsDone, EventSignal, ReadStop,
              ReadChld, ReadNothing, ReapNone, Finish, Fail, state
<1>3. CASE \/ \E c \in Children : ChildWrite(c) \/ ChildExit(c) \/ ChildKilled(c)
           \/ \E s \in Stops : Incoming(s)
           \/ UNCHANGED runnerVars
  BY <1>3 DEF ChildWrite, ChildExit, ChildKilled, ChildEnds, Incoming, state, runnerVars
<1>4. QED
  BY <1>1, <1>2, <1>3 DEF LinuxNext, Main

\* ... on macOS, too ...
LEMMA MacReapSetsExitCode ==
  ASSUME MacNext, exitCode' # exitCode PROVE \E c \in Children : MacReap(c) /\ ReapFailure(c)
<1>1. ASSUME NEW c \in Children, MacReap(c) PROVE ReapFailure(c)
  BY <1>1 DEF MacReap
<1>2. CASE \/ \E c \in Children : MacFork(c) \/ MacChild(c)
           \/ MacRegister \/ MacKevent \/ MacEventsDone \/ MacFinish \/ MacFail \/ MacIncoming
           \/ UNCHANGED runnerVars
  BY <1>2 DEF MacFork, Fork, MacChild, MacChildEnds, MacRegister, MacKevent, MacEventsDone,
              EventsDone, MacFinish, MacFail, MacIncoming, state, runnerVars
<1>3. QED
  BY <1>1, <1>2 DEF MacNext, MacMain

\* ... and on Windows only the removal of a child from the list does.
LEMMA RemovalSetsExitCode ==
  ASSUME Win!Next, winExitCode' # winExitCode
  PROVE  \E k \in 1..Processes : Win!RemoveChild(k)
<1>1. CASE \/ \E i \in 1..Processes : Win!Create(i) \/ Win!ChildExit(i)
           \/ Win!RemoveEvent \/ Win!TimesUp \/ Win!WaitTooMany \/ Win!Leave \/ Win!Exit
           \/ Win!WaitFails \/ Win!CreateEventFails \/ Win!Timer \/ Win!TimerLate
           \/ \E s \in Events : Win!ConsoleHandler(s)
           \/ UNCHANGED Win!vars
  BY <1>1 DEF Win!Create, Win!ChildExit, Win!RemoveEvent, Win!TimesUp, Win!WaitTooMany,
              Win!Leave, Win!Exit, Win!WaitFails, Win!CreateEventFails, Win!Timer,
              Win!TimerFires, Win!TimerKill, Win!TimerSet, Win!TimerLate,
              Win!ConsoleHandler, Win!vars
<1>2. QED
  BY <1>1 DEF Win!Next, Win!Main

\* The failure that sets exit_code is the first, on Linux and on macOS.
LEMMA FailureIsFirst ==
  ASSUME RunnerInv, NEW c \in Children, ReapFailure(c),
         child[c] = "zombie", child' = [child EXCEPT ![c] = "gone"]
  PROVE  FirstReapedFailure
<1>1. ~raised /\ exitCode' = code[c]
  BY DEF ReapFailure, FirstFailure
<1>2. exitCode = 0 /\ \A d \in Children : child[d] = "gone" => code[d] = 0
  BY <1>1 DEF RunnerInv, RaisedHasCause
<1>3. \A d \in Children : signals[d] = {}
  BY <1>1 DEF RunnerInv, SignalsAreRaised
<1>4. child'[c] = "gone"
  BY DEF RunnerInv, RunnerTypeOK
<1>5. QED
  BY <1>1, <1>2, <1>3, <1>4 DEF FirstReapedFailure

\* It is the first on Windows.
LEMMA RemovedFailureIsFirst ==
  ASSUME Win!IInv, NEW k \in 1..Processes, Win!RemoveChild(k), winExitCode' # winExitCode
  PROVE  Win!FirstRemovedFailure
<1> DEFINE i == slots[k]
<1>1. i \in 1..Processes /\ winChild[i] = "ended"
  <2>1. k \in Win!Signalled /\ k <= winSize
    BY DEF Win!RemoveChild, Win!Returned
  <2>2. winSize \in Nat /\ k \in 1..winSize
    BY <2>1, Win32Constants DEF Win!IInv, Win!TypeOK
  <2>3. winChild[i] = "ended"
    BY <2>1, <2>2 DEF Win!Signalled
  <2>4. QED
    BY <2>2, <2>3 DEF Win!IInv, Win!PidsAreLive
<1>2. winChild' = [winChild EXCEPT ![i] = "gone"]
  BY DEF Win!RemoveChild
<1>3. sendClose /\ winExitCode' = winCode[i]
  BY Zenon DEF Win!RemoveChild, Win!FirstFailure
<1> HIDE DEF i
<1>4. /\ winExitCode = 0 /\ told = {} /\ timer = "none"
      /\ \A d \in 1..Processes : winChild[d] = "gone" => winCode[d] = 0
  BY <1>3 DEF Win!IInv, Win!CloseHasCause
<1>5. winChild'[i] = "gone"
  BY <1>1, <1>2 DEF Win!IInv, Win!TypeOK
<1>6. QED
  BY <1>1, <1>3, <1>4, <1>5 DEF Win!FirstRemovedFailure

(***************************************************************************)
(* Every build: exit_code is set once, to the code of the first failing    *)
(* child that is reaped, while the runner has ended none itself; and it is *)
(* 0 at the end only if every child succeeded or a stop signal or a        *)
(* console event came in.                                                  *)
(***************************************************************************)
THEOREM ExitCodesAreRight == AllSafe => ExitCodesAreTheCause
<1>1. ASSUME AllInv PROVE FailureIsReported
  <2>0. RunnerInv
    BY <1>1 DEF AllInv, LinuxInv, MacInv
  <2>1. ASSUME pc = "done", exitCode = 0, ~incoming, NEW c \in Children PROVE code[c] = 0
    <3>1. child[c] = "gone"
      BY <2>0, <2>1 DEF RunnerInv, RunnerTypeOK, StartedAndEnded
    <3>2. QED
      BY <2>0, <2>1, <3>1 DEF RunnerInv, RaisedHasCause
  <2>2. QED
    BY <2>1 DEF FailureIsReported
<1>2. ASSUME AllInv PROVE Win!FailureIsReported
  <2>0. Win!IInv
    BY <1>2 DEF AllInv
  <2>1. ASSUME winPc = "done", winExitCode = 0, console = Win!RunningTrue,
               NEW i \in 1..Processes
        PROVE  winCode[i] = 0
    <3>1. winChild[i] \in {"failed", "gone"}
      BY <2>0, <2>1 DEF Win!IInv, Win!TypeOK, Win!StartedAndEnded, Win!PidsAreLive
    <3>2. QED
      BY <2>0, <2>1, <3>1 DEF Win!IInv, Win!StartedAndEnded, Win!CloseHasCause
  <2>2. QED
    BY <2>1 DEF Win!FailureIsReported
<1>3. ASSUME AllInv, [AllNext]_allVars PROVE [FirstReapedFailure]_exitCode
  <2>1. SUFFICES ASSUME exitCode' # exitCode PROVE FirstReapedFailure
    OBVIOUS
  <2>2. CASE On("linux", LinuxNext)
    <3>1. LinuxNext /\ RunnerInv
      BY <1>3, <2>2 DEF On, AllInv, LinuxInv
    <3>2. PICK c \in Children : Reap(c) /\ ReapFailure(c)
      BY ONLY <2>1, <3>1, ReapSetsExitCode
    <3>3. QED
      BY ONLY <3>1, <3>2, FailureIsFirst DEF Reap
  <2>3. CASE On("macos", MacNext)
    <3>1. MacNext /\ MacInv
      BY <1>3, <2>3 DEF On, AllInv
    <3>2. PICK c \in Children : MacReap(c) /\ ReapFailure(c)
      BY ONLY <2>1, <3>1, MacReapSetsExitCode
    <3>3. child[c] = "zombie" /\ child' = [child EXCEPT ![c] = "gone"]
      BY <3>1, <3>2 DEF MacReap, MacInv, EveryExitIsReported
    <3>4. QED
      BY ONLY <3>1, <3>2, <3>3, FailureIsFirst DEF MacInv
  <2>4. CASE Win32(Win!Next) \/ UNCHANGED allVars
    BY <2>1, <2>4 DEF Win32, allVars, runnerVars, state
  <2>5. QED
    BY <1>3, <2>2, <2>3, <2>4 DEF AllNext
<1>4. ASSUME AllInv, [AllNext]_allVars PROVE [Win!FirstRemovedFailure]_winExitCode
  <2>1. SUFFICES ASSUME winExitCode' # winExitCode PROVE Win!FirstRemovedFailure
    OBVIOUS
  <2>2. Win!Next /\ Win!IInv
    BY <1>4, <2>1 DEF AllNext, On, Win32, allVars, winVars, AllInv
  <2>3. PICK k \in 1..Processes : Win!RemoveChild(k)
    BY ONLY <2>1, <2>2, RemovalSetsExitCode
  <2>4. QED
    BY ONLY <2>1, <2>2, <2>3, RemovedFailureIsFirst
<1>5. QED
  BY <1>1, <1>2, <1>3, <1>4, InductiveInvariance, PTL DEF AllSafe, ExitCodesAreTheCause

(***************************************************************************)
(* No child that has ended is forgotten: on Linux SIGCHLD is pending or    *)
(* waitpid() is being called, although SIGCHLD coalesces; on macOS its     *)
(* NOTE_EXIT is to come or in the batch, although it is reported once.     *)
(***************************************************************************)
THEOREM ExitsAreNoticed ==
  AllSafe => [](IF system = "macos" THEN EveryExitIsReported ELSE EveryZombieIsAnnounced)
<1>1. AllInv => IF system = "macos" THEN EveryExitIsReported ELSE EveryZombieIsAnnounced
  BY DEF AllInv, LinuxInv, MacInv
<1>2. QED
  BY <1>1, InductiveInvariance, PTL
=============================================================================
