-------------------------- MODULE MultiRunnerLinux --------------------------
(***************************************************************************)
(* multi_runner on Linux (bin/main_linux.cpp): N children with their       *)
(* stdout on a pipe each, one loop on epoll over a signalfd and the pipes. *)
(*                                                                         *)
(* The runner blocks SIGCHLD, SIGINT, SIGTERM and SIGQUIT before it forks, *)
(* and execve keeps the mask: a signal the runner sends stays pending in a *)
(* child that does not unblock it or read it from a signalfd of its own.   *)
(* Pending signals of a process are a set, so they coalesce.  The pipes    *)
(* are edge-triggered and the runner keeps their write ends open, so that  *)
(* it never sees an end of file.                                           *)
(***************************************************************************)
EXTENDS Integers, FiniteSets

CONSTANTS
  Children,           \* the processes to start
  Heeding,            \* those that unblock or read the signals they inherit blocked
  Stops,              \* the signals of SIGINT, SIGTERM, SIGQUIT that may come in
  Codes,              \* the exit codes children may end with by themselves
  MaxOutput,          \* bound: writes of one child to its stdout
  Sfd,                \* the signalfd, as an epoll event
  Chld                \* SIGCHLD

\* 128 + SIGTERM, the code of a child that a signal ended
Killed == 143

ASSUME RunnerAssumption ==
  /\ IsFiniteSet(Children) /\ Children # {}
  /\ Heeding \subseteq Children
  /\ "TERM" \in Stops /\ Chld \notin Stops
  /\ Codes \subseteq Nat /\ Killed \notin Codes
  /\ MaxOutput \in Nat
  /\ Sfd \notin Children

VARIABLES
  child,              \* "none", "running", "zombie" or "gone" (reaped)
  code,               \* the exit code of an ended child
  signals,            \* the signals pending in each child
  written,            \* writes of each child so far
  unread,             \* of those, the ones still in the pipe
  printed,            \* of those, the ones copied to the runner's stdout
  pending,            \* the signals pending in the runner
  edges,              \* the pipes with an event epoll has not reported yet
  pc,                 \* where main() is
  batch,              \* the events epoll_wait returned that are still to handle
  pid,                \* the children whose pid is not 0
  raised,             \* raised
  exitCode,           \* exit_code
  stale,              \* history: the reaped children kill() was called for
  incoming            \* history: a stop signal reached the runner

kids == <<child, code, signals>>
pipes == <<written, unread, printed>>
state == <<pid, raised, exitCode, stale>>
runnerVars == <<kids, pipes, pending, edges, pc, batch, state, incoming>>

RunnerInit ==
  /\ child = [c \in Children |-> "none"]
  /\ code = [c \in Children |-> 0]
  /\ signals = [c \in Children |-> {}]
  /\ written = [c \in Children |-> 0]
  /\ unread = written
  /\ printed = written
  /\ pending = {}
  /\ edges = {}
  /\ pc = "start"
  /\ batch = {}
  /\ pid = {}
  /\ raised = FALSE
  /\ exitCode = 0
  /\ stale = {}
  /\ incoming = FALSE
-----------------------------------------------------------------------------
(* The children and the outside world (external).                          *)

ChildWrite(c) ==
  /\ child[c] = "running"
  /\ written[c] < MaxOutput
  /\ written' = [written EXCEPT ![c] = @ + 1]
  /\ unread' = [unread EXCEPT ![c] = @ + 1]
  /\ edges' = edges \cup {c}
  /\ UNCHANGED <<kids, printed, pending, pc, batch, state, incoming>>

ChildEnds(c, n) ==
  /\ child[c] = "running"
  /\ child' = [child EXCEPT ![c] = "zombie"]
  /\ code' = [code EXCEPT ![c] = n]
  /\ pending' = pending \cup {Chld}
  /\ UNCHANGED <<signals, pipes, edges, pc, batch, state, incoming>>

ChildExit(c) == \E n \in Codes : ChildEnds(c, n)

\* A child that heeds signals ends when it gets one.
ChildKilled(c) ==
  /\ c \in Heeding
  /\ signals[c] # {}
  /\ ChildEnds(c, Killed)

Incoming(s) ==
  /\ pc \notin {"done", "aborted"}
  /\ ~incoming
  /\ incoming' = TRUE
  /\ pending' = pending \cup {s}
  /\ UNCHANGED <<kids, pipes, edges, pc, batch, state>>
-----------------------------------------------------------------------------
(* main()                                                                  *)

\* start_processes forks the children one after the other.
Fork(c) ==
  /\ pc = "start"
  /\ child[c] = "none"
  /\ child' = [child EXCEPT ![c] = "running"]
  /\ pid' = pid \cup {c}
  /\ UNCHANGED <<code, signals, pipes, pending, edges, pc, batch, raised, exitCode, stale, incoming>>

\* epoll_ctl ADD reports what is in a pipe already, so edges is right from the start.
Register ==
  /\ pc = "start"
  /\ pid = Children
  /\ pc' = "loop"
  /\ UNCHANGED <<kids, pipes, pending, edges, batch, state, incoming>>

Loop ==
  /\ pc = "loop"
  /\ pid # {}
  /\ pc' = "wait"
  /\ UNCHANGED <<kids, pipes, pending, edges, batch, state, incoming>>

\* epoll_wait reports some of what is ready, in some order.
EpollWait ==
  /\ pc = "wait"
  /\ \E b \in SUBSET ((IF pending # {} THEN {Sfd} ELSE {}) \cup edges) :
       /\ b # {}
       /\ batch' = b
       /\ edges' = edges \ b
  /\ pc' = "events"
  /\ UNCHANGED <<kids, pipes, pending, state, incoming>>

EventsDone ==
  /\ pc = "events"
  /\ batch = {}
  /\ pc' = "loop"
  /\ UNCHANGED <<kids, pipes, pending, edges, batch, state, incoming>>

EventSignal ==
  /\ pc = "events"
  /\ Sfd \in batch
  /\ batch' = batch \ {Sfd}
  /\ pc' = "signal"
  /\ UNCHANGED <<kids, pipes, pending, edges, state, incoming>>

\* Mutant: one read for one event.
ReadPipeOnce(c) ==
  /\ pc = "events"
  /\ c \in batch
  /\ printed' = [printed EXCEPT ![c] = @ + (IF unread[c] > 0 THEN 1 ELSE 0)]
  /\ unread' = [unread EXCEPT ![c] = @ - (IF unread[c] > 0 THEN 1 ELSE 0)]
  /\ batch' = batch \ {c}
  /\ UNCHANGED <<kids, written, pending, edges, pc, state, incoming>>

\* read_pipe: reads until EAGAIN; the last read decides, so what is written before
\* it is printed.
ReadPipe(c) ==
  /\ pc = "events"
  /\ c \in batch
  /\ printed' = [printed EXCEPT ![c] = @ + unread[c]]
  /\ unread' = [unread EXCEPT ![c] = 0]
  /\ batch' = batch \ {c}
  /\ UNCHANGED <<kids, written, pending, edges, pc, state, incoming>>
-----------------------------------------------------------------------------
(* read_signal                                                             *)

\* kill(s) for every child of cs
KillAll(s, cs) ==
  /\ signals' = [c \in Children |->
                   IF c \in cs /\ child[c] = "running" THEN signals[c] \cup {s} ELSE signals[c]]
  /\ stale' = stale \cup {c \in cs : child[c] = "gone"}

\* read(sfd) takes a stop signal: it is forwarded.
ReadStop ==
  /\ pc = "signal"
  /\ \E s \in pending \cap Stops :
       /\ pending' = pending \ {s}
       /\ KillAll(s, pid)
  /\ raised' = TRUE
  /\ UNCHANGED <<child, code, pipes, edges, pc, batch, pid, exitCode, incoming>>

\* read(sfd) takes SIGCHLD: every waitable child is reaped.
ReadChld ==
  /\ pc = "signal"
  /\ Chld \in pending
  /\ pending' = pending \ {Chld}
  /\ pc' = "reap"
  /\ UNCHANGED <<kids, pipes, edges, batch, state, incoming>>

\* read(sfd) fails with EAGAIN
ReadNothing ==
  /\ pc = "signal"
  /\ pending = {}
  /\ pc' = "events"
  /\ UNCHANGED <<kids, pipes, pending, edges, batch, state, incoming>>

\* Mutant: one waitpid() for one SIGCHLD.
AfterReapOne == pc' = "signal"

\* After a child the loop goes on with the next.
AfterReap == pc' = pc

\* Mutant: the pid of a reaped child is kept.
ForgetNobody(c) == pid' = pid

Forget(c) == pid' = pid \ {c}

\* Mutant: every failure sets the exit code.
FirstFailureAny(c) == code[c] # 0

FirstFailure(c) == code[c] # 0 /\ ~raised

\* Mutant: the failure is noted and nobody is told.
ReapFailureQuiet(c) ==
  /\ FirstFailure(c)
  /\ exitCode' = code[c]
  /\ raised' = TRUE
  /\ UNCHANGED <<signals, stale>>

\* The first failure: the code is kept and the rest told to end.
ReapFailure(c) ==
  /\ FirstFailure(c)
  /\ exitCode' = code[c]
  /\ KillAll("TERM", pid')
  /\ raised' = TRUE

\* waitpid() returns a child
Reap(c) ==
  /\ pc = "reap"
  /\ child[c] = "zombie"
  /\ child' = [child EXCEPT ![c] = "gone"]
  /\ Forget(c)
  /\ \/ ReapFailure(c)
     \/ ~FirstFailure(c) /\ UNCHANGED <<exitCode, signals, stale, raised>>
  /\ AfterReap
  /\ UNCHANGED <<code, pipes, pending, edges, batch, incoming>>

\* waitpid() returns 0 or ECHILD
ReapNone ==
  /\ pc = "reap"
  /\ \A c \in Children : child[c] # "zombie"
  /\ pc' = "signal"
  /\ UNCHANGED <<kids, pipes, pending, edges, batch, state, incoming>>
-----------------------------------------------------------------------------
\* All children are reaped: what is left in the pipes is copied.
Finish ==
  /\ pc = "loop"
  /\ pid = {}
  /\ printed' = [c \in Children |-> printed[c] + unread[c]]
  /\ unread' = [c \in Children |-> 0]
  /\ pc' = "done"
  /\ UNCHANGED <<kids, written, pending, edges, batch, state, incoming>>

\* fork(), epoll or a read fails: the exception leaves main() and the runner aborts,
\* whatever its children do.
Fail ==
  /\ pc \in {"start", "wait", "events"}
  /\ pc' = "aborted"
  /\ UNCHANGED <<kids, pipes, pending, edges, batch, state, incoming>>

RunnerOver == pc \in {"done", "aborted"}

Main ==
  \/ \E c \in Children : Fork(c)
  \/ Register \/ Loop \/ EpollWait \/ EventsDone \/ EventSignal
  \/ \E c \in Children : ReadPipe(c)
  \/ ReadStop \/ ReadChld \/ ReadNothing
  \/ \E c \in Children : Reap(c)
  \/ ReapNone \/ Finish

LinuxNext ==
  \/ Main
  \/ Fail
  \/ \E c \in Children : ~RunnerOver /\ (ChildWrite(c) \/ ChildExit(c) \/ ChildKilled(c))
  \/ \E s \in Stops : Incoming(s)
  \/ RunnerOver /\ UNCHANGED runnerVars

LinuxSafe == RunnerInit /\ [][LinuxNext]_runnerVars

\* The runner is scheduled; a child that heeds a signal ends; no child has to end by
\* itself.
LinuxSpec ==
  /\ LinuxSafe
  /\ WF_runnerVars(Main)
  /\ \A c \in Children : WF_runnerVars(~RunnerOver /\ ChildKilled(c))
-----------------------------------------------------------------------------
(* Properties.                                                             *)

\* What was written is in the pipe or printed.
PipesOK ==
  /\ written \in [Children -> Nat]
  /\ unread \in [Children -> Nat]
  /\ printed \in [Children -> Nat]
  /\ \A c \in Children : written[c] = printed[c] + unread[c]

\* Every variable stays in its range, and only started children have a pid.
RunnerTypeOK ==
  /\ child \in [Children -> {"none", "running", "zombie", "gone"}]
  /\ code \in [Children -> Codes \cup {0, Killed}]
  /\ signals \in [Children -> SUBSET Stops]
  /\ PipesOK
  /\ pending \subseteq Stops \cup {Chld}
  /\ edges \subseteq Children
  /\ pc \in {"start", "loop", "wait", "events", "signal", "reap", "done", "aborted"}
  /\ batch \subseteq Children \cup {Sfd}
  /\ raised \in BOOLEAN /\ incoming \in BOOLEAN
  /\ exitCode \in Codes \cup {0, Killed}
  /\ pid = {c \in Children : child[c] \in {"running", "zombie"}}

(***************************************************************************)
(* No child is forgotten although SIGCHLD coalesces: while one waits to be *)
(* reaped, SIGCHLD is pending or the runner is about to call waitpid().    *)
(***************************************************************************)
EveryZombieIsAnnounced ==
  (\E c \in Children : child[c] = "zombie") => Chld \in pending \/ pc = "reap"

(***************************************************************************)
(* Output is not lost in an edge-triggered pipe: what is unread has an     *)
(* event to come or is being handled; and at the end all of it is copied.  *)
(***************************************************************************)
EveryByteIsPrinted ==
  \A c \in Children :
    unread[c] > 0 => pc # "done" /\ (c \in edges \cup batch)

(***************************************************************************)
(* A signal is never sent to a pid that has been reaped, which the system  *)
(* may have given to another process.                                      *)
(***************************************************************************)
NoStaleKill == stale = {}

(***************************************************************************)
(* exit_code is set once, to the code of the first child reaped that       *)
(* failed, while no child has been signalled by the runner ...             *)
(***************************************************************************)
FirstReapedFailure ==
  exitCode' # exitCode =>
    /\ exitCode = 0
    /\ \A c \in Children : signals[c] = {} /\ (child[c] = "gone" => code[c] = 0)
    /\ \E c \in Children : child[c] = "zombie" /\ child'[c] = "gone" /\ exitCode' = code[c]

\* ... and without a signal from outside it stays 0 only if every child succeeded.
FailureIsReported ==
  pc = "done" /\ exitCode = 0 => incoming \/ \A c \in Children : code[c] = 0

(***************************************************************************)
(* The runner ends after its children have, unless it failed before.       *)
(***************************************************************************)
RunnerEnds ==
  []<>((\A c \in Children : child[c] \in {"zombie", "gone"}) => RunnerOver)

(***************************************************************************)
(* A child that fails ends the whole run (README.md:92-93: "if any exits   *)
(* non-zero, terminates the rest and propagates that exit code").          *)
(***************************************************************************)
FailureEndsRun ==
  []<>((\E c \in Children : code[c] # 0) => RunnerOver)
-----------------------------------------------------------------------------
(* The inductive invariant behind the safety properties.                   *)

\* Only an ended child has an exit code, and all were started once the loop runs.
StartedAndEnded ==
  /\ \A c \in Children : child[c] \in {"none", "running"} => code[c] = 0
  /\ pc \notin {"start", "aborted"} => \A c \in Children : child[c] # "none"
  /\ pc = "done" => pid = {}

\* Children are signalled, and end by a signal, only once raised is set.
SignalsAreRaised ==
  \A c \in Children : signals[c] # {} \/ code[c] = Killed => raised

\* What set raised: a stop signal from outside, or the failure in exit_code.
RaisedHasCause ==
  /\ pending \cap Stops # {} => incoming
  /\ raised => incoming \/ exitCode # 0
  /\ ~raised => exitCode = 0 /\ \A c \in Children : child[c] = "gone" => code[c] = 0
  /\ exitCode # Killed

\* What holds of the builds for Linux and for macOS.
RunnerInv ==
  /\ RunnerTypeOK
  /\ NoStaleKill
  /\ StartedAndEnded
  /\ SignalsAreRaised
  /\ RaisedHasCause

\* epoll_wait is called only with the last batch handled.
BatchIsHandled == batch # {} => pc \in {"events", "signal", "reap", "aborted"}

LinuxInv == RunnerInv /\ EveryZombieIsAnnounced /\ EveryByteIsPrinted /\ BatchIsHandled
=============================================================================
