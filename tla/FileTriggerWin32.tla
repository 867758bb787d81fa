-------------------------- MODULE FileTriggerWin32 --------------------------
(***************************************************************************)
(* file_trigger on Windows (nstl/nstl/file_trigger_win32.cpp): a thread    *)
(* reads the file from offset 0 with overlapped reads, skips what was      *)
(* there when the factory looked unless sow_ is set, and at the end of the *)
(* file waits for the exit event, 100 ms at a time.                        *)
(*                                                                         *)
(* There are no notifications, so an append is one step.  The constructor  *)
(* runs before any of this and only starts the thread.                     *)
(***************************************************************************)
EXTENDS Integers

CONSTANTS
  Threads,            \* threads, besides the owner, that may call stop()
  Owner,              \* the thread that destroys the trigger
  Sow,                \* the factory's sow_
  BufferSize,         \* the factory's buffer_size_
  MaxSize,            \* bound: the file never grows past this many bytes
  Faults              \* subset of {"io", "throw", "alien", "selfstop"}, as on Linux

\* What the factory and the model rely on.
Win32Assumption ==
  /\ Owner \notin Threads
  /\ Sow \in BOOLEAN
  /\ BufferSize \in Nat \ {0}
  /\ MaxSize \in Nat
  /\ Faults \subseteq {"io", "throw", "alien", "selfstop"}

Callers == Threads \cup {Owner}

VARIABLES
  size,               \* bytes in the file
  boundary,           \* _sow_boundary
  offset,             \* file_offset
  start,              \* chunk_start of the chunk just read
  given,              \* the bytes the callback got, each known by its offset
  worker,             \* program counter of the worker thread
  exitEvent,          \* _exit_event is signalled
  running,            \* _running
  stop,               \* progress of each caller's stop()
  joined,             \* _runner has been joined
  object,             \* "alive", "dying", "destroyed" or "terminated"
  blame               \* history: the faults that happened

stopping == <<running, stop, joined>>
vars == <<size, boundary, offset, start, given, worker, exitEvent, stopping, object, blame>>

\* The factory has asked for the size and the thread is started.
Init ==
  /\ size \in 0..MaxSize
  /\ boundary = size
  /\ offset = 0
  /\ start = 0
  /\ given = {}
  /\ worker = "read"
  /\ exitEvent = FALSE
  /\ running = TRUE
  /\ stop = [t \in Callers |-> "idle"]
  /\ joined = FALSE
  /\ object = "alive"
  /\ blame = {}

Blame(fault) == fault \in Faults /\ blame' = blame \cup {fault}

\* Another process appends (external).
WriterAppend ==
  /\ \E n \in (size + 1)..MaxSize : size' = n
  /\ UNCHANGED <<boundary, offset, start, given, worker, exitEvent, stopping, object, blame>>
-----------------------------------------------------------------------------
(* The worker thread.                                                      *)

\* ReadFile completes, at once or later, with data or at the end of the file; it may
\* return less than is there now, as another process appends meanwhile.
ReadCompletes ==
  /\ worker \in {"read", "pending"}
  /\ \/ \E n \in 1..BufferSize :
          /\ offset + n <= size
          /\ start' = offset
          /\ offset' = offset + n
          /\ worker' = "deliver"
     \/ /\ offset = size
        /\ worker' = "eof"
        /\ UNCHANGED <<start, offset>>
  /\ UNCHANGED <<size, boundary, given, exitEvent, stopping, object, blame>>

\* ERROR_IO_PENDING
ReadPends ==
  /\ worker = "read"
  /\ worker' = "pending"
  /\ UNCHANGED <<size, boundary, offset, start, given, exitEvent, stopping, object, blame>>

\* The exit event comes first: the read is cancelled and what it got discarded.
ReadCancelled ==
  /\ worker = "pending"
  /\ exitEvent
  /\ worker' = "done"
  /\ UNCHANGED <<size, boundary, offset, start, given, exitEvent, stopping, object, blame>>

\* Mutant: a chunk that reaches over the boundary is delivered whole.
DeliverFromWhole ==
  IF ~Sow /\ offset <= boundary THEN offset ELSE start

DeliverFrom ==
  IF ~Sow /\ start < boundary
  THEN IF offset < boundary THEN offset ELSE boundary
  ELSE start

HandOver ==
  /\ worker = "deliver"
  /\ given' = given \cup (DeliverFrom + 1)..offset
  /\ UNCHANGED <<size, boundary, offset, start, exitEvent>>

Deliver ==
  /\ HandOver
  /\ worker' = "read"
  /\ UNCHANGED <<stopping, object, blame>>

\* The callback throws: _worker() catches a std::exception and nothing else.
DeliverThrows ==
  /\ HandOver
  /\ DeliverFrom < offset
  /\ worker' = "done"
  /\ \/ Blame("throw") /\ UNCHANGED object
     \/ Blame("alien") /\ object' = "terminated"
  /\ UNCHANGED stopping

\* The callback calls stop(): join() on the own thread throws, caught or not.
DeliverStops ==
  /\ worker = "deliver"
  /\ DeliverFrom < offset
  /\ running
  /\ Blame("selfstop")
  /\ running' = FALSE
  /\ exitEvent' = TRUE
  /\ given' = given \cup (DeliverFrom + 1)..offset
  /\ worker' \in {"read", "done"}
  /\ UNCHANGED <<size, boundary, offset, start, stop, joined, object>>

\* WaitForSingleObject(_exit_event, 100 ms) at the end of the file.
EofExit ==
  /\ worker = "eof"
  /\ exitEvent
  /\ worker' = "done"
  /\ UNCHANGED <<size, boundary, offset, start, given, exitEvent, stopping, object, blame>>

\* Mutant: the worker waits for the exit event without a timeout.
EofTimeoutNever ==
  /\ worker = "eof"
  /\ ~exitEvent
  /\ exitEvent
  /\ UNCHANGED vars

EofTimeout ==
  /\ worker = "eof"
  /\ ~exitEvent
  /\ worker' = "read"
  /\ UNCHANGED <<size, boundary, offset, start, given, exitEvent, stopping, object, blame>>

\* A call of the Windows API fails: logged, the thread ends.
WorkerFail ==
  /\ worker \in {"read", "pending", "eof"}
  /\ Blame("io")
  /\ worker' = "done"
  /\ UNCHANGED <<size, boundary, offset, start, given, exitEvent, stopping, object>>
-----------------------------------------------------------------------------
(* stop() and the destructor.                                              *)

StopEnter(t) ==
  /\ stop[t] = "idle"
  /\ running' = FALSE
  /\ stop' = [stop EXCEPT ![t] = IF running THEN "set" ELSE "returned"]
  /\ UNCHANGED <<size, boundary, offset, start, given, worker, exitEvent, joined, blame>>

CallStop(t) ==
  /\ t \in Threads
  /\ object = "alive"
  /\ StopEnter(t)
  /\ UNCHANGED object

\* Mutant: SetEvent is missing.
StopSetNothing(t) ==
  /\ stop[t] = "set"
  /\ stop' = [stop EXCEPT ![t] = "join"]
  /\ UNCHANGED <<size, boundary, offset, start, given, worker, exitEvent, running, joined, object, blame>>

StopSet(t) ==
  /\ stop[t] = "set"
  /\ exitEvent' = TRUE
  /\ stop' = [stop EXCEPT ![t] = "join"]
  /\ UNCHANGED <<size, boundary, offset, start, given, worker, running, joined, object, blame>>

StopJoin(t) ==
  /\ stop[t] = "join"
  /\ worker = "done"
  /\ joined' = TRUE
  /\ stop' = [stop EXCEPT ![t] = "returned"]
  /\ UNCHANGED <<size, boundary, offset, start, given, worker, exitEvent, running, object, blame>>

Destroy ==
  /\ object = "alive"
  /\ \A t \in Threads : stop[t] \in {"idle", "returned"}
  /\ object' = "dying"
  /\ StopEnter(Owner)

DestroyMembers ==
  /\ object = "dying"
  /\ stop[Owner] = "returned"
  /\ object' = IF joined THEN "destroyed" ELSE "terminated"
  /\ UNCHANGED <<size, boundary, offset, start, given, worker, exitEvent, stopping, blame>>
-----------------------------------------------------------------------------
Over == object \in {"destroyed", "terminated"}

WorkerRun == ReadCompletes \/ ReadCancelled \/ Deliver \/ EofExit \/ EofTimeout

WorkerError == DeliverThrows \/ DeliverStops \/ WorkerFail

StopRun(t) == StopSet(t) \/ StopJoin(t)

Next ==
  \/ /\ ~Over
     /\ \/ WriterAppend
        \/ WorkerRun \/ ReadPends \/ WorkerError
        \/ \E t \in Threads : CallStop(t)
        \/ \E t \in Callers : StopRun(t)
        \/ Destroy
        \/ DestroyMembers
  \/ Over /\ UNCHANGED vars
-----------------------------------------------------------------------------
(* Properties.                                                             *)

\* Every variable stays in its range.
TypeOK ==
  /\ running \in BOOLEAN
  /\ joined \in BOOLEAN
  /\ exitEvent \in BOOLEAN
  /\ size \in 0..MaxSize
  /\ boundary \in 0..size
  /\ start \in 0..offset
  /\ offset \in 0..size
  /\ given \subseteq 1..size
  /\ worker \in {"read", "pending", "deliver", "eof", "done"}
  /\ stop \in [Callers -> {"idle", "set", "join", "returned"}]
  /\ object \in {"alive", "dying", "destroyed", "terminated"}
  /\ blame \subseteq Faults

(***************************************************************************)
(* The callback gets the file from the first byte, or with sow_ = false    *)
(* from the first byte that was not there when the factory was called,     *)
(* without a gap, up to where the worker has read: a chunk that reaches    *)
(* over the boundary is cut exactly there (SowFalseSkipsExistingContent).  *)
(***************************************************************************)
DeliveredFromBoundary ==
  LET first == IF Sow THEN 0 ELSE boundary
      last == IF worker = "deliver" THEN start ELSE offset
  IN  given = (first + 1)..last

(***************************************************************************)
(* A byte that was appended and is not delivered yet, by a trigger that    *)
(* has neither been stopped nor failed.                                    *)
(***************************************************************************)
Undelivered(n) == boundary < n /\ n <= size /\ n \notin given /\ running /\ blame = {}

(***************************************************************************)
(* t is in the stop() that won the exchange.  It returns provided the file *)
(* stops growing: the worker looks at the exit event only at the end of    *)
(* the file or in a pending read.                                          *)
(***************************************************************************)
InStop(t) == stop[t] \in {"set", "join"} /\ ~Over

(***************************************************************************)
(* As on Linux: racing stop() calls join the thread once, and destroying   *)
(* the trigger ends the program only after the callback threw what         *)
(* _worker() does not catch or called stop() on its own trigger.           *)
(***************************************************************************)
SingleJoin ==
  \A t \in Callers : stop[t] \in {"set", "join"} =>
    /\ ~joined
    /\ \A u \in Callers \ {t} : stop[u] \notin {"set", "join"}

TerminatesOnlyOnMisuse ==
  object = "terminated" => blame \cap {"alien", "selfstop"} # {}
-----------------------------------------------------------------------------
(* The inductive invariant.                                                *)

EnteredIsStopped == \A t \in Callers : stop[t] # "idle" => ~running

JoinedIsDone == joined => worker = "done" /\ ~running

SomeoneJoins ==
  ~running /\ "selfstop" \notin blame =>
    joined \/ \E t \in Callers : stop[t] \in {"set", "join"}

NoStopWhileDying ==
  object = "dying" => \A t \in Threads : stop[t] \in {"idle", "returned"}

IInv ==
  /\ TypeOK
  /\ DeliveredFromBoundary
  /\ SingleJoin
  /\ TerminatesOnlyOnMisuse
  /\ EnteredIsStopped
  /\ JoinedIsDone
  /\ SomeoneJoins
  /\ NoStopWhileDying
=============================================================================
