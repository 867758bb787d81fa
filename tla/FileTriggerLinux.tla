-------------------------- MODULE FileTriggerLinux --------------------------
(***************************************************************************)
(* file_trigger on Linux (nstl/nstl/file_trigger_linux.cpp): a thread that *)
(* waits with epoll on an inotify descriptor and on the read end of a      *)
(* pipe, reads what was appended to the file and hands it to the callback. *)
(*                                                                         *)
(* Processes: the thread that runs the factory and, later, the destructor  *)
(* (Owner); the other threads that call stop() (Threads); the worker       *)
(* thread; and one process that appends to the file.                       *)
(*                                                                         *)
(* Data: a byte is its offset.  inotify coalesces equal events, and the    *)
(* worker drains them all without looking, so all that matters of the      *)
(* inotify descriptor and of the exit pipe is whether epoll would report   *)
(* it: ready holds "inotify" and "exit" accordingly.  Nobody reads the one *)
(* byte that the winning stop() writes to the pipe.                        *)
(***************************************************************************)
EXTENDS Integers

CONSTANTS
  Threads,            \* threads, besides the owner, that may call stop()
  Owner,              \* the thread that creates and destroys the trigger
  Sow,                \* the factory's sow_
  BufferSize,         \* the factory's buffer_size_
  MaxSize,            \* bound: the file never grows past this many bytes
  Faults              \* the errors that may happen, a subset of AllFaults

(***************************************************************************)
(* "io":       a system call of the constructor or of the worker fails;    *)
(* "throw":    the callback throws a std::exception;                       *)
(* "alien":    the callback throws something else;                         *)
(* "selfstop": the callback calls stop() on its own trigger;               *)
(* "write":    writing the byte to the exit pipe fails.                    *)
(***************************************************************************)
AllFaults == {"io", "throw", "alien", "selfstop", "write"}

ASSUME ParametersAssumption ==
  /\ Owner \notin Threads
  /\ Sow \in BOOLEAN
  /\ BufferSize \in Nat \ {0}      \* factory(): "Buffer must not be empty"
  /\ MaxSize \in Nat
  /\ Faults \subseteq AllFaults

Callers == Threads \cup {Owner}

VARIABLES
  size,               \* bytes in the file
  unnotified,         \* of these, bytes whose write() has not yet queued IN_MODIFY
  ready,              \* descriptors with something to read: "inotify", "exit"
  offset,             \* file offset of _hndl
  filled,             \* bytes in _buffer that the callback has not been given yet
  from,               \* offset where delivery starts
  delivered,          \* offset of the last byte given to the callback
  ctor,               \* progress of the constructor
  running,            \* _running
  worker,             \* program counter of the worker thread
  events,             \* what the last epoll_wait reported
  stop,               \* progress of each caller's stop()
  joined,             \* _runner has been joined
  object,             \* "alive", "dying", "destroyed" or "terminated" (std::terminate)
  blame,              \* history: the faults that happened
  due                 \* history: completed bytes when the winning stop() began

file == <<size, unnotified>>
reading == <<offset, filled, from, delivered>>
thread == <<worker, events>>
stopping == <<running, stop, joined, due>>
vars == <<file, ready, reading, ctor, thread, stopping, object, blame>>

\* Bytes whose write() has returned to the process that appends.
Completed == size - unnotified

\* What one read() of _hndl can return: at most a buffer, never past the end.
Chunk == {n \in 1..BufferSize : offset + n <= size}
-----------------------------------------------------------------------------
\* The factory has opened the file; a handle passed in may stand anywhere in it.
Init ==
  /\ size \in 0..MaxSize
  /\ offset \in 0..size
  /\ from = offset
  /\ delivered = offset
  /\ unnotified = 0
  /\ filled = 0
  /\ ready = {}
  /\ ctor = "watch"
  /\ worker = "none"
  /\ events = {}
  /\ running = TRUE
  /\ stop = [t \in Callers |-> "idle"]
  /\ joined = FALSE
  /\ due = 0
  /\ object = "alive"
  /\ blame = {}

\* Mutant: the watch is added after the initial read of the file.
WatchingLate == ctor = "done" /\ object # "destroyed"

\* inotify_add_watch has succeeded and _inotify_fd is open.
Watching == ctor \in {"read", "start", "done"} /\ object # "destroyed"

Blame(fault) == fault \in Faults /\ blame' = blame \cup {fault}
-----------------------------------------------------------------------------
(* The process that appends (external).  The kernel makes the bytes        *)
(* visible first and queues IN_MODIFY before write() returns.              *)

WriterAppend ==
  /\ unnotified = 0
  /\ \E n \in 1..MaxSize :
       /\ size + n <= MaxSize
       /\ size' = size + n
       /\ unnotified' = n
  /\ UNCHANGED <<ready, reading, ctor, thread, stopping, object, blame>>

WriterNotify ==
  /\ unnotified > 0
  /\ unnotified' = 0
  /\ ready' = IF Watching THEN ready \cup {"inotify"} ELSE ready
  /\ UNCHANGED <<size, reading, ctor, thread, stopping, object, blame>>
-----------------------------------------------------------------------------
(* The constructor.                                                        *)

CtorWatch ==
  /\ ctor = "watch"
  /\ ctor' = "read"
  /\ UNCHANGED <<file, ready, reading, thread, stopping, object, blame>>

\* One turn of _read_data(_hndl, _cb, _sow): delivered or skipped.
CtorRead ==
  /\ ctor = "read"
  /\ \E n \in Chunk :
       /\ offset' = offset + n
       /\ delivered' = offset + n
       /\ from' = IF Sow THEN from ELSE offset + n
  /\ UNCHANGED <<file, ready, filled, ctor, thread, stopping, object, blame>>

\* Mutant: the file is not read until read() reports its end.
CtorEndUnread ==
  /\ ctor = "read"
  /\ ctor' = "start"
  /\ UNCHANGED <<file, ready, reading, thread, stopping, object, blame>>

\* read() reported the end of the file.
CtorEnd ==
  /\ ctor = "read"
  /\ offset = size
  /\ ctor' = "start"
  /\ UNCHANGED <<file, ready, reading, thread, stopping, object, blame>>

\* The exit pipe is made and the thread started.
CtorStart ==
  /\ ctor = "start"
  /\ ctor' = "done"
  /\ worker' = "wait"
  /\ UNCHANGED <<file, ready, reading, events, stopping, object, blame>>

\* Any exception leaves the factory without a trigger.
CtorThrow ==
  /\ \/ ctor \in {"watch", "read", "start"} /\ Blame("io") /\ UNCHANGED reading
     \/ /\ ctor = "read" /\ Sow /\ (Blame("throw") \/ Blame("alien"))
        /\ \E n \in Chunk : offset' = offset + n /\ delivered' = offset + n
        /\ UNCHANGED <<filled, from>>
  /\ ctor' = "failed"
  /\ ready' = {}
  /\ UNCHANGED <<file, thread, stopping, object>>
-----------------------------------------------------------------------------
(* The worker thread.                                                      *)

\* Mutant: the exit pipe is looked at first and ends the loop at once.
WorkerWaitExitFirst ==
  /\ worker = "wait"
  /\ ready # {}
  /\ events' = ready
  /\ worker' = IF "exit" \in ready THEN "done" ELSE "drain"
  /\ UNCHANGED <<file, ready, reading, ctor, stopping, object, blame>>

\* epoll_wait returns every descriptor that is ready.
WorkerWait ==
  /\ worker = "wait"
  /\ ready # {}
  /\ events' = ready
  /\ worker' = IF "inotify" \in ready THEN "drain" ELSE "done"
  /\ UNCHANGED <<file, ready, reading, ctor, stopping, object, blame>>

WorkerDrain ==
  /\ worker = "drain"
  /\ ready' = ready \ {"inotify"}
  /\ worker' = "read"
  /\ UNCHANGED <<file, reading, ctor, events, stopping, object, blame>>

WorkerRead ==
  /\ worker = "read"
  /\ \E n \in Chunk : filled' = n /\ offset' = offset + n
  /\ worker' = "callback"
  /\ UNCHANGED <<file, ready, from, delivered, ctor, events, stopping, object, blame>>

\* read() returned 0 or EAGAIN: the batch is handled.
WorkerEnd ==
  /\ worker = "read"
  /\ offset = size
  /\ worker' = IF "exit" \in events THEN "done" ELSE "wait"
  /\ UNCHANGED <<file, ready, reading, ctor, events, stopping, object, blame>>

\* The callback is given the bytes just read ...
HandOver ==
  /\ worker = "callback"
  /\ delivered' = delivered + filled
  /\ filled' = 0
  /\ UNCHANGED <<offset, from>>

\* ... and returns (a stop() it made after another caller's did nothing).
WorkerCallback ==
  /\ HandOver
  /\ worker' = "read"
  /\ UNCHANGED <<file, ready, ctor, events, stopping, object, blame>>

\* Mutant: _worker() has no try block.
WorkerCallbackThrowUncaught ==
  /\ HandOver
  /\ Blame("throw") \/ Blame("alien")
  /\ object' = "terminated"
  /\ UNCHANGED <<file, ready, ctor, thread, stopping>>

\* It throws: _worker() logs a std::exception, anything else is not caught.
WorkerCallbackThrow ==
  /\ HandOver
  /\ \/ Blame("throw") /\ worker' = "done" /\ UNCHANGED object
     \/ Blame("alien") /\ object' = "terminated" /\ UNCHANGED worker
  /\ UNCHANGED <<file, ready, ctor, events, stopping>>

\* It calls stop() first: join() on the calling thread throws std::system_error,
\* which the callback may catch.
WorkerCallbackStop ==
  /\ HandOver
  /\ running
  /\ Blame("selfstop")
  /\ running' = FALSE
  /\ ready' = ready \cup {"exit"}
  /\ worker' \in {"done", "read"}
  /\ UNCHANGED <<file, ctor, events, stop, joined, due, object>>

\* epoll_ctl, epoll_wait or read() fails: logged, the thread ends.
WorkerFail ==
  /\ worker \in {"wait", "read"}
  /\ Blame("io")
  /\ worker' = "done"
  /\ UNCHANGED <<file, ready, reading, ctor, events, stopping, object>>
-----------------------------------------------------------------------------
(* stop(), by any thread that holds the trigger, and the destructor, once  *)
(* nobody does.                                                            *)

StopEnter(t) ==
  /\ stop[t] = "idle"
  /\ running' = FALSE
  /\ stop' = [stop EXCEPT ![t] = IF running THEN "write" ELSE "returned"]
  /\ due' = IF running THEN Completed ELSE due
  /\ UNCHANGED <<file, ready, reading, ctor, thread, joined, blame>>

CallStop(t) ==
  /\ t \in Threads
  /\ ctor = "done" /\ object = "alive"
  /\ StopEnter(t)
  /\ UNCHANGED object

\* Mutant: the exit byte is never written.
StopWriteNothing(t) ==
  /\ stop[t] = "write"
  /\ stop' = [stop EXCEPT ![t] = "join"]
  /\ UNCHANGED <<file, ready, reading, ctor, thread, running, joined, due, object, blame>>

StopWrite(t) ==
  /\ stop[t] = "write"
  /\ ready' = ready \cup {"exit"}
  /\ stop' = [stop EXCEPT ![t] = "join"]
  /\ UNCHANGED <<file, reading, ctor, thread, running, joined, due, object, blame>>

\* The write fails: stop() throws, and from the destructor that terminates.
StopWriteFail(t) ==
  /\ stop[t] = "write"
  /\ Blame("write")
  /\ stop' = [stop EXCEPT ![t] = "returned"]
  /\ object' = IF t = Owner THEN "terminated" ELSE object
  /\ UNCHANGED <<file, ready, reading, ctor, thread, running, joined, due>>

StopJoin(t) ==
  /\ stop[t] = "join"
  /\ worker = "done"
  /\ joined' = TRUE
  /\ stop' = [stop EXCEPT ![t] = "returned"]
  /\ UNCHANGED <<file, ready, reading, ctor, thread, running, due, object, blame>>

\* The last shared_ptr is released, so no stop() is in progress.
Destroy ==
  /\ ctor = "done" /\ object = "alive"
  /\ \A t \in Threads : stop[t] \in {"idle", "returned"}
  /\ object' = "dying"
  /\ StopEnter(Owner)

\* ~thread: std::terminate when the thread was never joined.
DestroyMembers ==
  /\ object = "dying"
  /\ stop[Owner] = "returned"
  /\ object' = IF joined THEN "destroyed" ELSE "terminated"
  /\ ready' = IF joined THEN {} ELSE ready
  /\ UNCHANGED <<file, reading, ctor, thread, stopping, blame>>
-----------------------------------------------------------------------------
Over == object \in {"destroyed", "terminated"} \/ ctor = "failed"

CtorRun == CtorWatch \/ CtorRead \/ CtorEnd \/ CtorStart

CtorStep == CtorRun \/ CtorThrow

WorkerRun ==
  WorkerWait \/ WorkerDrain \/ WorkerRead \/ WorkerEnd \/ WorkerCallback

WorkerStep ==
  WorkerRun \/ WorkerCallbackThrow \/ WorkerCallbackStop \/ WorkerFail

StopRun(t) == StopWrite(t) \/ StopJoin(t)

StopStep(t) == StopRun(t) \/ StopWriteFail(t)

Next ==
  \/ /\ ~Over
     /\ \/ WriterAppend \/ WriterNotify
        \/ CtorStep
        \/ WorkerStep
        \/ \E t \in Threads : CallStop(t)
        \/ \E t \in Callers : StopStep(t)
        \/ Destroy
        \/ DestroyMembers
  \/ Over /\ UNCHANGED vars

Safe == Init /\ [][Next]_vars

(***************************************************************************)
(* Fairness: a thread that can run is scheduled, a write() in progress     *)
(* returns, and the callback returns.  Nobody has to append, to call       *)
(* stop() or to destroy the trigger, and no error has to happen.           *)
(***************************************************************************)
Fairness ==
  /\ WF_vars(~Over /\ WriterNotify)
  /\ WF_vars(~Over /\ CtorRun)
  /\ WF_vars(~Over /\ WorkerRun)
  /\ \A t \in Callers : WF_vars(~Over /\ StopRun(t))
  /\ WF_vars(~Over /\ DestroyMembers)

Spec == Safe /\ Fairness
-----------------------------------------------------------------------------
(* Properties.                                                             *)

\* Every variable stays in its range.
TypeOK ==
  /\ running \in BOOLEAN
  /\ joined \in BOOLEAN
  /\ size \in 0..MaxSize
  /\ unnotified \in 0..size
  /\ ready \subseteq {"inotify", "exit"}
  /\ events \subseteq {"inotify", "exit"}
  /\ offset \in Nat
  /\ filled \in Nat
  /\ from \in Nat
  /\ delivered \in Nat
  /\ due \in Nat
  /\ ctor \in {"watch", "read", "start", "done", "failed"}
  /\ worker \in {"none", "wait", "drain", "read", "callback", "done"}
  /\ stop \in [Callers -> {"idle", "write", "join", "returned"}]
  /\ object \in {"alive", "dying", "destroyed", "terminated"}
  /\ blame \subseteq Faults

(***************************************************************************)
(* The callback is given every byte exactly once and only bytes that are   *)
(* in the file: what it got, plus what lies in the buffer, is what the     *)
(* file offset says (_read_data hands over the size read() returned).      *)
(***************************************************************************)
HandedOverInOrder ==
  /\ from <= delivered
  /\ delivered + filled = offset
  /\ offset <= size

(***************************************************************************)
(* No wake-up is lost: whenever the worker sleeps in epoll_wait, or is yet *)
(* to be started, bytes whose write() has returned and that were not read  *)
(* have left the inotify descriptor readable.  Needs the watch before the  *)
(* first read and _drain_inotify() before _read_data().                    *)
(***************************************************************************)
NoLostWakeup ==
  (worker = "wait" \/ ctor = "start") /\ offset < Completed => "inotify" \in ready

(***************************************************************************)
(* When the stop() that joined the worker has returned, all that was       *)
(* written before that stop() began has been delivered, unless an error    *)
(* happened: stop() never cuts off the tail of the file.                   *)
(***************************************************************************)
StopDelivers ==
  joined /\ blame = {} => delivered >= due

(***************************************************************************)
(* However many threads race in stop() and the destructor, one of them     *)
(* writes the exit byte and joins, and it joins a thread that is joinable. *)
(***************************************************************************)
SingleJoin ==
  \A t \in Callers : stop[t] \in {"write", "join"} =>
    /\ ~joined
    /\ ~running
    /\ \A u \in Callers \ {t} : stop[u] \notin {"write", "join"}

(***************************************************************************)
(* Destroying a trigger never ends the program, unless the callback threw  *)
(* what _worker() does not catch, the callback called stop() on its own    *)
(* trigger, or the exit pipe could not be written.  A callback that throws *)
(* a std::exception and a failing read() or epoll_wait are survived.       *)
(***************************************************************************)
TerminatesOnlyOnMisuse ==
  object = "terminated" => blame \cap {"alien", "selfstop", "write"} # {}

(***************************************************************************)
(* After the joining stop() has returned the callback does not run again,  *)
(* so the program may release what the callback uses.                      *)
(***************************************************************************)
QuietAfterStop ==
  [][joined => UNCHANGED <<delivered, filled, worker>>]_vars

(***************************************************************************)
(* The stop() that won the exchange returns and is not in there for ever,  *)
(* provided the file stops growing (MaxSize) and the callback returns: the *)
(* worker is never left asleep with the exit byte in the pipe.             *)
(***************************************************************************)
InStop(t) == stop[t] \in {"write", "join"} /\ ~Over

StopReturns == \A t \in Callers : []<>~InStop(t)

(***************************************************************************)
(* The trigger implements FileTail: see there for what that promises.      *)
(***************************************************************************)
Phase ==
  IF blame # {} THEN "failed"
  ELSE IF ctor # "done" THEN "opening"
  ELSE IF running THEN "open"
  ELSE IF joined THEN "closed"
  ELSE "closing"

Tail == INSTANCE FileTail WITH completed <- Completed, phase <- Phase

ImplementsFileTail == Tail!Spec
-----------------------------------------------------------------------------
(***************************************************************************)
(* The inductive invariant behind the safety properties.  StopDelivers     *)
(* alone is not inductive: it needs that a worker which ended without an   *)
(* error had delivered what was due, that this rests on NoLostWakeup when  *)
(* the last epoll batch held only the exit pipe, and that due is fixed     *)
(* once _running is FALSE.                                                 *)
(***************************************************************************)
CtorFirst ==
  ctor # "done" =>
    /\ worker = "none" /\ running /\ "exit" \notin ready /\ ~joined /\ object = "alive"
    /\ \A t \in Callers : stop[t] = "idle"

BufferOnlyInCallback == filled > 0 => worker = "callback"

ExitAfterExchange ==
  /\ "exit" \in ready \cup events => ~running
  /\ \A t \in Callers : stop[t] # "idle" => ~running

DueIsCompleted == due <= Completed

DoneDelivers == worker = "done" /\ blame = {} => ~running /\ delivered >= due

JoinedIsDone == joined => worker = "done" /\ ~running

SomeoneJoins ==
  ~running /\ blame \cap {"selfstop", "write"} = {} =>
    joined \/ \E t \in Callers : stop[t] \in {"write", "join"}

NoStopWhileDying ==
  /\ object = "dying" => \A t \in Threads : stop[t] \in {"idle", "returned"}
  /\ object = "destroyed" => joined

IInv ==
  /\ TypeOK
  /\ HandedOverInOrder
  /\ NoLostWakeup
  /\ SingleJoin
  /\ TerminatesOnlyOnMisuse
  /\ CtorFirst
  /\ BufferOnlyInCallback
  /\ ExitAfterExchange
  /\ DueIsCompleted
  /\ DoneDelivers
  /\ JoinedIsDone
  /\ SomeoneJoins
  /\ NoStopWhileDying
=============================================================================
