------------------------- MODULE SignalBarrierLinux -------------------------
(***************************************************************************)
(* global_init and SignalBarrier on Linux (nstl/nstl/global_init.cpp,      *)
(* signal_barrier_linux.cpp): global_init blocks the stop signals in the   *)
(* calling thread and opens a signalfd, threads started later inherit the  *)
(* mask, and any number of barriers wait on that one descriptor with an    *)
(* epoll instance and, for wait_for, a timer of their own.                 *)
(*                                                                         *)
(* A signal to the process goes to a thread that does not block it, whose  *)
(* default action ends the process, and else becomes pending; pending      *)
(* signals are a set and every signalfd of the process reads from it.      *)
(***************************************************************************)
EXTENDS Integers, FiniteSets

CONSTANTS
  Main,               \* the thread that owns the global_init
  Workers,            \* the threads it starts, each with a SignalBarrier
  Signals,            \* of SIGINT, SIGTERM, SIGQUIT
  MaxRaised           \* bound: signals sent to the process

Threads == Workers \cup {Main}

VARIABLES
  init,               \* progress of global_init
  sfdGlobal,          \* sfd_global is a descriptor
  sfdOpen,            \* that descriptor is open
  mask,               \* per thread: "none" before it starts, "clear" or "blocked"
  process,            \* "alive", "killed" by a signal, "terminated" (std::terminate)
  pending,            \* the signals pending for the process
  barrier,            \* where each thread is with its barrier
  timed,              \* the threads whose call is wait_for
  expired,            \* the threads whose timer has run out
  batch,              \* the events of each thread's epoll_wait still to handle
  result,             \* what each thread's wait is about to return
  accepted, taken,    \* history: per signal, times made pending and times returned
  raised              \* history: signals sent

setup == <<init, sfdGlobal, sfdOpen>>
waits == <<barrier, timed, expired, batch, result>>
counts == <<accepted, taken, raised>>
vars == <<setup, mask, process, pending, waits, counts>>

Init ==
  /\ init = "none"
  /\ sfdGlobal = FALSE
  /\ sfdOpen = FALSE
  /\ mask = [t \in Threads |-> IF t = Main THEN "clear" ELSE "none"]
  /\ process = "alive"
  /\ pending = {}
  /\ barrier = [t \in Threads |-> "none"]
  /\ timed = {}
  /\ expired = {}
  /\ batch = [t \in Threads |-> {}]
  /\ result = [t \in Threads |-> "nothing"]
  /\ accepted = [s \in Signals |-> 0]
  /\ taken = accepted
  /\ raised = 0
-----------------------------------------------------------------------------
(* global_init                                                             *)

\* init_done.exchange(true): every later construction throws, also after a failure.
InitEnter ==
  /\ init = "none"
  /\ init' = "enter"
  /\ UNCHANGED <<sfdGlobal, sfdOpen, mask, process, pending, waits, counts>>

\* sigprocmask
InitBlock ==
  /\ init = "enter"
  /\ init' = "masked"
  /\ mask' = [mask EXCEPT ![Main] = "blocked"]
  /\ UNCHANGED <<sfdGlobal, sfdOpen, process, pending, waits, counts>>

\* Mutant: the mask in orig is restored once the signalfd is open.
InitOpenRestores ==
  /\ init = "masked"
  /\ init' = "open"
  /\ sfdGlobal' = TRUE
  /\ sfdOpen' = TRUE
  /\ mask' = [mask EXCEPT ![Main] = "clear"]
  /\ UNCHANGED <<process, pending, waits, counts>>

\* signalfd() and the store of sfd_global
InitOpen ==
  /\ init = "masked"
  /\ init' = "open"
  /\ sfdGlobal' = TRUE
  /\ sfdOpen' = TRUE
  /\ UNCHANGED <<mask, process, pending, waits, counts>>

\* curl_global_init
InitCurl ==
  /\ init = "open"
  /\ init' = "done"
  /\ UNCHANGED <<sfdGlobal, sfdOpen, mask, process, pending, waits, counts>>

\* A step throws: the mask and the descriptor stay, and no destructor will run.
InitThrow ==
  /\ init \in {"enter", "masked", "open"}
  /\ init' = "failed"
  /\ UNCHANGED <<sfdGlobal, sfdOpen, mask, process, pending, waits, counts>>

\* ~global_init: sfd_global.exchange(invalid_file_handle) ...
DestroyExchange ==
  /\ init = "done"
  /\ init' = "closing"
  /\ sfdGlobal' = FALSE
  /\ UNCHANGED <<sfdOpen, mask, process, pending, waits, counts>>

\* ... and close
DestroyClose ==
  /\ init = "closing"
  /\ init' = "destroyed"
  /\ sfdOpen' = FALSE
  /\ UNCHANGED <<sfdGlobal, mask, process, pending, waits, counts>>
-----------------------------------------------------------------------------
(* The environment (external).                                             *)

\* A thread starts with the mask of the one that starts it.
Start(t) ==
  /\ mask[t] = "none"
  /\ mask' = [mask EXCEPT ![t] = mask[Main]]
  /\ UNCHANGED <<setup, process, pending, waits, counts>>

AllBlocked == \A t \in Threads : mask[t] # "clear"

Raise(s) ==
  /\ raised < MaxRaised
  /\ raised' = raised + 1
  /\ IF AllBlocked
     THEN /\ pending' = pending \cup {s}
          /\ accepted' = [accepted EXCEPT ![s] = @ + (IF s \in pending THEN 0 ELSE 1)]
          /\ UNCHANGED process
     ELSE /\ process' = "killed"
          /\ UNCHANGED <<pending, accepted>>
  /\ UNCHANGED <<setup, mask, waits, taken>>

Expire(t) ==
  /\ barrier[t] \in {"wait", "events"}
  /\ t \in timed
  /\ expired' = expired \cup {t}
  /\ UNCHANGED <<setup, mask, process, pending, barrier, timed, batch, result, counts>>
-----------------------------------------------------------------------------
(* SignalBarrier                                                           *)

At(t, from, to) == barrier[t] = from /\ barrier' = [barrier EXCEPT ![t] = to]

\* The constructor throws while sfd_global is not a descriptor.
Construct(t) ==
  /\ mask[t] # "none"
  /\ sfdGlobal
  /\ At(t, "none", "made")
  /\ UNCHANGED <<setup, mask, process, pending, timed, expired, batch, result, counts>>

Destruct(t) ==
  /\ At(t, "made", "none")
  /\ UNCHANGED <<setup, mask, process, pending, timed, expired, batch, result, counts>>

\* wait() and wait_for() up to the loop; with the descriptor closed epoll_add throws.
WaitEnter(t) ==
  /\ sfdOpen
  /\ At(t, "made", "wait")
  /\ timed' \in {timed \ {t}, timed \cup {t}}
  /\ expired' = expired \ {t}
  /\ UNCHANGED <<setup, mask, process, pending, batch, result, counts>>

\* Mutant: the signalfd is not registered.
ReadyNoSignal(t) == IF t \in expired THEN {"timer"} ELSE {}

\* What epoll has to report, level-triggered; a closed descriptor is in no epoll set.
Ready(t) ==
  (IF sfdOpen /\ pending # {} THEN {"sfd"} ELSE {}) \cup
  (IF t \in expired THEN {"timer"} ELSE {})

EpollWait(t) ==
  /\ At(t, "wait", "events")
  /\ Ready(t) # {}
  /\ batch' = [batch EXCEPT ![t] = Ready(t)]
  /\ UNCHANGED <<setup, mask, process, pending, timed, expired, result, counts>>

Handle(t, e) == e \in batch[t] /\ batch' = [batch EXCEPT ![t] = @ \ {e}]

Return(t, r) ==
  /\ At(t, "events", "leave")
  /\ batch' = [batch EXCEPT ![t] = {}]
  /\ result' = [result EXCEPT ![t] = r]

\* Mutant: read_signal reads on and keeps the last signal.
ReadSignalAll(t) ==
  /\ sfdOpen
  /\ "sfd" \in batch[t]
  /\ \E s \in pending : Return(t, s)
  /\ pending' = {}
  /\ UNCHANGED <<setup, mask, process, timed, expired, counts>>

\* read_signal returns a signal
ReadSignal(t) ==
  /\ sfdOpen
  /\ "sfd" \in batch[t]
  /\ \E s \in pending : Return(t, s) /\ pending' = pending \ {s}
  /\ UNCHANGED <<setup, mask, process, timed, expired, counts>>

\* EAGAIN: another barrier was faster
ReadNothing(t) ==
  /\ barrier[t] = "events"
  /\ sfdOpen
  /\ pending = {}
  /\ Handle(t, "sfd")
  /\ UNCHANGED <<setup, mask, process, pending, barrier, timed, expired, result, counts>>

\* EBADF: the exception leaves through the scope guards.
ReadFails(t) ==
  /\ ~sfdOpen
  /\ "sfd" \in batch[t]
  /\ Return(t, "error")
  /\ UNCHANGED <<setup, mask, process, pending, timed, expired, counts>>

ReadTimer(t) ==
  /\ "timer" \in batch[t]
  /\ Return(t, "timeout")
  /\ expired' = expired \ {t}
  /\ UNCHANGED <<setup, mask, process, pending, timed, counts>>

EventsDone(t) ==
  /\ At(t, "events", "wait")
  /\ batch[t] = {}
  /\ UNCHANGED <<setup, mask, process, pending, timed, expired, batch, result, counts>>

\* The scope guards run: epoll_remove throws out of a destructor when the descriptor
\* was closed meanwhile.
Leave(t) ==
  /\ At(t, "leave", "made")
  /\ process' = IF sfdOpen THEN "alive" ELSE "terminated"
  /\ result' = [result EXCEPT ![t] = "nothing"]
  /\ taken' = [s \in Signals |-> taken[s] + (IF result[t] = s THEN 1 ELSE 0)]
  /\ UNCHANGED <<setup, mask, pending, timed, expired, batch, accepted, raised>>
-----------------------------------------------------------------------------
Global == InitEnter \/ InitBlock \/ InitOpen \/ InitCurl

WaitStep(t) ==
  EpollWait(t) \/ ReadSignal(t) \/ ReadNothing(t) \/ ReadFails(t) \/ ReadTimer(t)
    \/ EventsDone(t) \/ Leave(t)

Alive == process = "alive"

Next ==
  /\ Alive
  /\ \/ Global \/ InitThrow \/ DestroyExchange \/ DestroyClose
     \/ \E s \in Signals : Raise(s)
     \/ \E t \in Workers : Start(t)
     \/ \E t \in Threads :
          Expire(t) \/ Construct(t) \/ Destruct(t) \/ WaitEnter(t) \/ WaitStep(t)
-----------------------------------------------------------------------------
(* Properties.                                                             *)

\* Every variable stays in its range, and only a stored descriptor is open.
TypeOK ==
  /\ init \in {"none", "enter", "masked", "open", "done", "failed", "closing", "destroyed"}
  /\ sfdGlobal \in BOOLEAN /\ sfdOpen \in BOOLEAN /\ (sfdGlobal => sfdOpen)
  /\ mask \in [Threads -> {"none", "clear", "blocked"}]
  /\ process \in {"alive", "killed", "terminated"}
  /\ pending \subseteq Signals
  /\ barrier \in [Threads -> {"none", "made", "wait", "events", "leave"}]
  /\ timed \subseteq Threads /\ expired \subseteq Threads
  /\ batch \in [Threads -> SUBSET {"sfd", "timer"}]
  /\ result \in [Threads -> Signals \cup {"nothing", "timeout", "error"}]
  /\ \A t \in Threads : /\ result[t] # "nothing" <=> barrier[t] = "leave"
                        /\ batch[t] # {} => barrier[t] = "events"
  /\ accepted \in [Signals -> Nat] /\ taken \in [Signals -> Nat] /\ raised \in Nat

(***************************************************************************)
(* Each signal the process accepts is returned by exactly one wait, also   *)
(* when several barriers wake up for it and when a timeout comes first.    *)
(***************************************************************************)
NoSignalLost ==
  \A s \in Signals :
    accepted[s] = taken[s] + (IF s \in pending THEN 1 ELSE 0)
                    + Cardinality({t \in Threads : result[t] = s})

\* A barrier lives only on an open descriptor, until ~global_init closes it.
BarrierHasDescriptor ==
  /\ init = "closing" => ~sfdGlobal
  /\ \A t \in Threads : barrier[t] # "none" => sfdOpen \/ init = "destroyed"

\* The inductive invariant behind NoSignalLost and the shield of the process.
IInv == TypeOK /\ NoSignalLost /\ BarrierHasDescriptor

Waiting(t) == barrier[t] \in {"wait", "events", "leave"}

(***************************************************************************)
(* A wait() without a time limit that goes on although a signal is pending *)
(* and the descriptor is open.                                             *)
(***************************************************************************)
Unanswered(t) == pending # {} /\ Waiting(t) /\ t \notin timed /\ sfdOpen /\ Alive
=============================================================================
