----------------------------- MODULE OstreamLog -----------------------------
(***************************************************************************)
(* One sink of nstl::log (OstreamLog in nstl/nstl/logger.cpp, with CoutLog *)
(* and FileLog): a queue, and a thread that writes what it pops.           *)
(*                                                                         *)
(* Threads log through it: the log functor locks a weak_ptr, calls push()  *)
(* and releases.  The Owner is the nstl::log::Logger with its entry on the *)
(* stack; its reset() releases them.  Whoever releases the last reference  *)
(* runs the destructor.                                                    *)
(*                                                                         *)
(* The queue is TBB's concurrent_bounded_queue (external): entries are all *)
(* the items ever put in, in order, and pop() takes the next ticket before *)
(* it waits for that entry, so an idle consumer makes size() -1.  An item  *)
(* is the thread that logged the line, or Nullopt, which ends the worker.  *)
(***************************************************************************)
EXTENDS Integers, Sequences, FiniteSets

CONSTANTS
  Threads,            \* threads that log
  Owner,              \* the Logger
  Nullopt,            \* std::nullopt, the item that ends the worker
  Unlimited,          \* numeric_limits<ptrdiff_t>::max(), the first throttle
  Limits,             \* values given to throttleSize()
  MaxCalls            \* bound: log calls of one thread

ASSUME SinkAssumption ==
  /\ IsFiniteSet(Threads)
  /\ Owner \notin Threads
  /\ Nullopt \notin Threads \cup {Owner}
  /\ Unlimited \in Nat
  /\ Limits \subseteq 0..Unlimited      \* Logger::throttleSize throws below 0
  /\ MaxCalls \in Nat

Holders == Threads \cup {Owner}

VARIABLES
  entries,            \* every item emplaced in _queue, in order
  ticket,             \* tickets taken by pop()
  worker,             \* program counter of worker()
  written,            \* the lines the target got
  target,             \* _tgt: "stream", or "null" once stop() has joined
  running,            \* _running
  throttle,           \* _throttle_size
  refs,               \* who holds a shared_ptr to the sink
  pc,                 \* progress of each holder's call
  kind,               \* the level of each holder's call: "line" or "terminate"
  process,            \* "up", "destroyed" (the sink is gone) or "aborted"
  calls,              \* bound: log calls made
  at,                 \* history: index in entries of the last line of each thread
  closedAt,           \* history: index of Nullopt in entries, or 0
  peak,               \* history: the throttle, or what was queued when it was set
  stopper             \* history: the holder whose stop() won, or Nullopt

queue == <<entries, closedAt>>
consumer == <<ticket, worker, written>>
life == <<target, running, stopper, process>>
limits == <<throttle, peak>>
caller == <<refs, pc, kind, calls, at>>
vars == <<queue, consumer, life, limits, caller>>

\* The signed size TBB reports.
Size == Len(entries) - ticket

Init ==
  /\ entries = <<>>
  /\ closedAt = 0
  /\ ticket = 0
  /\ worker = "loop"
  /\ written = <<>>
  /\ target = "stream"
  /\ running = TRUE
  /\ stopper = Nullopt
  /\ process = "up"
  /\ throttle = Unlimited
  /\ peak = Unlimited
  /\ refs = {Owner}
  /\ pc = [t \in Holders |-> "idle"]
  /\ kind = [t \in Holders |-> "line"]
  /\ calls = [t \in Threads |-> 0]
  /\ at = [t \in Threads |-> 0]

Goto(t, label) == pc' = [pc EXCEPT ![t] = label]
-----------------------------------------------------------------------------
(* worker()                                                                *)

\* Mutant: the loop is while (_running) instead of waiting for Nullopt.
WorkerTicketWhileRunning ==
  /\ worker = "loop"
  /\ ticket' = ticket + 1
  /\ worker' = IF running THEN "pop" ELSE "done"
  /\ UNCHANGED <<queue, written, life, limits, caller>>

WorkerTicket ==
  /\ worker = "loop"
  /\ ticket' = ticket + 1
  /\ worker' = "pop"
  /\ UNCHANGED <<queue, written, life, limits, caller>>

WorkerPop ==
  /\ worker = "pop"
  /\ ticket <= Len(entries)
  /\ worker' = IF entries[ticket] = Nullopt THEN "done" ELSE "write"
  /\ UNCHANGED <<queue, ticket, written, life, limits, caller>>

WorkerWrite ==
  /\ worker = "write"
  /\ written' = Append(written, entries[ticket])
  /\ worker' = "loop"
  /\ UNCHANGED <<queue, ticket, life, limits, caller>>

WorkerStep == WorkerTicket \/ WorkerPop \/ WorkerWrite
-----------------------------------------------------------------------------
(* push(), called through the weak_ptr of the log functor.                 *)

\* wptr.lock() succeeds; where it does not the line goes nowhere.
Call(t) ==
  /\ pc[t] = "idle"
  /\ refs # {}
  /\ calls[t] < MaxCalls
  /\ calls' = [calls EXCEPT ![t] = @ + 1]
  /\ refs' = refs \cup {t}
  /\ \E k \in {"line", "terminate"} : kind' = [kind EXCEPT ![t] = k]
  /\ Goto(t, "check")
  /\ UNCHANGED <<queue, consumer, life, limits, at>>

\* Too much is queued: the line is dropped, whatever its level.
PushDrop(t) ==
  /\ pc[t] = "check"
  /\ throttle < Size
  /\ Goto(t, "release")
  /\ UNCHANGED <<queue, consumer, life, limits, refs, kind, calls, at>>

\* Mutant: the throttle is not looked at.
PushPassAlways(t) ==
  /\ pc[t] = "check"
  /\ Goto(t, "emplace")
  /\ UNCHANGED <<queue, consumer, life, limits, refs, kind, calls, at>>

PushPass(t) ==
  /\ pc[t] = "check"
  /\ throttle >= Size
  /\ Goto(t, "emplace")
  /\ UNCHANGED <<queue, consumer, life, limits, refs, kind, calls, at>>

PushEmplace(t) ==
  /\ pc[t] = "emplace"
  /\ entries' = Append(entries, t)
  /\ at' = [at EXCEPT ![t] = Len(entries) + 1]
  /\ Goto(t, IF kind[t] = "terminate" THEN "stop" ELSE "release")
  /\ UNCHANGED <<closedAt, consumer, life, limits, refs, kind, calls>>

\* stop() of a Terminate line has returned.
PushAbort(t) ==
  /\ pc[t] = "stopped"
  /\ kind[t] = "terminate"
  /\ process' = "aborted"
  /\ UNCHANGED <<queue, consumer, target, running, stopper, limits, caller>>

\* The shared_ptr goes out of scope; the last one runs the destructor.
Release(t) ==
  /\ pc[t] = "release"
  /\ refs' = refs \ {t}
  /\ kind' = [kind EXCEPT ![t] = "line"]
  /\ Goto(t, IF refs = {t} THEN "stop" ELSE "idle")
  /\ UNCHANGED <<queue, consumer, life, limits, calls, at>>
-----------------------------------------------------------------------------
(* stop(), from push() or from the destructor.                             *)

\* Mutant: _running is read and cleared in two steps, so two stop() may both pass.
StopEnterTwice(t) ==
  /\ pc[t] = "stop"
  /\ running' = FALSE
  /\ stopper' = t
  /\ Goto(t, "sentinel")
  /\ UNCHANGED <<queue, consumer, target, process, limits, refs, kind, calls, at>>

StopEnter(t) ==
  /\ pc[t] = "stop"
  /\ running' = FALSE
  /\ stopper' = IF running THEN t ELSE stopper
  /\ Goto(t, IF running THEN "sentinel" ELSE "stopped")
  /\ UNCHANGED <<queue, consumer, target, process, limits, refs, kind, calls, at>>

StopSentinel(t) ==
  /\ pc[t] = "sentinel"
  /\ entries' = Append(entries, Nullopt)
  /\ closedAt' = Len(entries) + 1
  /\ Goto(t, "join")
  /\ UNCHANGED <<consumer, life, limits, refs, kind, calls, at>>

\* Mutant: the thread is detached instead of joined.
StopDetach(t) ==
  /\ pc[t] = "join"
  /\ Goto(t, "stopped")
  /\ UNCHANGED <<queue, consumer, life, limits, refs, kind, calls, at>>

\* join(), _tgt = nullptr, and in FileLog the file is closed.
StopJoin(t) ==
  /\ pc[t] = "join"
  /\ worker = "done"
  /\ target' = "null"
  /\ Goto(t, "stopped")
  /\ UNCHANGED <<queue, consumer, running, stopper, process, limits, refs, kind, calls, at>>

\* The destructor's stop() has returned: the members go.
Destroyed(t) ==
  /\ pc[t] = "stopped"
  /\ kind[t] = "line"
  /\ process' = "destroyed"
  /\ UNCHANGED <<queue, consumer, target, running, stopper, limits, caller>>
-----------------------------------------------------------------------------
(* The Logger.                                                             *)

ThrottleSize ==
  /\ pc[Owner] = "idle" /\ Owner \in refs
  /\ \E n \in Limits :
       /\ throttle' = n
       /\ peak' = IF n > Size THEN n ELSE Size
  /\ UNCHANGED <<queue, consumer, life, caller>>

\* reset() has taken the sink off the stack and drops its reference.
Reset ==
  /\ pc[Owner] = "idle" /\ Owner \in refs
  /\ Goto(Owner, "release")
  /\ UNCHANGED <<queue, consumer, life, limits, refs, kind, calls, at>>
-----------------------------------------------------------------------------
Over == process # "up"

PushStep(t) == PushDrop(t) \/ PushPass(t) \/ PushEmplace(t) \/ PushAbort(t)

StopStep(t) == StopEnter(t) \/ StopSentinel(t) \/ StopJoin(t) \/ Destroyed(t)

HolderStep(t) == (t \in Threads /\ PushStep(t)) \/ Release(t) \/ StopStep(t)

Next ==
  \/ /\ ~Over
     /\ \/ WorkerStep
        \/ \E t \in Threads : Call(t)
        \/ \E t \in Holders : HolderStep(t)
        \/ ThrottleSize
        \/ Reset
  \/ Over /\ UNCHANGED vars

Safe == Init /\ [][Next]_vars

\* Threads that can run are scheduled, and writing to the target returns.
Fairness ==
  /\ WF_vars(~Over /\ WorkerStep)
  /\ \A t \in Holders : WF_vars(~Over /\ HolderStep(t))

Spec == Safe /\ Fairness
-----------------------------------------------------------------------------
(* Properties.                                                             *)

\* Every variable stays in its range; in particular size() is never below -1.
TypeOK ==
  /\ running \in BOOLEAN
  /\ entries \in Seq(Threads \cup {Nullopt})
  /\ written \in Seq(Threads)
  /\ closedAt \in Nat
  /\ ticket \in 0..(Len(entries) + 1)
  /\ worker \in {"loop", "pop", "write", "done"}
  /\ target \in {"stream", "null"}
  /\ stopper \in Holders \cup {Nullopt}
  /\ process \in {"up", "destroyed", "aborted"}
  /\ throttle \in 0..Unlimited
  /\ peak \in Nat
  /\ refs \subseteq Holders
  /\ pc \in [Holders -> {"idle", "check", "emplace", "release",
                          "stop", "sentinel", "join", "stopped"}]
  /\ kind \in [Holders -> {"line", "terminate"}]
  /\ calls \in [Threads -> 0..MaxCalls]
  /\ at \in [Threads -> Nat]

(***************************************************************************)
(* A destroyed sink has written every line push() ever accepted, in order: *)
(* no thread can slip a line in behind Nullopt, because the destructor     *)
(* runs only when nobody holds the sink (FileBackedLogger test).           *)
(***************************************************************************)
FlushedOnDestruction ==
  process = "destroyed" => entries = Append(written, Nullopt)

(***************************************************************************)
(* worker() never uses _tgt after stop() has cleared it, and in FileLog    *)
(* never writes to the closed file, however many stop() race.              *)
(***************************************************************************)
TargetWhileWriting == worker # "done" => target = "stream"

(***************************************************************************)
(* throttleSize() caps the queue: from then on it holds no more items than *)
(* the throttle (or than it held at that call), plus one for each thread   *)
(* that tested the size before another one's emplace, plus Nullopt.        *)
(***************************************************************************)
ThrottleBound ==
  Size <= peak + Cardinality(Threads) + (IF closedAt = 0 THEN 0 ELSE 1)

(***************************************************************************)
(* The stop() that won the exchange returns with every line before Nullopt *)
(* written: the NSTL_TERMINATE whose stop() it is aborts after flushing.   *)
(***************************************************************************)
StopFlushes ==
  \A t \in Holders : t = stopper /\ pc[t] = "stopped" =>
    written = SubSeq(entries, 1, closedAt - 1)

(***************************************************************************)
(* push() drops a line only when more lines than the throttle are waiting: *)
(* the -1 of an idle queue must not count as a huge size.                  *)
(***************************************************************************)
DropsOnlyWhenFull ==
  [][\A t \in Threads : pc[t] = "check" /\ pc'[t] = "release" =>
       Len(entries) - Len(written) > throttle]_vars

(***************************************************************************)
(* The sink implements LogSink: see there for what that promises.  A line  *)
(* that a thread emplaces behind Nullopt, while a Terminate line of        *)
(* another thread ends the process, is not accepted.                       *)
(***************************************************************************)
Accepted == IF closedAt = 0 THEN entries ELSE SubSeq(entries, 1, closedAt - 1)

Phase ==
  IF process = "up" THEN IF closedAt = 0 THEN "open" ELSE "closing"
  ELSE IF process = "destroyed" THEN "closed" ELSE "aborted"

Sink == INSTANCE LogSink WITH Lines <- Threads, accepted <- Accepted, phase <- Phase

ImplementsLogSink == Sink!Spec

(***************************************************************************)
(* README.md:81: "`NSTL_TERMINATE` logs, flushes, and calls                *)
(* `std::abort()`".  A Terminate call never returns to the caller.         *)
(***************************************************************************)
TerminateAborts == \A t \in Threads : kind[t] = "terminate" => pc[t] # "release"
-----------------------------------------------------------------------------
(***************************************************************************)
(* The inductive invariant behind the safety properties.  That a destroyed *)
(* sink has lost nothing needs that the destructor's stop() is the one     *)
(* that wins, which needs that a Terminate line in progress keeps its      *)
(* reference; and that entries do not grow once nobody holds the sink.     *)
(***************************************************************************)
InStop == {"stop", "sentinel", "join", "stopped"}

\* What the worker has written is what it took from the queue, in order.
WorkerFollows ==
  /\ worker = "loop" => Len(written) = ticket /\ ticket <= Len(entries)
  /\ worker # "loop" => Len(written) = ticket - 1
  /\ worker = "write" => ticket <= Len(entries) /\ entries[ticket] # Nullopt
  /\ worker = "done" => closedAt # 0 /\ ticket = closedAt
  /\ Len(written) <= Len(entries)
  /\ \A i \in 1..Len(written) : written[i] = entries[i]

OneNullopt ==
  /\ closedAt <= Len(entries)
  /\ \A i \in 1..Len(entries) : entries[i] = Nullopt <=> i = closedAt

OneStopper ==
  /\ running => stopper = Nullopt
  /\ stopper = Nullopt => running /\ closedAt = 0 /\ target = "stream"
  /\ stopper # Nullopt => ~running /\ pc[stopper] \in {"sentinel", "join", "stopped"}
  /\ \A t \in Holders :
       /\ pc[t] \in {"sentinel", "join"} => stopper = t
       /\ pc[t] = "sentinel" => closedAt = 0
       /\ pc[t] = "join" => closedAt # 0
       /\ pc[t] = "stopped" => ~running
       /\ stopper = t /\ pc[t] = "stopped" => worker = "done"
  /\ target = "null" => worker = "done"

LastReference ==
  /\ kind[Owner] = "line" /\ pc[Owner] \notin {"check", "emplace"}
  /\ \A t \in Holders :
       /\ pc[t] \in {"check", "emplace", "release"} => t \in refs
       /\ pc[t] \in InStop /\ kind[t] = "terminate" => t \in refs
       /\ pc[t] \in InStop /\ kind[t] = "line" => refs = {}
       /\ pc[t] = "stop" /\ kind[t] = "line" => running
       /\ pc[t] = "stopped" /\ kind[t] = "line" => stopper = t
  /\ \A t, u \in Holders :
       /\ pc[t] \in InStop /\ kind[t] = "line"
       /\ pc[u] \in InStop /\ kind[u] = "line"
       => t = u
  /\ refs = {} => closedAt \in {0, Len(entries)}
  /\ process = "destroyed" =>
       \E t \in Holders : pc[t] = "stopped" /\ kind[t] = "line"

InFlight == {t \in Threads : pc[t] = "emplace"}

FlightBound ==
  /\ throttle <= peak
  /\ Size + Cardinality(InFlight)
       <= peak + Cardinality(Threads) + (IF closedAt = 0 THEN 0 ELSE 1)

IInv ==
  /\ TypeOK
  /\ WorkerFollows
  /\ OneNullopt
  /\ OneStopper
  /\ LastReference
  /\ FlightBound
=============================================================================
