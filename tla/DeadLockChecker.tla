--------------------------- MODULE DeadLockChecker ---------------------------
(***************************************************************************)
(* DeadLockChecker (nstl/nstl/dead_lock_detect.cpp): threads register a    *)
(* heartbeat, bump() it, and drop it when they end; runner() and check()   *)
(* scan the heartbeats under the checker's mutex and call the alerter      *)
(* without it.                                                             *)
(*                                                                         *)
(* _check() is one step per call of weak_ptr::lock() and one per           *)
(* elapsed(): the monitored threads bump, drop and time passes in between. *)
(* The other operations hold the mutex for their whole body and are one    *)
(* step each.  Time is a clock of Tick steps.                              *)
(***************************************************************************)
EXTENDS Integers, Sequences, SequencesExt

CONSTANTS
  Runners,            \* threads that call runner()
  Checkers,           \* threads that call check()
  Executors,          \* the heartbeats addCheckedThread() may return
  Timeout,            \* _timeout
  MaxTime,            \* bound: the clock stops here
  Free                \* the mutex is not held

ASSUME CheckerAssumption ==
  /\ Runners \cap Checkers = {}
  /\ Free \notin Runners \cup Checkers
  /\ Timeout \in Nat \ {0}
  /\ MaxTime \in Nat

Threads == Runners \cup Checkers

VARIABLES
  clock,              \* steady_clock::now()
  tp,                 \* _tp of each executor, -1 before it is made
  held,               \* the executors whose thread still holds the shared_ptr
  items,              \* _items
  lock,               \* holder of the checker's _lock
  running,            \* _running
  pc,                 \* where each thread is
  itr,                \* itr of the thread's _check()
  late,               \* the executors its _check() found late: retval is late # {}
  missed,             \* history: executors late while their thread still ran
  dropped,            \* history: executors dropped while a _check() had locked them
  stopped,            \* history: stop() was called, and no runner() since
  since,              \* history: items late all along since the scan began
  gone                \* history: items already expired when the scan began

beats == <<clock, tp, held, missed>>
scans == <<itr, late, since, gone>>
flags == <<running, stopped>>
vars == <<beats, items, lock, flags, pc, scans, dropped>>

Init ==
  /\ clock = 0
  /\ tp = [e \in Executors |-> -1]
  /\ held = {}
  /\ items = <<>>
  /\ lock = Free
  /\ running = FALSE
  /\ pc = [t \in Threads |-> "idle"]
  /\ itr = [t \in Threads |-> 1]
  /\ late = [t \in Threads |-> {}]
  /\ missed = {}
  /\ dropped = {}
  /\ stopped = FALSE
  /\ since = [t \in Threads |-> {}]
  /\ gone = [t \in Threads |-> {}]

Goto(t, p) == pc' = [pc EXCEPT ![t] = p]

\* Mutant: an executor is late as soon as the timeout is reached.
OverdueEarly(e) == Timeout <= clock - tp[e]

Overdue(e) == Timeout < clock - tp[e]

\* The executors whose thread has now been silent for longer than the timeout.
Silent == {e \in held : Timeout < clock - tp[e]}

\* The executor the scan of t holds through ptr.
Locked(t) == IF pc[t] = "elapsed" THEN {items[itr[t]]} ELSE {}
-----------------------------------------------------------------------------
(* The monitored threads and the clock.                                    *)

Tick ==
  /\ clock < MaxTime
  /\ clock' = clock + 1
  /\ missed' = missed \cup {e \in held : Timeout < clock + 1 - tp[e]}
  /\ UNCHANGED <<tp, held, items, lock, flags, pc, scans, dropped>>

\* Mutant: the time point of a new executor is not set.
AddCheckedThreadUnset(e) ==
  /\ lock = Free
  /\ tp[e] = -1
  /\ tp' = [tp EXCEPT ![e] = 0]
  /\ items' = Append(items, e)
  /\ held' = held \cup {e}
  /\ UNCHANGED <<clock, missed, lock, flags, pc, scans, dropped>>

AddCheckedThread(e) ==
  /\ lock = Free
  /\ tp[e] = -1
  /\ tp' = [tp EXCEPT ![e] = clock]
  /\ items' = Append(items, e)
  /\ held' = held \cup {e}
  /\ UNCHANGED <<clock, missed, lock, flags, pc, scans, dropped>>

Bump(e) ==
  /\ e \in held
  /\ tp' = [tp EXCEPT ![e] = clock]
  /\ since' = [t \in Threads |-> since[t] \ {e}]
  /\ UNCHANGED <<clock, held, missed, items, lock, flags, pc, itr, late, gone, dropped>>

Drop(e) ==
  /\ e \in held
  /\ held' = held \ {e}
  /\ since' = [t \in Threads |-> since[t] \ {e}]
  /\ dropped' = IF \E t \in Threads : e \in Locked(t) THEN dropped \cup {e} ELSE dropped
  /\ UNCHANGED <<clock, tp, missed, items, lock, flags, pc, itr, late, gone>>
-----------------------------------------------------------------------------
(* _check()                                                                *)

ScanBegin(t) ==
  /\ lock = Free
  /\ lock' = t
  /\ Goto(t, "scan")
  /\ itr' = [itr EXCEPT ![t] = 1]
  /\ late' = [late EXCEPT ![t] = {}]
  /\ since' = [since EXCEPT ![t] = Silent \cap Range(items)]
  /\ gone' = [gone EXCEPT ![t] = Range(items) \ held]
  /\ UNCHANGED <<beats, items, flags, dropped>>

AtItem(t) == pc[t] = "scan" /\ itr[t] <= Len(items)

\* itr->lock() succeeds
ScanLock(t) ==
  /\ AtItem(t)
  /\ items[itr[t]] \in held
  /\ Goto(t, "elapsed")
  /\ UNCHANGED <<beats, items, lock, flags, scans, dropped>>

\* Mutant: the iterator also moves on after erase().
ScanEraseSkips(t) ==
  /\ AtItem(t)
  /\ items[itr[t]] \notin held
  /\ items' = RemoveAt(items, itr[t])
  /\ itr' = [itr EXCEPT ![t] = @ + 1]
  /\ UNCHANGED <<beats, lock, flags, pc, late, since, gone, dropped>>

ScanErase(t) ==
  /\ AtItem(t)
  /\ items[itr[t]] \notin held
  /\ items' = RemoveAt(items, itr[t])
  /\ UNCHANGED <<beats, lock, flags, pc, scans, dropped>>

\* Mutant: retval is assigned for every item.
ScanElapsedLast(t) ==
  /\ pc[t] = "elapsed"
  /\ late' = [late EXCEPT ![t] = {e \in {items[itr[t]]} : Overdue(e)}]
  /\ itr' = [itr EXCEPT ![t] = @ + 1]
  /\ Goto(t, "scan")
  /\ UNCHANGED <<beats, items, lock, flags, since, gone, dropped>>

ScanElapsed(t) ==
  /\ pc[t] = "elapsed"
  /\ late' = [late EXCEPT ![t] = @ \cup {e \in {items[itr[t]]} : Overdue(e)}]
  /\ itr' = [itr EXCEPT ![t] = @ + 1]
  /\ Goto(t, "scan")
  /\ UNCHANGED <<beats, items, lock, flags, since, gone, dropped>>

Scanned(t) == pc[t] = "scan" /\ itr[t] > Len(items)

\* _check() returns: its locals are gone.
ScanEnd(t) ==
  /\ itr' = [itr EXCEPT ![t] = 1]
  /\ late' = [late EXCEPT ![t] = {}]
  /\ since' = [since EXCEPT ![t] = {}]
  /\ gone' = [gone EXCEPT ![t] = {}]

\* ul.unlock() in check(), unlock_guard in runner()
ScanAlert(t) ==
  /\ Scanned(t)
  /\ late[t] # {}
  /\ lock' = Free
  /\ Goto(t, "alert")
  /\ ScanEnd(t)
  /\ UNCHANGED <<beats, items, flags, dropped>>
-----------------------------------------------------------------------------
(* check()                                                                 *)

Check(t) ==
  /\ pc[t] = "idle"
  /\ ScanBegin(t)

CheckFalse(t) ==
  /\ Scanned(t)
  /\ late[t] = {}
  /\ lock' = Free
  /\ Goto(t, "idle")
  /\ ScanEnd(t)
  /\ UNCHANGED <<beats, items, flags, dropped>>

\* The alerter returns or throws: check() is over either way.
CheckAlerted(t) ==
  /\ pc[t] = "alert"
  /\ Goto(t, "idle")
  /\ UNCHANGED <<beats, items, lock, flags, scans, dropped>>
-----------------------------------------------------------------------------
(* runner()                                                                *)

Runner(r) ==
  /\ pc[r] \in {"idle", "done"}
  /\ Goto(r, "called")
  /\ stopped' = FALSE
  /\ UNCHANGED <<beats, items, lock, running, scans, dropped>>

\* The mutex is taken and given back by wait_for.
RunnerEnter(r) ==
  /\ pc[r] = "called"
  /\ lock = Free
  /\ running' = TRUE
  /\ stopped' = stopped
  /\ Goto(r, "wait")
  /\ UNCHANGED <<beats, items, lock, scans, dropped>>

\* The period is over, or a spurious wake-up: wait_for has no predicate.
WaitEnds(r) ==
  /\ pc[r] = "wait"
  /\ Goto(r, "wake")
  /\ UNCHANGED <<beats, items, lock, flags, scans, dropped>>

RunnerCheck(r) ==
  /\ pc[r] = "wake"
  /\ ScanBegin(r)

\* Mutant: the condition of the loop is not looked at.
LoopForever(r) == Goto(r, "wait")

Loop(r) == Goto(r, IF running THEN "wait" ELSE "done")

RunnerNext(r) ==
  /\ Scanned(r)
  /\ late[r] = {}
  /\ lock' = Free
  /\ Loop(r)
  /\ ScanEnd(r)
  /\ UNCHANGED <<beats, items, flags, dropped>>

AlertReturns(r) ==
  /\ pc[r] = "alert"
  /\ Goto(r, "relock")
  /\ UNCHANGED <<beats, items, lock, flags, scans, dropped>>

\* ~unlock_guard
Relock(r) ==
  /\ pc[r] = "relock"
  /\ lock = Free
  /\ Loop(r)
  /\ UNCHANGED <<beats, items, lock, flags, scans, dropped>>

\* The alerter throws: ~unlock_guard and ~unique_lock, and runner() is left.
AlertThrows(r) ==
  /\ pc[r] = "alert"
  /\ lock = Free
  /\ Goto(r, "done")
  /\ UNCHANGED <<beats, items, lock, flags, scans, dropped>>
-----------------------------------------------------------------------------
(* stop()                                                                  *)

Woken(p) == IF p = "wait" THEN "wake" ELSE p

\* Mutant: _running is cleared and nobody is notified.
StopSilent(p) ==
  /\ lock = Free
  /\ running' = FALSE
  /\ stopped' = TRUE
  /\ pc' = p
  /\ UNCHANGED <<beats, items, lock, scans, dropped>>

\* The body of stop(), for a caller that leaves the program counters at p.
StopBody(p) ==
  /\ lock = Free
  /\ running' = FALSE
  /\ stopped' = TRUE
  /\ pc' = [t \in Threads |-> IF running THEN Woken(p[t]) ELSE p[t]]
  /\ UNCHANGED <<beats, items, lock, scans, dropped>>

Stop == StopBody(pc)

\* The alerter calls stop().
AlertCallsStop(t) ==
  /\ pc[t] = "alert"
  /\ Goto(t, "stopping")
  /\ UNCHANGED <<beats, items, lock, flags, scans, dropped>>

AlertStop(t) ==
  /\ pc[t] = "stopping"
  /\ StopBody([pc EXCEPT ![t] = IF t \in Runners THEN "relock" ELSE "idle"])
-----------------------------------------------------------------------------
Scan(t) == ScanLock(t) \/ ScanErase(t) \/ ScanElapsed(t) \/ ScanAlert(t)

CheckStep(t) == Scan(t) \/ CheckFalse(t) \/ CheckAlerted(t) \/ AlertStop(t)

\* What the runner does by itself once it is awake; no alerter has to throw.
RunnerStep(r) ==
  \/ RunnerEnter(r) \/ RunnerCheck(r) \/ Scan(r) \/ RunnerNext(r)
  \/ AlertReturns(r) \/ Relock(r) \/ AlertStop(r)

Next ==
  \/ Tick
  \/ \E e \in Executors : AddCheckedThread(e) \/ Bump(e) \/ Drop(e)
  \/ \E t \in Checkers : Check(t) \/ CheckStep(t)
  \/ \E r \in Runners : Runner(r) \/ RunnerStep(r) \/ WaitEnds(r) \/ AlertThrows(r)
  \/ \E t \in Threads : AlertCallsStop(t)
  \/ Stop

Safe == Init /\ [][Next]_vars

\* Threads are scheduled, also when the mutex is contended, and the alerter returns.
\* The period of wait_for may be as long as the caller likes: no fairness for WaitEnds.
Spec ==
  /\ Safe
  /\ \A t \in Checkers : SF_vars(CheckStep(t))
  /\ \A r \in Runners : SF_vars(RunnerStep(r))

\* The periods are short: every wait_for ends.
TimedSpec == Spec /\ \A r \in Runners : WF_vars(WaitEnds(r))
-----------------------------------------------------------------------------
(* Properties.                                                             *)

\* Every variable stays in its range; a scan's iterator is never past the end.
TypeOK ==
  /\ clock \in 0..MaxTime
  /\ tp \in [Executors -> -1..clock]
  /\ held \subseteq Executors
  /\ items \in Seq(Executors)
  /\ lock \in Threads \cup {Free}
  /\ running \in BOOLEAN
  /\ pc \in [Threads -> {"idle", "called", "wait", "wake", "scan", "elapsed", "alert",
                         "stopping", "relock", "done"}]
  /\ itr \in [Threads -> Nat \ {0}]
  /\ \A t \in Threads :
       /\ pc[t] = "scan" => itr[t] \in 1..(Len(items) + 1)
       /\ pc[t] = "elapsed" => itr[t] \in 1..Len(items)
  /\ late \in [Threads -> SUBSET Executors]
  /\ since \in [Threads -> SUBSET Executors]
  /\ gone \in [Threads -> SUBSET Executors]

(***************************************************************************)
(* The alerter is only called about a thread that really was silent for    *)
(* longer than the timeout while it ran, or that ended between lock() and  *)
(* elapsed() of a scan, which keeps its executor alive and measures on.    *)
(***************************************************************************)
NoFalseAlarm ==
  \A t \in Threads : late[t] \subseteq missed \cup dropped

(***************************************************************************)
(* A scan overlooks nobody: what was late when it began and stayed so is   *)
(* found, although expired items are erased under the loop; and whatever   *)
(* had expired by then is erased.                                          *)
(***************************************************************************)
ScanIsComplete ==
  \A t \in Threads :
    Scanned(t) => /\ since[t] \subseteq late[t]
                  /\ gone[t] \cap Range(items) = {}

InScan(t) == pc[t] \in {"scan", "elapsed"}

(***************************************************************************)
(* The iterator of a _check() stays valid: while one is under way, nothing *)
(* but its own erase() changes items.                                      *)
(***************************************************************************)
OnlyScanErases ==
  [][\A t \in Threads : InScan(t) /\ items' # items => ScanErase(t)]_vars

\* runner() is in its loop on r.
Looping(r) == pc[r] \notin {"idle", "called", "done"}

(***************************************************************************)
(* stop() ends every runner() in its loop, without waiting for its period  *)
(* to pass, unless another runner() sets _running again.                   *)
(***************************************************************************)
StopEndsRunner ==
  \A r \in Runners : []<>(Looping(r) => running)

(***************************************************************************)
(* A registered thread that stays silent past the timeout is reported as   *)
(* long as a runner() loops, provided that every wait_for ends.            *)
(***************************************************************************)
SilentIsReported ==
  (\A r \in Runners : []<>(pc[r] # "wait")) =>
    \A e \in Executors :
      []<>(e \in Silent /\ (\E r \in Runners : Looping(r)) =>
             \E t \in Threads : pc[t] = "alert")

(***************************************************************************)
(* A runner() that was called ends once stop() is called after it, as      *)
(* README.md:62 has it: "runs the check loop on the calling thread until   *)
(* stop()".                                                                *)
(***************************************************************************)
RunnerEndsAfterStop ==
  []<>(stopped => \A r \in Runners : pc[r] \in {"idle", "done"})
-----------------------------------------------------------------------------
(* The inductive invariant behind NoFalseAlarm and ScanIsComplete.         *)

\* A thread is inside _check() exactly while it holds the checker's mutex.
ScanHoldsLock == \A t \in Threads : InScan(t) <=> lock = t

\* Outside _check() its locals do not exist.
LocalsOfScan ==
  \A t \in Threads : ~InScan(t) => late[t] = {} /\ since[t] = {} /\ gone[t] = {}

\* No thread gets past the timeout unnoticed by the history.
SilentIsMissed == Silent \subseteq missed

\* The executor whose elapsed() is called next was held when lock() returned it.
LockedWasHeld ==
  \A t \in Threads :
    pc[t] = "elapsed" => /\ items[itr[t]] \in held \cup dropped
                         /\ items[itr[t]] \notin gone[t]

(***************************************************************************)
(* The scan so far: what stayed late is found or still ahead of the        *)
(* iterator, and what had expired is erased or still ahead of it.          *)
(***************************************************************************)
ScanProgress ==
  \A t \in Threads : InScan(t) =>
    /\ since[t] \subseteq Silent
    /\ gone[t] \cap held = {}
    /\ \A e \in since[t] : e \in late[t] \/ \E i \in itr[t]..Len(items) : items[i] = e
    /\ \A i \in 1..(itr[t] - 1) : items[i] \notin gone[t]

IInv ==
  /\ TypeOK
  /\ ScanHoldsLock
  /\ LocalsOfScan
  /\ SilentIsMissed
  /\ LockedWasHeld
  /\ ScanProgress
  /\ NoFalseAlarm
=============================================================================
