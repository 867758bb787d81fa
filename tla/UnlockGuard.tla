----------------------------- MODULE UnlockGuard -----------------------------
(***************************************************************************)
(* unlock_guard (nstl/nstl/unlock_guard.hpp): threads that hold mutexes    *)
(* give them up for a scope and take them back at its end.  A thread names *)
(* its mutexes in an order of its own.  std::lock() (external) waits for   *)
(* one mutex while it holds none of the others, tries the rest, and starts *)
(* again from the one that was taken if that fails.                        *)
(***************************************************************************)
EXTENDS Integers, Sequences, SequencesExt

CONSTANTS
  GuardThreads,       \* threads
  Mutexes,
  Lists,              \* the mutexes of each thread: a function to sequences, no repetition
  Free                \* no thread

GuardAssumption ==
  /\ Free \notin GuardThreads
  /\ \A t \in GuardThreads : IsInjective(Lists[t]) /\ Range(Lists[t]) \subseteq Mutexes

VARIABLES
  owner,              \* of each mutex
  stage,              \* each thread: "critical", "unlock", "deferred", "scope", "lock" or "try"
  next,               \* the place in its list of the next mutex to unlock, lock or try
  wrong               \* a mutex was unlocked by a thread that did not hold it

guardVars == <<owner, stage, next, wrong>>

Size(t) == Len(Lists[t])

Held(t) == {m \in Mutexes : owner[m] = t}

\* The threads begin in the scope of a guard, with their mutexes unlocked.
Init ==
  /\ owner = [m \in Mutexes |-> Free]
  /\ stage = [t \in GuardThreads |-> "scope"]
  /\ next = [t \in GuardThreads |-> 1]
  /\ wrong = FALSE

Unlock(t, m) ==
  /\ owner' = [owner EXCEPT ![m] = Free]
  /\ wrong' = (wrong \/ owner[m] # t)

\* The constructor; there is nothing to unlock without mutexes.
Construct(t) ==
  /\ stage[t] = "critical"
  /\ stage' = [stage EXCEPT ![t] = IF Size(t) = 0 THEN "scope" ELSE "unlock"]
  /\ UNCHANGED <<owner, next, wrong>>

\* The constructor with std::defer_lock does not unlock ...
ConstructDeferred(t) ==
  /\ stage[t] = "critical"
  /\ stage' = [stage EXCEPT ![t] = IF Size(t) = 0 THEN "scope" ELSE "deferred"]
  /\ UNCHANGED <<owner, next, wrong>>

\* ... and the program does, in an order of its own, before the scope ends.
ProgramUnlocks(t, m) ==
  /\ stage[t] = "deferred"
  /\ m \in Held(t)
  /\ Unlock(t, m)
  /\ stage' = [stage EXCEPT ![t] = IF Held(t) = {m} THEN "scope" ELSE "deferred"]
  /\ UNCHANGED next

\* One mutex after another, in the order of the list.
UnlockNext(t) ==
  /\ stage[t] = "unlock"
  /\ Unlock(t, Lists[t][next[t]])
  /\ IF next[t] = Size(t)
     THEN stage' = [stage EXCEPT ![t] = "scope"] /\ next' = [next EXCEPT ![t] = 1]
     ELSE next' = [next EXCEPT ![t] = @ + 1] /\ UNCHANGED stage

\* The destructor.
Destruct(t) ==
  /\ stage[t] = "scope"
  /\ stage' = [stage EXCEPT ![t] = IF Size(t) = 0 THEN "critical" ELSE "lock"]
  /\ UNCHANGED <<owner, next, wrong>>

Wanted(t) == Lists[t][next[t]]

Locked(t) == Held(t) \cup {Wanted(t)} = Range(Lists[t])

\* Mutant: the mutexes are locked one after another, each keeping the ones before.
LockFirstInOrder(t) ==
  /\ stage[t] = "lock"
  /\ owner[Wanted(t)] = Free
  /\ owner' = [owner EXCEPT ![Wanted(t)] = t]
  /\ stage' = [stage EXCEPT ![t] = IF Locked(t) THEN "critical" ELSE "lock"]
  /\ next' = [next EXCEPT ![t] = IF Locked(t) THEN 1 ELSE @ + 1]
  /\ UNCHANGED wrong

\* Waits for this mutex; the others follow it round the list.
LockFirst(t) ==
  /\ stage[t] = "lock"
  /\ owner[Wanted(t)] = Free
  /\ owner' = [owner EXCEPT ![Wanted(t)] = t]
  /\ stage' = [stage EXCEPT ![t] = IF Locked(t) THEN "critical" ELSE "try"]
  /\ next' = [next EXCEPT ![t] = IF Locked(t) THEN 1 ELSE (@ % Size(t)) + 1]
  /\ UNCHANGED wrong

TryLock(t) ==
  /\ stage[t] = "try"
  /\ owner[Wanted(t)] = Free
  /\ owner' = [owner EXCEPT ![Wanted(t)] = t]
  /\ stage' = [stage EXCEPT ![t] = IF Locked(t) THEN "critical" ELSE "try"]
  /\ next' = [next EXCEPT ![t] = IF Locked(t) THEN 1 ELSE (@ % Size(t)) + 1]
  /\ UNCHANGED wrong

\* Everything is given back and the wait is for the one that was taken.
TryLockFails(t) ==
  /\ stage[t] = "try"
  /\ owner[Wanted(t)] # Free
  /\ owner' = [m \in Mutexes |-> IF m \in Held(t) THEN Free ELSE owner[m]]
  /\ stage' = [stage EXCEPT ![t] = "lock"]
  /\ UNCHANGED <<next, wrong>>

\* What a thread does on its own account; it may stay in its critical section.
Runs(t) ==
  \/ \E m \in Mutexes : ProgramUnlocks(t, m)
  \/ UnlockNext(t) \/ Destruct(t) \/ LockFirst(t) \/ TryLock(t) \/ TryLockFails(t)

Next == \E t \in GuardThreads : Construct(t) \/ ConstructDeferred(t) \/ Runs(t)

Spec == Init /\ [][Next]_guardVars /\ \A t \in GuardThreads : WF_guardVars(Runs(t))
-----------------------------------------------------------------------------
(* Properties.                                                             *)

\* After the scope a thread holds exactly the mutexes it gave up, and it unlocks only
\* what it holds.
GuardsHold ==
  /\ ~wrong
  /\ \A t \in GuardThreads :
       /\ stage[t] = "critical" => Held(t) = Range(Lists[t])
       /\ stage[t] = "scope" => Held(t) = {}

(***************************************************************************)
(* The mutexes come back: a thread that leaves its scope holds exactly     *)
(* what it gave up, and while threads that list the mutexes in opposite    *)
(* orders want them back, one of them gets them; std::mutex does not say   *)
(* which one.                                                              *)
(***************************************************************************)
GuardsRelock ==
  /\ []GuardsHold
  /\ []<>((\E t \in GuardThreads : stage[t] = "lock") =>
            \E t \in GuardThreads : stage[t] = "critical" /\ Held(t) # {})
=============================================================================
