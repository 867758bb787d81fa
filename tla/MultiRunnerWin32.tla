-------------------------- MODULE MultiRunnerWin32 --------------------------
(***************************************************************************)
(* multi_runner on Windows (bin/main_win32.cpp): the main thread waits for *)
(* its children's handles; a console event starts a timer, whose routine   *)
(* runs in a thread of the pool and terminates what is left after one      *)
(* second.  A failure starts no timer: the other children are sent a       *)
(* console event, and nothing more.                                        *)
(*                                                                         *)
(* The routine walks over Data::pids while main() erases from it, without  *)
(* a lock.  slots is the vector's memory and size the number of elements:  *)
(* erase() moves the elements behind down and leaves the last slot as it   *)
(* is, and the range-for has taken begin and end once.  wait_for is always *)
(* pids with the event behind, or pids alone.                              *)
(***************************************************************************)
EXTENDS Integers, Sequences

CONSTANTS
  N,                  \* the number of processes to start
  Codes,              \* the exit codes children may end with by themselves
  Events,             \* the console events the runner may get
  Closed,             \* the exit code of a child that a console event ended
  MaxWait             \* MAXIMUM_WAIT_OBJECTS

Win32Assumption ==
  /\ N \in Nat \ {0}
  /\ Events \subseteq {"C", "CLOSE", "LOGOFF", "SHUTDOWN"}
  /\ Codes \subseteq Nat /\ Closed \in Nat \ (Codes \cup {0})
  /\ MaxWait \in Nat \ {0}

VARIABLES
  child,              \* "none", "failed", "running", "ended" or "gone" (handle closed)
  code,               \* the exit code of an ended child
  told,               \* the children that a console event of the runner has reached
  slots,              \* the memory of Data::pids, 0 for a cleared handle
  size,               \* pids.size()
  event,              \* Data::event: "none", "made" or "set"
  waited,             \* the event is in wait_for
  timer,              \* "none", "armed", "kill" or "done"
  at,                 \* the routine's iterator ...
  end,                \* ... and its end
  console,            \* app_running
  sendClose,          \* send_close_event
  exitCode,           \* Data::exit_code
  pc                  \* where main() is

\* running_true: no console event has come
RunningTrue == "running"

kids == <<child, code>>
list == <<slots, size>>
clock == <<timer, at, end>>
vars == <<kids, told, list, event, waited, clock, console, sendClose, exitCode, pc>>

Init ==
  /\ child = [i \in 1..N |-> "none"]
  /\ code = [i \in 1..N |-> 0]
  /\ told = {}
  /\ slots = <<>> /\ size = 0
  /\ event = "none" /\ waited = FALSE
  /\ timer = "none" /\ at = 0 /\ end = 0
  /\ console = RunningTrue
  /\ sendClose = TRUE
  /\ exitCode = 0
  /\ pc = "start"
-----------------------------------------------------------------------------
(* The children (external) and the console handler.                        *)

ChildEnds(i, n) ==
  /\ child[i] = "running"
  /\ child' = [child EXCEPT ![i] = "ended"]
  /\ code' = [code EXCEPT ![i] = n]

\* A child ends by itself, or because a console event has reached it.
ChildExit(i) ==
  /\ \E n \in Codes \cup (IF i \in told THEN {Closed} ELSE {}) : ChildEnds(i, n)
  /\ UNCHANGED <<told, list, event, waited, clock, console, sendClose, exitCode, pc>>

\* The last event is kept.
ConsoleHandler(signal) ==
  /\ console' = signal
  /\ UNCHANGED <<kids, told, list, event, waited, clock, sendClose, exitCode, pc>>
-----------------------------------------------------------------------------
(* main()                                                                  *)

\* CreateProcess for the children in turn; one that fails is passed over.
Create(i) ==
  /\ pc = "start"
  /\ child[i] = "none"
  /\ \A j \in 1..(i - 1) : child[j] # "none"
  /\ \/ /\ child' = [child EXCEPT ![i] = "running"]
        /\ slots' = Append(slots, i)
        /\ size' = size + 1
     \/ /\ child' = [child EXCEPT ![i] = "failed"]
        /\ UNCHANGED list
  /\ pc' = IF i = N THEN "loop" ELSE "start"
  /\ UNCHANGED <<code, told, event, waited, clock, console, sendClose, exitCode>>

WaitSize == IF waited THEN size + 1 ELSE size

\* The indices of wait_for whose handle is signalled.
Signalled ==
  {k \in 1..size : child[slots[k]] = "ended"}
    \cup (IF waited /\ event = "set" THEN {size + 1} ELSE {})

\* WaitForMultipleObjects returns the smallest of them.
Returned(k) == k \in Signalled /\ \A j \in Signalled : k <= j

\* GenerateConsoleCtrlEvent (external) for the group of a child, which is the child's own:
\* it refuses every event but CTRL_C and CTRL_BREAK, and CTRL_C reaches no group but that
\* of the whole console.
Reaches(signal) == signal = "BREAK"

\* sendCloseEvent for what is in pids; whether it was sent is not looked at.
SendCloseEvent(signal, pids) == told' = told \cup {i \in pids : Reaches(signal)}

\* The handle is cleared and the elements behind it move down.
Erase(k) ==
  /\ slots' = [j \in 1..Len(slots) |->
                 IF j \in k..(size - 1) THEN slots[j + 1]
                 ELSE IF j = k THEN 0 ELSE slots[j]]
  /\ size' = size - 1

FirstFailure(i) == code[i] # 0 /\ sendClose

\* A child has ended: remove_idx.
RemoveChild(k) ==
  /\ pc = "loop"
  /\ WaitSize <= MaxWait
  /\ Returned(k) /\ k <= size
  /\ LET i == slots[k] IN
       /\ child' = [child EXCEPT ![i] = "gone"]
       /\ Erase(k)
       /\ IF FirstFailure(i)
          THEN /\ exitCode' = code[i]
               /\ sendClose' = FALSE
               /\ SendCloseEvent("CLOSE", {slots'[j] : j \in 1..size'})
          ELSE UNCHANGED <<exitCode, sendClose, told>>
  /\ UNCHANGED <<code, event, waited, clock, console, pc>>

\* It returns the index of the event, which leaves wait_for.
RemoveEvent ==
  /\ pc = "loop"
  /\ size > 0 /\ WaitSize <= MaxWait
  /\ Returned(size + 1)
  /\ waited' = FALSE
  /\ UNCHANGED <<kids, told, list, event, clock, console, sendClose, exitCode, pc>>

\* Mutant: the event is relayed and waited for, but the timer is not started.
TimesUpUnarmed ==
  /\ pc = "loop"
  /\ size > 0 /\ WaitSize <= MaxWait
  /\ Signalled = {}
  /\ console # RunningTrue /\ sendClose
  /\ sendClose' = FALSE
  /\ SendCloseEvent(console, {slots[j] : j \in 1..size})
  /\ event' = "made" /\ waited' = TRUE
  /\ UNCHANGED <<kids, list, clock, console, exitCode, pc>>

\* It times out and a console event has come: the event is relayed, and createEvent.
TimesUp ==
  /\ pc = "loop"
  /\ size > 0 /\ WaitSize <= MaxWait
  /\ Signalled = {}
  /\ console # RunningTrue /\ sendClose
  /\ sendClose' = FALSE
  /\ SendCloseEvent(console, {slots[j] : j \in 1..size})
  /\ event' = "made" /\ waited' = TRUE
  /\ timer' = "armed"
  /\ UNCHANGED <<kids, list, at, end, console, exitCode, pc>>

\* It refuses more handles than it can wait for ...
WaitTooMany ==
  /\ pc = "loop"
  /\ size > 0 /\ WaitSize > MaxWait
  /\ pc' = "aborted"
  /\ UNCHANGED <<kids, told, list, event, waited, clock, console, sendClose, exitCode>>

\* ... or it fails: the exception leaves main().
WaitFails ==
  /\ pc = "loop"
  /\ size > 0 /\ WaitSize <= MaxWait
  /\ pc' = "aborted"
  /\ UNCHANGED <<kids, told, list, event, waited, clock, console, sendClose, exitCode>>

\* createEvent throws after the event was relayed.
CreateEventFails ==
  /\ pc = "loop"
  /\ size > 0 /\ WaitSize <= MaxWait
  /\ Signalled = {}
  /\ console # RunningTrue /\ sendClose
  /\ sendClose' = FALSE
  /\ SendCloseEvent(console, {slots[j] : j \in 1..size})
  /\ pc' = "aborted"
  /\ UNCHANGED <<kids, list, event, waited, clock, console, exitCode>>

\* No child is left: main() returns and Data is destroyed ...
Leave ==
  /\ pc = "loop"
  /\ size = 0
  /\ pc' = "leave"
  /\ UNCHANGED <<kids, told, list, event, waited, clock, console, sendClose, exitCode>>

\* ... and the process ends.
Exit ==
  /\ pc = "leave"
  /\ pc' = "done"
  /\ UNCHANGED <<kids, told, list, event, waited, clock, console, sendClose, exitCode>>
-----------------------------------------------------------------------------
(* TimerRoutine                                                            *)

TimerFires ==
  /\ timer = "armed" /\ pc = "loop"
  /\ timer' = "kill"
  /\ at' = 1 /\ end' = size
  /\ UNCHANGED <<kids, told, list, event, waited, console, sendClose, exitCode, pc>>

\* TerminateProcess of what the slot holds; a closed or cleared handle is refused.
TimerKill ==
  /\ timer = "kill" /\ pc = "loop"
  /\ at <= end
  /\ at' = at + 1
  /\ IF slots[at] # 0 /\ child[slots[at]] = "running"
     THEN ChildEnds(slots[at], exitCode)
     ELSE UNCHANGED kids
  /\ UNCHANGED <<told, list, event, waited, timer, end, console, sendClose, exitCode, pc>>

TimerSet ==
  /\ timer = "kill" /\ pc = "loop"
  /\ at > end
  /\ timer' = "done"
  /\ event' = "set"
  /\ UNCHANGED <<kids, told, list, waited, at, end, console, sendClose, exitCode, pc>>

\* CloseHandle does not stop the timer: the routine may use the destroyed Data.
TimerLate ==
  /\ timer \in {"armed", "kill"} /\ pc = "leave"
  /\ pc' = "aborted"
  /\ UNCHANGED <<kids, told, list, event, waited, clock, console, sendClose, exitCode>>
-----------------------------------------------------------------------------
Over == pc \in {"done", "aborted"}

Main ==
  \/ \E i \in 1..N : Create(i) \/ RemoveChild(i)
  \/ RemoveEvent \/ TimesUp \/ WaitTooMany \/ Leave \/ Exit

Timer == TimerFires \/ TimerKill \/ TimerSet

Next ==
  \/ Main \/ WaitFails \/ CreateEventFails \/ Timer \/ TimerLate
  \/ \E i \in 1..N : ~Over /\ ChildExit(i)
  \/ \E s \in Events : ~Over /\ ConsoleHandler(s)
  \/ Over /\ UNCHANGED vars

Spec ==
  /\ Init /\ [][Next]_vars
  /\ WF_vars(Main) /\ WF_vars(Timer)
  /\ \A i \in 1..N : WF_vars(~Over /\ i \in told /\ ChildExit(i))
-----------------------------------------------------------------------------
(* Properties.                                                             *)

(***************************************************************************)
(* README.md:98-100: "a received `CTRL_*` console event is relayed to the  *)
(* children as a console-control event, escalating to `TerminateProcess`   *)
(* after a 1s grace period".  Once the routine is done, no child runs.     *)
(***************************************************************************)
EscalationIsComplete == timer = "done" => \A i \in 1..N : child[i] # "running"

(***************************************************************************)
(* exit_code is set once, to the code of the first child removed from the  *)
(* list that failed, while no child has been told to end or terminated ... *)
(***************************************************************************)
FirstRemovedFailure ==
  exitCode' # exitCode =>
    /\ exitCode = 0 /\ told = {} /\ timer = "none"
    /\ \A i \in 1..N : child[i] = "gone" => code[i] = 0
    /\ \E i \in 1..N : child[i] = "ended" /\ child'[i] = "gone" /\ exitCode' = code[i]

\* ... and without a console event it stays 0 only if no child failed.
FailureIsReported ==
  pc = "done" /\ exitCode = 0 => console # RunningTrue \/ \A i \in 1..N : code[i] = 0

(***************************************************************************)
(* The runner ends after its children have.                                *)
(***************************************************************************)
RunnerEnds == []<>((pc = "loop" /\ \A i \in 1..N : child[i] # "running") => Over)

(***************************************************************************)
(* README.md:98-100 again: a console event ends in the escalation, after   *)
(* which main() waits for its children alone, unless the run is over       *)
(* before or a child has failed first: then the event is never looked at.  *)
(* The event for the timer must fit in what can be waited for.             *)
(***************************************************************************)
ConsoleEscalates ==
  []<>(pc = "loop" /\ console # RunningTrue /\ size < MaxWait =>
         exitCode # 0 \/ (timer = "done" /\ ~waited))

(***************************************************************************)
(* README.md:92-93: "if any exits non-zero, terminates the rest and        *)
(* propagates that exit code".                                             *)
(***************************************************************************)
FailureEndsRun == []<>((\E i \in 1..N : code[i] # 0) => Over)
-----------------------------------------------------------------------------
(* The inductive invariant behind FirstRemovedFailure, FailureIsReported.  *)

\* Every variable it is about stays in its range.
TypeOK ==
  /\ child \in [1..N -> {"none", "failed", "running", "ended", "gone"}]
  /\ code \in [1..N -> Codes \cup {0, Closed}]
  /\ slots \in Seq(0..N)
  /\ size \in 0..Len(slots)
  /\ timer \in {"none", "armed", "kill", "done"}
  /\ at \in Nat /\ end \in 0..Len(slots) /\ (timer = "kill" => at > 0)
  /\ exitCode \in Codes \cup {0}
  /\ pc \in {"start", "loop", "leave", "done", "aborted"}

\* pids holds each child that was started and not removed, once.
PidsAreLive ==
  /\ \A k \in 1..size : slots[k] \in 1..N /\ child[slots[k]] \in {"running", "ended"}
  /\ \A j, k \in 1..size : slots[j] = slots[k] => j = k
  /\ \A i \in 1..N : child[i] \in {"running", "ended"} => \E k \in 1..size : slots[k] = i
  /\ pc = "start" => size = Len(slots)

\* Only an ended child has an exit code; the loop runs with all children started, and
\* is left with none to wait for.
StartedAndEnded ==
  /\ \A i \in 1..N : child[i] \in {"none", "failed", "running"} => code[i] = 0
  /\ pc \in {"loop", "leave", "done"} => \A i \in 1..N : child[i] # "none"
  /\ pc \in {"leave", "done"} => size = 0

\* send_close_event is cleared before a child is told to end, by a console event or by
\* the failure in exit_code.
CloseHasCause ==
  /\ sendClose => told = {} /\ timer = "none" /\ exitCode = 0
  /\ \A i \in 1..N : sendClose => code[i] # Closed /\ (child[i] = "gone" => code[i] = 0)
  /\ ~sendClose => console # RunningTrue \/ exitCode # 0
  /\ exitCode # Closed

IInv == TypeOK /\ PidsAreLive /\ StartedAndEnded /\ CloseHasCause
=============================================================================
