------------------------ MODULE SignalBarrierPolling ------------------------
(***************************************************************************)
(* SignalBarrier where there is no signalfd (nstl/nstl/signal_barrier.cpp, *)
(* macOS and Windows): the constructor replaces the signal handlers one    *)
(* after the other, the handler leaves the signal in an atomic, wait()     *)
(* polls it, and the destructor puts the previous handlers back.           *)
(*                                                                         *)
(* handler[s] is "orig" or "receiver"; a signal that meets the previous    *)
(* handler is not this code's.  On Windows console events come in beside   *)
(* the signals, through an atomic of their own.                            *)
(***************************************************************************)
EXTENDS Integers, Sequences

CONSTANTS
  Users,              \* the threads that use a SignalBarrier
  Order,              \* the signals in the order the constructor takes them
  Events,             \* the console events ConsoleHandler accepts
  None,               \* no signal, no event
  MaxHandlers         \* bound: registrations of ConsoleHandler

Signals == {Order[i] : i \in DOMAIN Order}

VARIABLES
  platform,           \* the build: "macos" or "win32"
  inUse,              \* in_use
  handler,            \* what std::signal has installed, per signal
  saved,              \* int_hndlr, int_term and int_quit
  consoles,           \* times ConsoleHandler is registered
  received,           \* signal_received
  appRunning,         \* app_running
  barrier,            \* where each thread is with its barrier
  step,               \* how many handlers its constructor or destructor has replaced
  result              \* what its wait() returns

handlers == <<handler, saved, consoles>>
vars == <<platform, inUse, handlers, received, appRunning, barrier, step, result>>

Init ==
  /\ platform \in {"macos", "win32"}
  /\ inUse = FALSE
  /\ handler = [s \in Signals |-> "orig"]
  /\ saved = handler
  /\ consoles = 0
  /\ received = None
  /\ appRunning = None
  /\ barrier = [t \in Users |-> "none"]
  /\ step = [t \in Users |-> 0]
  /\ result = [t \in Users |-> None]

Goto(t, b) == barrier' = [barrier EXCEPT ![t] = b]
-----------------------------------------------------------------------------
(* The constructor and the destructor.                                     *)

\* in_use.exchange(true); with in_use set the constructor throws and changes nothing.
Enter(t) ==
  /\ barrier[t] = "none"
  /\ ~inUse
  /\ inUse' = TRUE
  /\ Goto(t, "install")
  /\ step' = [step EXCEPT ![t] = 0]
  /\ UNCHANGED <<platform, handlers, received, appRunning, result>>

\* The next std::signal call of t
Swap(t, new) ==
  LET s == Order[step[t] + 1] IN
  /\ step[t] < Len(Order)
  /\ saved' = [saved EXCEPT ![s] = handler[s]]
  /\ handler' = [handler EXCEPT ![s] = new[s]]
  /\ step' = [step EXCEPT ![t] = @ + 1]

Install(t) ==
  /\ barrier[t] = "install"
  /\ Swap(t, [s \in Signals |-> "receiver"])
  /\ UNCHANGED <<platform, inUse, consoles, received, appRunning, barrier, result>>

Installed(t) ==
  /\ barrier[t] = "install"
  /\ step[t] = Len(Order)
  /\ consoles' = IF platform = "win32" THEN consoles + 1 ELSE consoles
  /\ consoles' <= MaxHandlers
  /\ Goto(t, "made")
  /\ UNCHANGED <<platform, inUse, handler, saved, received, appRunning, step, result>>

\* SetConsoleCtrlHandler fails: the constructor throws, and handlers and in_use stay.
InstallThrows(t) ==
  /\ barrier[t] = "install"
  /\ step[t] = Len(Order)
  /\ platform = "win32"
  /\ Goto(t, "failed")
  /\ UNCHANGED <<platform, inUse, handlers, received, appRunning, step, result>>

Destroy(t) ==
  /\ barrier[t] = "made"
  /\ Goto(t, "restore")
  /\ step' = [step EXCEPT ![t] = 0]
  /\ UNCHANGED <<platform, inUse, handlers, received, appRunning, result>>

Restore(t) ==
  /\ barrier[t] = "restore"
  /\ Swap(t, saved)
  /\ UNCHANGED <<platform, inUse, consoles, received, appRunning, barrier, result>>

\* Mutant: the handler of the last signal is not put back.
ReleaseEarly(t) ==
  /\ barrier[t] = "restore"
  /\ step[t] = Len(Order) - 1
  /\ inUse' = FALSE
  /\ Goto(t, "none")
  /\ UNCHANGED <<platform, handlers, received, appRunning, step, result>>

Release(t) ==
  /\ barrier[t] = "restore"
  /\ step[t] = Len(Order)
  /\ inUse' = FALSE
  /\ Goto(t, "none")
  /\ UNCHANGED <<platform, handlers, received, appRunning, step, result>>
-----------------------------------------------------------------------------
(* Signals and console events come in (external), on any thread.           *)

\* signal_receiver
Raise(s) ==
  /\ handler[s] = "receiver"
  /\ received' = s
  /\ UNCHANGED <<platform, inUse, handlers, appRunning, barrier, step, result>>

\* ConsoleHandler
Console(e) ==
  /\ consoles > 0
  /\ appRunning' = e
  /\ UNCHANGED <<platform, inUse, handlers, received, barrier, step, result>>
-----------------------------------------------------------------------------
(* wait() and wait_for()                                                   *)

WaitEnter(t) ==
  /\ barrier[t] = "made"
  /\ Goto(t, "load")
  /\ result' = [result EXCEPT ![t] = None]
  /\ UNCHANGED <<platform, inUse, handlers, received, appRunning, step>>

Return(t, v) == Goto(t, "made") /\ result' = [result EXCEPT ![t] = v]

\* Mutant: the atomic is loaded, and cleared in a step of its own.
LoadSignalTwice(t) ==
  /\ \/ /\ barrier[t] = "load" /\ received # None
        /\ Goto(t, "clear") /\ result' = [result EXCEPT ![t] = received]
        /\ UNCHANGED received
     \/ /\ barrier[t] = "clear"
        /\ Goto(t, "made") /\ received' = None
        /\ UNCHANGED result
  /\ UNCHANGED <<platform, inUse, handlers, appRunning, step>>

\* load_value: signal_received.exchange(0)
LoadSignal(t) ==
  /\ barrier[t] = "load"
  /\ received # None
  /\ Return(t, received)
  /\ received' = None
  /\ UNCHANGED <<platform, inUse, handlers, appRunning, step>>

\* load_value goes on: app_running.exchange(running_true)
LoadConsole(t) ==
  /\ barrier[t] = "load"
  /\ received = None
  /\ IF platform = "win32" THEN Goto(t, "console") ELSE Goto(t, "sleep")
  /\ UNCHANGED <<platform, inUse, handlers, received, appRunning, step, result>>

LoadEvent(t) ==
  /\ barrier[t] = "console"
  /\ IF appRunning # None THEN Return(t, appRunning) ELSE Goto(t, "sleep") /\ UNCHANGED result
  /\ appRunning' = None
  /\ UNCHANGED <<platform, inUse, handlers, received, step>>

Sleep(t) ==
  /\ barrier[t] = "sleep"
  /\ Goto(t, "load")
  /\ UNCHANGED <<platform, inUse, handlers, received, appRunning, step, result>>

\* wait_for: the time is up, before the next sleep
TimesUp(t) ==
  /\ barrier[t] = "sleep"
  /\ Goto(t, "made")
  /\ UNCHANGED <<platform, inUse, handlers, received, appRunning, step, result>>
-----------------------------------------------------------------------------
WaitStep(t) == LoadSignal(t) \/ LoadConsole(t) \/ LoadEvent(t) \/ Sleep(t)

Next ==
  \/ \E t \in Users :
       \/ Enter(t) \/ Install(t) \/ Installed(t) \/ InstallThrows(t)
       \/ Destroy(t) \/ Restore(t) \/ Release(t)
       \/ WaitEnter(t) \/ WaitStep(t) \/ TimesUp(t)
  \/ \E s \in Signals : Raise(s)
  \/ \E e \in Events : Console(e)
-----------------------------------------------------------------------------
(* Properties.                                                             *)

\* Every variable stays in its range.
TypeOK ==
  /\ inUse \in BOOLEAN
  /\ handler \in [Signals -> {"orig", "receiver"}]
  /\ saved \in [Signals -> {"orig", "receiver"}]
  /\ consoles \in 0..MaxHandlers
  /\ received \in Signals \cup {None}
  /\ appRunning \in Events \cup {None}
  /\ barrier \in [Users -> {"none", "install", "made", "failed", "restore",
                              "load", "console", "sleep"}]
  /\ step \in [Users -> 0..Len(Order)]
  /\ result \in [Users -> Signals \cup Events \cup {None}]

\* t has a barrier, from in_use.exchange(true) to in_use.store(false).
Owns(t) == barrier[t] # "none"

(***************************************************************************)
(* Only one barrier is active (README.md:63), and whenever none is, every  *)
(* signal has the handler it had before the first one: no constructor      *)
(* takes signal_receiver for the previous handler.  This is about the      *)
(* handlers of std::signal: the destructor does not unregister             *)
(* ConsoleHandler, so on Windows consoles only grows.                      *)
(***************************************************************************)
HandlersRestored ==
  /\ \A t, u \in Users : Owns(t) /\ Owns(u) => t = u
  /\ ~inUse => \A s \in Signals : handler[s] = "orig"
  /\ \A t \in Users : barrier[t] = "made" => \A s \in Signals : saved[s] = "orig"

\* in_use is set while a thread, and one only, has a barrier.
OneOwner ==
  /\ \A t, u \in Users : Owns(t) /\ Owns(u) => t = u
  /\ inUse <=> \E t \in Users : Owns(t)

FreeIsOrig == ~inUse => \A s \in Signals : handler[s] = "orig"

\* What t's constructor has replaced is saved, and what its destructor has put back is
\* the handler from before; the rest of Order is still to come.
SavedIsOrig(t) ==
  /\ barrier[t] = "install" =>
       \A i \in 1..Len(Order) : IF i <= step[t] THEN saved[Order[i]] = "orig"
                                ELSE handler[Order[i]] = "orig"
  /\ barrier[t] \in {"made", "load", "console", "sleep"} =>
       \A s \in Signals : saved[s] = "orig"
  /\ barrier[t] = "restore" =>
       \A i \in 1..Len(Order) : IF i <= step[t] THEN handler[Order[i]] = "orig"
                                ELSE saved[Order[i]] = "orig"

\* The inductive invariant behind HandlersRestored.
IInv == TypeOK /\ OneOwner /\ FreeIsOrig /\ \A t \in Users : SavedIsOrig(t)

=============================================================================
