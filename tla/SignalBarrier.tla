---------------------------- MODULE SignalBarrier ----------------------------
(***************************************************************************)
(* The builds of SignalBarrier: the platform is chosen once, in the        *)
(* initial state.  The two sources have only the threads in common.        *)
(***************************************************************************)
EXTENDS Integers, Sequences, FiniteSets

CONSTANTS
  Users,              \* the threads that use a SignalBarrier
  Order,              \* the signals in the order the polling constructor takes them
  Events,             \* the console events ConsoleHandler accepts
  None,               \* no signal, no event
  Main,               \* the thread that owns the global_init on Linux
  MaxHandlers,        \* bound: registrations of ConsoleHandler
  MaxRaised           \* bound: signals sent to the process

VARIABLES
  platform, inUse, handler, saved, consoles, received, appRunning, barrier, step, result,
  init, sfdGlobal, sfdOpen, mask, process, pending, timed, expired, batch,
  accepted, taken, raised

P == INSTANCE SignalBarrierPolling

L == INSTANCE SignalBarrierLinux WITH Workers <- Users \ {Main}, Signals <- P!Signals

\* Each signal is listed once, and the values that stand for no signal are none.
ASSUME BarrierAssumption ==
  /\ IsFiniteSet(Users) /\ Main \in Users
  /\ Order \in Seq(P!Signals)
  /\ \A i, j \in 1..Len(Order) : Order[i] = Order[j] => i = j
  /\ None \notin P!Signals \cup Events
  /\ P!Signals \cap {"nothing", "timeout", "error"} = {}
  /\ MaxHandlers \in Nat /\ MaxRaised \in Nat

pollingOnly == <<inUse, handler, saved, consoles, received, appRunning, step>>
linuxOnly == <<init, sfdGlobal, sfdOpen, mask, process, pending, timed, expired, batch,
               accepted, taken, raised>>
barrierVars == <<pollingOnly, linuxOnly, platform, barrier, result>>

BarrierInit ==
  \/ /\ P!Init
     /\ init = "none" /\ sfdGlobal = FALSE /\ sfdOpen = FALSE /\ mask = <<>>
     /\ process = "alive" /\ pending = {} /\ timed = {} /\ expired = {} /\ batch = <<>>
     /\ accepted = <<>> /\ taken = <<>> /\ raised = 0
  \/ /\ platform = "linux"
     /\ L!Init
     /\ inUse = FALSE /\ handler = <<>> /\ saved = <<>> /\ consoles = 0
     /\ received = None /\ appRunning = None /\ step = <<>>

Linux(A) == platform = "linux" /\ A /\ UNCHANGED <<pollingOnly, platform>>

Polling(A) == platform # "linux" /\ A /\ UNCHANGED linuxOnly

BarrierNext == Polling(P!Next) \/ Linux(L!Next)

BarrierSafe == BarrierInit /\ [][BarrierNext]_barrierVars

\* A thread inside wait() is scheduled, and the timers run.
BarrierSpec ==
  /\ BarrierSafe
  /\ \A t \in Users : /\ WF_barrierVars(Polling(P!WaitStep(t)))
                      /\ WF_barrierVars(Linux(L!Alive /\ L!WaitStep(t)))
                      /\ WF_barrierVars(Linux(L!Alive /\ L!Expire(t)))
-----------------------------------------------------------------------------
(* Properties, each for the builds it is about.                            *)

\* Linux: each signal the process accepts is returned by exactly one wait.
LinuxNoSignalLost == platform = "linux" => L!NoSignalLost

\* Linux: once no running thread has the signals unblocked this stays so, and none
\* kills the process any more: global_init keeps the mask, and threads inherit it.  Nor
\* does a wait end the process, unless ~global_init has closed the descriptor under it.
LinuxShielded ==
  [][platform = "linux" =>
       /\ L!AllBlocked => process' # "killed" /\ \A t \in Users : mask'[t] # "clear"
       /\ process' = "terminated" => init = "destroyed"]_barrierVars

\* Linux: a pending signal ends a wait(), unless other barriers take all there is.
LinuxSignalEndsWait == \A t \in Users : []<>~(platform = "linux" /\ L!Unanswered(t))

\* Elsewhere: one barrier at a time, and the handlers std::signal replaced come back.
PollingHandlersRestored == platform # "linux" => P!HandlersRestored

\* What is cleared from an atomic is what some wait returns then, and a wait returns only
\* what it clears.
Takes ==
  /\ received # None /\ received' = None => \E t \in Users : result'[t] = received
  /\ appRunning # None /\ appRunning' = None => \E t \in Users : result'[t] = appRunning
  /\ \A t \in Users :
       result'[t] # result[t] /\ result'[t] # None =>
         \/ result'[t] = received /\ received' = None
         \/ result'[t] = appRunning /\ appRunning' = None

\* Elsewhere: a signal or a console event is taken from its atomic only by the wait that
\* returns it, and a wait returns only what it took.
PollingTakenIsReturned == [][platform # "linux" => Takes]_barrierVars

=============================================================================
