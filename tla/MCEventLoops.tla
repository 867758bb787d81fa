---------------------------- MODULE MCEventLoops ----------------------------
(***************************************************************************)
(* What waits in an event loop of the operating system, for TLC: a         *)
(* file_trigger, with one thread besides the owner that may call stop(),   *)
(* or multi_runner with its children, each in its builds.  The initial     *)
(* state chooses which of them runs; the others do not move.               *)
(***************************************************************************)
EXTENDS FileTriggerOther, MultiRunner

CONSTANT t1             \* a thread that may call stop()

VARIABLE build          \* "linux" or "other" trigger, or "runner"

triggerVars == <<vars, otherVars>>
loopVars == <<triggerVars, allVars, build>>

\* What does not run has one initial state.
LoopInit ==
  /\ build \in {"linux", "other", "runner"}
  /\ Init /\ (build # "linux" => size = 0)
  /\ OtherInit /\ (build # "other" => platform = "win32" /\ oSize = 0)
  /\ AllInit /\ (build # "runner" => system = "linux")

Linux(Act) == build = "linux" /\ Act /\ UNCHANGED <<otherVars, allVars, build>>

Other(Act) == build = "other" /\ Act /\ UNCHANGED <<vars, allVars, build>>

Runner(Act) == build = "runner" /\ Act /\ UNCHANGED <<triggerVars, build>>

AppleTrigger(Act) == Other(OnApple(~A!Over /\ Act))

Win32Trigger(Act) == Other(OnWin32(~W!Over /\ Act))

LoopNext == Linux(Next) \/ Other(OtherNext) \/ Runner(AllNext)

\* A thread that can run is scheduled, the kernel posts its notes, a pending read
\* completes and the callback returns; no error has to happen.
TriggerFairness ==
  /\ WF_loopVars(Linux(~Over /\ WriterNotify))
  /\ WF_loopVars(Linux(~Over /\ CtorRun))
  /\ WF_loopVars(Linux(~Over /\ WorkerRun))
  /\ \A t \in Callers : WF_loopVars(Linux(~Over /\ StopRun(t)))
  /\ WF_loopVars(Linux(~Over /\ DestroyMembers))
  /\ WF_loopVars(AppleTrigger(A!AppleNotify))
  /\ WF_loopVars(AppleTrigger(A!AppleCtor \/ A!AppleCtorStart))
  /\ WF_loopVars(AppleTrigger(A!WorkerRegister \/ A!Kevent \/ A!AppleRead))
  /\ \A t \in Callers : WF_loopVars(AppleTrigger(A!AppleStop(t)))
  /\ WF_loopVars(Win32Trigger(W!WorkerRun))
  /\ \A t \in Callers : WF_loopVars(Win32Trigger(W!StopRun(t)))

\* The runner and its timer are scheduled; a child that heeds a signal ends; no child
\* has to end by itself.
RunnerFairness ==
  /\ WF_loopVars(Runner(On("linux", Main)))
  /\ WF_loopVars(Runner(On("macos", MacMain)))
  /\ WF_loopVars(Runner(Win32(Win!Main)))
  /\ WF_loopVars(Runner(Win32(Win!Timer)))
  /\ \A c \in Children :
       /\ WF_loopVars(Runner(On("linux", ~RunnerOver /\ ChildKilled(c))))
       /\ WF_loopVars(Runner(On("macos", ~RunnerOver /\ MacChild(c) /\ signals[c] # {})))

LoopSpec == LoopInit /\ [][LoopNext]_loopVars /\ TriggerFairness /\ RunnerFairness
-----------------------------------------------------------------------------
(* Properties.                                                             *)

\* The stop() that won the exchange returns, on every platform.
StopsReturn == StopReturns /\ OtherStopReturns
=============================================================================
