----------------------------- MODULE MultiRunner -----------------------------
(***************************************************************************)
(* The builds of multi_runner: the system is chosen once, in the initial   *)
(* state.  Linux and macOS have their variables in common; those of a      *)
(* build that is not running keep their initial values.                    *)
(***************************************************************************)
EXTENDS MultiRunnerMacOS

CONSTANTS
  Processes,          \* the number of processes to start on Windows
  Events,             \* the console events that may come in on Windows
  MaxWait             \* handles that can be waited for on Windows

VARIABLES
  system,
  winChild, winCode, winExitCode, winPc,
  told, slots, winSize, event, waited, timer, at, end, console, sendClose

Win == INSTANCE MultiRunnerWin32 WITH
       N <- Processes, Closed <- Killed,
       child <- winChild, code <- winCode, exitCode <- winExitCode, pc <- winPc,
       size <- winSize

ASSUME BuildsAssumption == Win!Win32Assumption

winVars == <<winChild, winCode, winExitCode, winPc, told, slots, winSize, event, waited,
             timer, at, end, console, sendClose>>
allVars == <<runnerVars, winVars, system>>

AllInit == RunnerInit /\ Win!Init /\ system \in {"linux", "macos", "win32"}

On(p, A) == system = p /\ A /\ UNCHANGED <<winVars, system>>

Win32(A) == system = "win32" /\ A /\ UNCHANGED <<runnerVars, system>>

AllNext == On("linux", LinuxNext) \/ On("macos", MacNext) \/ Win32(Win!Next)

AllSafe == AllInit /\ [][AllNext]_allVars

\* The same job on a Linux and on a Windows machine, side by side.
Side(A, others) == system = "both" /\ A /\ UNCHANGED <<others, system>>

BothSpec ==
  /\ RunnerInit /\ Win!Init /\ system = "both"
  /\ [][Side(LinuxNext, winVars) \/ Side(Win!Next, runnerVars)]_allVars
  /\ WF_allVars(Side(Main, winVars))
  /\ WF_allVars(Side(Win!Main, runnerVars)) /\ WF_allVars(Side(Win!Timer, runnerVars))
  /\ \A c \in Children : WF_allVars(Side(~RunnerOver /\ ChildKilled(c), winVars))
  /\ \A i \in 1..Processes :
       WF_allVars(Side(~Win!Over /\ i \in told /\ Win!ChildExit(i), runnerVars))
-----------------------------------------------------------------------------
(* Properties of more than one build.                                      *)

\* All builds: exit_code is set once, to the code of the first failing child that is
\* reaped, before the runner itself has ended any; it stays 0 only if none failed or the
\* runner was told to stop.
ExitCodesAreTheCause ==
  /\ [](FailureIsReported /\ Win!FailureIsReported)
  /\ [][FirstReapedFailure]_exitCode
  /\ [][Win!FirstRemovedFailure]_winExitCode

\* All builds: once no child runs any more, the loop of main() ends, however the
\* exits were reported.
RunnersEnd == RunnerEnds /\ Win!RunnerEnds

\* Windows: a console event, noticed by the wait that times out, ends in the escalation by
\* the timer routine (whether that reaches every child is EscalationIsComplete).
Win32ConsoleEscalates == Win!ConsoleEscalates

(***************************************************************************)
(* README.md:92-93: "if any exits non-zero, terminates the rest and        *)
(* propagates that exit code".  Of two runs of the same job, on Linux and  *)
(* on Windows, at least one keeps this: it ends after a failure.           *)
(***************************************************************************)
FailureEndsSomeRun == FailureEndsRun \/ Win!FailureEndsRun
=============================================================================
