------------------------------ MODULE MCThreads ------------------------------
(***************************************************************************)
(* The classes threads wait with, for TLC: a DeadLockChecker with the      *)
(* threads it watches, or the SignalBarriers of a process.  The initial    *)
(* state chooses which of the two runs; the other does not move.           *)
(***************************************************************************)
EXTENDS DeadLockChecker, SignalBarrier

CONSTANTS
  main, w                       \* threads with a SignalBarrier

VARIABLE part

\* Two of the three signals and two of the console events: the code treats them alike.
TwoSignals == <<"INT", "TERM">>

allVars == <<vars, barrierVars, part>>

\* A part that does not run has a single initial state.
AllInit ==
  /\ Init
  /\ BarrierInit
  /\ part \in {"checker", "barriers"}
  /\ part = "checker" => platform = "linux"

OfChecker(A) == part = "checker" /\ A /\ UNCHANGED <<barrierVars, part>>

OfBarriers(A) == part = "barriers" /\ A /\ UNCHANGED <<vars, part>>

\* A process may end, or its threads stop using barriers.
Stopped == part = "barriers" /\ UNCHANGED allVars

AllNext == OfChecker(Next) \/ OfBarriers(BarrierNext) \/ Stopped

\* A thread inside wait(), check() or runner() is scheduled and gets the lock of the
\* checker, and the timers run.
AllSpec ==
  /\ AllInit /\ [][AllNext]_allVars
  /\ \A t \in Checkers : SF_allVars(OfChecker(CheckStep(t)))
  /\ \A r \in Runners : SF_allVars(OfChecker(RunnerStep(r)))
  /\ \A t \in Users : /\ WF_allVars(OfBarriers(Polling(P!WaitStep(t))))
                      /\ WF_allVars(OfBarriers(Linux(L!Alive /\ L!WaitStep(t))))
                      /\ WF_allVars(OfBarriers(Linux(L!Alive /\ L!Expire(t))))
=============================================================================
