-------------------------- MODULE FileTriggerOther --------------------------
(***************************************************************************)
(* The builds of file_trigger that are not Linux, beside the Linux one:    *)
(* the platform is chosen once, in the initial state, and the two share    *)
(* the variables that both sources have.                                   *)
(***************************************************************************)
EXTENDS FileTriggerLinux

VARIABLES
  platform,             \* "apple" or "win32"
  oSize, oOffset, oWorker, oRunning, oStop, oJoined, oObject, oBlame,
  oUnnotified, oReady, oFilled, oFrom, oDelivered, oCtor, oEvents, oDue, oBlind,
  boundary, start, given, exitEvent

A == INSTANCE FileTriggerApple WITH
  size <- oSize, offset <- oOffset, worker <- oWorker, running <- oRunning,
  stop <- oStop, joined <- oJoined, object <- oObject, blame <- oBlame,
  unnotified <- oUnnotified, ready <- oReady, filled <- oFilled, from <- oFrom,
  delivered <- oDelivered, ctor <- oCtor, events <- oEvents, due <- oDue, blind <- oBlind

W == INSTANCE FileTriggerWin32 WITH
  Faults <- Faults \ {"write"},
  size <- oSize, offset <- oOffset, worker <- oWorker, running <- oRunning,
  stop <- oStop, joined <- oJoined, object <- oObject, blame <- oBlame

shared == <<oSize, oOffset, oWorker, oRunning, oStop, oJoined, oObject, oBlame>>
appleOnly ==
  <<oUnnotified, oReady, oFilled, oFrom, oDelivered, oCtor, oEvents, oDue, oBlind>>
win32Only == <<boundary, start, given, exitEvent>>
otherVars == <<shared, appleOnly, win32Only, platform>>

OtherInit ==
  \/ /\ platform = "apple"
     /\ A!AppleInit
     /\ boundary = 0 /\ start = 0 /\ given = {} /\ exitEvent = FALSE
  \/ /\ platform = "win32"
     /\ W!Init
     /\ oUnnotified = 0 /\ oReady = {} /\ oFilled = 0 /\ oFrom = 0 /\ oDelivered = 0
     /\ oCtor = "done" /\ oEvents = {} /\ oDue = 0 /\ oBlind = 0

OnApple(Act) == platform = "apple" /\ Act /\ UNCHANGED <<win32Only, platform>>

OnWin32(Act) == platform = "win32" /\ Act /\ UNCHANGED <<appleOnly, platform>>

OtherNext == OnApple(A!AppleNext) \/ OnWin32(W!Next)

OtherSafe == OtherInit /\ [][OtherNext]_otherVars
-----------------------------------------------------------------------------
(* Properties.                                                             *)

\* On macOS a joined worker has delivered what was due, once the file was registered; on
\* Windows the callback gets the file from the sow boundary, cut exactly there.
OthersDeliver ==
  /\ platform = "apple" => A!StopDeliversOnceRegistered
  /\ platform = "win32" => W!DeliveredFromBoundary

\* On Windows every byte appended is delivered, although nothing announces it, unless the
\* trigger is stopped or fails.
Win32Delivers == \A n \in 1..MaxSize : []<>~(platform = "win32" /\ W!Undelivered(n))

\* The stop() that won the exchange returns, on either platform.
OtherStopReturns ==
  \A t \in Callers :
    /\ []<>~(platform = "apple" /\ A!InStop(t))
    /\ []<>~(platform = "win32" /\ W!InStop(t))

\* On either platform racing stop() calls join the worker once, and destroying the trigger
\* ends the program only after a misuse.
OthersStopSafely ==
  /\ platform = "apple" => A!SingleJoin /\ A!TerminatesOnlyOnMisuse
  /\ platform = "win32" => W!SingleJoin /\ W!TerminatesOnlyOnMisuse

\* The inductive invariant of the build that runs.
OtherInv ==
  /\ platform \in {"apple", "win32"}
  /\ platform = "apple" => A!AppleInv
  /\ platform = "win32" => W!IInv
=============================================================================
