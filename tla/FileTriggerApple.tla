-------------------------- MODULE FileTriggerApple --------------------------
(***************************************************************************)
(* file_trigger on macOS (nstl/nstl/file_trigger_apple.cpp).  Reading, the *)
(* callback, stop() and the destructor are line for line those of Linux,   *)
(* so their actions are the ones of FileTriggerLinux.  Different are the   *)
(* constructor, which only makes the kqueue, and the worker, which         *)
(* registers the file with it and for which kevent() clears the event it   *)
(* reports (EV_CLEAR).  In ready, "inotify" stands for the vnode event.    *)
(***************************************************************************)
EXTENDS FileTriggerLinux

VARIABLE blind        \* history: bytes written when the worker registered the file

appleVars == <<vars, blind>>

\* The constructor goes straight to the initial read.
AppleInit ==
  /\ size \in 0..MaxSize
  /\ offset \in 0..size
  /\ from = offset
  /\ delivered = offset
  /\ unnotified = 0
  /\ filled = 0
  /\ ready = {}
  /\ ctor = "read"
  /\ worker = "none"
  /\ events = {}
  /\ running = TRUE
  /\ stop = [t \in Callers |-> "idle"]
  /\ joined = FALSE
  /\ due = 0
  /\ object = "alive"
  /\ blame = {}
  /\ blind = 0

\* kevent() has added EVFILT_VNODE for the file.
Registered == worker \notin {"none", "register"} /\ object # "destroyed"

\* The end of a write() (external): the kernel posts NOTE_WRITE to the kqueue.
AppleNotify ==
  /\ unnotified > 0
  /\ unnotified' = 0
  /\ ready' = IF Registered THEN ready \cup {"inotify"} ELSE ready
  /\ UNCHANGED <<size, reading, ctor, thread, stopping, object, blame, blind>>

AppleCtorStart ==
  /\ ctor = "start"
  /\ ctor' = "done"
  /\ worker' = "register"
  /\ UNCHANGED <<file, ready, reading, events, stopping, object, blame, blind>>

\* The constructor's other steps, with the exit pipe and the descriptor flags.
AppleCtor == (CtorRead \/ CtorEnd) /\ UNCHANGED blind

AppleCtorThrow == CtorThrow /\ UNCHANGED blind

WorkerRegister ==
  /\ worker = "register"
  /\ worker' = "wait"
  /\ blind' = Completed
  /\ UNCHANGED <<file, ready, reading, ctor, events, stopping, object, blame>>

\* Mutant: a batch that holds the exit pipe is not read any more.
KeventExitFirst ==
  /\ worker = "wait"
  /\ ready # {}
  /\ events' = ready
  /\ ready' = ready \ {"inotify"}
  /\ worker' = IF "exit" \in ready THEN "done" ELSE "read"
  /\ UNCHANGED <<file, reading, ctor, stopping, object, blame, blind>>

\* kevent() returns what is pending and clears the vnode event.
Kevent ==
  /\ worker = "wait"
  /\ ready # {}
  /\ events' = ready
  /\ ready' = ready \ {"inotify"}
  /\ worker' = IF "inotify" \in ready THEN "read" ELSE "done"
  /\ UNCHANGED <<file, reading, ctor, stopping, object, blame, blind>>

\* _read_data and the end of the batch.
AppleRead == (WorkerRead \/ WorkerEnd \/ WorkerCallback) /\ UNCHANGED blind

\* Errors in _worker_impl and what _worker() makes of them.
AppleFail ==
  \/ /\ WorkerCallbackThrow \/ WorkerCallbackStop \/ WorkerFail
     /\ UNCHANGED blind
  \/ /\ worker = "register"
     /\ Blame("io")
     /\ worker' = "done"
     /\ UNCHANGED <<file, ready, reading, ctor, events, stopping, object, blind>>

AppleStop(t) == (StopWrite(t) \/ StopJoin(t)) /\ UNCHANGED blind

AppleStopFail(t) == StopWriteFail(t) /\ UNCHANGED blind

AppleDestroy == (Destroy \/ DestroyMembers) /\ UNCHANGED blind

AppleNext ==
  \/ /\ ~Over
     /\ \/ WriterAppend /\ UNCHANGED blind
        \/ AppleNotify
        \/ AppleCtor \/ AppleCtorThrow
        \/ AppleCtorStart
        \/ WorkerRegister
        \/ Kevent
        \/ AppleRead
        \/ AppleFail
        \/ \E t \in Threads : CallStop(t) /\ UNCHANGED blind
        \/ \E t \in Callers : AppleStop(t) \/ AppleStopFail(t)
        \/ AppleDestroy
  \/ Over /\ UNCHANGED appleVars

AppleSafe == AppleInit /\ [][AppleNext]_appleVars

AppleSpec ==
  /\ AppleSafe
  /\ WF_appleVars(~Over /\ AppleNotify)
  /\ WF_appleVars(~Over /\ (AppleCtor \/ AppleCtorStart))
  /\ WF_appleVars(~Over /\ (WorkerRegister \/ Kevent \/ AppleRead))
  /\ \A t \in Callers : WF_appleVars(~Over /\ AppleStop(t))
-----------------------------------------------------------------------------
(* Properties.                                                             *)

\* Every variable stays in its range.
AppleTypeOK ==
  /\ running \in BOOLEAN
  /\ joined \in BOOLEAN
  /\ size \in 0..MaxSize
  /\ unnotified \in 0..size
  /\ ready \subseteq {"inotify", "exit"}
  /\ events \subseteq {"inotify", "exit"}
  /\ offset \in 0..size
  /\ filled \in 0..BufferSize
  /\ from \in Nat
  /\ delivered \in Nat
  /\ due \in Nat
  /\ ctor \in {"read", "start", "done", "failed"}
  /\ worker \in {"none", "register", "wait", "read", "callback", "done"}
  /\ stop \in [Callers -> {"idle", "write", "join", "returned"}]
  /\ object \in {"alive", "dying", "destroyed", "terminated"}
  /\ blame \subseteq Faults
  /\ blind \in 0..MaxSize

(***************************************************************************)
(* A joined worker has delivered all that was written before stop() began, *)
(* unless an error happened or nothing was written after the registration. *)
(***************************************************************************)
StopDeliversOnceRegistered ==
  joined /\ blame = {} /\ due > blind => delivered >= due

(***************************************************************************)
(* file_trigger_tests.cpp:101-102 appends right after factory() and        *)
(* asserts that the bytes arrive.  Every byte that was not in the file     *)
(* when factory() had returned is delivered once its write() returns,      *)
(* unless the trigger is stopped or fails.                                 *)
(***************************************************************************)
AppendedIsDelivered ==
  \A n \in 1..MaxSize :
    [](ctor = "done" /\ size < n =>
        ((n <= Completed) ~> (n <= delivered \/ ~running \/ blame # {} \/ Over)))
-----------------------------------------------------------------------------
(***************************************************************************)
(* The inductive invariant: that of Linux, except that a wake-up is owed   *)
(* only for what was written after the worker registered the file.         *)
(***************************************************************************)
WakeupOnceRegistered ==
  worker = "wait" /\ offset < Completed /\ blind < Completed => "inotify" \in ready

BlindIsCompleted == blind <= Completed

DoneDeliversOnceRegistered ==
  worker = "done" /\ blame = {} => ~running /\ (due > blind => delivered >= due)

AppleInv ==
  /\ AppleTypeOK
  /\ HandedOverInOrder
  /\ WakeupOnceRegistered
  /\ BlindIsCompleted
  /\ DoneDeliversOnceRegistered
  /\ SingleJoin
  /\ TerminatesOnlyOnMisuse
  /\ CtorFirst
  /\ BufferOnlyInCallback
  /\ ExitAfterExchange
  /\ DueIsCompleted
  /\ JoinedIsDone
  /\ SomeoneJoins
  /\ NoStopWhileDying
=============================================================================
