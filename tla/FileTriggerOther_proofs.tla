----------------------- MODULE FileTriggerOther_proofs -----------------------
(***************************************************************************)
(* Proofs about file_trigger on macOS and on Windows, for every set of     *)
(* stopping threads, buffer size, file size and set of faults.             *)
(***************************************************************************)
EXTENDS FileTriggerOther, TLAPS

USE ParametersAssumption DEF AllFaults, A!AllFaults, A!Callers, W!Callers

-----------------------------------------------------------------------------
(* macOS.                                                                  *)

\* The factory's first state satisfies the inductive invariant.
LEMMA AppleInitInv == A!AppleInit => A!AppleInv
<1> SUFFICES ASSUME A!AppleInit PROVE A!AppleInv
  OBVIOUS
<1> USE DEF A!AppleInit, A!Completed
<1>1. oRunning \in BOOLEAN /\ oJoined \in BOOLEAN
  BY Zenon
<1>2. A!AppleTypeOK
  BY <1>1 DEF A!AppleTypeOK
<1>3. A!HandedOverInOrder /\ A!WakeupOnceRegistered /\ A!BlindIsCompleted /\ A!DueIsCompleted
  BY DEF A!HandedOverInOrder, A!WakeupOnceRegistered, A!BlindIsCompleted, A!DueIsCompleted
<1>4. A!DoneDeliversOnceRegistered /\ A!BufferOnlyInCallback /\ A!CtorFirst /\ A!ExitAfterExchange
  BY DEF A!DoneDeliversOnceRegistered, A!BufferOnlyInCallback, A!CtorFirst, A!ExitAfterExchange
<1>5. A!SingleJoin /\ A!TerminatesOnlyOnMisuse /\ A!JoinedIsDone /\ A!SomeoneJoins /\ A!NoStopWhileDying
  BY DEF A!SingleJoin, A!TerminatesOnlyOnMisuse, A!JoinedIsDone, A!SomeoneJoins, A!NoStopWhileDying
<1>6. QED
  BY <1>2, <1>3, <1>4, <1>5 DEF A!AppleInv

(***************************************************************************)
(* A step of the writer, the constructor or the worker that meets no error *)
(* leaves alone what stop() and the destructor rely on.                    *)
(***************************************************************************)
LEMMA StopFrame ==
  ASSUME A!AppleInv,
         UNCHANGED <<oRunning, oStop, oJoined, oObject, oBlame>>,
         "exit" \in oReady' \cup oEvents' => "exit" \in oReady \cup oEvents,
         oCtor' # "done" => oCtor # "done" /\ oWorker' = oWorker,
         oWorker = "done" => oWorker' = "done"
  PROVE  /\ (A!SingleJoin /\ A!TerminatesOnlyOnMisuse /\ A!CtorFirst /\ A!ExitAfterExchange)'
         /\ (A!JoinedIsDone /\ A!SomeoneJoins /\ A!NoStopWhileDying)'
<1> USE DEF A!AppleInv
<1>1. (A!SingleJoin /\ A!TerminatesOnlyOnMisuse)'
  BY DEF A!SingleJoin, A!TerminatesOnlyOnMisuse
<1>2. A!CtorFirst'
  <2> SUFFICES ASSUME oCtor' # "done"
               PROVE  /\ oWorker' = "none" /\ oRunning' /\ "exit" \notin oReady' /\ ~oJoined'
                      /\ oObject' = "alive"
                      /\ \A t \in A!Callers : oStop'[t] = "idle"
    BY DEF A!CtorFirst
  <2>1. oRunning
    BY DEF A!CtorFirst
  <2>2. "exit" \notin oReady \cup oEvents
    BY <2>1 DEF A!ExitAfterExchange
  <2>3. QED
    BY <2>2 DEF A!CtorFirst
<1>3. A!ExitAfterExchange'
  BY DEF A!ExitAfterExchange
<1>4. (A!JoinedIsDone /\ A!SomeoneJoins /\ A!NoStopWhileDying)'
  BY DEF A!JoinedIsDone, A!SomeoneJoins, A!NoStopWhileDying
<1>5. QED
  BY <1>1, <1>2, <1>3, <1>4

\* Another process appends, or its write() returns and the kernel posts the note.
LEMMA AppleWriterInv ==
  A!AppleInv /\ ~A!Over /\ ((A!WriterAppend /\ UNCHANGED oBlind) \/ A!AppleNotify) => A!AppleInv'
<1> SUFFICES ASSUME A!AppleInv, ~A!Over, (A!WriterAppend /\ UNCHANGED oBlind) \/ A!AppleNotify
             PROVE  A!AppleInv'
  OBVIOUS
<1> USE DEF A!AppleInv, A!Over, A!file, A!reading, A!thread, A!stopping, A!Completed, A!Registered
<1>1. CASE A!WriterAppend /\ UNCHANGED oBlind
  <2> USE <1>1 DEF A!WriterAppend
  <2>1. A!AppleTypeOK'
    BY DEF A!AppleTypeOK
  <2>2. (A!HandedOverInOrder /\ A!WakeupOnceRegistered /\ A!BlindIsCompleted /\ A!DueIsCompleted)'
    BY DEF A!AppleTypeOK, A!HandedOverInOrder, A!WakeupOnceRegistered, A!BlindIsCompleted,
           A!DueIsCompleted
  <2>3. (A!DoneDeliversOnceRegistered /\ A!BufferOnlyInCallback)'
    BY DEF A!DoneDeliversOnceRegistered, A!BufferOnlyInCallback
  <2>4. QED
    BY <2>1, <2>2, <2>3, StopFrame
<1>2. CASE A!AppleNotify
  <2> USE <1>2 DEF A!AppleNotify
  <2>1. A!AppleTypeOK'
    BY DEF A!AppleTypeOK
  <2>2. (A!HandedOverInOrder /\ A!BlindIsCompleted /\ A!DueIsCompleted)'
    BY DEF A!AppleTypeOK, A!HandedOverInOrder, A!BlindIsCompleted, A!DueIsCompleted
  <2>3. A!WakeupOnceRegistered'
    BY DEF A!AppleTypeOK, A!WakeupOnceRegistered
  <2>4. (A!DoneDeliversOnceRegistered /\ A!BufferOnlyInCallback)'
    BY DEF A!DoneDeliversOnceRegistered, A!BufferOnlyInCallback
  <2>5. QED
    BY <2>1, <2>2, <2>3, <2>4, StopFrame
<1>3. QED
  BY <1>1, <1>2

\* The constructor reads the file to its end and starts the worker.
LEMMA AppleCtorInv ==
  A!AppleInv /\ ~A!Over /\ (A!AppleCtor \/ A!AppleCtorStart) => A!AppleInv'
<1> SUFFICES ASSUME A!AppleInv, ~A!Over, A!AppleCtor \/ A!AppleCtorStart PROVE A!AppleInv'
  OBVIOUS
<1> USE DEF A!AppleInv, A!Over, A!file, A!reading, A!thread, A!stopping, A!Completed
<1>1. CASE A!CtorRead /\ UNCHANGED oBlind
  <2> USE <1>1 DEF A!CtorRead, A!Chunk
  <2>1. oWorker = "none" /\ oFilled = 0
    BY DEF A!AppleTypeOK, A!CtorFirst, A!BufferOnlyInCallback
  <2>2. A!AppleTypeOK'
    BY DEF A!AppleTypeOK
  <2>3. (A!HandedOverInOrder /\ A!WakeupOnceRegistered /\ A!BlindIsCompleted /\ A!DueIsCompleted)'
    BY <2>1 DEF A!AppleTypeOK, A!HandedOverInOrder, A!WakeupOnceRegistered, A!BlindIsCompleted,
           A!DueIsCompleted
  <2>4. (A!DoneDeliversOnceRegistered /\ A!BufferOnlyInCallback)'
    BY <2>1 DEF A!DoneDeliversOnceRegistered, A!BufferOnlyInCallback
  <2>5. QED
    BY <2>2, <2>3, <2>4, StopFrame
<1>2. CASE (A!CtorEnd /\ UNCHANGED oBlind) \/ A!AppleCtorStart
  <2> USE <1>2 DEF A!CtorEnd, A!AppleCtorStart
  <2>1. oWorker = "none" /\ oFilled = 0
    BY DEF A!AppleTypeOK, A!CtorFirst, A!BufferOnlyInCallback
  <2>2. A!AppleTypeOK'
    BY DEF A!AppleTypeOK
  <2>3. (A!HandedOverInOrder /\ A!WakeupOnceRegistered /\ A!BlindIsCompleted /\ A!DueIsCompleted)'
    BY <2>1 DEF A!AppleTypeOK, A!HandedOverInOrder, A!WakeupOnceRegistered, A!BlindIsCompleted,
           A!DueIsCompleted
  <2>4. (A!DoneDeliversOnceRegistered /\ A!BufferOnlyInCallback)'
    BY <2>1 DEF A!DoneDeliversOnceRegistered, A!BufferOnlyInCallback
  <2>5. QED
    BY <2>1, <2>2, <2>3, <2>4, StopFrame
<1>3. QED
  BY <1>1, <1>2 DEF A!AppleCtor

\* A constructor that throws leaves nothing running.
LEMMA AppleCtorThrowInv == A!AppleInv /\ ~A!Over /\ A!AppleCtorThrow => A!AppleInv'
<1> SUFFICES ASSUME A!AppleInv, ~A!Over, A!AppleCtorThrow PROVE A!AppleInv'
  OBVIOUS
<1> USE DEF A!AppleInv, A!Over, A!AppleCtorThrow, A!CtorThrow, A!Chunk, A!Blame, A!file, A!reading,
            A!thread, A!stopping, A!Completed
<1> oBlame' \subseteq Faults
  BY Zenon DEF A!AppleTypeOK
<1>1. oWorker = "none" /\ oFilled = 0 /\ oCtor # "done" /\ oCtor' = "failed"
  BY DEF A!AppleTypeOK, A!CtorFirst, A!BufferOnlyInCallback
<1>2. A!AppleTypeOK'
  BY DEF A!AppleTypeOK
<1>3. (A!HandedOverInOrder /\ A!WakeupOnceRegistered /\ A!BlindIsCompleted /\ A!DueIsCompleted)'
  BY <1>1 DEF A!AppleTypeOK, A!HandedOverInOrder, A!WakeupOnceRegistered, A!BlindIsCompleted,
         A!DueIsCompleted
<1>4. (A!DoneDeliversOnceRegistered /\ A!BufferOnlyInCallback)'
  BY <1>1 DEF A!DoneDeliversOnceRegistered, A!BufferOnlyInCallback
<1>5. (A!SingleJoin /\ A!TerminatesOnlyOnMisuse /\ A!CtorFirst /\ A!ExitAfterExchange)'
  BY <1>1 DEF A!SingleJoin, A!TerminatesOnlyOnMisuse, A!CtorFirst, A!ExitAfterExchange
<1>6. (A!JoinedIsDone /\ A!SomeoneJoins /\ A!NoStopWhileDying)'
  BY <1>1 DEF A!JoinedIsDone, A!SomeoneJoins, A!NoStopWhileDying, A!CtorFirst
<1>7. QED
  BY <1>2, <1>3, <1>4, <1>5, <1>6

\* Registering the file: from here on a wake-up is owed for what is written.
LEMMA RegisterInv == A!AppleInv /\ ~A!Over /\ A!WorkerRegister => A!AppleInv'
<1> SUFFICES ASSUME A!AppleInv, ~A!Over, A!WorkerRegister PROVE A!AppleInv'
  OBVIOUS
<1> USE DEF A!AppleInv, A!Over, A!WorkerRegister, A!file, A!reading, A!thread, A!stopping, A!Completed
<1>1. A!AppleTypeOK'
  BY DEF A!AppleTypeOK
<1>2. (A!HandedOverInOrder /\ A!WakeupOnceRegistered /\ A!BlindIsCompleted /\ A!DueIsCompleted)'
  BY DEF A!AppleTypeOK, A!HandedOverInOrder, A!WakeupOnceRegistered, A!BlindIsCompleted,
         A!DueIsCompleted
<1>3. (A!DoneDeliversOnceRegistered /\ A!BufferOnlyInCallback)'
  BY DEF A!DoneDeliversOnceRegistered, A!BufferOnlyInCallback
<1>4. oCtor = "done"
  BY DEF A!CtorFirst
<1>5. QED
  BY <1>1, <1>2, <1>3, <1>4, StopFrame

(***************************************************************************)
(* kevent() reporting only the exit pipe ends the worker: by               *)
(* WakeupOnceRegistered nothing that was due is unread.                    *)
(***************************************************************************)
LEMMA KeventInv == A!AppleInv /\ ~A!Over /\ A!Kevent => A!AppleInv'
<1> SUFFICES ASSUME A!AppleInv, ~A!Over, A!Kevent PROVE A!AppleInv'
  OBVIOUS
<1> USE DEF A!AppleInv, A!Over, A!Kevent, A!file, A!reading, A!thread, A!stopping, A!Completed
<1>1. A!AppleTypeOK'
  BY DEF A!AppleTypeOK
<1>2. (A!HandedOverInOrder /\ A!WakeupOnceRegistered /\ A!BlindIsCompleted /\ A!DueIsCompleted)'
  BY DEF A!AppleTypeOK, A!HandedOverInOrder, A!WakeupOnceRegistered, A!BlindIsCompleted,
         A!DueIsCompleted
<1>3. ASSUME "inotify" \notin oReady
      PROVE  ~oRunning /\ (oDue > oBlind => oDelivered >= oDue)
  <2>1. "exit" \in oReady
    BY <1>3, Zenon DEF A!AppleTypeOK
  <2>2. ~oRunning
    BY <2>1 DEF A!ExitAfterExchange
  <2>3. oDelivered = oOffset
    BY DEF A!AppleTypeOK, A!HandedOverInOrder, A!BufferOnlyInCallback
  <2>4. oBlind < A!Completed => oOffset >= A!Completed
    BY <1>3 DEF A!AppleTypeOK, A!WakeupOnceRegistered
  <2>5. QED
    BY <2>2, <2>3, <2>4 DEF A!AppleTypeOK, A!DueIsCompleted
<1>4. A!DoneDeliversOnceRegistered'
  BY <1>3 DEF A!DoneDeliversOnceRegistered
<1>5. A!BufferOnlyInCallback'
  BY DEF A!AppleTypeOK, A!BufferOnlyInCallback
<1>6. oCtor = "done"
  BY DEF A!CtorFirst
<1>7. QED
  BY <1>1, <1>2, <1>4, <1>5, <1>6, StopFrame

\* Reading and handing over; at the end of the file all that was due is delivered.
LEMMA AppleReadInv == A!AppleInv /\ ~A!Over /\ A!AppleRead => A!AppleInv'
<1> SUFFICES ASSUME A!AppleInv, ~A!Over, A!AppleRead PROVE A!AppleInv'
  OBVIOUS
<1> USE DEF A!AppleInv, A!Over, A!file, A!reading, A!thread, A!stopping, A!Completed
<1>1. oCtor = "done"
  BY DEF A!CtorFirst, A!AppleRead, A!WorkerRead, A!WorkerEnd, A!WorkerCallback, A!HandOver
<1>2. CASE A!WorkerRead /\ UNCHANGED oBlind
  <2> USE <1>2 DEF A!WorkerRead, A!Chunk
  <2>1. A!AppleTypeOK'
    BY DEF A!AppleTypeOK
  <2>2. (A!HandedOverInOrder /\ A!WakeupOnceRegistered /\ A!BlindIsCompleted /\ A!DueIsCompleted)'
    BY DEF A!AppleTypeOK, A!HandedOverInOrder, A!WakeupOnceRegistered, A!BlindIsCompleted,
           A!DueIsCompleted, A!BufferOnlyInCallback
  <2>3. (A!DoneDeliversOnceRegistered /\ A!BufferOnlyInCallback)'
    BY DEF A!DoneDeliversOnceRegistered, A!BufferOnlyInCallback
  <2>4. QED
    BY <1>1, <2>1, <2>2, <2>3, StopFrame
<1>3. CASE A!WorkerEnd /\ UNCHANGED oBlind
  <2> USE <1>3 DEF A!WorkerEnd
  <2>1. A!AppleTypeOK'
    BY DEF A!AppleTypeOK
  <2>2. (A!HandedOverInOrder /\ A!WakeupOnceRegistered /\ A!BlindIsCompleted /\ A!DueIsCompleted)'
    BY DEF A!AppleTypeOK, A!HandedOverInOrder, A!WakeupOnceRegistered, A!BlindIsCompleted,
           A!DueIsCompleted
  <2>3. oDelivered >= oDue
    BY DEF A!AppleTypeOK, A!HandedOverInOrder, A!BufferOnlyInCallback, A!DueIsCompleted
  <2>4. (A!DoneDeliversOnceRegistered /\ A!BufferOnlyInCallback)'
    BY <2>3 DEF A!AppleTypeOK, A!DoneDeliversOnceRegistered, A!BufferOnlyInCallback, A!ExitAfterExchange
  <2>5. QED
    BY <1>1, <2>1, <2>2, <2>4, StopFrame
<1>4. CASE A!WorkerCallback /\ UNCHANGED oBlind
  <2> USE <1>4 DEF A!WorkerCallback, A!HandOver
  <2>1. A!AppleTypeOK'
    BY DEF A!AppleTypeOK
  <2>2. (A!HandedOverInOrder /\ A!WakeupOnceRegistered /\ A!BlindIsCompleted /\ A!DueIsCompleted)'
    BY DEF A!AppleTypeOK, A!HandedOverInOrder, A!WakeupOnceRegistered, A!BlindIsCompleted,
           A!DueIsCompleted
  <2>3. (A!DoneDeliversOnceRegistered /\ A!BufferOnlyInCallback)'
    BY DEF A!DoneDeliversOnceRegistered, A!BufferOnlyInCallback
  <2>4. QED
    BY <1>1, <2>1, <2>2, <2>3, StopFrame
<1>5. QED
  BY <1>2, <1>3, <1>4 DEF A!AppleRead

\* A callback that throws or calls stop(), and a failing system call.
LEMMA AppleFailInv == A!AppleInv /\ ~A!Over /\ A!AppleFail => A!AppleInv'
<1> SUFFICES ASSUME A!AppleInv, ~A!Over, A!AppleFail PROVE A!AppleInv'
  OBVIOUS
<1> USE DEF A!AppleInv, A!Over, A!Blame, A!file, A!reading, A!thread, A!stopping, A!Completed
<1>1. oCtor = "done"
  BY DEF A!CtorFirst, A!AppleFail, A!WorkerCallbackThrow, A!WorkerCallbackStop, A!WorkerFail,
         A!HandOver
<1>2. CASE (A!WorkerCallbackThrow \/ A!WorkerCallbackStop) /\ UNCHANGED oBlind
  <2> USE <1>2 DEF A!WorkerCallbackThrow, A!WorkerCallbackStop, A!HandOver
  <2>1. A!AppleTypeOK'
    <3>1. oBlame' \subseteq Faults /\ oRunning' \in BOOLEAN
      BY Zenon DEF A!AppleTypeOK
    <3>2. oDelivered' \in Nat /\ oFilled' \in 0..BufferSize
      BY DEF A!AppleTypeOK
    <3>3. oReady' \subseteq {"inotify", "exit"}
      BY Zenon DEF A!AppleTypeOK
    <3>4. /\ oWorker' \in {"none", "register", "wait", "read", "callback", "done"}
          /\ oObject' \in {"alive", "dying", "destroyed", "terminated"}
      BY DEF A!AppleTypeOK
    <3>5. UNCHANGED <<oSize, oUnnotified, oOffset, oFrom, oCtor, oEvents, oStop, oJoined, oDue, oBlind>>
      OBVIOUS
    <3>6. QED
      BY <3>1, <3>2, <3>3, <3>4, <3>5, Zenon DEF A!AppleTypeOK
  <2>2. (A!HandedOverInOrder /\ A!WakeupOnceRegistered /\ A!BlindIsCompleted /\ A!DueIsCompleted)'
    BY DEF A!AppleTypeOK, A!HandedOverInOrder, A!WakeupOnceRegistered, A!BlindIsCompleted,
           A!DueIsCompleted
  <2>3. (A!DoneDeliversOnceRegistered /\ A!BufferOnlyInCallback)'
    BY DEF A!DoneDeliversOnceRegistered, A!BufferOnlyInCallback
  <2>4. (A!SingleJoin /\ A!TerminatesOnlyOnMisuse)'
    BY DEF A!SingleJoin, A!TerminatesOnlyOnMisuse
  <2>5. (A!CtorFirst /\ A!ExitAfterExchange)'
    BY <1>1 DEF A!CtorFirst, A!ExitAfterExchange
  <2>6. (A!JoinedIsDone /\ A!SomeoneJoins /\ A!NoStopWhileDying)'
    BY DEF A!JoinedIsDone, A!SomeoneJoins, A!NoStopWhileDying
  <2>7. QED
    BY <2>1, <2>2, <2>3, <2>4, <2>5, <2>6
<1>3. ASSUME oWorker \in {"wait", "read", "register"}, A!Blame("io"), oWorker' = "done",
             UNCHANGED <<A!file, oReady, A!reading, oCtor, oEvents, A!stopping, oObject, oBlind>>
      PROVE  A!AppleInv'
  <2> USE <1>3
  <2> oBlame' \subseteq Faults
    BY Zenon DEF A!AppleTypeOK
  <2>1. A!AppleTypeOK'
    BY DEF A!AppleTypeOK
  <2>2. (A!HandedOverInOrder /\ A!WakeupOnceRegistered /\ A!BlindIsCompleted /\ A!DueIsCompleted)'
    BY DEF A!AppleTypeOK, A!HandedOverInOrder, A!WakeupOnceRegistered, A!BlindIsCompleted,
           A!DueIsCompleted
  <2>3. (A!DoneDeliversOnceRegistered /\ A!BufferOnlyInCallback)'
    BY DEF A!DoneDeliversOnceRegistered, A!BufferOnlyInCallback
  <2>4. (A!SingleJoin /\ A!TerminatesOnlyOnMisuse)'
    BY DEF A!SingleJoin, A!TerminatesOnlyOnMisuse
  <2>5. (A!CtorFirst /\ A!ExitAfterExchange)'
    BY <1>1 DEF A!CtorFirst, A!ExitAfterExchange
  <2>6. (A!JoinedIsDone /\ A!SomeoneJoins /\ A!NoStopWhileDying)'
    BY DEF A!JoinedIsDone, A!SomeoneJoins, A!NoStopWhileDying
  <2>7. QED
    BY <2>1, <2>2, <2>3, <2>4, <2>5, <2>6
<1>4. QED
  BY <1>2, <1>3 DEF A!AppleFail, A!WorkerFail

\* A step of stop() or of the destructor leaves the worker's side alone.
LEMMA WorkerFrame ==
  ASSUME A!AppleInv, UNCHANGED <<A!file, A!reading, oWorker, oBlind>>,
         "inotify" \in oReady => "inotify" \in oReady'
  PROVE  /\ (A!HandedOverInOrder /\ A!WakeupOnceRegistered)'
         /\ (A!BlindIsCompleted /\ A!BufferOnlyInCallback)'
BY DEF A!AppleInv, A!file, A!reading, A!Completed, A!HandedOverInOrder, A!WakeupOnceRegistered,
       A!BlindIsCompleted, A!BufferOnlyInCallback

(***************************************************************************)
(* Entering stop(), from a thread or from the destructor: the caller is    *)
(* the only one to join, or returns at once.                               *)
(***************************************************************************)
LEMMA AppleEnterInv ==
  ASSUME NEW t \in Callers, A!AppleInv, oCtor = "done", A!StopEnter(t), UNCHANGED oBlind,
         \/ t \in Threads /\ oObject = "alive" /\ UNCHANGED oObject
         \/ /\ t = Owner /\ oObject' = "dying"
            /\ \A u \in Threads : oStop[u] \in {"idle", "returned"}
  PROVE  A!AppleInv'
<1> USE DEF A!AppleInv, A!StopEnter, A!file, A!reading, A!thread, A!Completed, Callers
<1>1. A!AppleTypeOK'
  <2>1. oRunning' \in BOOLEAN
    BY Zenon
  <2>2. oDue' \in Nat
    BY DEF A!AppleTypeOK
  <2>3. oStop' \in [A!Callers -> {"idle", "write", "join", "returned"}]
    BY DEF A!AppleTypeOK
  <2>4. oObject' \in {"alive", "dying", "destroyed", "terminated"}
    BY DEF A!AppleTypeOK
  <2>5. UNCHANGED <<oSize, oUnnotified, oReady, oOffset, oFilled, oFrom, oDelivered, oCtor, oWorker,
                    oEvents, oJoined, oBlame, oBlind>>
    OBVIOUS
  <2>6. QED
    BY <2>1, <2>2, <2>3, <2>4, <2>5, Zenon DEF A!AppleTypeOK
<1>2. (A!HandedOverInOrder /\ A!WakeupOnceRegistered /\ A!BlindIsCompleted /\ A!BufferOnlyInCallback)'
  BY WorkerFrame
<1>3. (A!DueIsCompleted /\ A!DoneDeliversOnceRegistered)'
  BY DEF A!AppleTypeOK, A!DueIsCompleted, A!DoneDeliversOnceRegistered
<1>4. A!SingleJoin'
  BY DEF A!AppleTypeOK, A!SingleJoin, A!JoinedIsDone
<1>5. (A!TerminatesOnlyOnMisuse /\ A!CtorFirst)'
  BY DEF A!TerminatesOnlyOnMisuse, A!CtorFirst
<1>6. (A!ExitAfterExchange /\ A!JoinedIsDone)'
  BY DEF A!AppleTypeOK, A!ExitAfterExchange, A!JoinedIsDone
<1>7. A!NoStopWhileDying'
  BY DEF A!AppleTypeOK, A!NoStopWhileDying
<1>8. A!SomeoneJoins'
  BY DEF A!AppleTypeOK, A!SomeoneJoins
<1>9. QED
  BY <1>1, <1>2, <1>3, <1>4, <1>5, <1>6, <1>7, <1>8

\* The rest of stop(): the exit byte is written, or cannot be, and the worker is joined.
LEMMA AppleStopInv ==
  ASSUME NEW t \in Callers, A!AppleInv, ~A!Over, A!AppleStop(t) \/ A!AppleStopFail(t)
  PROVE  A!AppleInv'
<1> USE DEF A!AppleInv, A!Over, A!file, A!reading, A!thread, A!Completed, Callers
<1>1. CASE A!StopWrite(t) /\ UNCHANGED oBlind
  <2> USE <1>1 DEF A!StopWrite
  <2>1. A!AppleTypeOK'
    BY DEF A!AppleTypeOK
  <2>2. (A!HandedOverInOrder /\ A!WakeupOnceRegistered /\ A!BlindIsCompleted /\ A!BufferOnlyInCallback)'
    BY WorkerFrame
  <2>3. (A!DueIsCompleted /\ A!DoneDeliversOnceRegistered)'
    BY DEF A!DueIsCompleted, A!DoneDeliversOnceRegistered
  <2>4. A!SingleJoin'
    BY DEF A!AppleTypeOK, A!SingleJoin
  <2>5. (A!TerminatesOnlyOnMisuse /\ A!CtorFirst)'
    BY DEF A!TerminatesOnlyOnMisuse, A!CtorFirst
  <2>6. (A!ExitAfterExchange /\ A!JoinedIsDone)'
    BY DEF A!AppleTypeOK, A!ExitAfterExchange, A!JoinedIsDone
  <2>7. (A!NoStopWhileDying /\ A!SomeoneJoins)'
    BY DEF A!AppleTypeOK, A!NoStopWhileDying, A!SomeoneJoins
  <2>8. QED
    BY <2>1, <2>2, <2>3, <2>4, <2>5, <2>6, <2>7
<1>2. CASE A!StopWriteFail(t) /\ UNCHANGED oBlind
  <2> USE <1>2 DEF A!StopWriteFail, A!Blame
  <2> oBlame' \subseteq Faults
    BY Zenon DEF A!AppleTypeOK
  <2>1. A!AppleTypeOK'
    BY DEF A!AppleTypeOK
  <2>2. (A!HandedOverInOrder /\ A!WakeupOnceRegistered /\ A!BlindIsCompleted /\ A!BufferOnlyInCallback)'
    BY WorkerFrame
  <2>3. (A!DueIsCompleted /\ A!DoneDeliversOnceRegistered)'
    BY DEF A!DueIsCompleted, A!DoneDeliversOnceRegistered
  <2>4. A!SingleJoin'
    BY DEF A!AppleTypeOK, A!SingleJoin
  <2>5. (A!TerminatesOnlyOnMisuse /\ A!CtorFirst)'
    BY DEF A!TerminatesOnlyOnMisuse, A!CtorFirst
  <2>6. (A!ExitAfterExchange /\ A!JoinedIsDone)'
    BY DEF A!AppleTypeOK, A!ExitAfterExchange, A!JoinedIsDone
  <2>7. (A!NoStopWhileDying /\ A!SomeoneJoins)'
    BY DEF A!AppleTypeOK, A!NoStopWhileDying, A!SomeoneJoins
  <2>8. QED
    BY <2>1, <2>2, <2>3, <2>4, <2>5, <2>6, <2>7
<1>3. CASE A!StopJoin(t) /\ UNCHANGED oBlind
  <2> USE <1>3 DEF A!StopJoin
  <2> oJoined' \in BOOLEAN
    BY Zenon
  <2>1. A!AppleTypeOK'
    BY DEF A!AppleTypeOK
  <2>2. (A!HandedOverInOrder /\ A!WakeupOnceRegistered /\ A!BlindIsCompleted /\ A!BufferOnlyInCallback)'
    BY WorkerFrame
  <2>3. (A!DueIsCompleted /\ A!DoneDeliversOnceRegistered)'
    BY DEF A!DueIsCompleted, A!DoneDeliversOnceRegistered
  <2>4. A!SingleJoin'
    BY DEF A!AppleTypeOK, A!SingleJoin
  <2>5. (A!TerminatesOnlyOnMisuse /\ A!CtorFirst)'
    BY DEF A!TerminatesOnlyOnMisuse, A!CtorFirst
  <2>6. (A!ExitAfterExchange /\ A!JoinedIsDone)'
    BY DEF A!AppleTypeOK, A!ExitAfterExchange, A!JoinedIsDone
  <2>7. (A!NoStopWhileDying /\ A!SomeoneJoins)'
    BY DEF A!AppleTypeOK, A!NoStopWhileDying, A!SomeoneJoins
  <2>8. QED
    BY <2>1, <2>2, <2>3, <2>4, <2>5, <2>6, <2>7
<1>4. QED
  BY <1>1, <1>2, <1>3 DEF A!AppleStop, A!AppleStopFail

\* Destroying the members terminates only if nobody joined the worker.
LEMMA AppleMembersInv ==
  A!AppleInv /\ ~A!Over /\ A!DestroyMembers /\ UNCHANGED oBlind => A!AppleInv'
<1> SUFFICES ASSUME A!AppleInv, ~A!Over, A!DestroyMembers, UNCHANGED oBlind PROVE A!AppleInv'
  OBVIOUS
<1> USE DEF A!AppleInv, A!Over, A!DestroyMembers, A!file, A!reading, A!thread, A!stopping, A!Completed
<1>1. A!AppleTypeOK'
  BY Zenon DEF A!AppleTypeOK
<1>2. (A!HandedOverInOrder /\ A!BlindIsCompleted /\ A!DueIsCompleted /\ A!BufferOnlyInCallback)'
  BY DEF A!HandedOverInOrder, A!BlindIsCompleted, A!DueIsCompleted, A!BufferOnlyInCallback
<1>3. (A!WakeupOnceRegistered /\ A!DoneDeliversOnceRegistered)'
  BY DEF A!WakeupOnceRegistered, A!DoneDeliversOnceRegistered, A!JoinedIsDone
<1>4. A!TerminatesOnlyOnMisuse'
  <2>1. ~oRunning /\ \A t \in A!Callers : oStop[t] \notin {"write", "join"}
    BY DEF A!AppleTypeOK, A!ExitAfterExchange, A!NoStopWhileDying
  <2>2. oJoined \/ oBlame \cap {"selfstop", "write"} # {}
    BY <2>1 DEF A!SomeoneJoins
  <2>3. QED
    BY <2>2 DEF A!TerminatesOnlyOnMisuse
<1>5. (A!SingleJoin /\ A!CtorFirst /\ A!ExitAfterExchange)'
  BY DEF A!SingleJoin, A!CtorFirst, A!ExitAfterExchange
<1>6. (A!JoinedIsDone /\ A!SomeoneJoins /\ A!NoStopWhileDying)'
  BY DEF A!JoinedIsDone, A!SomeoneJoins, A!NoStopWhileDying
<1>7. QED
  BY <1>1, <1>2, <1>3, <1>4, <1>5, <1>6

\* Every step of the macOS build, of every process, preserves its invariant.
LEMMA AppleNextInv == A!AppleInv /\ [A!AppleNext]_(A!appleVars) => A!AppleInv'
<1> SUFFICES ASSUME A!AppleInv, [A!AppleNext]_(A!appleVars) PROVE A!AppleInv'
  OBVIOUS
<1>1. ASSUME UNCHANGED A!appleVars PROVE A!AppleInv'
  <2> USE <1>1 DEF A!appleVars, A!vars, A!file, A!reading, A!thread, A!stopping, A!AppleInv
  <2>1. A!AppleTypeOK'
    BY Zenon DEF A!AppleTypeOK
  <2>2. (A!HandedOverInOrder /\ A!BlindIsCompleted /\ A!DueIsCompleted /\ A!WakeupOnceRegistered)'
    BY DEF A!HandedOverInOrder, A!BlindIsCompleted, A!DueIsCompleted, A!WakeupOnceRegistered, A!Completed
  <2>3. (A!DoneDeliversOnceRegistered /\ A!BufferOnlyInCallback)'
    BY DEF A!DoneDeliversOnceRegistered, A!BufferOnlyInCallback
  <2>4. oCtor' # "done" => oCtor # "done" /\ oWorker' = oWorker
    OBVIOUS
  <2>5. QED
    BY <2>1, <2>2, <2>3, <2>4, StopFrame
<1>2. ASSUME ~A!Over, (A!WriterAppend /\ UNCHANGED oBlind) \/ A!AppleNotify PROVE A!AppleInv'
  BY <1>2, AppleWriterInv
<1>3. ASSUME ~A!Over, A!AppleCtor \/ A!AppleCtorThrow \/ A!AppleCtorStart PROVE A!AppleInv'
  BY <1>3, AppleCtorInv, AppleCtorThrowInv
<1>4. ASSUME ~A!Over, A!WorkerRegister \/ A!Kevent \/ A!AppleRead \/ A!AppleFail PROVE A!AppleInv'
  BY <1>4, RegisterInv, KeventInv, AppleReadInv, AppleFailInv
<1>5. ASSUME NEW t \in Threads, A!CallStop(t), UNCHANGED oBlind PROVE A!AppleInv'
  BY <1>5, AppleEnterInv DEF A!CallStop, Callers
<1>6. ASSUME ~A!Over, NEW t \in A!Callers, A!AppleStop(t) \/ A!AppleStopFail(t) PROVE A!AppleInv'
  BY <1>6, AppleStopInv DEF Callers
<1>7. ASSUME ~A!Over, A!AppleDestroy PROVE A!AppleInv'
  <2>1. CASE A!Destroy
    BY <1>7, <2>1, AppleEnterInv DEF A!AppleDestroy, A!Destroy, Callers
  <2>2. CASE A!DestroyMembers
    BY <1>7, <2>2, AppleMembersInv DEF A!AppleDestroy
  <2>3. QED
    BY <1>7, <2>1, <2>2 DEF A!AppleDestroy
<1>8. QED
  BY <1>1, <1>2, <1>3, <1>4, <1>5, <1>6, <1>7 DEF A!AppleNext
-----------------------------------------------------------------------------
(* Windows.                                                                *)

\* The factory's first state satisfies the inductive invariant.
LEMMA Win32InitInv == W!Init => W!IInv
<1> SUFFICES ASSUME W!Init PROVE W!IInv
  OBVIOUS
<1> USE DEF W!Init
<1>1. oRunning \in BOOLEAN /\ oJoined \in BOOLEAN /\ exitEvent \in BOOLEAN
  BY Zenon
<1>2. W!TypeOK
  BY <1>1 DEF W!TypeOK
<1>3. W!DeliveredFromBoundary
  BY DEF W!DeliveredFromBoundary
<1>4. W!SingleJoin /\ W!TerminatesOnlyOnMisuse /\ W!EnteredIsStopped
  BY DEF W!SingleJoin, W!TerminatesOnlyOnMisuse, W!EnteredIsStopped
<1>5. W!JoinedIsDone /\ W!SomeoneJoins /\ W!NoStopWhileDying
  BY DEF W!JoinedIsDone, W!SomeoneJoins, W!NoStopWhileDying
<1>6. QED
  BY <1>2, <1>3, <1>4, <1>5 DEF W!IInv

\* A step of the writer or of the worker that meets no error leaves stop() alone.
LEMMA Win32StopFrame ==
  ASSUME W!IInv, UNCHANGED <<oRunning, oStop, oJoined, oObject, oBlame>>,
         oWorker = "done" => oWorker' = "done"
  PROVE  /\ (W!SingleJoin /\ W!TerminatesOnlyOnMisuse /\ W!EnteredIsStopped)'
         /\ (W!JoinedIsDone /\ W!SomeoneJoins /\ W!NoStopWhileDying)'
<1>1. (W!SingleJoin /\ W!TerminatesOnlyOnMisuse /\ W!EnteredIsStopped)'
  BY DEF W!IInv, W!SingleJoin, W!TerminatesOnlyOnMisuse, W!EnteredIsStopped
<1>2. (W!JoinedIsDone /\ W!SomeoneJoins /\ W!NoStopWhileDying)'
  BY DEF W!IInv, W!JoinedIsDone, W!SomeoneJoins, W!NoStopWhileDying
<1>3. QED
  BY <1>1, <1>2

(***************************************************************************)
(* The chunk just read, cut at the boundary, continues exactly where the   *)
(* bytes the callback has already got end.                                 *)
(***************************************************************************)
LEMMA CutIsExact ==
  ASSUME W!IInv, oWorker = "deliver", given' = given \cup (W!DeliverFrom + 1)..oOffset
  PROVE  given' = ((IF Sow THEN 0 ELSE boundary) + 1)..oOffset
<1> USE DEF W!IInv, W!TypeOK
<1>1. boundary \in Nat /\ start \in Nat /\ oOffset \in Nat /\ start <= oOffset
  OBVIOUS
<1>2. given = ((IF Sow THEN 0 ELSE boundary) + 1)..start
  BY DEF W!DeliveredFromBoundary
<1>3. given' = given \cup (W!DeliverFrom + 1)..oOffset
  OBVIOUS
<1>4. CASE Sow
  BY ONLY <1>1, <1>2, <1>3, <1>4 DEF W!DeliverFrom
<1>5. CASE ~Sow /\ start < boundary
  <2>1. given = {}
    BY ONLY <1>1, <1>2, <1>5
  <2>2. CASE oOffset < boundary
    BY ONLY <1>1, <1>3, <1>5, <2>1, <2>2 DEF W!DeliverFrom
  <2>3. CASE oOffset >= boundary
    BY ONLY <1>1, <1>3, <1>5, <2>1, <2>3 DEF W!DeliverFrom
  <2>4. QED
    BY ONLY <1>1, <2>2, <2>3
<1>6. CASE ~Sow /\ start >= boundary
  BY ONLY <1>1, <1>2, <1>3, <1>6 DEF W!DeliverFrom
<1>7. QED
  BY ONLY <1>1, <1>4, <1>5, <1>6

\* Another process appends.
LEMMA Win32AppendInv == W!IInv /\ W!WriterAppend => W!IInv'
<1> SUFFICES ASSUME W!IInv, W!WriterAppend PROVE W!IInv'
  OBVIOUS
<1> USE DEF W!IInv, W!WriterAppend, W!stopping
<1>1. W!TypeOK'
  BY DEF W!TypeOK
<1>2. W!DeliveredFromBoundary'
  BY DEF W!DeliveredFromBoundary
<1>3. QED
  BY <1>1, <1>2, Win32StopFrame

\* A read that completes, pends or is cancelled, and the wait at the end of the file.
LEMMA Win32ReadInv ==
  W!IInv /\ (W!ReadCompletes \/ W!ReadPends \/ W!ReadCancelled \/ W!EofExit \/ W!EofTimeout) => W!IInv'
<1> SUFFICES ASSUME W!IInv,
                    W!ReadCompletes \/ W!ReadPends \/ W!ReadCancelled \/ W!EofExit \/ W!EofTimeout
             PROVE  W!IInv'
  OBVIOUS
<1> USE DEF W!IInv, W!stopping
<1>1. CASE W!ReadCompletes
  <2> USE <1>1 DEF W!ReadCompletes
  <2>1. W!TypeOK'
    BY DEF W!TypeOK
  <2>2. W!DeliveredFromBoundary'
    BY DEF W!TypeOK, W!DeliveredFromBoundary
  <2>3. QED
    BY <2>1, <2>2, Win32StopFrame
<1>2. CASE W!ReadPends \/ W!ReadCancelled \/ W!EofExit \/ W!EofTimeout
  <2> USE <1>2 DEF W!ReadPends, W!ReadCancelled, W!EofExit, W!EofTimeout
  <2>1. W!TypeOK'
    BY DEF W!TypeOK
  <2>2. W!DeliveredFromBoundary'
    BY DEF W!DeliveredFromBoundary
  <2>3. QED
    BY <2>1, <2>2, Win32StopFrame
<1>3. QED
  BY <1>1, <1>2

\* The callback gets a chunk and returns, throws, or calls stop().
LEMMA Win32DeliverInv ==
  W!IInv /\ (W!Deliver \/ W!DeliverThrows \/ W!DeliverStops) => W!IInv'
<1> SUFFICES ASSUME W!IInv, W!Deliver \/ W!DeliverThrows \/ W!DeliverStops PROVE W!IInv'
  OBVIOUS
<1>1. /\ oWorker = "deliver"
      /\ oWorker' \in {"read", "done"}
      /\ given' = ((IF Sow THEN 0 ELSE boundary) + 1)..oOffset
      /\ UNCHANGED <<oSize, boundary, oOffset, start, oStop, oJoined>>
  <2>1. /\ oWorker = "deliver"
        /\ oWorker' \in {"read", "done"}
        /\ given' = given \cup (W!DeliverFrom + 1)..oOffset
        /\ UNCHANGED <<oSize, boundary, oOffset, start, oStop, oJoined>>
    BY DEF W!Deliver, W!DeliverThrows, W!DeliverStops, W!HandOver, W!stopping
  <2>2. QED
    BY <2>1, CutIsExact
<1>2. W!DeliveredFromBoundary'
  BY <1>1 DEF W!DeliveredFromBoundary
<1> USE DEF W!IInv, W!Deliver, W!DeliverThrows, W!DeliverStops, W!HandOver, W!Blame, W!stopping
<1>3. W!TypeOK'
  <2>1. oRunning' \in BOOLEAN /\ exitEvent' \in BOOLEAN
    BY Zenon DEF W!TypeOK
  <2>2. oBlame' \subseteq Faults \ {"write"}
    BY Zenon DEF W!TypeOK
  <2>3. given' \subseteq 1..oSize
    BY ONLY <1>1, W!TypeOK DEF W!TypeOK
  <2>4. oObject' \in {"alive", "dying", "destroyed", "terminated"}
    BY DEF W!TypeOK
  <2>5. QED
    BY <1>1, <2>1, <2>2, <2>3, <2>4 DEF W!TypeOK
<1>4. (W!SingleJoin /\ W!TerminatesOnlyOnMisuse /\ W!EnteredIsStopped)'
  BY <1>1 DEF W!SingleJoin, W!TerminatesOnlyOnMisuse, W!EnteredIsStopped
<1>5. (W!JoinedIsDone /\ W!SomeoneJoins /\ W!NoStopWhileDying)'
  BY <1>1 DEF W!JoinedIsDone, W!SomeoneJoins, W!NoStopWhileDying
<1>6. QED
  BY <1>2, <1>3, <1>4, <1>5

\* A call of the Windows API fails.
LEMMA Win32FailInv == W!IInv /\ W!WorkerFail => W!IInv'
<1> SUFFICES ASSUME W!IInv, W!WorkerFail PROVE W!IInv'
  OBVIOUS
<1> USE DEF W!IInv, W!WorkerFail, W!Blame, W!stopping
<1> oBlame' \subseteq Faults \ {"write"}
  BY Zenon DEF W!TypeOK
<1>1. W!TypeOK'
  BY DEF W!TypeOK
<1>2. W!DeliveredFromBoundary'
  BY DEF W!DeliveredFromBoundary
<1>3. (W!SingleJoin /\ W!TerminatesOnlyOnMisuse /\ W!EnteredIsStopped)'
  BY DEF W!SingleJoin, W!TerminatesOnlyOnMisuse, W!EnteredIsStopped
<1>4. (W!JoinedIsDone /\ W!SomeoneJoins /\ W!NoStopWhileDying)'
  BY DEF W!JoinedIsDone, W!SomeoneJoins, W!NoStopWhileDying
<1>5. QED
  BY <1>1, <1>2, <1>3, <1>4

\* Entering stop(), from a thread or from the destructor.
LEMMA Win32EnterInv ==
  ASSUME NEW t \in Callers, W!IInv, W!StopEnter(t),
         \/ t \in Threads /\ oObject = "alive" /\ UNCHANGED oObject
         \/ /\ t = Owner /\ oObject' = "dying"
            /\ \A u \in Threads : oStop[u] \in {"idle", "returned"}
  PROVE  W!IInv'
<1> USE DEF W!IInv, W!StopEnter, Callers
<1> oRunning' \in BOOLEAN
  BY Zenon
<1>1. W!TypeOK'
  BY DEF W!TypeOK
<1>2. W!DeliveredFromBoundary'
  BY DEF W!DeliveredFromBoundary
<1>3. W!SingleJoin'
  BY DEF W!TypeOK, W!SingleJoin, W!JoinedIsDone, W!EnteredIsStopped
<1>4. (W!TerminatesOnlyOnMisuse /\ W!EnteredIsStopped /\ W!JoinedIsDone)'
  BY DEF W!TypeOK, W!TerminatesOnlyOnMisuse, W!EnteredIsStopped, W!JoinedIsDone
<1>5. W!SomeoneJoins'
  BY DEF W!TypeOK, W!SomeoneJoins
<1>6. W!NoStopWhileDying'
  BY DEF W!TypeOK, W!NoStopWhileDying
<1>7. QED
  BY <1>1, <1>2, <1>3, <1>4, <1>5, <1>6

\* The rest of stop(): the exit event is set and the worker joined.
LEMMA Win32StopInv ==
  ASSUME NEW t \in Callers, W!IInv, W!StopRun(t)
  PROVE  W!IInv'
<1> USE DEF W!IInv, W!StopRun, W!StopSet, W!StopJoin, Callers
<1> oJoined' \in BOOLEAN /\ exitEvent' \in BOOLEAN
  BY Zenon DEF W!TypeOK
<1>1. W!TypeOK'
  BY DEF W!TypeOK
<1>2. W!DeliveredFromBoundary'
  BY DEF W!DeliveredFromBoundary
<1>3. W!SingleJoin'
  BY DEF W!TypeOK, W!SingleJoin
<1>4. (W!TerminatesOnlyOnMisuse /\ W!EnteredIsStopped /\ W!JoinedIsDone)'
  BY DEF W!TypeOK, W!TerminatesOnlyOnMisuse, W!EnteredIsStopped, W!JoinedIsDone
<1>5. (W!SomeoneJoins /\ W!NoStopWhileDying)'
  BY DEF W!TypeOK, W!SomeoneJoins, W!NoStopWhileDying
<1>6. QED
  BY <1>1, <1>2, <1>3, <1>4, <1>5

\* Destroying the members terminates only if nobody joined the worker.
LEMMA Win32MembersInv == W!IInv /\ W!DestroyMembers => W!IInv'
<1> SUFFICES ASSUME W!IInv, W!DestroyMembers PROVE W!IInv'
  OBVIOUS
<1> USE DEF W!IInv, W!DestroyMembers, W!stopping
<1>1. W!TypeOK'
  BY Zenon DEF W!TypeOK
<1>2. W!DeliveredFromBoundary'
  BY DEF W!DeliveredFromBoundary
<1>3. W!TerminatesOnlyOnMisuse'
  <2>1. ~oRunning /\ \A t \in W!Callers : oStop[t] \notin {"set", "join"}
    BY DEF W!TypeOK, W!EnteredIsStopped, W!NoStopWhileDying
  <2>2. oJoined \/ "selfstop" \in oBlame
    BY <2>1 DEF W!SomeoneJoins
  <2>3. QED
    BY <2>2 DEF W!TerminatesOnlyOnMisuse
<1>4. (W!SingleJoin /\ W!EnteredIsStopped)'
  BY DEF W!SingleJoin, W!EnteredIsStopped
<1>5. (W!JoinedIsDone /\ W!SomeoneJoins /\ W!NoStopWhileDying)'
  BY DEF W!JoinedIsDone, W!SomeoneJoins, W!NoStopWhileDying
<1>6. QED
  BY <1>1, <1>2, <1>3, <1>4, <1>5

\* Every step of the Windows build, of every process, preserves its invariant.
LEMMA Win32NextInv == W!IInv /\ [W!Next]_(W!vars) => W!IInv'
<1> SUFFICES ASSUME W!IInv, [W!Next]_(W!vars) PROVE W!IInv'
  OBVIOUS
<1>1. ASSUME UNCHANGED W!vars PROVE W!IInv'
  <2> USE <1>1 DEF W!vars, W!stopping, W!IInv
  <2>1. W!TypeOK'
    BY Zenon DEF W!TypeOK
  <2>2. W!DeliveredFromBoundary'
    BY DEF W!DeliveredFromBoundary
  <2>3. QED
    BY <2>1, <2>2, Win32StopFrame
<1>2. ASSUME W!WriterAppend \/ W!WorkerRun \/ W!ReadPends \/ W!WorkerError PROVE W!IInv'
  BY <1>2, Win32AppendInv, Win32ReadInv, Win32DeliverInv, Win32FailInv DEF W!WorkerRun, W!WorkerError
<1>3. ASSUME NEW t \in Threads, W!CallStop(t) PROVE W!IInv'
  BY <1>3, Win32EnterInv DEF W!CallStop, Callers
<1>4. ASSUME NEW t \in W!Callers, W!StopRun(t) PROVE W!IInv'
  BY <1>4, Win32StopInv DEF Callers
<1>5. ASSUME W!Destroy PROVE W!IInv'
  BY <1>5, Win32EnterInv DEF W!Destroy, Callers
<1>6. QED
  BY <1>1, <1>2, <1>3, <1>4, <1>5, Win32MembersInv DEF W!Next
-----------------------------------------------------------------------------
(* Both.                                                                   *)

(***************************************************************************)
(* The invariant of the build that runs holds in every reachable state: a  *)
(* step of one build is no step of the other.                              *)
(***************************************************************************)
THEOREM InductiveInvariance == OtherSafe => []OtherInv
<1>1. OtherInit => OtherInv
  BY AppleInitInv, Win32InitInv DEF OtherInit, OtherInv
<1>2. OtherInv /\ [OtherNext]_otherVars => OtherInv'
  <2> SUFFICES ASSUME OtherInv, [OtherNext]_otherVars PROVE OtherInv'
    OBVIOUS
  <2>1. CASE UNCHANGED otherVars
    <3>1. UNCHANGED platform /\ UNCHANGED A!appleVars /\ UNCHANGED W!vars
      BY <2>1 DEF otherVars, shared, appleOnly, win32Only, A!appleVars, A!vars, A!file, A!reading,
         A!thread, A!stopping, W!vars, W!stopping
    <3>2. QED
      BY <3>1, AppleNextInv, Win32NextInv DEF OtherInv
  <2>2. CASE OnApple(A!AppleNext)
    BY <2>2, AppleNextInv DEF OnApple, OtherInv
  <2>3. CASE OnWin32(W!Next)
    BY <2>3, Win32NextInv DEF OnWin32, OtherInv
  <2>4. QED
    BY <2>1, <2>2, <2>3 DEF OtherNext
<1>3. QED
  BY <1>1, <1>2, PTL DEF OtherSafe

(***************************************************************************)
(* On macOS the joining stop() returns only after all that was written     *)
(* between the registration and the call was delivered; on Windows the     *)
(* callback gets the file from the sow boundary on, without a gap and      *)
(* without a byte from before.                                             *)
(***************************************************************************)
THEOREM DeliveryIsExact == OtherSafe => []OthersDeliver
<1>1. OtherInv => OthersDeliver
  <2>1. A!AppleInv => A!StopDeliversOnceRegistered
    BY DEF A!AppleInv, A!StopDeliversOnceRegistered, A!JoinedIsDone, A!DoneDeliversOnceRegistered
  <2>2. W!IInv => W!DeliveredFromBoundary
    BY DEF W!IInv
  <2>3. QED
    BY <2>1, <2>2 DEF OtherInv, OthersDeliver
<1>2. QED
  BY <1>1, InductiveInvariance, PTL

(***************************************************************************)
(* Any number of racing stop() calls join the worker once, and destruction *)
(* ends the program only after one of the named misuses.                   *)
(***************************************************************************)
THEOREM StopIsSafe == OtherSafe => []OthersStopSafely
<1>1. OtherInv => OthersStopSafely
  BY DEF OtherInv, OthersStopSafely, A!AppleInv, W!IInv
<1>2. QED
  BY <1>1, InductiveInvariance, PTL
=============================================================================
