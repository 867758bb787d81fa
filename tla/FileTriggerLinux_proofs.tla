----------------------- MODULE FileTriggerLinux_proofs -----------------------
(***************************************************************************)
(* Proofs about FileTriggerLinux, for every set of stopping threads, every *)
(* buffer size, every file size and every set of faults.                   *)
(***************************************************************************)
EXTENDS FileTriggerLinux, TLAPS

USE ParametersAssumption DEF AllFaults, Callers

(***************************************************************************)
(* The constructor's first state satisfies the inductive invariant.        *)
(***************************************************************************)
LEMMA InitIInv == Init => IInv
<1> SUFFICES ASSUME Init PROVE IInv
  OBVIOUS
<1> USE DEF Init, Completed
<1>1. running \in BOOLEAN /\ joined \in BOOLEAN
  BY Zenon
<1>2. TypeOK
  BY <1>1 DEF TypeOK
<1>3. HandedOverInOrder /\ NoLostWakeup /\ SingleJoin /\ TerminatesOnlyOnMisuse
  BY DEF HandedOverInOrder, NoLostWakeup, SingleJoin, TerminatesOnlyOnMisuse
<1>4. CtorFirst /\ BufferOnlyInCallback /\ ExitAfterExchange
  BY DEF CtorFirst, BufferOnlyInCallback, ExitAfterExchange
<1>5. DueIsCompleted /\ DoneDelivers /\ JoinedIsDone /\ SomeoneJoins /\ NoStopWhileDying
  BY DEF DueIsCompleted, DoneDelivers, JoinedIsDone, SomeoneJoins, NoStopWhileDying
<1>6. QED
  BY <1>2, <1>3, <1>4, <1>5 DEF IInv

(***************************************************************************)
(* Another process appending preserves the invariant: the bytes are read   *)
(* or announced through inotify before write() returns.                    *)
(***************************************************************************)
LEMMA WriterAppendIInv == IInv /\ ~Over /\ WriterAppend => IInv'
<1> SUFFICES ASSUME IInv, ~Over, WriterAppend PROVE IInv'
  OBVIOUS
<1> USE DEF IInv, Over, WriterAppend, file, reading, thread, stopping, Completed
<1>1. TypeOK'
  BY DEF TypeOK
<1>2. (HandedOverInOrder /\ DueIsCompleted /\ DoneDelivers /\ NoLostWakeup)'
  BY DEF TypeOK, HandedOverInOrder, DueIsCompleted, DoneDelivers, NoLostWakeup
<1>3. (SingleJoin /\ TerminatesOnlyOnMisuse /\ CtorFirst /\ BufferOnlyInCallback)'
  BY DEF SingleJoin, TerminatesOnlyOnMisuse, CtorFirst, BufferOnlyInCallback
<1>4. (ExitAfterExchange /\ JoinedIsDone /\ SomeoneJoins /\ NoStopWhileDying)'
  BY DEF ExitAfterExchange, JoinedIsDone, SomeoneJoins, NoStopWhileDying
<1>5. QED
  BY <1>1, <1>2, <1>3, <1>4

\* The end of write() preserves the invariant: it is what makes inotify readable.
LEMMA WriterNotifyIInv == IInv /\ ~Over /\ WriterNotify => IInv'
<1> SUFFICES ASSUME IInv, ~Over, WriterNotify PROVE IInv'
  OBVIOUS
<1> USE DEF IInv, Over, WriterNotify, Watching, file, reading, thread, stopping, Completed
<1>1. TypeOK'
  BY DEF TypeOK
<1>2. (HandedOverInOrder /\ DueIsCompleted /\ DoneDelivers /\ NoLostWakeup)'
  BY DEF TypeOK, HandedOverInOrder, DueIsCompleted, DoneDelivers, NoLostWakeup, CtorFirst
<1>3. (SingleJoin /\ TerminatesOnlyOnMisuse /\ CtorFirst /\ BufferOnlyInCallback)'
  BY DEF SingleJoin, TerminatesOnlyOnMisuse, CtorFirst, BufferOnlyInCallback
<1>4. (ExitAfterExchange /\ JoinedIsDone /\ SomeoneJoins /\ NoStopWhileDying)'
  BY DEF ExitAfterExchange, JoinedIsDone, SomeoneJoins, NoStopWhileDying
<1>5. QED
  BY <1>1, <1>2, <1>3, <1>4

(***************************************************************************)
(* Installing the watch preserves the invariant.                           *)
(***************************************************************************)
LEMMA CtorWatchIInv == IInv /\ ~Over /\ CtorWatch => IInv'
<1> SUFFICES ASSUME IInv, ~Over, CtorWatch PROVE IInv'
  OBVIOUS
<1> USE DEF IInv, Over, CtorWatch, file, reading, thread, stopping, Completed
<1>1. TypeOK'
  BY DEF TypeOK
<1>2. (HandedOverInOrder /\ DueIsCompleted /\ DoneDelivers /\ NoLostWakeup)'
  BY DEF TypeOK, HandedOverInOrder, DueIsCompleted, DoneDelivers, NoLostWakeup, CtorFirst,
         BufferOnlyInCallback, ExitAfterExchange
<1>3. (SingleJoin /\ TerminatesOnlyOnMisuse /\ CtorFirst /\ BufferOnlyInCallback)'
  BY DEF TypeOK, SingleJoin, TerminatesOnlyOnMisuse, CtorFirst, BufferOnlyInCallback
<1>4. (ExitAfterExchange /\ JoinedIsDone /\ SomeoneJoins /\ NoStopWhileDying)'
  BY DEF TypeOK, ExitAfterExchange, JoinedIsDone, SomeoneJoins, NoStopWhileDying, CtorFirst
<1>5. QED
  BY <1>1, <1>2, <1>3, <1>4

(***************************************************************************)
(* The initial read, which delivers or skips what the file holds,          *)
(* preserves the invariant.                                                *)
(***************************************************************************)
LEMMA CtorReadIInv == IInv /\ ~Over /\ CtorRead => IInv'
<1> SUFFICES ASSUME IInv, ~Over, CtorRead PROVE IInv'
  OBVIOUS
<1> USE DEF IInv, Over, CtorRead, Chunk, file, reading, thread, stopping, Completed
<1>1. TypeOK'
  BY DEF TypeOK
<1>2. (HandedOverInOrder /\ DueIsCompleted /\ DoneDelivers /\ NoLostWakeup)'
  BY DEF TypeOK, HandedOverInOrder, DueIsCompleted, DoneDelivers, NoLostWakeup, CtorFirst,
         BufferOnlyInCallback, ExitAfterExchange
<1>3. (SingleJoin /\ TerminatesOnlyOnMisuse /\ CtorFirst /\ BufferOnlyInCallback)'
  BY DEF TypeOK, SingleJoin, TerminatesOnlyOnMisuse, CtorFirst, BufferOnlyInCallback
<1>4. (ExitAfterExchange /\ JoinedIsDone /\ SomeoneJoins /\ NoStopWhileDying)'
  BY DEF TypeOK, ExitAfterExchange, JoinedIsDone, SomeoneJoins, NoStopWhileDying, CtorFirst
<1>5. QED
  BY <1>1, <1>2, <1>3, <1>4

(***************************************************************************)
(* At the end of the file no byte is unread.                               *)
(***************************************************************************)
LEMMA CtorEndIInv == IInv /\ ~Over /\ CtorEnd => IInv'
<1> SUFFICES ASSUME IInv, ~Over, CtorEnd PROVE IInv'
  OBVIOUS
<1> USE DEF IInv, Over, CtorEnd, file, reading, thread, stopping, Completed
<1>1. TypeOK'
  BY DEF TypeOK
<1>2. (HandedOverInOrder /\ DueIsCompleted /\ DoneDelivers /\ NoLostWakeup)'
  BY DEF TypeOK, HandedOverInOrder, DueIsCompleted, DoneDelivers, NoLostWakeup, CtorFirst,
         BufferOnlyInCallback, ExitAfterExchange
<1>3. (SingleJoin /\ TerminatesOnlyOnMisuse /\ CtorFirst /\ BufferOnlyInCallback)'
  BY DEF TypeOK, SingleJoin, TerminatesOnlyOnMisuse, CtorFirst, BufferOnlyInCallback
<1>4. (ExitAfterExchange /\ JoinedIsDone /\ SomeoneJoins /\ NoStopWhileDying)'
  BY DEF TypeOK, ExitAfterExchange, JoinedIsDone, SomeoneJoins, NoStopWhileDying, CtorFirst
<1>5. QED
  BY <1>1, <1>2, <1>3, <1>4

(***************************************************************************)
(* The worker starts with no wake-up missing: what was appended since the  *)
(* initial read has made inotify readable.                                 *)
(***************************************************************************)
LEMMA CtorStartIInv == IInv /\ ~Over /\ CtorStart => IInv'
<1> SUFFICES ASSUME IInv, ~Over, CtorStart PROVE IInv'
  OBVIOUS
<1> USE DEF IInv, Over, CtorStart, file, reading, thread, stopping, Completed
<1>1. TypeOK'
  BY DEF TypeOK
<1>2. (HandedOverInOrder /\ DueIsCompleted /\ DoneDelivers /\ NoLostWakeup)'
  BY DEF TypeOK, HandedOverInOrder, DueIsCompleted, DoneDelivers, NoLostWakeup, CtorFirst,
         BufferOnlyInCallback, ExitAfterExchange
<1>3. (SingleJoin /\ TerminatesOnlyOnMisuse /\ CtorFirst /\ BufferOnlyInCallback)'
  BY DEF TypeOK, SingleJoin, TerminatesOnlyOnMisuse, CtorFirst, BufferOnlyInCallback
<1>4. (ExitAfterExchange /\ JoinedIsDone /\ SomeoneJoins /\ NoStopWhileDying)'
  BY DEF TypeOK, ExitAfterExchange, JoinedIsDone, SomeoneJoins, NoStopWhileDying, CtorFirst
<1>5. QED
  BY <1>1, <1>2, <1>3, <1>4

(***************************************************************************)
(* A constructor that throws leaves nothing running.                       *)
(***************************************************************************)
LEMMA CtorThrowIInv == IInv /\ ~Over /\ CtorThrow => IInv'
<1> SUFFICES ASSUME IInv, ~Over, CtorThrow PROVE IInv'
  OBVIOUS
<1> USE DEF IInv, Over, CtorThrow, Chunk, Blame, file, reading, thread, stopping, Completed
<1> blame' \subseteq Faults
  BY Zenon DEF TypeOK
<1>1. TypeOK'
  BY DEF TypeOK
<1>2. (HandedOverInOrder /\ DueIsCompleted /\ DoneDelivers /\ NoLostWakeup)'
  BY DEF TypeOK, HandedOverInOrder, DueIsCompleted, DoneDelivers, NoLostWakeup, CtorFirst,
         BufferOnlyInCallback, ExitAfterExchange
<1>3. (SingleJoin /\ TerminatesOnlyOnMisuse /\ CtorFirst /\ BufferOnlyInCallback)'
  BY DEF TypeOK, SingleJoin, TerminatesOnlyOnMisuse, CtorFirst, BufferOnlyInCallback
<1>4. (ExitAfterExchange /\ JoinedIsDone /\ SomeoneJoins /\ NoStopWhileDying)'
  BY DEF TypeOK, ExitAfterExchange, JoinedIsDone, SomeoneJoins, NoStopWhileDying, CtorFirst
<1>5. QED
  BY <1>1, <1>2, <1>3, <1>4

(***************************************************************************)
(* A batch with only the exit pipe ends the worker: by NoLostWakeup        *)
(* nothing that was due is unread.                                         *)
(***************************************************************************)
LEMMA WorkerWaitIInv == IInv /\ ~Over /\ WorkerWait => IInv'
<1> SUFFICES ASSUME IInv, ~Over, WorkerWait PROVE IInv'
  OBVIOUS
<1> USE DEF IInv, Over, WorkerWait, file, reading, thread, stopping, Completed
<1>1. TypeOK'
  BY DEF TypeOK
<1>6. ASSUME "inotify" \notin ready
      PROVE  "exit" \in ready /\ ~running /\ delivered >= due
  <2>1. "exit" \in ready
    BY <1>6, Zenon DEF TypeOK
  <2>2. ~running
    BY <2>1 DEF ExitAfterExchange
  <2>3. delivered = offset
    BY DEF TypeOK, HandedOverInOrder, BufferOnlyInCallback
  <2>4. offset >= Completed
    BY <1>6 DEF TypeOK, NoLostWakeup, HandedOverInOrder
  <2>5. QED
    BY <2>1, <2>2, <2>3, <2>4 DEF TypeOK, DueIsCompleted
<1>2. (HandedOverInOrder /\ DueIsCompleted /\ DoneDelivers /\ NoLostWakeup)'
  BY <1>6 DEF TypeOK, HandedOverInOrder, DueIsCompleted, DoneDelivers, NoLostWakeup, CtorFirst,
         BufferOnlyInCallback, ExitAfterExchange
<1>3. (SingleJoin /\ TerminatesOnlyOnMisuse /\ CtorFirst /\ BufferOnlyInCallback)'
  BY DEF TypeOK, SingleJoin, TerminatesOnlyOnMisuse, CtorFirst, BufferOnlyInCallback
<1>4. (ExitAfterExchange /\ JoinedIsDone /\ SomeoneJoins /\ NoStopWhileDying)'
  BY DEF TypeOK, ExitAfterExchange, JoinedIsDone, SomeoneJoins, NoStopWhileDying, CtorFirst
<1>5. QED
  BY <1>1, <1>2, <1>3, <1>4

(***************************************************************************)
(* Draining is safe because the worker reads the file after it.            *)
(***************************************************************************)
LEMMA WorkerDrainIInv == IInv /\ ~Over /\ WorkerDrain => IInv'
<1> SUFFICES ASSUME IInv, ~Over, WorkerDrain PROVE IInv'
  OBVIOUS
<1> USE DEF IInv, Over, WorkerDrain, file, reading, thread, stopping, Completed
<1>1. TypeOK'
  BY DEF TypeOK
<1>2. (HandedOverInOrder /\ DueIsCompleted /\ DoneDelivers /\ NoLostWakeup)'
  BY DEF TypeOK, HandedOverInOrder, DueIsCompleted, DoneDelivers, NoLostWakeup, CtorFirst,
         BufferOnlyInCallback, ExitAfterExchange
<1>3. (SingleJoin /\ TerminatesOnlyOnMisuse /\ CtorFirst /\ BufferOnlyInCallback)'
  BY DEF TypeOK, SingleJoin, TerminatesOnlyOnMisuse, CtorFirst, BufferOnlyInCallback
<1>4. (ExitAfterExchange /\ JoinedIsDone /\ SomeoneJoins /\ NoStopWhileDying)'
  BY DEF TypeOK, ExitAfterExchange, JoinedIsDone, SomeoneJoins, NoStopWhileDying, CtorFirst
<1>5. QED
  BY <1>1, <1>2, <1>3, <1>4

(***************************************************************************)
(* Reading a chunk preserves the invariant.                                *)
(***************************************************************************)
LEMMA WorkerReadIInv == IInv /\ ~Over /\ WorkerRead => IInv'
<1> SUFFICES ASSUME IInv, ~Over, WorkerRead PROVE IInv'
  OBVIOUS
<1> USE DEF IInv, Over, WorkerRead, Chunk, file, reading, thread, stopping, Completed
<1>1. TypeOK'
  BY DEF TypeOK
<1>2. (HandedOverInOrder /\ DueIsCompleted /\ DoneDelivers /\ NoLostWakeup)'
  BY DEF TypeOK, HandedOverInOrder, DueIsCompleted, DoneDelivers, NoLostWakeup, CtorFirst,
         BufferOnlyInCallback, ExitAfterExchange
<1>3. (SingleJoin /\ TerminatesOnlyOnMisuse /\ CtorFirst /\ BufferOnlyInCallback)'
  BY DEF TypeOK, SingleJoin, TerminatesOnlyOnMisuse, CtorFirst, BufferOnlyInCallback
<1>4. (ExitAfterExchange /\ JoinedIsDone /\ SomeoneJoins /\ NoStopWhileDying)'
  BY DEF TypeOK, ExitAfterExchange, JoinedIsDone, SomeoneJoins, NoStopWhileDying, CtorFirst
<1>5. QED
  BY <1>1, <1>2, <1>3, <1>4

(***************************************************************************)
(* At the end of the file everything that was due is delivered.            *)
(***************************************************************************)
LEMMA WorkerEndIInv == IInv /\ ~Over /\ WorkerEnd => IInv'
<1> SUFFICES ASSUME IInv, ~Over, WorkerEnd PROVE IInv'
  OBVIOUS
<1> USE DEF IInv, Over, WorkerEnd, file, reading, thread, stopping, Completed
<1>1. TypeOK'
  BY DEF TypeOK
<1>2. (HandedOverInOrder /\ DueIsCompleted /\ DoneDelivers /\ NoLostWakeup)'
  BY DEF TypeOK, HandedOverInOrder, DueIsCompleted, DoneDelivers, NoLostWakeup, CtorFirst,
         BufferOnlyInCallback, ExitAfterExchange
<1>3. (SingleJoin /\ TerminatesOnlyOnMisuse /\ CtorFirst /\ BufferOnlyInCallback)'
  BY DEF TypeOK, SingleJoin, TerminatesOnlyOnMisuse, CtorFirst, BufferOnlyInCallback
<1>4. (ExitAfterExchange /\ JoinedIsDone /\ SomeoneJoins /\ NoStopWhileDying)'
  BY DEF TypeOK, ExitAfterExchange, JoinedIsDone, SomeoneJoins, NoStopWhileDying, CtorFirst
<1>5. QED
  BY <1>1, <1>2, <1>3, <1>4

(***************************************************************************)
(* Handing a chunk to the callback preserves the invariant.                *)
(***************************************************************************)
LEMMA WorkerCallbackIInv == IInv /\ ~Over /\ WorkerCallback => IInv'
<1> SUFFICES ASSUME IInv, ~Over, WorkerCallback PROVE IInv'
  OBVIOUS
<1> USE DEF IInv, Over, WorkerCallback, HandOver, file, reading, thread, stopping, Completed
<1>1. TypeOK'
  BY DEF TypeOK
<1>2. (HandedOverInOrder /\ DueIsCompleted /\ DoneDelivers /\ NoLostWakeup)'
  BY DEF TypeOK, HandedOverInOrder, DueIsCompleted, DoneDelivers, NoLostWakeup, CtorFirst,
         BufferOnlyInCallback, ExitAfterExchange
<1>3. (SingleJoin /\ TerminatesOnlyOnMisuse /\ CtorFirst /\ BufferOnlyInCallback)'
  BY DEF TypeOK, SingleJoin, TerminatesOnlyOnMisuse, CtorFirst, BufferOnlyInCallback
<1>4. (ExitAfterExchange /\ JoinedIsDone /\ SomeoneJoins /\ NoStopWhileDying)'
  BY DEF TypeOK, ExitAfterExchange, JoinedIsDone, SomeoneJoins, NoStopWhileDying, CtorFirst
<1>5. QED
  BY <1>1, <1>2, <1>3, <1>4

(***************************************************************************)
(* A callback that throws preserves the invariant.                         *)
(***************************************************************************)
LEMMA WorkerCallbackThrowIInv == IInv /\ ~Over /\ WorkerCallbackThrow => IInv'
<1> SUFFICES ASSUME IInv, ~Over, WorkerCallbackThrow PROVE IInv'
  OBVIOUS
<1> USE DEF IInv, Over, WorkerCallbackThrow, HandOver, Blame, file, reading, thread, stopping, Completed
<1> blame' \subseteq Faults
  BY Zenon DEF TypeOK
<1>1. TypeOK'
  BY DEF TypeOK
<1>2. (HandedOverInOrder /\ DueIsCompleted /\ DoneDelivers /\ NoLostWakeup)'
  BY DEF TypeOK, HandedOverInOrder, DueIsCompleted, DoneDelivers, NoLostWakeup, CtorFirst,
         BufferOnlyInCallback, ExitAfterExchange
<1>3. (SingleJoin /\ TerminatesOnlyOnMisuse /\ CtorFirst /\ BufferOnlyInCallback)'
  BY DEF TypeOK, SingleJoin, TerminatesOnlyOnMisuse, CtorFirst, BufferOnlyInCallback
<1>4. (ExitAfterExchange /\ JoinedIsDone /\ SomeoneJoins /\ NoStopWhileDying)'
  BY DEF TypeOK, ExitAfterExchange, JoinedIsDone, SomeoneJoins, NoStopWhileDying, CtorFirst
<1>5. QED
  BY <1>1, <1>2, <1>3, <1>4

(***************************************************************************)
(* A callback that calls stop() preserves the invariant.                   *)
(***************************************************************************)
LEMMA WorkerCallbackStopIInv == IInv /\ ~Over /\ WorkerCallbackStop => IInv'
<1> SUFFICES ASSUME IInv, ~Over, WorkerCallbackStop PROVE IInv'
  OBVIOUS
<1> USE DEF IInv, Over, WorkerCallbackStop, HandOver, Blame, file, reading, thread, stopping, Completed
<1> blame' \subseteq Faults /\ running' \in BOOLEAN
  BY Zenon DEF TypeOK
<1>1. TypeOK'
  BY DEF TypeOK
<1>2. (HandedOverInOrder /\ DueIsCompleted /\ DoneDelivers /\ NoLostWakeup)'
  BY DEF TypeOK, HandedOverInOrder, DueIsCompleted, DoneDelivers, NoLostWakeup, CtorFirst,
         BufferOnlyInCallback, ExitAfterExchange
<1>3. (SingleJoin /\ TerminatesOnlyOnMisuse /\ CtorFirst /\ BufferOnlyInCallback)'
  BY DEF TypeOK, SingleJoin, TerminatesOnlyOnMisuse, CtorFirst, BufferOnlyInCallback
<1>4. (ExitAfterExchange /\ JoinedIsDone /\ SomeoneJoins /\ NoStopWhileDying)'
  BY DEF TypeOK, ExitAfterExchange, JoinedIsDone, SomeoneJoins, NoStopWhileDying, CtorFirst
<1>5. QED
  BY <1>1, <1>2, <1>3, <1>4

(***************************************************************************)
(* A failing system call in the worker preserves the invariant.            *)
(***************************************************************************)
LEMMA WorkerFailIInv == IInv /\ ~Over /\ WorkerFail => IInv'
<1> SUFFICES ASSUME IInv, ~Over, WorkerFail PROVE IInv'
  OBVIOUS
<1> USE DEF IInv, Over, WorkerFail, Blame, file, reading, thread, stopping, Completed
<1>1. TypeOK'
  BY DEF TypeOK
<1>2. (HandedOverInOrder /\ DueIsCompleted /\ DoneDelivers /\ NoLostWakeup)'
  BY DEF TypeOK, HandedOverInOrder, DueIsCompleted, DoneDelivers, NoLostWakeup, CtorFirst,
         BufferOnlyInCallback, ExitAfterExchange
<1>3. (SingleJoin /\ TerminatesOnlyOnMisuse /\ CtorFirst /\ BufferOnlyInCallback)'
  BY DEF TypeOK, SingleJoin, TerminatesOnlyOnMisuse, CtorFirst, BufferOnlyInCallback
<1>4. (ExitAfterExchange /\ JoinedIsDone /\ SomeoneJoins /\ NoStopWhileDying)'
  BY DEF TypeOK, ExitAfterExchange, JoinedIsDone, SomeoneJoins, NoStopWhileDying, CtorFirst
<1>5. QED
  BY <1>1, <1>2, <1>3, <1>4

(***************************************************************************)
(* A thread entering stop() becomes the only one to join, or returns.      *)
(***************************************************************************)
LEMMA CallStopIInv == \A t \in Threads : IInv /\ ~Over /\ CallStop(t) => IInv'
<1> SUFFICES ASSUME NEW t \in Threads, IInv, ~Over, CallStop(t) PROVE IInv'
  OBVIOUS
<1> USE DEF IInv, Over, CallStop, StopEnter, file, reading, thread, stopping, Completed
<1> running' \in BOOLEAN
  BY Zenon
<1>1. TypeOK'
  BY DEF TypeOK
<1>2. (HandedOverInOrder /\ DueIsCompleted /\ DoneDelivers /\ NoLostWakeup)'
  BY DEF TypeOK, HandedOverInOrder, DueIsCompleted, DoneDelivers, NoLostWakeup, JoinedIsDone,
         CtorFirst
<1>3. SingleJoin'
  BY DEF TypeOK, SingleJoin, CtorFirst, JoinedIsDone
<1>4. TerminatesOnlyOnMisuse'
  BY DEF TypeOK, TerminatesOnlyOnMisuse, SomeoneJoins, NoStopWhileDying, JoinedIsDone
<1>5. (CtorFirst /\ BufferOnlyInCallback)'
  BY DEF TypeOK, CtorFirst, BufferOnlyInCallback
<1>6. (ExitAfterExchange /\ JoinedIsDone /\ NoStopWhileDying)'
  BY DEF TypeOK, ExitAfterExchange, JoinedIsDone, NoStopWhileDying, SingleJoin
<1>7. SomeoneJoins'
  BY DEF TypeOK, SomeoneJoins
<1>8. QED
  BY <1>1, <1>2, <1>3, <1>4, <1>5, <1>6, <1>7

(***************************************************************************)
(* Writing the exit byte preserves the invariant.                          *)
(***************************************************************************)
LEMMA StopWriteIInv == \A t \in Callers : IInv /\ ~Over /\ StopWrite(t) => IInv'
<1> SUFFICES ASSUME NEW t \in Callers, IInv, ~Over, StopWrite(t) PROVE IInv'
  OBVIOUS
<1> USE DEF IInv, Over, StopWrite, file, reading, thread, stopping, Completed
<1>1. TypeOK'
  BY DEF TypeOK
<1>2. (HandedOverInOrder /\ DueIsCompleted /\ DoneDelivers /\ NoLostWakeup)'
  BY DEF TypeOK, HandedOverInOrder, DueIsCompleted, DoneDelivers, NoLostWakeup, JoinedIsDone,
         CtorFirst
<1>3. SingleJoin'
  BY DEF TypeOK, SingleJoin, CtorFirst, JoinedIsDone
<1>4. TerminatesOnlyOnMisuse'
  BY DEF TypeOK, TerminatesOnlyOnMisuse, SomeoneJoins, NoStopWhileDying, JoinedIsDone
<1>5. (CtorFirst /\ BufferOnlyInCallback)'
  BY DEF TypeOK, CtorFirst, BufferOnlyInCallback
<1>6. (ExitAfterExchange /\ JoinedIsDone /\ NoStopWhileDying)'
  BY DEF TypeOK, ExitAfterExchange, JoinedIsDone, NoStopWhileDying, SingleJoin
<1>7. SomeoneJoins'
  BY DEF TypeOK, SomeoneJoins
<1>8. QED
  BY <1>1, <1>2, <1>3, <1>4, <1>5, <1>6, <1>7

(***************************************************************************)
(* Failing to write the exit byte preserves the invariant.                 *)
(***************************************************************************)
LEMMA StopWriteFailIInv == \A t \in Callers : IInv /\ ~Over /\ StopWriteFail(t) => IInv'
<1> SUFFICES ASSUME NEW t \in Callers, IInv, ~Over, StopWriteFail(t) PROVE IInv'
  OBVIOUS
<1> USE DEF IInv, Over, StopWriteFail, Blame, file, reading, thread, stopping, Completed
<1> blame' \subseteq Faults
  BY Zenon DEF TypeOK
<1>1. TypeOK'
  BY DEF TypeOK
<1>2. (HandedOverInOrder /\ DueIsCompleted /\ DoneDelivers /\ NoLostWakeup)'
  BY DEF TypeOK, HandedOverInOrder, DueIsCompleted, DoneDelivers, NoLostWakeup, JoinedIsDone,
         CtorFirst
<1>3. SingleJoin'
  BY DEF TypeOK, SingleJoin, CtorFirst, JoinedIsDone
<1>4. TerminatesOnlyOnMisuse'
  BY DEF TypeOK, TerminatesOnlyOnMisuse, SomeoneJoins, NoStopWhileDying, JoinedIsDone
<1>5. (CtorFirst /\ BufferOnlyInCallback)'
  BY DEF TypeOK, CtorFirst, BufferOnlyInCallback
<1>6. (ExitAfterExchange /\ JoinedIsDone /\ NoStopWhileDying)'
  BY DEF TypeOK, ExitAfterExchange, JoinedIsDone, NoStopWhileDying, SingleJoin
<1>7. SomeoneJoins'
  BY DEF TypeOK, SomeoneJoins
<1>8. QED
  BY <1>1, <1>2, <1>3, <1>4, <1>5, <1>6, <1>7

(***************************************************************************)
(* The join preserves the invariant.                                       *)
(***************************************************************************)
LEMMA StopJoinIInv == \A t \in Callers : IInv /\ ~Over /\ StopJoin(t) => IInv'
<1> SUFFICES ASSUME NEW t \in Callers, IInv, ~Over, StopJoin(t) PROVE IInv'
  OBVIOUS
<1> USE DEF IInv, Over, StopJoin, file, reading, thread, stopping, Completed
<1> joined' \in BOOLEAN
  BY Zenon
<1>1. TypeOK'
  BY DEF TypeOK
<1>2. (HandedOverInOrder /\ DueIsCompleted /\ DoneDelivers /\ NoLostWakeup)'
  BY DEF TypeOK, HandedOverInOrder, DueIsCompleted, DoneDelivers, NoLostWakeup, JoinedIsDone,
         CtorFirst
<1>3. SingleJoin'
  BY DEF TypeOK, SingleJoin, CtorFirst, JoinedIsDone
<1>4. TerminatesOnlyOnMisuse'
  BY DEF TypeOK, TerminatesOnlyOnMisuse, SomeoneJoins, NoStopWhileDying, JoinedIsDone
<1>5. (CtorFirst /\ BufferOnlyInCallback)'
  BY DEF TypeOK, CtorFirst, BufferOnlyInCallback
<1>6. (ExitAfterExchange /\ JoinedIsDone /\ NoStopWhileDying)'
  BY DEF TypeOK, ExitAfterExchange, JoinedIsDone, NoStopWhileDying, SingleJoin
<1>7. SomeoneJoins'
  BY DEF TypeOK, SomeoneJoins
<1>8. QED
  BY <1>1, <1>2, <1>3, <1>4, <1>5, <1>6, <1>7

(***************************************************************************)
(* Entering the destructor preserves the invariant.                        *)
(***************************************************************************)
LEMMA DestroyIInv == IInv /\ ~Over /\ Destroy => IInv'
<1> SUFFICES ASSUME IInv, ~Over, Destroy PROVE IInv'
  OBVIOUS
<1> USE DEF IInv, Over, Destroy, StopEnter, file, reading, thread, stopping, Completed
<1> running' \in BOOLEAN
  BY Zenon
<1>1. TypeOK'
  BY DEF TypeOK
<1>2. (HandedOverInOrder /\ DueIsCompleted /\ DoneDelivers /\ NoLostWakeup)'
  BY DEF TypeOK, HandedOverInOrder, DueIsCompleted, DoneDelivers, NoLostWakeup, JoinedIsDone,
         CtorFirst
<1>3. SingleJoin'
  BY DEF TypeOK, SingleJoin, CtorFirst, JoinedIsDone
<1>4. TerminatesOnlyOnMisuse'
  BY DEF TypeOK, TerminatesOnlyOnMisuse, SomeoneJoins, NoStopWhileDying, JoinedIsDone
<1>5. (CtorFirst /\ BufferOnlyInCallback)'
  BY DEF TypeOK, CtorFirst, BufferOnlyInCallback
<1>6. (ExitAfterExchange /\ JoinedIsDone /\ NoStopWhileDying)'
  BY DEF TypeOK, ExitAfterExchange, JoinedIsDone, NoStopWhileDying, SingleJoin
<1>7. SomeoneJoins'
  BY DEF TypeOK, SomeoneJoins
<1>8. QED
  BY <1>1, <1>2, <1>3, <1>4, <1>5, <1>6, <1>7

(***************************************************************************)
(* Destroying the members terminates only if nobody joined the worker.     *)
(***************************************************************************)
LEMMA DestroyMembersIInv == IInv /\ ~Over /\ DestroyMembers => IInv'
<1> SUFFICES ASSUME IInv, ~Over, DestroyMembers PROVE IInv'
  OBVIOUS
<1> USE DEF IInv, Over, DestroyMembers, file, reading, thread, stopping, Completed
<1>1. TypeOK'
  BY Zenon DEF TypeOK
<1>2. (HandedOverInOrder /\ DueIsCompleted /\ DoneDelivers /\ NoLostWakeup)'
  BY DEF TypeOK, HandedOverInOrder, DueIsCompleted, DoneDelivers, NoLostWakeup, JoinedIsDone,
         CtorFirst
<1>3. SingleJoin'
  BY DEF TypeOK, SingleJoin, CtorFirst, JoinedIsDone
<1>4. TerminatesOnlyOnMisuse'
  <2>1. ~running /\ \A t \in Callers : stop[t] \notin {"write", "join"}
    BY DEF TypeOK, ExitAfterExchange, NoStopWhileDying
  <2>2. joined \/ blame \cap {"selfstop", "write"} # {}
    BY <2>1 DEF SomeoneJoins
  <2>3. QED
    BY <2>2 DEF TerminatesOnlyOnMisuse
<1>5. (CtorFirst /\ BufferOnlyInCallback)'
  BY DEF TypeOK, CtorFirst, BufferOnlyInCallback
<1>6. (ExitAfterExchange /\ JoinedIsDone /\ NoStopWhileDying)'
  BY DEF TypeOK, ExitAfterExchange, JoinedIsDone, NoStopWhileDying, SingleJoin
<1>7. SomeoneJoins'
  BY DEF TypeOK, SomeoneJoins
<1>8. QED
  BY <1>1, <1>2, <1>3, <1>4, <1>5, <1>6, <1>7

(***************************************************************************)
(* Every step, of every process, preserves the inductive invariant.        *)
(***************************************************************************)
LEMMA NextIInv == IInv /\ [Next]_vars => IInv'
<1> SUFFICES ASSUME IInv, [Next]_vars PROVE IInv'
  OBVIOUS
<1>1. ASSUME UNCHANGED vars PROVE IInv'
  BY <1>1 DEF vars, file, reading, thread, stopping, Completed, IInv, TypeOK, HandedOverInOrder,
     NoLostWakeup, SingleJoin, TerminatesOnlyOnMisuse, CtorFirst, BufferOnlyInCallback,
     ExitAfterExchange, DueIsCompleted, DoneDelivers, JoinedIsDone, SomeoneJoins, NoStopWhileDying
<1>2. ASSUME ~Over, WriterAppend \/ WriterNotify PROVE IInv'
  BY <1>2, WriterAppendIInv, WriterNotifyIInv
<1>3. ASSUME ~Over, CtorStep PROVE IInv'
  BY <1>3, CtorWatchIInv, CtorReadIInv, CtorEndIInv, CtorStartIInv, CtorThrowIInv
     DEF CtorStep, CtorRun
<1>4. ASSUME ~Over, WorkerStep PROVE IInv'
  BY <1>4, WorkerWaitIInv, WorkerDrainIInv, WorkerReadIInv, WorkerEndIInv, WorkerCallbackIInv,
     WorkerCallbackThrowIInv, WorkerCallbackStopIInv, WorkerFailIInv DEF WorkerStep, WorkerRun
<1>5. ASSUME ~Over, NEW t \in Threads, CallStop(t) PROVE IInv'
  BY <1>5, CallStopIInv
<1>6. ASSUME ~Over, NEW t \in Callers, StopStep(t) PROVE IInv'
  BY <1>6, StopWriteIInv, StopWriteFailIInv, StopJoinIInv DEF StopStep, StopRun
<1>7. ASSUME ~Over, Destroy \/ DestroyMembers PROVE IInv'
  BY <1>7, DestroyIInv, DestroyMembersIInv
<1>8. QED
  BY <1>1, <1>2, <1>3, <1>4, <1>5, <1>6, <1>7 DEF Next

\* The invariant contains StopDelivers: a joined worker is done, and done means delivered.
LEMMA IInvImplies == IInv => StopDelivers
BY DEF IInv, StopDelivers, JoinedIsDone, DoneDelivers

(***************************************************************************)
(* Every variable stays in its range, and the strengthening that the other *)
(* theorems use holds in every reachable state.                            *)
(***************************************************************************)
THEOREM InductiveInvariance == Safe => []IInv
BY InitIInv, NextIInv, PTL DEF Safe

(***************************************************************************)
(* Type correctness.                                                       *)
(***************************************************************************)
THEOREM TypeCorrect == Safe => []TypeOK
<1>1. IInv => TypeOK
  BY DEF IInv
<1>2. QED
  BY <1>1, InductiveInvariance, PTL

(***************************************************************************)
(* The worker never sleeps over bytes whose write() has returned.          *)
(***************************************************************************)
THEOREM WakeupsAreKept == Safe => []NoLostWakeup
<1>1. IInv => NoLostWakeup
  BY DEF IInv
<1>2. QED
  BY <1>1, InductiveInvariance, PTL

(***************************************************************************)
(* Bytes are handed over in order, once, and only if they are in the file. *)
(***************************************************************************)
THEOREM InOrder == Safe => []HandedOverInOrder
<1>1. IInv => HandedOverInOrder
  BY DEF IInv
<1>2. QED
  BY <1>1, InductiveInvariance, PTL

(***************************************************************************)
(* The joining stop() returns only after all that was written before it    *)
(* was called has been delivered.                                          *)
(***************************************************************************)
THEOREM StopIsComplete == Safe => []StopDelivers
BY IInvImplies, InductiveInvariance, PTL

(***************************************************************************)
(* Any number of racing stop() calls join the worker once.                 *)
(***************************************************************************)
THEOREM JoinedOnce == Safe => []SingleJoin
<1>1. IInv => SingleJoin
  BY DEF IInv
<1>2. QED
  BY <1>1, InductiveInvariance, PTL

(***************************************************************************)
(* Destruction ends the program only after one of the named misuses.       *)
(***************************************************************************)
THEOREM SafeDestruction == Safe => []TerminatesOnlyOnMisuse
<1>1. IInv => TerminatesOnlyOnMisuse
  BY DEF IInv
<1>2. QED
  BY <1>1, InductiveInvariance, PTL

(***************************************************************************)
(* Once joined, the worker, and with it the callback, is at rest.          *)
(***************************************************************************)
THEOREM QuietOnceJoined == Safe => QuietAfterStop
<1>1. IInv /\ [Next]_vars => [joined => UNCHANGED <<delivered, filled, worker>>]_vars
  <2> SUFFICES ASSUME IInv, Next, joined
               PROVE  UNCHANGED <<delivered, filled, worker>>
    OBVIOUS
  <2>1. worker = "done" /\ ctor = "done"
    BY DEF IInv, JoinedIsDone, CtorFirst
  <2>2. QED
    BY <2>1, Zenon DEF Next, CtorStep, CtorRun, CtorWatch, CtorRead, CtorEnd, CtorStart, CtorThrow,
       WorkerStep, WorkerRun, WorkerWait, WorkerDrain, WorkerRead, WorkerEnd, HandOver, WorkerCallback,
       WorkerCallbackThrow, WorkerCallbackStop, WorkerFail, CallStop, StopEnter, StopStep, StopRun,
       StopWrite, StopWriteFail, StopJoin, Destroy, DestroyMembers, WriterAppend, WriterNotify,
       vars, file, reading, thread, stopping
<1>2. QED
  BY <1>1, InductiveInvariance, PTL DEF Safe, QuietAfterStop
-----------------------------------------------------------------------------
(***************************************************************************)
(* Refinement: the safety part of FileTail.  A step after an error maps to *)
(* Fail, to Write, to WriteReturns or to a stutter; the others one by one. *)
(***************************************************************************)
\* The trigger starts in a state where FileTail starts.
LEMMA InitRefines == Init => Tail!Init
BY DEF Init, Tail!Init, Completed, Phase

\* An append is FileTail's Write, its notification FileTail's WriteReturns.
LEMMA WriterRefines ==
  IInv /\ ~Over /\ (WriterAppend \/ WriterNotify) => Tail!Write \/ Tail!WriteReturns
<1> SUFFICES ASSUME IInv, WriterAppend \/ WriterNotify
             PROVE  Tail!Write \/ Tail!WriteReturns
  OBVIOUS
<1> USE DEF IInv, TypeOK, Completed, reading, thread, stopping
<1>1. UNCHANGED Phase
  BY DEF WriterAppend, WriterNotify, Phase
<1>2. CASE WriterAppend
  BY <1>1, <1>2 DEF WriterAppend, Tail!Write
<1>3. CASE WriterNotify
  BY <1>1, <1>3 DEF WriterNotify, Tail!WriteReturns
<1>4. QED
  BY <1>2, <1>3

\* A constructor step delivers, skips, opens or fails, or does nothing visible.
LEMMA CtorRefines ==
  IInv /\ ~Over /\ CtorStep =>
    Tail!Skip \/ Tail!Deliver \/ Tail!Open \/ Tail!Fail \/ UNCHANGED Tail!vars
<1> SUFFICES ASSUME IInv, CtorStep
             PROVE  Tail!Skip \/ Tail!Deliver \/ Tail!Open \/ Tail!Fail \/ UNCHANGED Tail!vars
  OBVIOUS
<1> USE DEF IInv, TypeOK, Completed, file, reading, thread, stopping, HandedOverInOrder
<1>1. CASE CtorWatch \/ CtorEnd
  BY <1>1 DEF CtorWatch, CtorEnd, Phase, Tail!vars
<1>2. CASE CtorRead
  <2>1. delivered = offset
    BY <1>2 DEF CtorRead, CtorFirst, BufferOnlyInCallback
  <2>2. CASE blame # {}
    BY <1>2, <2>1, <2>2 DEF CtorRead, Chunk, Phase, Tail!Fail
  <2>3. CASE blame = {} /\ Sow
    BY <1>2, <2>1, <2>3 DEF CtorRead, Chunk, Phase, Tail!Deliver
  <2>4. CASE blame = {} /\ ~Sow
    BY <1>2, <2>1, <2>4 DEF CtorRead, Chunk, Phase, Tail!Skip
  <2>5. QED
    BY <2>2, <2>3, <2>4
<1>3. CASE CtorStart
  BY <1>3 DEF CtorStart, Phase, CtorFirst, Tail!Open, Tail!vars
<1>4. CASE CtorThrow
  <2>1. delivered = offset
    BY <1>4 DEF CtorThrow, CtorFirst, BufferOnlyInCallback
  <2>2. Phase' = "failed"
    BY <1>4 DEF CtorThrow, Phase, Blame
  <2>3. QED
    BY <1>4, <2>1, <2>2 DEF CtorThrow, Chunk, Tail!Fail
<1>5. QED
  BY <1>1, <1>2, <1>3, <1>4 DEF CtorStep, CtorRun

\* A worker step delivers bytes of the file, fails, or does nothing visible.
LEMMA WorkerRefines ==
  IInv /\ ~Over /\ WorkerStep => Tail!Deliver \/ Tail!Fail \/ UNCHANGED Tail!vars
<1> SUFFICES ASSUME IInv, WorkerStep
             PROVE  Tail!Deliver \/ Tail!Fail \/ UNCHANGED Tail!vars
  OBVIOUS
<1> USE DEF IInv, TypeOK, Completed, file, reading, thread, stopping, HandedOverInOrder
<1>1. CASE WorkerWait \/ WorkerDrain \/ WorkerRead \/ WorkerEnd
  BY <1>1 DEF WorkerWait, WorkerDrain, WorkerRead, WorkerEnd, Phase, Tail!vars
<1>2. CASE WorkerCallback
  <2>1. UNCHANGED Phase
    BY <1>2 DEF WorkerCallback, Phase
  <2>2. filled = 0 => UNCHANGED Tail!vars
    BY <1>2, <2>1 DEF WorkerCallback, HandOver, Tail!vars
  <2>3. blame = {} => Phase \in {"open", "closing"}
    BY <1>2 DEF WorkerCallback, HandOver, Phase, CtorFirst, JoinedIsDone
  <2>4. blame = {} /\ filled > 0 => Tail!Deliver
    BY <1>2, <2>1, <2>3 DEF WorkerCallback, HandOver, Tail!Deliver
  <2>5. blame # {} => Tail!Fail
    BY <1>2, <2>1 DEF WorkerCallback, HandOver, Phase, Tail!Fail
  <2>6. QED
    BY <2>2, <2>4, <2>5
<1>3. CASE WorkerCallbackThrow \/ WorkerCallbackStop
  <2>1. Phase' = "failed"
    BY <1>3 DEF WorkerCallbackThrow, WorkerCallbackStop, Phase, Blame
  <2>2. HandOver /\ UNCHANGED <<size, unnotified, due>>
    BY <1>3 DEF WorkerCallbackThrow, WorkerCallbackStop
  <2>3. QED
    BY <2>1, <2>2 DEF HandOver, Tail!Fail
<1>4. CASE WorkerFail
  <2>1. Phase' = "failed"
    BY <1>4 DEF WorkerFail, Phase, Blame
  <2>2. QED
    BY <1>4, <2>1 DEF WorkerFail, Tail!Fail
<1>5. QED
  BY <1>1, <1>2, <1>3, <1>4 DEF WorkerStep, WorkerRun

\* Entering stop() is FileTail's Stop for the winner and nothing for the others.
LEMMA EnterRefines ==
  ASSUME NEW t \in Callers, IInv, ctor = "done", StopEnter(t)
  PROVE  Tail!Stop \/ Tail!Fail \/ UNCHANGED Tail!vars
<1> USE DEF IInv, TypeOK, Completed, file, reading, thread, HandedOverInOrder
<1>1. CASE ~running
  BY <1>1 DEF StopEnter, Phase, Tail!vars
<1>2. CASE running /\ blame = {}
  BY <1>2 DEF StopEnter, Phase, JoinedIsDone, Tail!Stop
<1>3. CASE running /\ blame # {}
  BY <1>3 DEF StopEnter, Phase, Tail!Fail
<1>4. QED
  BY <1>1, <1>2, <1>3

\* The rest of stop() is FileTail's Close when it joins: what was due is delivered.
LEMMA StopRefines ==
  ASSUME NEW t \in Callers, IInv, StopStep(t)
  PROVE  Tail!Close \/ Tail!Fail \/ UNCHANGED Tail!vars
<1> USE DEF IInv, TypeOK, Completed, file, reading, thread, HandedOverInOrder
<1>1. CASE StopWrite(t)
  BY <1>1 DEF StopWrite, Phase, Tail!vars
<1>2. CASE StopWriteFail(t)
  <2>1. Phase' = "failed"
    BY <1>2 DEF StopWriteFail, Phase, Blame
  <2>2. QED
    BY <1>2, <2>1 DEF StopWriteFail, Tail!Fail
<1>3. CASE StopJoin(t)
  <2>1. ctor = "done" /\ ~running /\ ~joined
    BY <1>3 DEF StopJoin, CtorFirst, SingleJoin
  <2>2. CASE blame = {}
    <3>1. Phase = "closing" /\ Phase' = "closed"
      BY <1>3, <2>1, <2>2 DEF StopJoin, Phase
    <3>2. delivered >= due
      BY <1>3, <2>2 DEF StopJoin, DoneDelivers
    <3>3. QED
      BY <1>3, <3>1, <3>2 DEF StopJoin, Tail!Close
  <2>3. CASE blame # {}
    BY <1>3, <2>3 DEF StopJoin, Phase, Tail!vars
  <2>4. QED
    BY <2>2, <2>3
<1>4. QED
  BY <1>1, <1>2, <1>3 DEF StopStep, StopRun

(***************************************************************************)
(* FileTriggerLinux implements the safety part of FileTail, the promise of *)
(* file_trigger: in particular its stop() is complete.                     *)
(***************************************************************************)
THEOREM Refinement == Safe => Tail!Safe
<1>1. IInv /\ [Next]_vars => [Tail!Next]_(Tail!vars)
  <2> SUFFICES ASSUME IInv, [Next]_vars PROVE [Tail!Next]_(Tail!vars)
    OBVIOUS
  <2> USE DEF Tail!Next
  <2>1. ASSUME UNCHANGED vars PROVE UNCHANGED Tail!vars
    BY <2>1 DEF vars, file, reading, stopping, Tail!vars, Completed, Phase
  <2>2. ASSUME ~Over, WriterAppend \/ WriterNotify PROVE Tail!Next
    BY <2>2, WriterRefines
  <2>3. ASSUME ~Over, CtorStep PROVE [Tail!Next]_(Tail!vars)
    BY <2>3, CtorRefines
  <2>4. ASSUME ~Over, WorkerStep PROVE [Tail!Next]_(Tail!vars)
    BY <2>4, WorkerRefines
  <2>5. ASSUME NEW t \in Threads, CallStop(t) PROVE [Tail!Next]_(Tail!vars)
    BY <2>5, EnterRefines DEF CallStop
  <2>6. ASSUME NEW t \in Callers, StopStep(t) PROVE [Tail!Next]_(Tail!vars)
    BY <2>6, StopRefines
  <2>7. ASSUME Destroy PROVE [Tail!Next]_(Tail!vars)
    BY <2>7, EnterRefines DEF Destroy
  <2>8. ASSUME DestroyMembers PROVE UNCHANGED Tail!vars
    BY <2>8 DEF DestroyMembers, file, reading, stopping, Tail!vars, Completed, Phase
  <2>9. QED
    BY <2>1, <2>2, <2>3, <2>4, <2>5, <2>6, <2>7, <2>8 DEF Next
<1>2. QED
  BY <1>1, InitRefines, InductiveInvariance, PTL DEF Safe, Tail!Safe
=============================================================================
