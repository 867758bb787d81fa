------------------------------ MODULE FileTail ------------------------------
(***************************************************************************)
(* What a file_trigger promises to the program that created it, without    *)
(* inotify, epoll, pipes or threads.  A byte is known by its offset in the *)
(* watched file: the callback has received the bytes from + 1 .. delivered *)
(* and nothing else, because it is handed the file in order.               *)
(*                                                                         *)
(* The promise is in Close: the stop() that ends the watch returns only    *)
(* once every byte whose write() had returned before that stop() was       *)
(* called has been handed to the callback.  A trigger that met an error    *)
(* (a throwing callback, a failing system call) promises nothing more.     *)
(***************************************************************************)
EXTENDS Naturals

CONSTANT Sow          \* TRUE: the bytes the file already held are delivered too

VARIABLES
  size,               \* bytes in the watched file
  completed,          \* bytes whose write() has returned
  from,               \* offset after which delivery starts
  delivered,          \* offset of the last byte handed to the callback
  phase,              \* "opening", "open", "closing", "closed" or "failed"
  due                 \* what completed was when stop() was called

vars == <<size, completed, from, delivered, phase, due>>

Init ==
  /\ size \in Nat
  /\ completed = size
  /\ from \in 0..size
  /\ delivered = from
  /\ phase = "opening"
  /\ due = 0

\* Another process appends: the bytes become visible ...
Write ==
  /\ size' \in Nat
  /\ size' > size
  /\ UNCHANGED <<completed, from, delivered, phase, due>>

\* ... and some time later its write() returns.
WriteReturns ==
  /\ completed' = size
  /\ UNCHANGED <<size, from, delivered, phase, due>>

\* Without Sow the factory skips what the file holds.
Skip ==
  /\ phase = "opening"
  /\ ~Sow
  /\ \E n \in (delivered + 1)..size : delivered' = n /\ from' = n
  /\ UNCHANGED <<size, completed, phase, due>>

\* The callback runs.  With Sow it may run before the factory has returned.
Deliver ==
  /\ \/ phase \in {"open", "closing"}
     \/ phase = "opening" /\ Sow
  /\ delivered' \in (delivered + 1)..size
  /\ UNCHANGED <<size, completed, from, phase, due>>

\* The factory returns the trigger.
Open ==
  /\ phase = "opening"
  /\ phase' = "open"
  /\ UNCHANGED <<size, completed, from, delivered, due>>

\* The first stop(), explicit or from the destructor, begins ...
Stop ==
  /\ phase = "open"
  /\ phase' = "closing"
  /\ due' = completed
  /\ UNCHANGED <<size, completed, from, delivered>>

\* ... and returns: nothing written before it is missing.
Close ==
  /\ phase = "closing"
  /\ delivered >= due
  /\ phase' = "closed"
  /\ UNCHANGED <<size, completed, from, delivered, due>>

\* An error ends the promise.  The trigger may still run for a while and hand
\* over bytes that are in the file, or not.
Fail ==
  /\ phase' = "failed"
  /\ \E n \in delivered..size : delivered' = n /\ from' \in from..n
  /\ UNCHANGED <<size, completed>>
  /\ due' \in Nat

Next ==
  \/ Write \/ WriteReturns \/ Skip \/ Deliver \/ Open \/ Stop \/ Close \/ Fail

Safe == Init /\ [][Next]_vars

\* A byte whose write() returned while the trigger is open is not left behind.
Spec ==
  /\ Safe
  /\ WF_vars(Deliver /\ delivered < completed)
  /\ WF_vars(Close)
=============================================================================
