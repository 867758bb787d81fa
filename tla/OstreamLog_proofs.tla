------------------------- MODULE OstreamLog_proofs -------------------------
(***************************************************************************)
(* Proofs about OstreamLog, for every finite set of threads that log,      *)
(* every throttle and every number of log calls.                           *)
(***************************************************************************)
EXTENDS OstreamLog, FiniteSetTheorems, SequenceTheorems, TLAPS

\* The sink starts with an empty queue, held by its Logger only.
LEMMA InitIInv == Init => IInv
<1> SUFFICES ASSUME Init PROVE IInv
  OBVIOUS
<1> USE SinkAssumption DEF Init, Holders
<1>1. TypeOK
  BY DEF TypeOK
<1>2. WorkerFollows /\ OneNullopt /\ OneStopper /\ LastReference
  BY DEF WorkerFollows, OneNullopt, OneStopper, LastReference, InStop
<1>3. InFlight = {}
  BY DEF InFlight
<1>4. FlightBound
  BY <1>3, FS_EmptySet, FS_CardinalityType DEF FlightBound, Size
<1>5. QED
  BY <1>1, <1>2, <1>4 DEF IInv

\* The threads between the throttle test and emplace() are finitely many.
LEMMA FlightCardinality ==
  ASSUME TypeOK
  PROVE  /\ IsFiniteSet(InFlight)
         /\ Cardinality(InFlight) \in Nat
         /\ Cardinality(Threads) \in Nat
         /\ Cardinality(InFlight) <= Cardinality(Threads)
<1>1. InFlight \subseteq Threads
  BY DEF InFlight
<1>2. QED
  BY <1>1, SinkAssumption, FS_Subset, FS_CardinalityType

\* What the invariant says of the worker and of the queue depends on these variables only.
LEMMA QueueKept ==
  ASSUME WorkerFollows, OneNullopt, UNCHANGED <<entries, ticket, written, worker, closedAt>>
  PROVE  (WorkerFollows /\ OneNullopt)'
BY DEF WorkerFollows, OneNullopt

\* So does the bound, with the threads that have passed the throttle.
LEMMA FlightKept ==
  ASSUME FlightBound, InFlight' = InFlight, UNCHANGED <<entries, ticket, closedAt, throttle, peak>>
  PROVE  FlightBound'
BY DEF FlightBound, Size

\* So does what it says of stop() and of the references.
LEMMA StopKept ==
  ASSUME OneStopper, LastReference,
         UNCHANGED <<running, stopper, closedAt, entries, target, pc, kind, refs, worker, process>>
  PROVE  (OneStopper /\ LastReference)'
<1>1. OneStopper'
  BY DEF OneStopper
<1>2. LastReference'
  BY DEF LastReference
<1>3. QED
  BY <1>1, <1>2

\* Taking the next ticket preserves the invariant.
LEMMA WorkerTicketIInv == ASSUME IInv, ~Over, WorkerTicket PROVE IInv'
<1> USE SinkAssumption DEF IInv, Over, WorkerTicket, Goto, Size, Holders, queue, consumer, life, limits, caller
<1>1. TypeOK'
  BY DEF TypeOK, WorkerFollows
<1>2. (WorkerFollows /\ OneNullopt)'
  BY DEF TypeOK, WorkerFollows, OneNullopt
<1>3. OneStopper'
  BY DEF TypeOK, OneStopper
<1>4. LastReference'
  BY DEF TypeOK, LastReference, OneStopper, InStop
<1>5. FlightBound'
  <2>1. InFlight' = InFlight
    BY DEF InFlight
  <2>2. Size \in Int /\ Size' = Size - 1 /\ UNCHANGED <<closedAt, throttle, peak>>
    BY DEF TypeOK
  <2>3. peak \in Int /\ Cardinality(InFlight) \in Int /\ Cardinality(Threads) \in Int
    BY FlightCardinality DEF TypeOK
  <2>4. FlightBound
    OBVIOUS
  <2> HIDE SinkAssumption DEF IInv, WorkerTicket, Size
  <2>5. QED
    BY <2>1, <2>2, <2>3, <2>4 DEF FlightBound
<1>6. QED
  BY <1>1, <1>2, <1>3, <1>4, <1>5

\* A popped item is a line, or Nullopt and then the only one.
LEMMA WorkerPopIInv == ASSUME IInv, ~Over, WorkerPop PROVE IInv'
<1> USE SinkAssumption DEF IInv, Over, WorkerPop, Goto, Size, Holders, queue, consumer, life, limits, caller
<1>1. TypeOK'
  BY DEF TypeOK
<1>2. (WorkerFollows /\ OneNullopt)'
  BY DEF TypeOK, WorkerFollows, OneNullopt
<1>3. OneStopper'
  BY DEF TypeOK, OneStopper
<1>4. LastReference'
  BY DEF TypeOK, LastReference, OneStopper, InStop
<1>5. FlightBound'
  <2>1. InFlight' = InFlight
    BY DEF TypeOK, InFlight
  <2>2. FlightBound /\ UNCHANGED <<entries, ticket, closedAt, throttle, peak>>
    OBVIOUS
  <2>3. QED
    BY ONLY <2>1, <2>2, FlightKept
<1>6. QED
  BY <1>1, <1>2, <1>3, <1>4, <1>5

\* Writing the popped line extends the prefix of entries.
LEMMA WorkerWriteIInv == ASSUME IInv, ~Over, WorkerWrite PROVE IInv'
<1> USE SinkAssumption DEF IInv, Over, WorkerWrite, Goto, Size, Holders, queue, consumer, life, limits, caller
<1>1. TypeOK'
  <2>1. entries[ticket] \in Threads
    BY DEF TypeOK, WorkerFollows
  <2>2. QED
    BY <2>1 DEF TypeOK
<1>2. (WorkerFollows /\ OneNullopt)'
  BY DEF TypeOK, WorkerFollows, OneNullopt
<1>3. OneStopper'
  BY DEF TypeOK, OneStopper
<1>4. LastReference'
  BY DEF TypeOK, LastReference, OneStopper, InStop
<1>5. FlightBound'
  <2>1. InFlight' = InFlight
    BY DEF TypeOK, InFlight
  <2>2. FlightBound /\ UNCHANGED <<entries, ticket, closedAt, throttle, peak>>
    OBVIOUS
  <2>3. QED
    BY ONLY <2>1, <2>2, FlightKept
<1>6. QED
  BY <1>1, <1>2, <1>3, <1>4, <1>5

\* A log call that locks the weak_ptr preserves the invariant.
LEMMA CallIInv ==
  ASSUME NEW t \in Threads, IInv, ~Over, Call(t)
  PROVE  IInv'
<1> USE SinkAssumption DEF IInv, Over, Call, Goto, Size, Holders, queue, consumer, life, limits, caller
<1>1. TypeOK'
  BY DEF TypeOK
<1>2. (WorkerFollows /\ OneNullopt)'
  <2>1. WorkerFollows /\ OneNullopt /\ UNCHANGED <<entries, ticket, written, worker, closedAt>>
    OBVIOUS
  <2>2. QED
    BY ONLY <2>1, QueueKept
<1>3. OneStopper'
  BY DEF TypeOK, OneStopper
<1>4. LastReference'
  BY DEF TypeOK, LastReference, OneStopper, InStop
<1>5. FlightBound'
  <2>1. InFlight' = InFlight
    BY DEF TypeOK, InFlight
  <2>2. FlightBound /\ UNCHANGED <<entries, ticket, closedAt, throttle, peak>>
    OBVIOUS
  <2>3. QED
    BY ONLY <2>1, <2>2, FlightKept
<1>6. QED
  BY <1>1, <1>2, <1>3, <1>4, <1>5

\* Dropping a line preserves the invariant.
LEMMA PushDropIInv ==
  ASSUME NEW t \in Threads, IInv, ~Over, PushDrop(t)
  PROVE  IInv'
<1> USE SinkAssumption DEF IInv, Over, PushDrop, Goto, Size, Holders, queue, consumer, life, limits, caller
<1>1. TypeOK'
  BY DEF TypeOK
<1>2. (WorkerFollows /\ OneNullopt)'
  <2>1. WorkerFollows /\ OneNullopt /\ UNCHANGED <<entries, ticket, written, worker, closedAt>>
    OBVIOUS
  <2>2. QED
    BY ONLY <2>1, QueueKept
<1>3. OneStopper'
  BY DEF TypeOK, OneStopper
<1>4. LastReference'
  BY DEF TypeOK, LastReference, OneStopper, InStop
<1>5. FlightBound'
  <2>1. InFlight' = InFlight
    BY DEF TypeOK, InFlight
  <2>2. FlightBound /\ UNCHANGED <<entries, ticket, closedAt, throttle, peak>>
    OBVIOUS
  <2>3. QED
    BY ONLY <2>1, <2>2, FlightKept
<1>6. QED
  BY <1>1, <1>2, <1>3, <1>4, <1>5

\* Passing the throttle preserves the invariant: the queue is within it now.
LEMMA PushPassIInv ==
  ASSUME NEW t \in Threads, IInv, ~Over, PushPass(t)
  PROVE  IInv'
<1> USE SinkAssumption DEF IInv, Over, PushPass, Goto, Size, Holders, queue, consumer, life, limits, caller
<1>1. TypeOK'
  BY DEF TypeOK
<1>2. (WorkerFollows /\ OneNullopt)'
  <2>1. WorkerFollows /\ OneNullopt /\ UNCHANGED <<entries, ticket, written, worker, closedAt>>
    OBVIOUS
  <2>2. QED
    BY ONLY <2>1, QueueKept
<1>3. OneStopper'
  BY DEF TypeOK, OneStopper
<1>4. LastReference'
  BY DEF TypeOK, LastReference, OneStopper, InStop
<1>5. FlightBound'
  <2>1. t \notin InFlight /\ InFlight' = InFlight \cup {t}
    BY DEF TypeOK, InFlight
  <2>2. Cardinality(InFlight') = Cardinality(InFlight) + 1
    <3>1. TypeOK
      OBVIOUS
    <3>2. QED
      BY ONLY <2>1, <3>1, FlightCardinality, FS_AddElement
  <2>3. Cardinality(InFlight') <= Cardinality(Threads)
    BY <1>1, <2>1, SinkAssumption, FS_Subset DEF InFlight
  <2>4. /\ throttle' = throttle /\ peak' = peak /\ Size' = Size /\ closedAt' = closedAt
        /\ Size <= throttle /\ throttle <= peak
    BY DEF FlightBound
  <2>5. throttle \in Int /\ peak \in Int /\ Size \in Int
    BY DEF TypeOK
  <2>6. Cardinality(InFlight') \in Nat /\ Cardinality(Threads) \in Nat
    BY <2>2, FlightCardinality
  <2>7. QED
    BY <2>3, <2>4, <2>5, <2>6 DEF FlightBound
<1>6. QED
  BY <1>1, <1>2, <1>3, <1>4, <1>5

\* Accepting a line preserves the invariant.
LEMMA PushEmplaceIInv ==
  ASSUME NEW t \in Threads, IInv, ~Over, PushEmplace(t)
  PROVE  IInv'
<1> USE SinkAssumption DEF IInv, Over, PushEmplace, Goto, Size, Holders, queue, consumer, life, limits, caller
<1>1. TypeOK'
  BY DEF TypeOK
<1>2. (WorkerFollows /\ OneNullopt)'
  <2>1. WorkerFollows'
    BY DEF TypeOK, WorkerFollows
  <2>2. OneNullopt'
    BY DEF TypeOK, OneNullopt
  <2>3. QED
    BY <2>1, <2>2
<1>3. OneStopper'
  BY DEF TypeOK, OneStopper
<1>4. LastReference'
  BY DEF TypeOK, LastReference, OneStopper, InStop
<1>5. FlightBound'
  <2>1. t \in InFlight /\ InFlight' = InFlight \ {t}
    BY DEF TypeOK, InFlight
  <2>2. Cardinality(InFlight') = Cardinality(InFlight) - 1
    <3>1. TypeOK
      OBVIOUS
    <3>2. QED
      BY ONLY <2>1, <3>1, FlightCardinality, FS_RemoveElement
  <2>3. Size \in Int /\ Size' = Size + 1 /\ UNCHANGED <<closedAt, throttle, peak>>
    BY DEF TypeOK
  <2>4. peak \in Int /\ Cardinality(InFlight) \in Int /\ Cardinality(Threads) \in Int
    BY FlightCardinality DEF TypeOK
  <2>5. FlightBound
    OBVIOUS
  <2> HIDE SinkAssumption DEF IInv, PushEmplace, Size
  <2>6. QED
    BY <2>2, <2>3, <2>4, <2>5 DEF FlightBound
<1>6. QED
  BY <1>1, <1>2, <1>3, <1>4, <1>5

\* Aborting preserves the invariant.
LEMMA PushAbortIInv ==
  ASSUME NEW t \in Threads, IInv, ~Over, PushAbort(t)
  PROVE  IInv'
<1> USE SinkAssumption DEF IInv, Over, PushAbort, Goto, Size, Holders, queue, consumer, life, limits, caller
<1>1. TypeOK'
  BY DEF TypeOK
<1>2. (WorkerFollows /\ OneNullopt)'
  <2>1. WorkerFollows /\ OneNullopt /\ UNCHANGED <<entries, ticket, written, worker, closedAt>>
    OBVIOUS
  <2>2. QED
    BY ONLY <2>1, QueueKept
<1>3. OneStopper'
  BY DEF TypeOK, OneStopper
<1>4. LastReference'
  BY DEF TypeOK, LastReference, OneStopper, InStop
<1>5. FlightBound'
  <2>1. InFlight' = InFlight
    BY DEF TypeOK, InFlight
  <2>2. FlightBound /\ UNCHANGED <<entries, ticket, closedAt, throttle, peak>>
    OBVIOUS
  <2>3. QED
    BY ONLY <2>1, <2>2, FlightKept
<1>6. QED
  BY <1>1, <1>2, <1>3, <1>4, <1>5

\* Releasing a reference preserves the invariant: the last one finds _running TRUE.
LEMMA ReleaseIInv ==
  ASSUME NEW t \in Holders, IInv, ~Over, Release(t)
  PROVE  IInv'
<1> USE SinkAssumption DEF IInv, Over, Release, Goto, Size, Holders, queue, consumer, life, limits, caller
<1>1. TypeOK'
  BY DEF TypeOK
<1>2. (WorkerFollows /\ OneNullopt)'
  <2>1. WorkerFollows /\ OneNullopt /\ UNCHANGED <<entries, ticket, written, worker, closedAt>>
    OBVIOUS
  <2>2. QED
    BY ONLY <2>1, QueueKept
<1>3. OneStopper'
  BY DEF TypeOK, OneStopper
<1>4. LastReference'
  <2>1. CASE refs # {t}
    <3>1. refs' # {} /\ pc'[t] = "idle"
      BY <2>1 DEF TypeOK, LastReference
    <3>2. QED
      BY <2>1, <3>1 DEF TypeOK, LastReference, InStop
  <2>2. CASE refs = {t}
    <3>1. pc[t] = "release" /\ pc'[t] = "stop" /\ kind'[t] = "line" /\ refs' = {}
      BY <2>2 DEF TypeOK
    <3>2. /\ pc \in [Holders -> {"idle", "check", "emplace", "release",
                                "stop", "sentinel", "join", "stopped"}]
          /\ kind \in [Holders -> {"line", "terminate"}]
          /\ stopper \in Holders \cup {Nullopt}
          /\ OneStopper /\ LastReference
      BY DEF TypeOK
    <3>3. \A u \in Holders : u # t => pc[u] = "idle"
      BY ONLY <2>2, <3>2 DEF LastReference, InStop
    <3>4. stopper = Nullopt
      BY ONLY <3>1, <3>2, <3>3 DEF OneStopper
    <3>5. running /\ closedAt = 0
      BY ONLY <3>2, <3>4 DEF OneStopper
    <3>6. QED
      BY <2>2, <3>1, <3>3, <3>4, <3>5 DEF TypeOK, LastReference, InStop
  <2>3. QED
    BY <2>1, <2>2
<1>5. FlightBound'
  <2>1. InFlight' = InFlight
    BY DEF TypeOK, InFlight
  <2>2. FlightBound /\ UNCHANGED <<entries, ticket, closedAt, throttle, peak>>
    OBVIOUS
  <2>3. QED
    BY ONLY <2>1, <2>2, FlightKept
<1>6. QED
  BY <1>1, <1>2, <1>3, <1>4, <1>5

\* Entering stop() preserves the invariant.
LEMMA StopEnterIInv ==
  ASSUME NEW t \in Holders, IInv, ~Over, StopEnter(t)
  PROVE  IInv'
<1> USE SinkAssumption DEF IInv, Over, StopEnter, Goto, Size, Holders, queue, consumer, life, limits, caller
<1>1. TypeOK'
  <2>1. /\ TypeOK /\ running' = FALSE /\ t \in Holders
        /\ UNCHANGED <<entries, written, closedAt, ticket, worker, target, process,
                       throttle, peak, refs, kind, calls, at>>
    OBVIOUS
  <2>2. stopper' \in Holders \cup {Nullopt}
    BY Zenon DEF TypeOK
  <2>3. pc' \in [Holders -> {"idle", "check", "emplace", "release",
                             "stop", "sentinel", "join", "stopped"}]
    BY DEF TypeOK
  <2>4. QED
    BY ONLY <2>1, <2>2, <2>3, Zenon DEF TypeOK
<1>2. (WorkerFollows /\ OneNullopt)'
  <2>1. WorkerFollows /\ OneNullopt /\ UNCHANGED <<entries, ticket, written, worker, closedAt>>
    OBVIOUS
  <2>2. QED
    BY ONLY <2>1, QueueKept
<1>3. OneStopper'
  BY DEF TypeOK, OneStopper
<1>4. LastReference'
  <2>1. /\ pc \in [Holders -> {"idle", "check", "emplace", "release",
                              "stop", "sentinel", "join", "stopped"}]
        /\ pc[t] = "stop" /\ UNCHANGED <<refs, kind, process, closedAt, entries>>
        /\ process = "up" /\ Owner \in Holders
    BY DEF TypeOK
  <2>2. LastReference
    OBVIOUS
  <2>3. CASE running
    <3>1. stopper' = t /\ pc' = [pc EXCEPT ![t] = "sentinel"]
      BY <2>3
    <3>2. \A u \in Holders : pc[u] # "stopped"
      BY <2>3 DEF OneStopper
    <3>3. kind[t] \in {"line", "terminate"}
      BY DEF TypeOK
    <3> HIDE SinkAssumption DEF IInv, StopEnter, Size, Holders
    <3>4. /\ kind[t] = "terminate" => t \in refs
          /\ kind[t] = "line" =>
               refs = {} /\ \A u \in Holders : pc[u] = "stop" /\ kind[u] = "line" => u = t
      BY <2>1, <2>2 DEF LastReference, InStop
    <3>5. QED
      BY <2>1, <2>2, <3>1, <3>2, <3>3, <3>4 DEF LastReference, InStop
  <2>4. CASE ~running
    <3>1. stopper' = stopper /\ pc' = [pc EXCEPT ![t] = "stopped"]
      BY <2>4, Zenon
    <3>2. \A u \in Holders : pc[u] = "stop" => kind[u] # "line"
      BY ONLY <2>2, <2>4 DEF LastReference
    <3>3. QED
      BY ONLY <2>1, <2>2, <3>1, <3>2, t \in Holders DEF LastReference, InStop
  <2>5. QED
    BY <2>3, <2>4
<1>5. FlightBound'
  <2>1. InFlight' = InFlight
    BY DEF TypeOK, InFlight
  <2>2. FlightBound /\ UNCHANGED <<entries, ticket, closedAt, throttle, peak>>
    OBVIOUS
  <2>3. QED
    BY ONLY <2>1, <2>2, FlightKept
<1>6. QED
  BY <1>1, <1>2, <1>3, <1>4, <1>5

\* Putting Nullopt in the queue preserves the invariant.
LEMMA StopSentinelIInv ==
  ASSUME NEW t \in Holders, IInv, ~Over, StopSentinel(t)
  PROVE  IInv'
<1> USE SinkAssumption DEF IInv, Over, StopSentinel, Goto, Size, Holders, queue, consumer, life, limits, caller
<1>1. TypeOK'
  BY DEF TypeOK
<1>2. (WorkerFollows /\ OneNullopt)'
  BY DEF TypeOK, WorkerFollows, OneNullopt, OneStopper
<1>3. OneStopper'
  BY DEF TypeOK, OneStopper
<1>4. LastReference'
  <2>1. /\ pc \in [Holders -> {"idle", "check", "emplace", "release",
                              "stop", "sentinel", "join", "stopped"}]
        /\ pc[t] = "sentinel" /\ pc' = [pc EXCEPT ![t] = "join"]
        /\ UNCHANGED <<refs, kind, running, stopper, process>> /\ process = "up"
    BY DEF TypeOK
  <2>2. closedAt' = Len(entries')
    BY DEF TypeOK, OneStopper
  <2>3. LastReference
    OBVIOUS
  <2>4. Owner \in Holders
    OBVIOUS
  <2> HIDE SinkAssumption DEF IInv, StopSentinel, Size, Holders
  <2>5. QED
    BY <2>1, <2>2, <2>3, <2>4 DEF LastReference, InStop
<1>5. FlightBound'
  <2>1. InFlight' = InFlight
    BY DEF TypeOK, InFlight
  <2>2. closedAt = 0 /\ closedAt' # 0
    BY DEF TypeOK, OneStopper
  <2>3. Size \in Int /\ Size' = Size + 1 /\ UNCHANGED <<throttle, peak>>
    BY DEF TypeOK
  <2>4. peak \in Int /\ Cardinality(InFlight) \in Int /\ Cardinality(Threads) \in Int
    BY FlightCardinality DEF TypeOK
  <2>5. FlightBound
    OBVIOUS
  <2> HIDE SinkAssumption DEF IInv, StopSentinel, Size
  <2>6. QED
    BY <2>1, <2>2, <2>3, <2>4, <2>5 DEF FlightBound
<1>6. QED
  BY <1>1, <1>2, <1>3, <1>4, <1>5

\* Joining the worker preserves the invariant.
LEMMA StopJoinIInv ==
  ASSUME NEW t \in Holders, IInv, ~Over, StopJoin(t)
  PROVE  IInv'
<1> USE SinkAssumption DEF IInv, Over, StopJoin, Goto, Size, Holders, queue, consumer, life, limits, caller
<1>1. TypeOK'
  BY DEF TypeOK
<1>2. (WorkerFollows /\ OneNullopt)'
  <2>1. WorkerFollows /\ OneNullopt /\ UNCHANGED <<entries, ticket, written, worker, closedAt>>
    OBVIOUS
  <2>2. QED
    BY ONLY <2>1, QueueKept
<1>3. OneStopper'
  BY DEF TypeOK, OneStopper
<1>4. LastReference'
  <2>1. /\ pc \in [Holders -> {"idle", "check", "emplace", "release",
                              "stop", "sentinel", "join", "stopped"}]
        /\ pc[t] = "join" /\ pc' = [pc EXCEPT ![t] = "stopped"]
        /\ UNCHANGED <<refs, kind, running, stopper, process, closedAt, entries>> /\ process = "up"
    BY DEF TypeOK
  <2>2. stopper = t
    BY DEF TypeOK, OneStopper
  <2>3. LastReference
    OBVIOUS
  <2>4. Owner \in Holders
    OBVIOUS
  <2> HIDE SinkAssumption DEF IInv, StopJoin, Size, Holders
  <2>5. QED
    BY <2>1, <2>2, <2>3, <2>4 DEF LastReference, InStop
<1>5. FlightBound'
  <2>1. InFlight' = InFlight
    BY DEF TypeOK, InFlight
  <2>2. FlightBound /\ UNCHANGED <<entries, ticket, closedAt, throttle, peak>>
    OBVIOUS
  <2>3. QED
    BY ONLY <2>1, <2>2, FlightKept
<1>6. QED
  BY <1>1, <1>2, <1>3, <1>4, <1>5

\* The end of the destructor preserves the invariant.
LEMMA DestroyedIInv ==
  ASSUME NEW t \in Holders, IInv, ~Over, Destroyed(t)
  PROVE  IInv'
<1> USE SinkAssumption DEF IInv, Over, Destroyed, Goto, Size, Holders, queue, consumer, life, limits, caller
<1>1. TypeOK'
  <2>1. /\ TypeOK /\ process' = "destroyed"
        /\ UNCHANGED <<running, entries, written, closedAt, ticket, worker, target, stopper,
                       throttle, peak, refs, pc, kind, calls, at>>
    OBVIOUS
  <2>2. QED
    BY ONLY <2>1 DEF TypeOK
<1>2. (WorkerFollows /\ OneNullopt)'
  <2>1. WorkerFollows /\ OneNullopt /\ UNCHANGED <<entries, ticket, written, worker, closedAt>>
    OBVIOUS
  <2>2. QED
    BY ONLY <2>1, QueueKept
<1>3. OneStopper'
  BY DEF TypeOK, OneStopper
<1>4. LastReference'
  <2>1. /\ UNCHANGED <<pc, kind, refs, running, stopper, closedAt, entries>>
        /\ pc[t] = "stopped" /\ kind[t] = "line"
    OBVIOUS
  <2>2. LastReference
    OBVIOUS
  <2> HIDE SinkAssumption DEF IInv, Destroyed, Size, Holders
  <2>3. QED
    BY <2>1, <2>2 DEF LastReference, InStop
<1>5. FlightBound'
  <2>1. InFlight' = InFlight
    BY DEF TypeOK, InFlight
  <2>2. FlightBound /\ UNCHANGED <<entries, ticket, closedAt, throttle, peak>>
    OBVIOUS
  <2>3. QED
    BY ONLY <2>1, <2>2, FlightKept
<1>6. QED
  BY <1>1, <1>2, <1>3, <1>4, <1>5

\* Setting the throttle preserves the invariant.
LEMMA ThrottleSizeIInv == ASSUME IInv, ~Over, ThrottleSize PROVE IInv'
<1> USE SinkAssumption DEF IInv, Over, ThrottleSize, Goto, Size, Holders, queue, consumer, life, limits, caller
<1>1. TypeOK'
  BY DEF TypeOK
<1>2. (WorkerFollows /\ OneNullopt)'
  <2>1. WorkerFollows /\ OneNullopt /\ UNCHANGED <<entries, ticket, written, worker, closedAt>>
    OBVIOUS
  <2>2. QED
    BY ONLY <2>1, QueueKept
<1>3. (OneStopper /\ LastReference)'
  <2>1. /\ OneStopper /\ LastReference
        /\ UNCHANGED <<running, stopper, closedAt, entries, target, pc, kind, refs, worker, process>>
    OBVIOUS
  <2>2. QED
    BY ONLY <2>1, StopKept
<1>4. FlightBound'
  <2>1. InFlight' = InFlight
    BY DEF InFlight
  <2>2. Size \in Int /\ Size' = Size /\ closedAt' = closedAt
    BY DEF TypeOK
  <2>3. PICK n \in Limits : throttle' = n /\ peak' = IF n > Size THEN n ELSE Size
    OBVIOUS
  <2>4. n \in Int
    BY SinkAssumption
  <2>5. /\ Cardinality(InFlight) \in Nat
        /\ Cardinality(Threads) \in Nat
        /\ Cardinality(InFlight) <= Cardinality(Threads)
    BY FlightCardinality
  <2> HIDE SinkAssumption DEF IInv, ThrottleSize, Size
  <2>6. throttle' <= peak' /\ Size <= peak' /\ peak' \in Int
    BY <2>2, <2>3, <2>4
  <2>7. QED
    BY <2>1, <2>2, <2>5, <2>6 DEF FlightBound
<1>5. QED
  BY <1>1, <1>2, <1>3, <1>4

\* Starting reset() preserves the invariant.
LEMMA ResetIInv == ASSUME IInv, ~Over, Reset PROVE IInv'
<1> USE SinkAssumption DEF IInv, Over, Reset, Goto, Size, Holders, queue, consumer, life, limits, caller
<1>1. TypeOK'
  BY DEF TypeOK
<1>2. (WorkerFollows /\ OneNullopt)'
  <2>1. WorkerFollows /\ OneNullopt /\ UNCHANGED <<entries, ticket, written, worker, closedAt>>
    OBVIOUS
  <2>2. QED
    BY ONLY <2>1, QueueKept
<1>3. OneStopper'
  BY DEF TypeOK, OneStopper
<1>4. LastReference'
  <2>1. /\ pc \in [Holders -> {"idle", "check", "emplace", "release",
                              "stop", "sentinel", "join", "stopped"}]
        /\ pc[Owner] = "idle" /\ pc' = [pc EXCEPT ![Owner] = "release"] /\ Owner \in Holders
        /\ UNCHANGED <<refs, kind, running, stopper, process, closedAt, entries>>
        /\ Owner \in refs /\ process = "up"
    BY DEF TypeOK
  <2>2. LastReference
    OBVIOUS
  <2>3. QED
    BY ONLY <2>1, <2>2 DEF LastReference, InStop
<1>5. FlightBound'
  <2>1. InFlight' = InFlight
    BY DEF TypeOK, InFlight
  <2>2. FlightBound /\ UNCHANGED <<entries, ticket, closedAt, throttle, peak>>
    OBVIOUS
  <2>3. QED
    BY ONLY <2>1, <2>2, FlightKept
<1>6. QED
  BY <1>1, <1>2, <1>3, <1>4, <1>5

\* Every step preserves the invariant.
LEMMA NextIInv == IInv /\ [Next]_vars => IInv'
<1> SUFFICES ASSUME IInv, [Next]_vars PROVE IInv'
  OBVIOUS
<1>1. ASSUME UNCHANGED vars PROVE IInv'
  <2>1. TypeOK'
    BY <1>1 DEF vars, queue, consumer, life, limits, caller, IInv, TypeOK
  <2>2. (WorkerFollows /\ OneNullopt)'
    BY <1>1, QueueKept DEF vars, queue, consumer, life, limits, caller, IInv
  <2>3. (OneStopper /\ LastReference)'
    BY <1>1, StopKept DEF vars, queue, consumer, life, limits, caller, IInv
  <2>4. FlightBound'
    BY <1>1 DEF vars, queue, consumer, life, limits, caller, IInv, FlightBound, InFlight, Size
  <2>5. QED
    BY <2>1, <2>2, <2>3, <2>4 DEF IInv
<1>2. ASSUME ~Over, WorkerStep PROVE IInv'
  BY <1>2, WorkerTicketIInv, WorkerPopIInv, WorkerWriteIInv DEF WorkerStep
<1>3. ASSUME ~Over, NEW t \in Threads, Call(t) PROVE IInv'
  BY <1>3, CallIInv
<1>4. ASSUME ~Over, NEW t \in Threads, PushStep(t) PROVE IInv'
  BY <1>4, PushDropIInv, PushPassIInv, PushEmplaceIInv, PushAbortIInv DEF PushStep
<1>5. ASSUME ~Over, NEW t \in Holders, Release(t) \/ StopStep(t) PROVE IInv'
  BY <1>5, ReleaseIInv, StopEnterIInv, StopSentinelIInv, StopJoinIInv, DestroyedIInv DEF StopStep
<1>6. ASSUME ~Over, ThrottleSize \/ Reset PROVE IInv'
  BY <1>6, ThrottleSizeIInv, ResetIInv
<1>7. QED
  BY <1>1, <1>2, <1>3, <1>4, <1>5, <1>6 DEF Next, HolderStep

(***************************************************************************)
(* The invariant says that a destroyed sink wrote all it accepted: the     *)
(* thread in the destructor is the stopper, Nullopt is the last entry and  *)
(* the worker wrote what comes before it.                                  *)
(***************************************************************************)
LEMMA IInvFlushed == IInv => FlushedOnDestruction
<1> SUFFICES ASSUME IInv, process = "destroyed" PROVE entries = Append(written, Nullopt)
  BY DEF FlushedOnDestruction
<1> USE SinkAssumption DEF IInv, Holders
<1>1. PICK t \in Holders : pc[t] = "stopped" /\ kind[t] = "line"
  BY DEF LastReference
<1>2. stopper = t /\ refs = {} /\ worker = "done"
  BY <1>1 DEF LastReference, OneStopper, InStop
<1>3. closedAt = Len(entries) /\ closedAt = Len(written) + 1
  <2>1. ticket \in Int /\ Len(written) \in Nat
    BY DEF TypeOK
  <2>2. closedAt # 0 /\ ticket = closedAt /\ Len(written) = ticket - 1
    BY <1>2 DEF WorkerFollows
  <2>3. closedAt \in {0, Len(entries)}
    BY <1>2 DEF LastReference
  <2> HIDE SinkAssumption DEF IInv, Holders
  <2>4. QED
    BY <2>1, <2>2, <2>3
<1>4. entries[Len(entries)] = Nullopt /\ Len(entries) \in 1..Len(entries)
  <2>1. Len(entries) \in Nat /\ Len(written) \in Nat
    BY DEF TypeOK
  <2>2. Len(entries) \in 1..Len(entries)
    BY <2>1, <1>3
  <2>3. OneNullopt
    OBVIOUS
  <2> HIDE SinkAssumption DEF IInv, Holders
  <2>4. QED
    BY <2>2, <2>3, <1>3 DEF OneNullopt
<1>5. \A i \in 1..Len(entries) : entries[i] = Append(written, Nullopt)[i]
  BY <1>3, <1>4 DEF TypeOK, WorkerFollows
<1>6. Append(written, Nullopt) \in Seq(Threads \cup {Nullopt}) /\ entries \in Seq(Threads \cup {Nullopt})
  BY DEF TypeOK
<1>7. Len(Append(written, Nullopt)) = Len(entries)
  BY <1>3 DEF TypeOK
<1>8. QED
  BY <1>5, <1>6, <1>7, SeqEqual

\* The winning stop() returns once the worker is done, and done means all was written.
LEMMA IInvStopFlushes == IInv => StopFlushes
<1> SUFFICES ASSUME IInv, NEW t \in Holders, t = stopper, pc[t] = "stopped"
             PROVE  written = SubSeq(entries, 1, closedAt - 1)
  BY DEF StopFlushes
<1> USE SinkAssumption DEF IInv, Holders
<1>1. worker = "done"
  BY DEF OneStopper
<1>2. closedAt = Len(written) + 1 /\ closedAt <= Len(entries)
  BY <1>1 DEF TypeOK, WorkerFollows, OneNullopt
<1>3. /\ SubSeq(entries, 1, closedAt - 1) \in Seq(Threads \cup {Nullopt})
      /\ Len(SubSeq(entries, 1, closedAt - 1)) = Len(written)
      /\ \A i \in 1..Len(written) : SubSeq(entries, 1, closedAt - 1)[i] = entries[i]
  BY <1>2, SubSeqProperties DEF TypeOK
<1>4. written \in Seq(Threads \cup {Nullopt})
  BY DEF TypeOK
<1>5. QED
  BY <1>3, <1>4, SeqEqual DEF WorkerFollows

\* The remaining safety invariants.
LEMMA IInvImplies == IInv => TargetWhileWriting /\ ThrottleBound
<1> SUFFICES ASSUME IInv PROVE TargetWhileWriting /\ ThrottleBound
  OBVIOUS
<1> USE DEF IInv
<1>1. TargetWhileWriting
  BY DEF TypeOK, OneStopper, TargetWhileWriting
<1>2. ThrottleBound
  BY FlightCardinality DEF TypeOK, FlightBound, ThrottleBound, Size
<1>3. QED
  BY <1>1, <1>2

(***************************************************************************)
(* IInv holds in every reachable state.                                    *)
(***************************************************************************)
THEOREM InductiveInvariance == Safe => []IInv
BY InitIInv, NextIInv, PTL DEF Safe

(***************************************************************************)
(* Type correctness; the size TBB reports is -1 at the least.              *)
(***************************************************************************)
THEOREM TypeCorrect == Safe => []TypeOK
<1>1. IInv => TypeOK
  BY DEF IInv
<1>2. QED
  BY <1>1, InductiveInvariance, PTL

(***************************************************************************)
(* A destroyed sink has lost no line, whichever thread destroyed it.       *)
(***************************************************************************)
THEOREM NothingIsLost == Safe => []FlushedOnDestruction
BY IInvFlushed, InductiveInvariance, PTL

(***************************************************************************)
(* The stop() that wins returns after everything before it was written.    *)
(***************************************************************************)
THEOREM StopIsAFlush == Safe => []StopFlushes
BY IInvStopFlushes, InductiveInvariance, PTL

(***************************************************************************)
(* The worker never uses a target that stop() has cleared.                 *)
(***************************************************************************)
THEOREM TargetIsValid == Safe => []TargetWhileWriting
BY IInvImplies, InductiveInvariance, PTL

(***************************************************************************)
(* The queue is capped by the throttle, up to one line per logging thread. *)
(***************************************************************************)
THEOREM QueueIsCapped == Safe => []ThrottleBound
BY IInvImplies, InductiveInvariance, PTL

(***************************************************************************)
(* No line is dropped unless more lines than the throttle wait.            *)
(***************************************************************************)
THEOREM NoSpuriousDrop == Safe => DropsOnlyWhenFull
<1>1. ASSUME IInv, Next, NEW t \in Threads, pc[t] = "check", pc'[t] = "release"
      PROVE  Len(entries) - Len(written) > throttle
  <2>1. throttle < Size
    <3>1. /\ t \in Holders
          /\ pc \in [Holders -> {"idle", "check", "emplace", "release",
                                 "stop", "sentinel", "join", "stopped"}]
      BY <1>1 DEF IInv, TypeOK, Holders
    <3>2. pc' # pc
      BY <1>1
    <3>3. ASSUME NEW u \in Threads, Call(u)
          PROVE  FALSE
      BY <1>1, <3>1, <3>3 DEF Call, Goto, Holders
    <3>4. ASSUME NEW u \in Threads, PushStep(u)
          PROVE  throttle < Size
      BY <1>1, <3>1, <3>4 DEF PushStep, PushDrop, PushPass, PushEmplace, PushAbort, Goto, Holders, caller
    <3>5. ASSUME NEW u \in Holders, Release(u) \/ StopStep(u)
          PROVE  FALSE
      BY <1>1, <3>1, <3>5 DEF Release, StopStep, StopEnter, StopSentinel, StopJoin, Destroyed, Goto, caller
    <3>6. ~WorkerStep /\ ~ThrottleSize /\ ~UNCHANGED vars
      BY <3>2 DEF WorkerStep, WorkerTicket, WorkerPop, WorkerWrite, ThrottleSize, caller, vars
    <3>7. ~Reset
      BY <1>1, <3>1 DEF Reset, Goto, Holders
    <3>8. QED
      BY <1>1, <3>3, <3>4, <3>5, <3>6, <3>7 DEF Next, HolderStep
  <2>2. Len(written) <= ticket
    <3>1. ticket \in Int /\ Len(written) \in Int
      BY <1>1 DEF IInv, TypeOK
    <3>2. Len(written) = ticket \/ Len(written) = ticket - 1
      BY <1>1 DEF IInv, WorkerFollows
    <3>3. QED
      BY <3>1, <3>2
  <2>3. ticket \in Int /\ Len(written) \in Int /\ Len(entries) \in Int /\ throttle \in Int
    BY <1>1 DEF IInv, TypeOK
  <2>4. QED
    BY <2>1, <2>2, <2>3 DEF Size
<1>2. ASSUME IInv, [Next]_vars
      PROVE  [\A t \in Threads : pc[t] = "check" /\ pc'[t] = "release" =>
                Len(entries) - Len(written) > throttle]_vars
  BY <1>1, <1>2
<1>3. QED
  BY <1>2, InductiveInvariance, PTL DEF Safe, DropsOnlyWhenFull

(***************************************************************************)
(* The lines before Nullopt stay what they are when entries grow.          *)
(***************************************************************************)
LEMMA PrefixOfAppend ==
  ASSUME NEW S, NEW s \in Seq(S), NEW x \in S, NEW n \in 0..Len(s)
  PROVE  SubSeq(Append(s, x), 1, n) = SubSeq(s, 1, n)
<1>1. /\ Append(s, x) \in Seq(S) /\ Len(Append(s, x)) = Len(s) + 1
      /\ \A i \in 1..Len(s) : Append(s, x)[i] = s[i]
  OBVIOUS
<1>2. /\ SubSeq(s, 1, n) \in Seq(S) /\ Len(SubSeq(s, 1, n)) = n
      /\ \A i \in 1..n : SubSeq(s, 1, n)[i] = s[i]
  BY SubSeqProperties
<1>3. /\ SubSeq(Append(s, x), 1, n) \in Seq(S) /\ Len(SubSeq(Append(s, x), 1, n)) = n
      /\ \A i \in 1..n : SubSeq(Append(s, x), 1, n)[i] = s[i]
  BY <1>1, SubSeqProperties
<1>4. QED
  BY <1>2, <1>3, SeqEqual

\* The whole of a sequence as a subsequence.
LEMMA WholeSubSeq ==
  ASSUME NEW S, NEW s \in Seq(S)
  PROVE  SubSeq(s, 1, Len(s)) = s
<1>1. /\ SubSeq(s, 1, Len(s)) \in Seq(S) /\ Len(SubSeq(s, 1, Len(s))) = Len(s)
      /\ \A i \in 1..Len(s) : SubSeq(s, 1, Len(s))[i] = s[i]
  BY SubSeqProperties
<1>2. QED
  BY <1>1, SeqEqual

\* Accepted lines are those of entries, up to Nullopt.
LEMMA AcceptedLines ==
  ASSUME IInv
  PROVE  /\ Len(Accepted) = IF closedAt = 0 THEN Len(entries) ELSE closedAt - 1
         /\ \A i \in 1..Len(Accepted) : Accepted[i] = entries[i]
<1> USE DEF IInv, TypeOK, OneNullopt
<1>1. CASE closedAt = 0
  BY <1>1 DEF Accepted
<1>2. CASE closedAt # 0
  <2>1. closedAt - 1 \in 0..Len(entries)
    BY <1>2
  <2>2. /\ Len(SubSeq(entries, 1, closedAt - 1)) = closedAt - 1
        /\ \A i \in 1..(closedAt - 1) : SubSeq(entries, 1, closedAt - 1)[i] = entries[i]
    BY <2>1, SubSeqProperties
  <2>3. QED
    BY <1>2, <2>1, <2>2 DEF Accepted
<1>3. QED
  BY ONLY <1>1, <1>2

\* Writing a popped line is LogSink's Write.
LEMMA WriteRefines == ASSUME IInv, ~Over, WorkerWrite PROVE Sink!Write
<1> USE DEF WorkerWrite, queue, life, Over
<1>1. UNCHANGED <<Accepted, Phase>>
  BY DEF Accepted, Phase
<1>2. Phase \in {"open", "closing"}
  BY DEF Phase
<1>3. ticket = Len(written) + 1 /\ ticket <= Len(entries) /\ entries[ticket] # Nullopt /\ ticket \in Nat
  BY DEF IInv, TypeOK, WorkerFollows
<1>4. closedAt # 0 => Len(written) < closedAt - 1
  <2>1. \A i \in 1..Len(written) : written[i] \in Threads /\ written[i] = entries[i]
    BY DEF IInv, TypeOK, WorkerFollows
  <2>2. closedAt # 0 => entries[closedAt] = Nullopt /\ closedAt \in 1..Len(entries)
    BY DEF IInv, TypeOK, OneNullopt
  <2>3. closedAt # 0 => closedAt \notin 1..Len(written) /\ closedAt # ticket
    BY <2>1, <2>2, <1>3, SinkAssumption
  <2>4. QED
    BY <2>2, <2>3, <1>3 DEF IInv, TypeOK
<1>5. Len(written) < Len(Accepted) /\ Accepted[Len(written) + 1] = entries[ticket]
  BY <1>3, <1>4, AcceptedLines DEF IInv, TypeOK
<1>6. QED
  BY <1>1, <1>2, <1>5 DEF Sink!Write

\* Emplacing a line is Accept, or nothing when it comes behind Nullopt.
LEMMA EmplaceRefines ==
  ASSUME IInv, ~Over, NEW t \in Threads, PushEmplace(t)
  PROVE  Sink!Accept \/ UNCHANGED Sink!vars
<1> USE DEF PushEmplace, consumer, life, Over
<1>1. UNCHANGED <<Phase, written>>
  BY DEF Phase
<1>2. CASE closedAt = 0
  BY <1>1, <1>2 DEF Accepted, Phase, Sink!Accept
<1>3. CASE closedAt # 0
  <2>1. closedAt - 1 \in 0..Len(entries) /\ entries \in Seq(Threads \cup {Nullopt})
    BY <1>3 DEF IInv, TypeOK, OneNullopt
  <2>2. UNCHANGED Accepted
    <3>1. SubSeq(Append(entries, t), 1, closedAt - 1) = SubSeq(entries, 1, closedAt - 1)
      BY <2>1, PrefixOfAppend
    <3>2. entries' = Append(entries, t) /\ closedAt' = closedAt
      OBVIOUS
    <3>3. /\ Accepted = SubSeq(entries, 1, closedAt - 1)
          /\ Accepted' = SubSeq(entries', 1, closedAt - 1)
      BY ONLY <1>3, <3>2, Zenon DEF Accepted
    <3>4. QED
      BY ONLY <3>1, <3>2, <3>3, Zenon
  <2>3. QED
    BY <1>1, <2>2 DEF Sink!vars
<1>4. QED
  BY <1>2, <1>3

\* Nullopt closes the sink: what was accepted is all that was emplaced.
LEMMA SentinelRefines ==
  ASSUME IInv, ~Over, NEW t \in Holders, StopSentinel(t)
  PROVE  Sink!Close
<1> USE DEF StopSentinel, consumer, life, Over
<1>1. closedAt = 0 /\ closedAt' = Len(entries) + 1 /\ entries \in Seq(Threads \cup {Nullopt})
  BY DEF IInv, TypeOK, OneStopper
<1>2. Accepted' = SubSeq(Append(entries, Nullopt), 1, Len(entries))
  BY <1>1 DEF Accepted
<1>3. SubSeq(Append(entries, Nullopt), 1, Len(entries)) = SubSeq(entries, 1, Len(entries))
  BY <1>1, PrefixOfAppend
<1>4. SubSeq(entries, 1, Len(entries)) = entries
  BY <1>1, WholeSubSeq
<1>5. Accepted = entries
  BY ONLY <1>1 DEF Accepted
<1>6. UNCHANGED Accepted
  BY ONLY <1>2, <1>3, <1>4, <1>5
<1>7. Phase = "open" /\ Phase' = "closing"
  BY <1>1 DEF Phase
<1>8. QED
  BY <1>6, <1>7 DEF Sink!Close

\* The end of the destructor is Closed: by StopFlushes all is written.
LEMMA DestroyedRefines ==
  ASSUME IInv, ~Over, NEW t \in Holders, Destroyed(t)
  PROVE  Sink!Closed
<1> USE DEF Destroyed, queue, consumer, Over
<1>1. stopper = t /\ pc[t] = "stopped"
  BY DEF IInv, LastReference
<1>2. closedAt # 0
  BY <1>1, SinkAssumption DEF IInv, OneStopper, WorkerFollows, Holders
<1>3. written = Accepted
  BY <1>1, <1>2, IInvStopFlushes DEF StopFlushes, Accepted
<1>4. UNCHANGED <<Accepted, written>> /\ Phase = "closing" /\ Phase' = "closed"
  BY <1>2 DEF Accepted, Phase
<1>5. QED
  BY <1>3, <1>4 DEF Sink!Closed

(***************************************************************************)
(* The sink implements the safety part of LogSink.                         *)
(***************************************************************************)
THEOREM Refinement == Safe => Sink!Safe
<1>1. Init => Sink!Init
  BY DEF Init, Sink!Init, Accepted, Phase
<1>2. ASSUME IInv, [Next]_vars PROVE [Sink!Next]_(Sink!vars)
  <2>1. ASSUME UNCHANGED <<entries, closedAt, written, process>> PROVE UNCHANGED Sink!vars
    BY <2>1 DEF Sink!vars, Accepted, Phase
  <2>2. ASSUME UNCHANGED vars PROVE UNCHANGED Sink!vars
    BY <2>1, <2>2 DEF vars, queue, consumer, life
  <2>3. ASSUME ~Over, WorkerStep PROVE [Sink!Next]_(Sink!vars)
    BY <1>2, <2>1, <2>3, WriteRefines
       DEF WorkerStep, WorkerTicket, WorkerPop, queue, life, Sink!Next
  <2>4. ASSUME NEW t \in Threads, Call(t) PROVE UNCHANGED Sink!vars
    BY <2>1, <2>4 DEF Call, queue, consumer, life
  <2>5. ASSUME ~Over, NEW t \in Threads, PushStep(t) PROVE [Sink!Next]_(Sink!vars)
    <3>1. CASE PushDrop(t) \/ PushPass(t)
      BY <2>1, <3>1 DEF PushDrop, PushPass, queue, consumer, life
    <3>2. CASE PushEmplace(t)
      BY <1>2, <2>5, <3>2, EmplaceRefines DEF Sink!Next
    <3>3. CASE PushAbort(t)
      BY <3>3 DEF PushAbort, queue, consumer, Accepted, Phase, Sink!Abort, Sink!Next
    <3>4. QED
      BY <2>5, <3>1, <3>2, <3>3 DEF PushStep
  <2>6. ASSUME ~Over, NEW t \in Holders, Release(t) \/ StopStep(t) PROVE [Sink!Next]_(Sink!vars)
    <3>1. CASE Release(t) \/ StopEnter(t) \/ StopJoin(t)
      BY <2>1, <3>1 DEF Release, StopEnter, StopJoin, queue, consumer, life
    <3>2. CASE StopSentinel(t)
      BY <1>2, <2>6, <3>2, SentinelRefines DEF Sink!Next
    <3>3. CASE Destroyed(t)
      BY <1>2, <2>6, <3>3, DestroyedRefines DEF Sink!Next
    <3>4. QED
      BY <2>6, <3>1, <3>2, <3>3 DEF StopStep
  <2>7. ASSUME ThrottleSize \/ Reset PROVE UNCHANGED Sink!vars
    BY <2>1, <2>7 DEF ThrottleSize, Reset, queue, consumer, life
  <2>8. QED
    BY <1>2, <2>2, <2>3, <2>4, <2>5, <2>6, <2>7 DEF Next, HolderStep
<1>3. QED
  BY <1>1, <1>2, InductiveInvariance, PTL DEF Safe, Sink!Safe
=============================================================================
