------------------------ MODULE SignalBarrier_proofs ------------------------
(***************************************************************************)
(* Proofs about the builds of SignalBarrier, for every finite set of       *)
(* threads and every list of signals without repetition.                   *)
(***************************************************************************)
EXTENDS SignalBarrier, FiniteSetTheorems, TLAPS

\* On Linux the threads are the users of barriers.
LEMMA ThreadsAreUsers == L!Threads = Users /\ IsFiniteSet(L!Threads)
<1>1. L!Threads = Users
  BY BarrierAssumption, Zenon DEF L!Threads
<1>2. QED
  BY ONLY <1>1, BarrierAssumption, Zenon

\* Cardinality is the same operator in the instance for Linux.
LEMMA SameCardinality == ASSUME NEW S PROVE L!Cardinality(S) = Cardinality(S)
BY Zenon DEF L!Cardinality, Cardinality

\* One element more, and one less.
LEMMA OneMore ==
  ASSUME NEW S, IsFiniteSet(S), NEW x, x \notin S
  PROVE  L!Cardinality(S) \in Nat /\ L!Cardinality(S \cup {x}) = L!Cardinality(S) + 1
BY FS_CardinalityType, FS_AddElement, SameCardinality

LEMMA OneLess ==
  ASSUME NEW S, IsFiniteSet(S), NEW x, x \in S
  PROVE  L!Cardinality(S) \in Nat /\ L!Cardinality(S \ {x}) = L!Cardinality(S) - 1
BY FS_CardinalityType, FS_RemoveElement, SameCardinality

\* The threads that hold s, by their results r.
Held(r, s) == {u \in L!Threads : r[u] = s}

LEMMA HeldIsFinite == ASSUME NEW r, NEW s PROVE IsFiniteSet(Held(r, s))
BY ThreadsAreUsers, FS_Subset DEF Held
-----------------------------------------------------------------------------
(* Linux.                                                                  *)

\* The initial state of the Linux build satisfies its invariant.
LEMMA LinuxInit == ASSUME L!Init PROVE L!IInv
<1> USE DEF L!Init
<1>1. sfdGlobal \in BOOLEAN /\ sfdOpen \in BOOLEAN
  BY Zenon
<1>2. L!TypeOK
  BY <1>1 DEF L!TypeOK
<1>3. ASSUME NEW s \in P!Signals
      PROVE  L!Cardinality({t \in L!Threads : result[t] = s}) = 0
  <2>1. {t \in L!Threads : result[t] = s} = {}
    BY BarrierAssumption
  <2>2. QED
    BY <2>1, FS_EmptySet, SameCardinality
<1>4. L!NoSignalLost
  BY <1>3 DEF L!NoSignalLost
<1>5. L!BarrierHasDescriptor
  BY DEF L!BarrierHasDescriptor
<1>6. QED
  BY <1>2, <1>4, <1>5 DEF L!IInv

\* What no signal is counted by leaves NoSignalLost alone.
LEMMA CountsKept ==
  ASSUME L!IInv, UNCHANGED <<pending, result, accepted, taken>>
  PROVE  L!NoSignalLost'
BY DEF L!IInv, L!NoSignalLost

\* The steps of global_init and of the threads that start.
LEMMA GlobalInv ==
  ASSUME L!IInv,
         \/ L!Global \/ L!InitThrow \/ L!DestroyExchange \/ L!DestroyClose
         \/ \E t \in Users \ {Main} : L!Start(t)
  PROVE  L!IInv'
<1> USE DEF L!IInv, L!Global, L!InitEnter, L!InitBlock, L!InitOpen, L!InitCurl, L!InitThrow,
            L!DestroyExchange, L!DestroyClose, L!Start, L!setup
<1>1. UNCHANGED <<pending, L!waits, L!counts, process>>
  OBVIOUS
<1>2. sfdGlobal' \in BOOLEAN /\ sfdOpen' \in BOOLEAN
  BY Zenon DEF L!TypeOK
<1>3. (sfdGlobal => sfdOpen)'
  BY DEF L!TypeOK, L!BarrierHasDescriptor
<1>4. init' \in {"none", "enter", "masked", "open", "done", "failed", "closing", "destroyed"}
  BY DEF L!TypeOK
<1>5. mask' \in [L!Threads -> {"none", "clear", "blocked"}]
  BY DEF L!TypeOK, L!Threads
<1>6. L!TypeOK'
  BY ONLY L!TypeOK, <1>1, <1>2, <1>3, <1>4, <1>5 DEF L!TypeOK, L!waits, L!counts
<1>7. L!NoSignalLost'
  BY <1>1, CountsKept DEF L!waits, L!counts
<1>8. L!BarrierHasDescriptor'
  BY <1>1 DEF L!TypeOK, L!BarrierHasDescriptor, L!waits
<1>9. QED
  BY <1>6, <1>7, <1>8

\* A signal sent to the process.
LEMMA LinuxRaiseInv ==
  ASSUME L!IInv, NEW s \in P!Signals, L!Raise(s)
  PROVE  L!IInv'
<1> USE DEF L!IInv, L!Raise, L!setup, L!waits
<1>1. L!TypeOK'
  BY DEF L!TypeOK
<1>2. \A x \in P!Signals : L!Cardinality({t \in L!Threads : result[t] = x}) \in Nat
  <2>1. ASSUME NEW x \in P!Signals PROVE IsFiniteSet({t \in L!Threads : result[t] = x})
    BY ThreadsAreUsers, FS_Subset
  <2>2. QED
    BY <2>1, FS_CardinalityType, SameCardinality
<1>3. L!NoSignalLost'
  BY <1>2 DEF L!TypeOK, L!NoSignalLost
<1>4. L!BarrierHasDescriptor'
  BY DEF L!BarrierHasDescriptor
<1>5. QED
  BY <1>1, <1>3, <1>4

\* The steps of a barrier that take no signal: the timer, the constructor, the
\* destructor, epoll_wait and what its loop does without returning.
LEMMA QuietStepInv ==
  ASSUME L!IInv, NEW t \in L!Threads,
         \/ L!Expire(t) \/ L!Construct(t) \/ L!Destruct(t) \/ L!WaitEnter(t)
         \/ L!EpollWait(t) \/ L!ReadNothing(t) \/ L!EventsDone(t)
  PROVE  L!IInv'
<1> USE DEF L!IInv, L!Expire, L!Construct, L!Destruct, L!WaitEnter, L!EpollWait, L!Ready,
            L!ReadNothing, L!EventsDone, L!At, L!Handle, L!setup, L!counts
<1>1. UNCHANGED <<L!setup, mask, process, pending, result, L!counts>>
  OBVIOUS
<1>2. /\ timed' \subseteq L!Threads /\ expired' \subseteq L!Threads
      /\ barrier' \in [L!Threads -> {"none", "made", "wait", "events", "leave"}]
      /\ batch' \in [L!Threads -> SUBSET {"sfd", "timer"}]
  BY DEF L!TypeOK
<1>3. \A u \in L!Threads : /\ result'[u] # "nothing" <=> barrier'[u] = "leave"
                           /\ batch'[u] # {} => barrier'[u] = "events"
  BY DEF L!TypeOK
<1>4. L!TypeOK'
  BY ONLY L!TypeOK, <1>1, <1>2, <1>3 DEF L!TypeOK, L!setup, L!counts
<1>5. L!NoSignalLost'
  BY <1>1, CountsKept
<1>6. L!BarrierHasDescriptor'
  BY DEF L!TypeOK, L!BarrierHasDescriptor
<1>7. QED
  BY <1>4, <1>5, <1>6

\* A wait that comes to an end holds its result until the scope guards have run.
LEMMA ReturnInv ==
  ASSUME L!IInv, NEW t \in L!Threads,
         NEW r \in P!Signals \cup {"timeout", "error"}, L!Return(t, r),
         pending' = pending \ {r}, r \in P!Signals => r \in pending,
         expired' \subseteq L!Threads,
         UNCHANGED <<L!setup, mask, process, timed, L!counts>>
  PROVE  L!IInv'
<1> USE DEF L!IInv, L!Return, L!At, L!setup, L!counts
<1>1. result[t] = "nothing" /\ r # "nothing"
  BY BarrierAssumption DEF L!TypeOK
<1>2. L!TypeOK'
  BY <1>1 DEF L!TypeOK
<1>3. ASSUME NEW s \in P!Signals
      PROVE  accepted[s] = taken[s] + (IF s \in pending' THEN 1 ELSE 0)
                             + L!Cardinality(Held(result', s))
  <2>1. result[t] # s /\ result \in [L!Threads -> P!Signals \cup {"nothing", "timeout", "error"}]
    BY <1>1, BarrierAssumption DEF L!TypeOK
  <2>2. accepted[s] = taken[s] + (IF s \in pending THEN 1 ELSE 0)
                        + L!Cardinality(Held(result, s))
    BY DEF L!NoSignalLost, Held
  <2>3. CASE r = s
    <3>1. t \notin Held(result, s) /\ Held(result', s) = Held(result, s) \cup {t}
      BY <2>1, <2>3 DEF Held
    <3>2. /\ L!Cardinality(Held(result, s)) \in Nat
          /\ L!Cardinality(Held(result', s)) = L!Cardinality(Held(result, s)) + 1
      BY ONLY <3>1, HeldIsFinite, OneMore
    <3>3. s \in pending /\ s \notin pending' /\ taken[s] \in Nat
      BY <2>3 DEF L!TypeOK
    <3>4. QED
      BY ONLY <2>2, <3>2, <3>3
  <2>4. CASE r # s
    <3>1. Held(result', s) = Held(result, s)
      BY ONLY <2>1, <2>4, L!Return(t, r), t \in L!Threads DEF L!Return, Held
    <3>2. s \in pending <=> s \in pending'
      BY <2>4
    <3>3. QED
      BY ONLY <2>2, <3>1, <3>2
  <2>5. QED
    BY <2>3, <2>4
<1>4. L!NoSignalLost'
  BY <1>3 DEF L!NoSignalLost, Held
<1>5. L!BarrierHasDescriptor'
  BY DEF L!TypeOK, L!BarrierHasDescriptor
<1>6. QED
  BY <1>2, <1>4, <1>5

\* The three ways out of the loop of wait().
LEMMA ReadInv ==
  ASSUME L!IInv, NEW t \in L!Threads,
         L!ReadSignal(t) \/ L!ReadFails(t) \/ L!ReadTimer(t)
  PROVE  L!IInv'
<1>1. L!TypeOK /\ "timeout" \notin P!Signals /\ "error" \notin P!Signals
  BY BarrierAssumption DEF L!IInv
<1>2. CASE L!ReadSignal(t)
  <2>1. PICK s \in pending : L!Return(t, s) /\ pending' = pending \ {s}
    BY <1>2 DEF L!ReadSignal
  <2>2. s \in P!Signals /\ expired' \subseteq L!Threads
    BY <1>1, <1>2 DEF L!ReadSignal, L!TypeOK
  <2>3. UNCHANGED <<L!setup, mask, process, timed, L!counts>>
    BY <1>2 DEF L!ReadSignal
  <2>4. QED
    BY ONLY L!IInv, t \in L!Threads, <2>1, <2>2, <2>3, ReturnInv
<1>3. CASE L!ReadFails(t)
  <2>1. pending' = pending \ {"error"} /\ expired' \subseteq L!Threads
    BY <1>1, <1>3 DEF L!ReadFails, L!TypeOK
  <2>2. L!Return(t, "error") /\ UNCHANGED <<L!setup, mask, process, timed, L!counts>>
    BY <1>3 DEF L!ReadFails
  <2>3. QED
    BY ONLY L!IInv, t \in L!Threads, <1>1, <2>1, <2>2, ReturnInv
<1>4. CASE L!ReadTimer(t)
  <2>1. pending' = pending \ {"timeout"} /\ expired' \subseteq L!Threads
    BY <1>1, <1>4 DEF L!ReadTimer, L!TypeOK
  <2>2. L!Return(t, "timeout") /\ UNCHANGED <<L!setup, mask, process, timed, L!counts>>
    BY <1>4 DEF L!ReadTimer
  <2>3. QED
    BY ONLY L!IInv, t \in L!Threads, <1>1, <2>1, <2>2, ReturnInv
<1>5. QED
  BY <1>2, <1>3, <1>4

\* The wait returns: what it held now counts as taken.
LEMMA LeaveInv ==
  ASSUME L!IInv, NEW t \in L!Threads, L!Leave(t)
  PROVE  L!IInv'
<1> USE DEF L!IInv, L!Leave, L!At, L!setup
<1>1. L!TypeOK'
  BY DEF L!TypeOK
<1>2. ASSUME NEW s \in P!Signals
      PROVE  accepted[s] = taken'[s] + (IF s \in pending THEN 1 ELSE 0)
                             + L!Cardinality(Held(result', s))
  <2>1. result \in [L!Threads -> P!Signals \cup {"nothing", "timeout", "error"}]
        /\ s # "nothing" /\ taken[s] \in Nat
    BY BarrierAssumption DEF L!TypeOK
  <2>2. accepted[s] = taken[s] + (IF s \in pending THEN 1 ELSE 0)
                        + L!Cardinality(Held(result, s))
    BY DEF L!NoSignalLost, Held
  <2>3. result' = [result EXCEPT ![t] = "nothing"]
    OBVIOUS
  <2>4. CASE result[t] = s
    <3>1. t \in Held(result, s) /\ Held(result', s) = Held(result, s) \ {t}
      BY <2>1, <2>4 DEF Held
    <3>2. /\ L!Cardinality(Held(result, s)) \in Nat
          /\ L!Cardinality(Held(result', s)) = L!Cardinality(Held(result, s)) - 1
      BY ONLY <3>1, HeldIsFinite, OneLess
    <3>3. taken'[s] = taken[s] + 1
      BY <2>4
    <3>4. QED
      BY ONLY <2>1, <2>2, <3>2, <3>3
  <2>5. CASE result[t] # s
    <3>1. Held([result EXCEPT ![t] = "nothing"], s)
            = Held(result, s)
      BY ONLY <2>1, <2>5, t \in L!Threads DEF Held
    <3>2. taken'[s] = taken[s]
      BY <2>1, <2>5
    <3>3. QED
      BY ONLY <2>2, <2>3, <3>1, <3>2
  <2>6. QED
    BY <2>4, <2>5
<1>3. L!NoSignalLost'
  BY <1>2 DEF L!NoSignalLost, Held
<1>4. L!BarrierHasDescriptor'
  BY DEF L!TypeOK, L!BarrierHasDescriptor
<1>5. QED
  BY <1>1, <1>3, <1>4

\* Every step of the Linux build keeps its invariant.
LEMMA LinuxNext == ASSUME L!IInv, L!Next PROVE L!IInv'
BY GlobalInv, LinuxRaiseInv, QuietStepInv, ReadInv, LeaveInv DEF L!Next, L!WaitStep

(***************************************************************************)
(* A step of the Linux build under masks that block the signals in every   *)
(* thread keeps them so and does not kill the process.  std::terminate     *)
(* needs a descriptor that ~global_init has closed.                        *)
(***************************************************************************)
LEMMA LinuxStepShielded ==
  ASSUME L!IInv, L!Next
  PROVE  /\ L!AllBlocked => process' # "killed" /\ \A t \in Users : mask'[t] # "clear"
         /\ process' = "terminated" => init = "destroyed"
<1> USE DEF L!IInv, L!TypeOK, L!Alive, L!setup
<1>1. L!Threads = Users /\ Main \in Users /\ process = "alive"
  BY ThreadsAreUsers, BarrierAssumption DEF L!Next
<1>2. CASE UNCHANGED process /\ UNCHANGED mask
  BY <1>1, <1>2 DEF L!AllBlocked
<1>3. CASE L!InitBlock
  BY <1>1, <1>3 DEF L!InitBlock, L!AllBlocked
<1>4. CASE \E t \in Users \ {Main} : L!Start(t)
  BY <1>1, <1>4 DEF L!Start, L!AllBlocked
<1>5. CASE \E s \in P!Signals : L!Raise(s)
  BY <1>1, <1>5 DEF L!Raise, L!AllBlocked
<1>6. CASE \E t \in L!Threads : L!Leave(t)
  BY <1>1, <1>6 DEF L!Leave, L!At, L!AllBlocked, L!BarrierHasDescriptor
<1>7. CASE \/ L!InitEnter \/ L!InitOpen \/ L!InitCurl \/ L!InitThrow
           \/ L!DestroyExchange \/ L!DestroyClose
  BY <1>2, <1>7 DEF L!InitEnter, L!InitOpen, L!InitCurl, L!InitThrow, L!DestroyExchange,
                    L!DestroyClose
<1>8. CASE \E t \in L!Threads :
             \/ L!Expire(t) \/ L!Construct(t) \/ L!Destruct(t) \/ L!WaitEnter(t)
             \/ L!EpollWait(t) \/ L!ReadSignal(t) \/ L!ReadNothing(t) \/ L!ReadFails(t)
             \/ L!ReadTimer(t) \/ L!EventsDone(t)
  BY <1>2, <1>8 DEF L!Expire, L!Construct, L!Destruct, L!WaitEnter, L!EpollWait,
                    L!ReadSignal, L!ReadNothing, L!ReadFails, L!ReadTimer, L!EventsDone
<1>9. QED
  BY ONLY L!Next, <1>3, <1>4, <1>5, <1>6, <1>7, <1>8 DEF L!Next, L!Global, L!WaitStep
-----------------------------------------------------------------------------
(* macOS and Windows.                                                      *)

\* Order lists exactly the signals.
LEMMA OrderRange ==
  /\ Len(Order) \in Nat
  /\ \A i \in 1..Len(Order) : Order[i] \in P!Signals
  /\ \A s \in P!Signals : \E i \in 1..Len(Order) : s = Order[i]
BY BarrierAssumption DEF P!Signals

\* The initial state of the polling builds satisfies their invariant.
LEMMA PollingInit == ASSUME P!Init PROVE P!IInv
<1> USE DEF P!Init
<1>1. inUse \in BOOLEAN
  BY Zenon
<1>2. P!TypeOK
  BY <1>1, OrderRange, BarrierAssumption DEF P!TypeOK
<1>3. P!OneOwner /\ P!FreeIsOrig /\ \A t \in Users : P!SavedIsOrig(t)
  BY DEF P!OneOwner, P!Owns, P!FreeIsOrig, P!SavedIsOrig
<1>4. QED
  BY <1>2, <1>3 DEF P!IInv

\* A step of the thread that has the barrier, or gets it, and keeps it: only its own
\* progress has to be shown.
LEMMA OwnerStep ==
  ASSUME P!IInv, NEW t \in Users, P!Owns(t) \/ ~inUse,
         NEW b, b # "none", P!Goto(t, b), inUse', P!TypeOK', P!SavedIsOrig(t)'
  PROVE  P!IInv'
<1> USE DEF P!Owns, P!Goto
<1>1. barrier \in [Users -> {"none", "install", "made", "failed", "restore", "load",
                             "console", "sleep"}]
  BY DEF P!IInv, P!TypeOK
<1>2. \A u \in Users : u # t => barrier[u] = "none"
  BY DEF P!IInv, P!OneOwner
<1>3. barrier'[t] = b /\ \A u \in Users : u # t => barrier'[u] = "none"
  BY <1>1, <1>2
<1>4. P!OneOwner'
  BY <1>3 DEF P!OneOwner
<1>5. P!FreeIsOrig'
  BY DEF P!FreeIsOrig
<1>6. \A u \in Users : P!SavedIsOrig(u)'
  BY <1>3 DEF P!SavedIsOrig
<1>7. QED
  BY ONLY P!TypeOK', <1>4, <1>5, <1>6 DEF P!IInv

\* The constructor.
LEMMA EnterInv ==
  ASSUME P!IInv, NEW t \in Users, P!Enter(t)
  PROVE  P!IInv'
<1>1. inUse' \in BOOLEAN
  BY Zenon DEF P!Enter
<1>2. inUse'
  BY DEF P!Enter
<1>3. P!TypeOK'
  BY <1>1, OrderRange DEF P!Enter, P!Goto, P!IInv, P!TypeOK, P!handlers
<1>4. P!SavedIsOrig(t)'
  BY OrderRange DEF P!Enter, P!Goto, P!IInv, P!TypeOK, P!handlers, P!FreeIsOrig, P!SavedIsOrig
<1>5. QED
  BY ONLY P!IInv, t \in Users, P!Enter(t), <1>2, <1>3, <1>4, OwnerStep DEF P!Enter

\* The types a std::signal call leaves behind.
LEMMA SwapType ==
  ASSUME P!TypeOK, NEW t \in Users,
         NEW new \in [P!Signals -> {"orig", "receiver"}], P!Swap(t, new),
         UNCHANGED <<inUse, consoles, received, appRunning, barrier, result>>
  PROVE  P!TypeOK' /\ step'[t] = step[t] + 1
<1>1. Order[step[t] + 1] \in P!Signals
  BY OrderRange DEF P!TypeOK, P!Swap
<1>2. QED
  BY <1>1, OrderRange DEF P!TypeOK, P!Swap

\* What one std::signal call changes.
LEMMA SwapChanges ==
  ASSUME P!TypeOK, NEW t \in Users,
         NEW new \in [P!Signals -> {"orig", "receiver"}], P!Swap(t, new),
         NEW i \in 1..Len(Order)
  PROVE  /\ step[t] \in Nat
         /\ saved'[Order[i]] = IF i = step[t] + 1 THEN handler[Order[i]] ELSE saved[Order[i]]
         /\ handler'[Order[i]] = IF i = step[t] + 1 THEN new[Order[i]] ELSE handler[Order[i]]
<1>1. step[t] + 1 \in 1..Len(Order) /\ step[t] \in Nat
  BY OrderRange DEF P!TypeOK, P!Swap
<1>2. Order[i] \in P!Signals /\ Order[step[t] + 1] \in P!Signals
  BY <1>1, OrderRange
<1>3. Order[i] = Order[step[t] + 1] => i = step[t] + 1
  BY <1>1, BarrierAssumption
<1>4. QED
  BY <1>1, <1>2, <1>3 DEF P!TypeOK, P!Swap

\* The constructor takes the next signal.
LEMMA InstallInv ==
  ASSUME P!IInv, NEW t \in Users, P!Install(t)
  PROVE  P!IInv'
<1> DEFINE new == [s \in P!Signals |-> "receiver"]
<1>1. P!TypeOK /\ new \in [P!Signals -> {"orig", "receiver"}] /\ P!Swap(t, new)
  BY DEF P!IInv, P!Install
<1>2. UNCHANGED <<inUse, consoles, received, appRunning, barrier, result>>
      /\ barrier[t] = "install"
  BY DEF P!Install
<1> HIDE DEF new
<1>3. P!TypeOK' /\ step'[t] = step[t] + 1
  BY ONLY t \in Users, <1>1, <1>2, SwapType
<1>4. \A i \in 1..Len(Order) :
        /\ step[t] \in Nat
        /\ saved'[Order[i]] = IF i = step[t] + 1 THEN handler[Order[i]] ELSE saved[Order[i]]
        /\ handler'[Order[i]] = IF i = step[t] + 1 THEN new[Order[i]] ELSE handler[Order[i]]
  BY ONLY t \in Users, <1>1, SwapChanges
<1>5. \A i \in 1..Len(Order) : IF i <= step[t] THEN saved[Order[i]] = "orig"
                               ELSE handler[Order[i]] = "orig"
  BY <1>2 DEF P!IInv, P!SavedIsOrig
<1>6. ASSUME NEW i \in 1..Len(Order)
      PROVE  IF i <= step'[t] THEN saved'[Order[i]] = "orig" ELSE handler'[Order[i]] = "orig"
  <2>1. /\ step[t] \in Nat /\ i \in Nat
        /\ saved'[Order[i]] = IF i = step[t] + 1 THEN handler[Order[i]] ELSE saved[Order[i]]
        /\ handler'[Order[i]] = IF i = step[t] + 1 THEN new[Order[i]] ELSE handler[Order[i]]
    BY ONLY OrderRange, <1>4, i \in 1..Len(Order)
  <2>2. IF i <= step[t] THEN saved[Order[i]] = "orig" ELSE handler[Order[i]] = "orig"
    BY ONLY <1>5, i \in 1..Len(Order)
  <2>3. CASE i <= step[t]
    BY ONLY <1>3, <2>1, <2>2, <2>3
  <2>4. CASE i = step[t] + 1
    BY ONLY <1>3, <2>1, <2>2, <2>4
  <2>5. CASE i > step[t] + 1
    BY ONLY <1>3, <2>1, <2>2, <2>5
  <2>6. QED
    BY ONLY <2>1, <2>3, <2>4, <2>5
<1>7. P!SavedIsOrig(t)'
  BY ONLY <1>2, <1>6 DEF P!SavedIsOrig
<1>8. inUse
  BY <1>2 DEF P!IInv, P!OneOwner, P!Owns
<1>9. P!Goto(t, "install") /\ P!Owns(t)
  BY <1>1, <1>2 DEF P!Goto, P!TypeOK, P!Owns
<1>10. QED
  BY ONLY P!IInv, t \in Users, <1>2, <1>3, <1>7, <1>8, <1>9, OwnerStep

\* The destructor puts the next handler back.
LEMMA RestoreInv ==
  ASSUME P!IInv, NEW t \in Users, P!Restore(t)
  PROVE  P!IInv'
<1>1. P!TypeOK /\ saved \in [P!Signals -> {"orig", "receiver"}] /\ P!Swap(t, saved)
  BY DEF P!IInv, P!TypeOK, P!Restore
<1>2. UNCHANGED <<inUse, consoles, received, appRunning, barrier, result>>
      /\ barrier[t] = "restore"
  BY DEF P!Restore
<1>3. P!TypeOK' /\ step'[t] = step[t] + 1
  BY ONLY t \in Users, <1>1, <1>2, SwapType
<1>4. \A i \in 1..Len(Order) :
        /\ step[t] \in Nat
        /\ saved'[Order[i]] = IF i = step[t] + 1 THEN handler[Order[i]] ELSE saved[Order[i]]
        /\ handler'[Order[i]] = IF i = step[t] + 1 THEN saved[Order[i]] ELSE handler[Order[i]]
  BY ONLY t \in Users, <1>1, SwapChanges
<1>5. \A i \in 1..Len(Order) : IF i <= step[t] THEN handler[Order[i]] = "orig"
                               ELSE saved[Order[i]] = "orig"
  BY <1>2 DEF P!IInv, P!SavedIsOrig
<1>6. ASSUME NEW i \in 1..Len(Order)
      PROVE  IF i <= step'[t] THEN handler'[Order[i]] = "orig" ELSE saved'[Order[i]] = "orig"
  <2>1. /\ step[t] \in Nat /\ i \in Nat
        /\ saved'[Order[i]] = IF i = step[t] + 1 THEN handler[Order[i]] ELSE saved[Order[i]]
        /\ handler'[Order[i]] = IF i = step[t] + 1 THEN saved[Order[i]] ELSE handler[Order[i]]
    BY ONLY OrderRange, <1>4, i \in 1..Len(Order)
  <2>2. IF i <= step[t] THEN handler[Order[i]] = "orig" ELSE saved[Order[i]] = "orig"
    BY ONLY <1>5, i \in 1..Len(Order)
  <2>3. CASE i <= step[t]
    BY ONLY <1>3, <2>1, <2>2, <2>3
  <2>4. CASE i = step[t] + 1
    BY ONLY <1>3, <2>1, <2>2, <2>4
  <2>5. CASE i > step[t] + 1
    BY ONLY <1>3, <2>1, <2>2, <2>5
  <2>6. QED
    BY ONLY <2>1, <2>3, <2>4, <2>5
<1>7. P!SavedIsOrig(t)'
  BY ONLY <1>2, <1>6 DEF P!SavedIsOrig
<1>8. inUse
  BY <1>2 DEF P!IInv, P!OneOwner, P!Owns
<1>9. P!Goto(t, "restore") /\ P!Owns(t)
  BY <1>1, <1>2 DEF P!Goto, P!TypeOK, P!Owns
<1>10. QED
  BY ONLY P!IInv, t \in Users, <1>2, <1>3, <1>7, <1>8, <1>9, OwnerStep

\* in_use.store(false), with every handler put back.
LEMMA ReleaseInv ==
  ASSUME P!IInv, NEW t \in Users, P!Release(t)
  PROVE  P!IInv'
<1>1. inUse' \in BOOLEAN
  BY Zenon DEF P!Release
<1>2. ~inUse'
  BY DEF P!Release
<1>3. P!TypeOK'
  BY <1>1 DEF P!Release, P!Goto, P!IInv, P!TypeOK, P!handlers
<1>4. \A u \in Users : barrier'[u] = "none"
  BY DEF P!Release, P!Goto, P!IInv, P!TypeOK, P!OneOwner, P!Owns
<1>5. P!OneOwner' /\ \A u \in Users : P!SavedIsOrig(u)'
  BY <1>2, <1>4 DEF P!OneOwner, P!Owns, P!SavedIsOrig
<1>6. \A i \in 1..Len(Order) : handler[Order[i]] = "orig"
  BY OrderRange DEF P!Release, P!IInv, P!SavedIsOrig
<1>7. P!FreeIsOrig'
  <2>1. \A s \in P!Signals : handler[s] = "orig"
    BY ONLY <1>6, OrderRange
  <2>2. QED
    BY <2>1 DEF P!FreeIsOrig, P!Release, P!handlers
<1>8. QED
  BY ONLY <1>3, <1>5, <1>7 DEF P!IInv

\* The end of the constructor, the begin of the destructor, and wait().
LEMMA OwnerMovesInv ==
  ASSUME P!IInv, NEW t \in Users, NEW b,
         b \in {"made", "failed", "restore", "load", "console", "sleep"},
         P!Goto(t, b), P!Owns(t), P!TypeOK',
         UNCHANGED <<inUse, handler, saved>>,
         b # "failed" => \A s \in P!Signals : saved[s] = "orig",
         b = "restore" => step'[t] = 0
  PROVE  P!IInv'
<1>1. inUse'
  BY DEF P!IInv, P!OneOwner
<1>2. barrier'[t] = b
  BY DEF P!IInv, P!TypeOK, P!Goto
<1>3. P!SavedIsOrig(t)'
  BY <1>2, OrderRange DEF P!SavedIsOrig
<1>4. b # "none"
  OBVIOUS
<1>5. QED
  BY ONLY P!IInv, t \in Users, P!Goto(t, b), P!Owns(t), P!TypeOK', <1>1, <1>3, <1>4, OwnerStep

\* A barrier that is made has saved every handler.
LEMMA ConstructedInv ==
  ASSUME P!IInv, NEW t \in Users,
         \/ P!Installed(t) \/ P!InstallThrows(t) \/ P!Destroy(t)
  PROVE  P!IInv'
<1> USE DEF P!Installed, P!InstallThrows, P!Destroy
<1>1. P!Owns(t) /\ UNCHANGED <<inUse, handler, saved>>
  BY DEF P!Owns, P!handlers
<1>2. \A s \in P!Signals : saved[s] = "orig"
  <2>1. CASE P!Destroy(t)
    BY <2>1 DEF P!IInv, P!SavedIsOrig
  <2>2. CASE barrier[t] = "install" /\ step[t] = Len(Order)
    <3>1. \A i \in 1..Len(Order) : saved[Order[i]] = "orig"
      BY <2>2, OrderRange DEF P!IInv, P!SavedIsOrig
    <3>2. QED
      BY ONLY <3>1, OrderRange
  <2>3. QED
    BY <2>1, <2>2
<1>3. PICK b \in {"made", "failed", "restore"} : P!Goto(t, b) /\ (b = "restore" => P!Destroy(t))
  OBVIOUS
<1>4. b = "restore" => step'[t] = 0
  BY <1>3 DEF P!IInv, P!TypeOK
<1>5. barrier' \in [Users -> {"none", "install", "made", "failed", "restore",
                              "load", "console", "sleep"}]
  BY <1>3 DEF P!Goto, P!IInv, P!TypeOK
<1>6. consoles' \in 0..MaxHandlers
  BY BarrierAssumption DEF P!IInv, P!TypeOK, P!handlers
<1>7. step' \in [Users -> 0..Len(Order)]
  BY OrderRange DEF P!IInv, P!TypeOK
<1>8. UNCHANGED <<received, appRunning, result>>
  OBVIOUS
<1>9. P!TypeOK'
  BY ONLY P!IInv, <1>1, <1>5, <1>6, <1>7, <1>8 DEF P!IInv, P!TypeOK
<1>10. QED
  BY ONLY P!IInv, t \in Users, <1>1, <1>2, <1>3, <1>4, <1>9, OwnerMovesInv

\* The steps of wait() and wait_for().
LEMMA WaitInv ==
  ASSUME P!IInv, NEW t \in Users, P!WaitEnter(t) \/ P!WaitStep(t) \/ P!TimesUp(t)
  PROVE  P!IInv'
<1> USE DEF P!WaitEnter, P!WaitStep, P!LoadSignal, P!LoadConsole, P!LoadEvent, P!Sleep, P!TimesUp, P!Return
<1>1. P!Owns(t) /\ UNCHANGED <<inUse, handler, saved, consoles, step>>
  BY DEF P!Owns, P!handlers
<1>2. \A s \in P!Signals : saved[s] = "orig"
  BY DEF P!IInv, P!SavedIsOrig
<1>3. PICK b \in {"made", "load", "console", "sleep"} : P!Goto(t, b)
  OBVIOUS
<1>4. barrier' \in [Users -> {"none", "install", "made", "failed", "restore",
                              "load", "console", "sleep"}]
  BY <1>3 DEF P!Goto, P!IInv, P!TypeOK
<1>5. /\ received' \in P!Signals \cup {None} /\ appRunning' \in Events \cup {None}
      /\ result' \in [Users -> P!Signals \cup Events \cup {None}]
  <2>1. /\ received \in P!Signals \cup {None} /\ appRunning \in Events \cup {None}
        /\ result \in [Users -> P!Signals \cup Events \cup {None}]
    BY DEF P!IInv, P!TypeOK
  <2>2. CASE UNCHANGED <<received, appRunning, result>>
    BY ONLY <2>1, <2>2
  <2>3. CASE P!WaitEnter(t)
    BY ONLY <2>1, <2>3 DEF P!WaitEnter
  <2>4. CASE P!LoadSignal(t)
    BY ONLY <2>1, <2>4 DEF P!LoadSignal, P!Return
  <2>5. CASE P!LoadEvent(t)
    BY ONLY <2>1, <2>5 DEF P!LoadEvent, P!Return
  <2>6. QED
    BY <2>2, <2>3, <2>4, <2>5
<1>6. P!TypeOK'
  BY ONLY P!IInv, <1>1, <1>4, <1>5 DEF P!IInv, P!TypeOK
<1>7. b \in {"made", "failed", "restore", "load", "console", "sleep"} /\ b # "restore"
  OBVIOUS
<1>8. QED
  BY ONLY P!IInv, t \in Users, <1>1, <1>2, <1>3, <1>6, <1>7, OwnerMovesInv

\* Every step of the polling builds keeps their invariant.
LEMMA PollingNext == ASSUME P!IInv, P!Next PROVE P!IInv'
<1>1. ASSUME NEW s \in P!Signals, P!Raise(s) PROVE P!IInv'
  BY <1>1 DEF P!Raise, P!handlers, P!IInv, P!TypeOK, P!OneOwner, P!Owns, P!FreeIsOrig, P!SavedIsOrig
<1>2. ASSUME NEW e \in Events, P!Console(e) PROVE P!IInv'
  BY <1>2 DEF P!Console, P!handlers, P!IInv, P!TypeOK, P!OneOwner, P!Owns, P!FreeIsOrig, P!SavedIsOrig
<1>3. QED
  BY ONLY P!IInv, P!Next, <1>1, <1>2, EnterInv, InstallInv, ConstructedInv,
          RestoreInv, ReleaseInv, WaitInv DEF P!Next

(***************************************************************************)
(* Only the load_value() that returns a signal or an event takes it out of *)
(* its atomic.                                                             *)
(***************************************************************************)
LEMMA PollingStepTakes == ASSUME P!IInv, P!Next PROVE Takes
<1>1. result \in [Users -> P!Signals \cup Events \cup {None}]
  BY DEF P!IInv, P!TypeOK
<1>2. CASE \E t \in Users :
             \/ P!Enter(t) \/ P!Install(t) \/ P!Installed(t) \/ P!InstallThrows(t)
             \/ P!Destroy(t) \/ P!Restore(t) \/ P!Release(t) \/ P!LoadConsole(t) \/ P!Sleep(t)
             \/ P!TimesUp(t)
  <2>1. UNCHANGED <<received, appRunning, result>>
    BY <1>2 DEF P!Enter, P!Install, P!Installed, P!InstallThrows, P!Destroy, P!Restore, P!Release,
                P!LoadConsole, P!Sleep, P!TimesUp
  <2>2. QED
    BY ONLY <2>1 DEF Takes
<1>3. CASE \E t \in Users : P!WaitEnter(t)
  BY <1>1, <1>3 DEF P!WaitEnter, Takes
<1>4. CASE \E t \in Users : P!LoadSignal(t)
  BY <1>1, <1>4 DEF P!LoadSignal, P!Return, Takes
<1>5. CASE \E t \in Users : P!LoadEvent(t)
  BY <1>1, <1>5 DEF P!LoadEvent, P!Return, Takes
<1>6. CASE \E s \in P!Signals : P!Raise(s)
  BY <1>6, BarrierAssumption DEF P!Raise, Takes
<1>7. CASE \E e \in Events : P!Console(e)
  BY <1>7, BarrierAssumption DEF P!Console, Takes
<1>8. QED
  BY ONLY P!Next, <1>2, <1>3, <1>4, <1>5, <1>6, <1>7 DEF P!Next, P!WaitStep
-----------------------------------------------------------------------------
(* The theorems.                                                           *)

BarrierInv ==
  /\ platform \in {"linux", "macos", "win32"}
  /\ platform = "linux" => L!IInv
  /\ platform # "linux" => P!IInv

\* The invariant of the build holds in every state: global_init, any number of barriers
\* and the signals that come in never leave it.
THEOREM InductiveInvariance == BarrierSafe => []BarrierInv
<1>1. BarrierInit => BarrierInv
  BY PollingInit, LinuxInit DEF BarrierInit, P!Init, BarrierInv
<1>2. BarrierInv /\ [BarrierNext]_barrierVars => BarrierInv'
  <2> SUFFICES ASSUME BarrierInv, [BarrierNext]_barrierVars PROVE BarrierInv'
    OBVIOUS
  <2>1. CASE Polling(P!Next)
    <3>1. platform # "linux" /\ P!IInv /\ P!Next /\ platform' = platform
      BY <2>1 DEF Polling, BarrierInv, P!Next, P!Enter, P!Install, P!Installed, P!InstallThrows, P!Destroy,
                  P!Restore, P!Release, P!WaitEnter, P!WaitStep, P!LoadSignal, P!LoadConsole, P!LoadEvent,
                  P!Sleep, P!TimesUp, P!Raise, P!Console
    <3>2. QED
      BY <3>1, PollingNext DEF BarrierInv
  <2>2. CASE Linux(L!Next)
    <3>1. platform = "linux" /\ L!IInv /\ L!Next /\ platform' = platform
      BY <2>2 DEF Linux, BarrierInv
    <3>2. QED
      BY <3>1, LinuxNext DEF BarrierInv
  <2>3. CASE UNCHANGED barrierVars
    <3>1. UNCHANGED P!vars /\ UNCHANGED linuxOnly
      BY <2>3 DEF barrierVars, pollingOnly, P!vars, P!handlers
    <3>2. P!IInv => P!IInv'
      BY <3>1 DEF P!vars, P!handlers, P!IInv, P!TypeOK, P!OneOwner, P!Owns, P!FreeIsOrig, P!SavedIsOrig
    <3>3. L!IInv => L!IInv'
      BY <3>1 DEF P!vars, linuxOnly, L!IInv, L!TypeOK, L!NoSignalLost, L!BarrierHasDescriptor
    <3>4. QED
      BY <3>1, <3>2, <3>3 DEF BarrierInv, P!vars
  <2>4. QED
    BY <2>1, <2>2, <2>3 DEF BarrierNext
<1>3. QED
  BY <1>1, <1>2, PTL DEF BarrierSafe

(***************************************************************************)
(* Linux: every signal the process accepts is returned by exactly one      *)
(* wait, although all barriers read one descriptor and timers run out.     *)
(***************************************************************************)
THEOREM NoSignalIsLost == BarrierSafe => []LinuxNoSignalLost
<1>1. BarrierInv => LinuxNoSignalLost
  BY DEF BarrierInv, L!IInv, LinuxNoSignalLost
<1>2. QED
  BY <1>1, InductiveInvariance, PTL

(***************************************************************************)
(* Linux: once global_init has blocked the signals in every running thread *)
(* they stay blocked and cannot kill the process, and no wait ends it      *)
(* unless ~global_init has closed the descriptor.                          *)
(***************************************************************************)
THEOREM ProcessIsShielded == BarrierSafe => LinuxShielded
<1>1. BarrierInv /\ [BarrierNext]_barrierVars =>
        [platform = "linux" =>
           /\ L!AllBlocked => process' # "killed" /\ \A t \in Users : mask'[t] # "clear"
           /\ process' = "terminated" => init = "destroyed"]_barrierVars
  BY LinuxStepShielded DEF BarrierInv, BarrierNext, Linux, Polling
<1>2. QED
  BY <1>1, InductiveInvariance, PTL DEF BarrierSafe, LinuxShielded

(***************************************************************************)
(* macOS and Windows: there is one barrier at a time, and whenever there   *)
(* is none std::signal has for every signal the handler from before the    *)
(* first one.                                                              *)
(***************************************************************************)
THEOREM HandlersComeBack == BarrierSafe => []PollingHandlersRestored
<1>1. BarrierInv => PollingHandlersRestored
  BY DEF BarrierInv, P!IInv, P!OneOwner, P!FreeIsOrig, P!SavedIsOrig, PollingHandlersRestored,
         P!HandlersRestored
<1>2. QED
  BY <1>1, InductiveInvariance, PTL

(***************************************************************************)
(* macOS and Windows: a signal or console event leaves its atomic only     *)
(* with the wait that returns it (or for a later one that replaces it),    *)
(* and a wait returns nothing else.                                        *)
(***************************************************************************)
THEOREM TakenIsReturned == BarrierSafe => PollingTakenIsReturned
<1>1. BarrierInv /\ [BarrierNext]_barrierVars =>
        [platform # "linux" => Takes]_barrierVars
  BY PollingStepTakes DEF BarrierInv, BarrierNext, Linux, Polling
<1>2. QED
  BY <1>1, InductiveInvariance, PTL DEF BarrierSafe, PollingTakenIsReturned
=============================================================================
