----------------------- MODULE DeadLockChecker_proofs -----------------------
(***************************************************************************)
(* Proofs about DeadLockChecker, for every set of runners, of checking     *)
(* threads and of heartbeats, every timeout and every time horizon.        *)
(***************************************************************************)
EXTENDS DeadLockChecker, SequenceTheorems, TLAPS

USE CheckerAssumption DEF Threads, InScan

\* Where a thread is while it is not inside _check().
Outside == {"idle", "called", "wait", "wake", "alert", "stopping", "relock", "done"}

(***************************************************************************)
(* erase(itr) keeps what is in front of the iterator where it is and moves *)
(* up what is behind it.                                                   *)
(***************************************************************************)
LEMMA RemoveAtShifts ==
  ASSUME NEW S, NEW s \in Seq(S), NEW i \in 1..Len(s)
  PROVE  /\ RemoveAt(s, i) \in Seq(S)
         /\ Len(RemoveAt(s, i)) = Len(s) - 1
         /\ \A j \in 1..(Len(s) - 1) : RemoveAt(s, i)[j] = IF j < i THEN s[j] ELSE s[j + 1]
<1> DEFINE front == SubSeq(s, 1, i - 1)
           back == SubSeq(s, i + 1, Len(s))
<1>1. Len(s) \in Nat /\ i \in Nat
  OBVIOUS
<1>2. front \in Seq(S) /\ Len(front) = i - 1 /\ \A j \in 1..(i - 1) : front[j] = s[j]
  <2>1. \A j \in 1..(i - 1) : s[j] \in S
    BY <1>1
  <2>2. /\ front \in Seq(S)
        /\ Len(front) = IF 1 <= i - 1 THEN (i - 1) - 1 + 1 ELSE 0
        /\ \A j \in 1..((i - 1) - 1 + 1) : front[j] = s[1 + j - 1]
    BY ONLY <1>1, <2>1, SubSeqProperties
  <2>3. QED
    BY <1>1, <2>2
<1>3. /\ back \in Seq(S) /\ Len(back) = Len(s) - i
      /\ \A j \in 1..(Len(s) - i) : back[j] = s[i + j]
  <2>1. \A j \in (i + 1)..Len(s) : s[j] \in S
    BY <1>1
  <2>2. /\ back \in Seq(S)
        /\ Len(back) = IF i + 1 <= Len(s) THEN Len(s) - (i + 1) + 1 ELSE 0
        /\ \A j \in 1..(Len(s) - (i + 1) + 1) : back[j] = s[(i + 1) + j - 1]
    BY ONLY <1>1, <2>1, SubSeqProperties
  <2>3. QED
    BY <1>1, <2>2
<1> HIDE DEF front, back
<1>4. front \in Seq(S) /\ back \in Seq(S)
  BY ONLY <1>2, <1>3
<1>5. /\ front \o back \in Seq(S)
      /\ Len(front \o back) = Len(front) + Len(back)
      /\ \A j \in 1..(Len(front) + Len(back)) :
           (front \o back)[j] = IF j <= Len(front) THEN front[j] ELSE back[j - Len(front)]
  BY ONLY <1>4, ConcatProperties
<1>6. RemoveAt(s, i) = front \o back
  BY DEF RemoveAt, front, back
<1> DEFINE r == front \o back
<1>7. /\ r \in Seq(S)
      /\ Len(r) = Len(front) + Len(back)
      /\ \A j \in 1..(Len(front) + Len(back)) :
           r[j] = IF j <= Len(front) THEN front[j] ELSE back[j - Len(front)]
  BY ONLY <1>5
<1> HIDE DEF r
<1>8. ASSUME NEW j \in 1..(Len(s) - 1)
      PROVE  r[j] = IF j < i THEN s[j] ELSE s[j + 1]
  <2>1. CASE j < i
    <3>1. j \in 1..(Len(front) + Len(back)) /\ j <= Len(front) /\ j \in 1..(i - 1)
      BY <1>1, <1>2, <1>3, <2>1
    <3>2. r[j] = front[j]
      BY <1>7, <3>1
    <3>3. QED
      BY <1>2, <2>1, <3>1, <3>2
  <2>2. CASE ~(j < i)
    <3>1. /\ j \in 1..(Len(front) + Len(back)) /\ ~(j <= Len(front))
          /\ j - Len(front) \in 1..(Len(s) - i)
      BY <1>1, <1>2, <1>3, <2>2
    <3>2. r[j] = back[j - Len(front)]
      BY <1>7, <3>1
    <3>3. back[j - Len(front)] = s[i + (j - Len(front))]
      BY <1>3, <3>1
    <3>4. i + (j - Len(front)) = j + 1
      BY <1>1, <1>2
    <3>5. QED
      BY <2>2, <3>2, <3>3, <3>4
  <2>3. QED
    BY <2>1, <2>2
<1>9. RemoveAt(s, i) = r
  BY <1>6 DEF r
<1>10. QED
  BY <1>1, <1>2, <1>3, <1>7, <1>8, <1>9
-----------------------------------------------------------------------------
(* The steps preserve the invariant.                                       *)

\* A checker without threads to watch satisfies the invariant.
LEMMA InitIInv == Init => IInv
<1> SUFFICES ASSUME Init PROVE IInv
  OBVIOUS
<1> USE DEF Init
<1>1. TypeOK
  <2>1. running \in BOOLEAN
    BY Zenon
  <2>2. items \in Seq(Executors)
    BY EmptySeq
  <2>3. QED
    BY <2>1, <2>2 DEF TypeOK
<1>2. ScanHoldsLock /\ LocalsOfScan /\ LockedWasHeld /\ ScanProgress /\ NoFalseAlarm
  BY DEF ScanHoldsLock, LocalsOfScan, LockedWasHeld, ScanProgress, NoFalseAlarm
<1>3. SilentIsMissed
  BY DEF SilentIsMissed, Silent
<1>4. QED
  BY <1>1, <1>2, <1>3 DEF IInv

(***************************************************************************)
(* A step of threads that neither are inside _check() nor get there        *)
(* preserves the invariant: it touches neither items nor heartbeats.       *)
(***************************************************************************)
LEMMA OutsideIInv ==
  ASSUME IInv, UNCHANGED <<beats, items, lock, scans, dropped>>,
         running' \in BOOLEAN,
         pc' \in [Threads -> Outside \cup {"scan", "elapsed"}],
         \A t \in Threads : pc'[t] # pc[t] => pc[t] \in Outside /\ pc'[t] \in Outside
  PROVE  IInv'
<1> USE DEF IInv, Outside, beats, scans
<1>1. \A t \in Threads : (InScan(t) <=> InScan(t)') /\ (pc[t] = "elapsed" <=> pc'[t] = "elapsed")
  BY DEF TypeOK
<1>2. TypeOK'
  BY <1>1 DEF TypeOK
<1>3. ScanHoldsLock' /\ LocalsOfScan' /\ NoFalseAlarm'
  BY <1>1 DEF ScanHoldsLock, LocalsOfScan, NoFalseAlarm
<1>4. SilentIsMissed' /\ Silent' = Silent
  BY DEF SilentIsMissed, Silent
<1>5. LockedWasHeld'
  BY <1>1 DEF LockedWasHeld
<1>6. ScanProgress'
  BY <1>1, <1>4 DEF ScanProgress
<1>7. QED
  BY <1>2, <1>3, <1>4, <1>5, <1>6

\* Time passes: whoever gets late by it enters the history.
LEMMA TickIInv == ASSUME IInv, Tick PROVE IInv'
<1> USE DEF IInv, Tick, scans, flags
<1>1. TypeOK'
  BY DEF TypeOK
<1>2. ScanHoldsLock' /\ LocalsOfScan' /\ LockedWasHeld'
  BY DEF ScanHoldsLock, LocalsOfScan, LockedWasHeld
<1>3. Silent \subseteq Silent' /\ SilentIsMissed'
  BY DEF TypeOK, Silent, SilentIsMissed
<1>4. ScanProgress'
  BY <1>3 DEF ScanProgress
<1>5. NoFalseAlarm'
  BY DEF NoFalseAlarm
<1>6. QED
  BY <1>1, <1>2, <1>3, <1>4, <1>5

(***************************************************************************)
(* addCheckedThread() appends under the mutex, so no scan is under way,    *)
(* and a new heartbeat is not late.                                        *)
(***************************************************************************)
LEMMA AddCheckedThreadIInv ==
  ASSUME NEW e \in Executors, IInv, AddCheckedThread(e)
  PROVE  IInv'
<1> USE DEF IInv, AddCheckedThread, scans, flags
<1>1. \A t \in Threads : ~InScan(t) /\ ~InScan(t)'
  BY DEF ScanHoldsLock
<1>2. TypeOK'
  BY <1>1, AppendProperties DEF TypeOK
<1>3. ScanHoldsLock' /\ LocalsOfScan' /\ NoFalseAlarm'
  BY DEF ScanHoldsLock, LocalsOfScan, NoFalseAlarm
<1>4. LockedWasHeld' /\ ScanProgress'
  BY <1>1 DEF LockedWasHeld, ScanProgress
<1>5. SilentIsMissed'
  BY DEF TypeOK, Silent, SilentIsMissed
<1>6. QED
  BY <1>2, <1>3, <1>4, <1>5

\* bump() takes its thread out of the late ones, in the history too.
LEMMA BumpIInv == ASSUME NEW e \in Executors, IInv, Bump(e) PROVE IInv'
<1> USE DEF IInv, Bump, flags
<1>1. TypeOK'
  BY DEF TypeOK
<1>2. ScanHoldsLock' /\ LocalsOfScan' /\ NoFalseAlarm' /\ LockedWasHeld'
  BY DEF TypeOK, ScanHoldsLock, LocalsOfScan, NoFalseAlarm, LockedWasHeld
<1>3. Silent' = Silent \ {e}
  BY DEF TypeOK, Silent
<1>4. SilentIsMissed'
  BY <1>3 DEF SilentIsMissed
<1>5. ScanProgress'
  BY <1>3 DEF TypeOK, ScanProgress
<1>6. QED
  BY <1>1, <1>2, <1>4, <1>5

(***************************************************************************)
(* A thread drops its heartbeat: a scan that holds it through lock() still *)
(* measures it, which is what dropped records.                             *)
(***************************************************************************)
LEMMA DropIInv == ASSUME NEW e \in Executors, IInv, Drop(e) PROVE IInv'
<1> USE DEF IInv, Drop, flags
<1>1. TypeOK'
  BY DEF TypeOK
<1>2. ScanHoldsLock' /\ LocalsOfScan' /\ NoFalseAlarm'
  BY DEF TypeOK, ScanHoldsLock, LocalsOfScan, NoFalseAlarm
<1>3. LockedWasHeld'
  BY DEF LockedWasHeld, Locked
<1>4. Silent' = Silent \ {e}
  BY DEF Silent
<1>5. SilentIsMissed'
  BY <1>4 DEF SilentIsMissed
<1>6. ScanProgress'
  BY <1>4 DEF TypeOK, ScanProgress
<1>7. QED
  BY <1>1, <1>2, <1>3, <1>5, <1>6

\* _check() begins under the mutex with the items as they are.
LEMMA ScanBeginIInv ==
  ASSUME NEW t \in Threads, IInv, pc[t] \in Outside, ScanBegin(t)
  PROVE  IInv'
<1> USE DEF IInv, ScanBegin, Goto, beats, flags, Outside
<1>1. \A u \in Threads : ~InScan(u) /\ (InScan(u)' <=> u = t) /\ pc'[u] # "elapsed"
  BY DEF TypeOK, ScanHoldsLock
<1>2. Range(items) = {items[i] : i \in 1..Len(items)} /\ Range(items) \in SUBSET Executors
  BY RangeEquality, RangeOfSeq DEF TypeOK
<1>3. Silent \subseteq Executors
  BY DEF TypeOK, Silent
<1>4. TypeOK'
  BY <1>1, <1>2, <1>3 DEF TypeOK
<1>5. ScanHoldsLock' /\ LockedWasHeld'
  BY <1>1 DEF ScanHoldsLock, LockedWasHeld
<1>6. LocalsOfScan' /\ NoFalseAlarm'
  BY <1>1 DEF TypeOK, LocalsOfScan, NoFalseAlarm
<1>7. SilentIsMissed' /\ Silent' = Silent
  BY DEF SilentIsMissed, Silent
<1>8. ScanProgress'
  BY <1>1, <1>2, <1>7 DEF TypeOK, ScanProgress
<1>9. QED
  BY <1>4, <1>5, <1>6, <1>7, <1>8

\* lock() succeeds on an executor whose thread holds it, so on none that had expired.
LEMMA ScanLockIInv == ASSUME NEW t \in Threads, IInv, ScanLock(t) PROVE IInv'
<1> USE DEF IInv, ScanLock, AtItem, Goto, beats, flags, scans
<1>1. \A u \in Threads : InScan(u)' <=> InScan(u)
  BY DEF TypeOK
<1>2. TypeOK'
  BY DEF TypeOK
<1>3. ScanHoldsLock' /\ LocalsOfScan' /\ NoFalseAlarm'
  BY <1>1 DEF ScanHoldsLock, LocalsOfScan, NoFalseAlarm
<1>4. LockedWasHeld'
  BY DEF TypeOK, LockedWasHeld, ScanProgress
<1>5. SilentIsMissed' /\ Silent' = Silent
  BY DEF SilentIsMissed, Silent
<1>6. ScanProgress'
  BY <1>1, <1>5 DEF ScanProgress
<1>7. QED
  BY <1>2, <1>3, <1>4, <1>5, <1>6

(***************************************************************************)
(* Erasing an expired item keeps the iterator in place: what is behind it  *)
(* moves up to it, and no item of a running thread is lost.                *)
(***************************************************************************)
LEMMA ScanEraseIInv == ASSUME NEW t \in Threads, IInv, ScanErase(t) PROVE IInv'
<1> USE DEF IInv, ScanErase, AtItem, beats, flags, scans
<1>1. itr[t] \in 1..Len(items) /\ items \in Seq(Executors) /\ Len(items) \in Nat
  BY DEF TypeOK
<1>2. /\ items' \in Seq(Executors)
      /\ Len(items') = Len(items) - 1
      /\ \A j \in 1..(Len(items) - 1) :
           items'[j] = IF j < itr[t] THEN items[j] ELSE items[j + 1]
  <2>1. items' = RemoveAt(items, itr[t])
    OBVIOUS
  <2>2. QED
    BY ONLY <1>1, <2>1, RemoveAtShifts
<1>3. \A u \in Threads : InScan(u) <=> u = t
  BY DEF ScanHoldsLock
<1>4. TypeOK'
  <2>1. UNCHANGED <<beats, lock, flags, pc, scans, dropped>> /\ pc[t] = "scan"
    OBVIOUS
  <2>2. \A u \in Threads : /\ pc[u] = "scan" => itr[u] \in 1..Len(items') + 1
                           /\ pc[u] = "elapsed" => itr[u] \in 1..Len(items')
    BY ONLY <1>1, <1>2, <1>3, <2>1 DEF InScan
  <2>3. QED
    BY ONLY IInv, <1>2, <2>1, <2>2 DEF IInv, TypeOK, beats, flags, scans
<1>5. ScanHoldsLock' /\ LocalsOfScan' /\ NoFalseAlarm'
  BY ONLY IInv, ScanErase(t) DEF ScanErase, IInv, ScanHoldsLock, LocalsOfScan, NoFalseAlarm, InScan, beats, flags,
          scans
<1>6. LockedWasHeld'
  BY <1>3 DEF LockedWasHeld
<1>7. SilentIsMissed' /\ Silent' = Silent /\ Silent \subseteq held
  BY DEF SilentIsMissed, Silent
<1>8. ASSUME NEW e \in since[t], e \notin late[t]
      PROVE  \E i \in itr[t]..Len(items') : items'[i] = e
  <2>1. PICK i \in itr[t]..Len(items) : items[i] = e
    BY <1>3, <1>8 DEF ScanProgress
  <2>2. i # itr[t]
    BY <1>3, <1>7, <2>1 DEF ScanProgress
  <2>3. i - 1 \in itr[t]..Len(items') /\ i - 1 \in 1..(Len(items) - 1)
    BY <1>1, <1>2, <2>1, <2>2
  <2>4. items'[i - 1] = e
    BY <1>1, <1>2, <2>1, <2>3
  <2>5. QED
    BY <2>3, <2>4
<1>9. \A i \in 1..(itr[t] - 1) : items'[i] \notin gone[t]
  BY <1>1, <1>2, <1>3 DEF ScanProgress
<1>10. ScanProgress'
  BY <1>3, <1>7, <1>8, <1>9 DEF ScanProgress
<1>11. QED
  BY <1>4, <1>5, <1>6, <1>7, <1>10

(***************************************************************************)
(* elapsed() reads the heartbeat of the locked executor: late now means    *)
(* late while its thread ran, or dropped since lock().                     *)
(***************************************************************************)
LEMMA ScanElapsedIInv == ASSUME NEW t \in Threads, IInv, ScanElapsed(t) PROVE IInv'
<1> USE DEF IInv, ScanElapsed, Goto, beats, flags
<1>1. /\ itr[t] \in 1..Len(items) /\ Len(items) \in Nat /\ items[itr[t]] \in Executors
      /\ itr' = [itr EXCEPT ![t] = itr[t] + 1] /\ itr'[t] = itr[t] + 1
  BY DEF TypeOK
<1>2. \A u \in Threads : (InScan(u) <=> u = t) /\ (InScan(u)' <=> u = t) /\ pc'[u] # "elapsed"
  BY DEF TypeOK, ScanHoldsLock
<1>3. /\ \A u \in Threads : u # t => late'[u] = late[u] /\ itr'[u] = itr[u]
      /\ late'[t] = late[t] \cup {e \in {items[itr[t]]} : Overdue(e)}
  BY DEF TypeOK
<1>4. TypeOK'
  <2>1. /\ late' \in [Threads -> SUBSET Executors] /\ itr' \in [Threads -> Nat \ {0}]
        /\ pc' \in [Threads -> {"idle", "called", "wait", "wake", "scan", "elapsed", "alert",
                                "stopping", "relock", "done"}]
    BY <1>1 DEF TypeOK
  <2>2. \A u \in Threads : pc'[u] = "scan" => itr'[u] \in 1..Len(items) + 1
    BY <1>1, <1>2, <1>3 DEF InScan
  <2>3. QED
    BY <1>2, <2>1, <2>2 DEF TypeOK
<1>5. ScanHoldsLock' /\ LockedWasHeld' /\ LocalsOfScan'
  BY <1>2, <1>3 DEF ScanHoldsLock, LockedWasHeld, LocalsOfScan
<1>6. SilentIsMissed' /\ Silent' = Silent
  BY DEF SilentIsMissed, Silent
<1>7. NoFalseAlarm'
  BY <1>3 DEF NoFalseAlarm, LockedWasHeld, SilentIsMissed, Silent, Overdue
<1>8. ASSUME NEW e \in since[t], e \notin late'[t]
      PROVE  \E i \in itr'[t]..Len(items) : items[i] = e
  <2>1. PICK i \in itr[t]..Len(items) : items[i] = e
    BY <1>2, <1>3, <1>8 DEF ScanProgress
  <2>2. i # itr[t]
    BY <1>2, <1>3, <1>8, <2>1 DEF ScanProgress, Silent, Overdue
  <2>3. QED
    BY <1>1, <2>1, <2>2
<1>9. \A i \in 1..(itr'[t] - 1) : items[i] \notin gone[t]
  BY <1>1, <1>2 DEF ScanProgress, LockedWasHeld
<1>10. ScanProgress'
  BY <1>2, <1>6, <1>8, <1>9 DEF ScanProgress
<1>11. QED
  BY <1>4, <1>5, <1>6, <1>7, <1>10

\* _check() returns and the mutex is given up, by whichever of its callers.
LEMMA ScanLeaveIInv ==
  ASSUME NEW t \in Threads, NEW p \in Outside, IInv, Scanned(t), lock' = Free,
         Goto(t, p), ScanEnd(t), UNCHANGED <<beats, items, flags, dropped>>
  PROVE  IInv'
<1> USE DEF IInv, Scanned, ScanEnd, Goto, beats, flags, Outside
<1>1. \A u \in Threads : (InScan(u) <=> u = t) /\ ~InScan(u)'
  BY DEF TypeOK, ScanHoldsLock
<1>2. TypeOK'
  BY DEF TypeOK
<1>3. ScanHoldsLock' /\ LockedWasHeld' /\ ScanProgress'
  BY <1>1 DEF ScanHoldsLock, LockedWasHeld, ScanProgress
<1>4. LocalsOfScan' /\ NoFalseAlarm'
  BY <1>1 DEF TypeOK, LocalsOfScan, NoFalseAlarm
<1>5. SilentIsMissed'
  BY DEF SilentIsMissed, Silent
<1>6. QED
  BY <1>2, <1>3, <1>4, <1>5

\* The steps of one thread outside _check() that leave the mutex as it is.
LEMMA GotoIInv ==
  ASSUME NEW t \in Threads, NEW p \in Outside, IInv, pc[t] \in Outside, Goto(t, p),
         running' \in BOOLEAN, UNCHANGED <<beats, items, lock, scans, dropped>>
  PROVE  IInv'
<1>1. /\ pc' \in [Threads -> Outside \cup {"scan", "elapsed"}]
      /\ \A u \in Threads : pc'[u] # pc[u] => pc[u] \in Outside /\ pc'[u] \in Outside
  BY DEF IInv, TypeOK, Goto, Outside
<1>2. QED
  BY <1>1, OutsideIInv

\* stop() sets _running and wakes waiting runners, which are outside _check().
LEMMA StopBodyIInv ==
  ASSUME IInv, NEW p \in [Threads -> Outside \cup {"scan", "elapsed"}], StopBody(p),
         \A t \in Threads : p[t] # pc[t] => pc[t] \in Outside /\ p[t] \in Outside
  PROVE  IInv'
<1>1. /\ pc' \in [Threads -> Outside \cup {"scan", "elapsed"}]
      /\ \A u \in Threads : pc'[u] # pc[u] => pc[u] \in Outside /\ pc'[u] \in Outside
  BY DEF StopBody, Woken, Outside
<1>2. running' \in BOOLEAN
  BY Zenon DEF StopBody
<1>3. QED
  BY <1>1, <1>2, OutsideIInv DEF StopBody

\* stop() from a thread of the program preserves the invariant.
LEMMA StopIInv == ASSUME IInv, Stop PROVE IInv'
<1>1. pc \in [Threads -> Outside \cup {"scan", "elapsed"}]
  BY DEF IInv, TypeOK, Outside
<1>2. QED
  BY <1>1, StopBodyIInv DEF Stop

\* So does stop() from inside the alerter.
LEMMA AlertStopIInv == ASSUME NEW t \in Threads, IInv, AlertStop(t) PROVE IInv'
<1> DEFINE p == [pc EXCEPT ![t] = IF t \in Runners THEN "relock" ELSE "idle"]
<1>1. /\ p \in [Threads -> Outside \cup {"scan", "elapsed"}]
      /\ \A u \in Threads : p[u] # pc[u] => pc[u] \in Outside /\ p[u] \in Outside
  BY DEF IInv, TypeOK, Outside, AlertStop
<1>2. StopBody(p)
  BY DEF AlertStop
<1> HIDE DEF p
<1>3. QED
  BY <1>1, <1>2, StopBodyIInv

\* The scan steps that check() and runner() share preserve the invariant.
LEMMA ScanIInv == ASSUME NEW t \in Threads, IInv, Scan(t) PROVE IInv'
<1>1. CASE ScanLock(t)
  BY <1>1, ScanLockIInv
<1>2. CASE ScanErase(t)
  BY <1>2, ScanEraseIInv
<1>3. CASE ScanElapsed(t)
  BY <1>3, ScanElapsedIInv
<1>4. CASE ScanAlert(t)
  BY <1>4, ScanLeaveIInv DEF ScanAlert, Outside
<1>5. QED
  BY <1>1, <1>2, <1>3, <1>4 DEF Scan

\* Every step of a thread in check() preserves the invariant.
LEMMA CheckerIInv ==
  ASSUME NEW t \in Checkers, IInv, Check(t) \/ CheckStep(t) PROVE IInv'
<1>1. running \in BOOLEAN
  BY DEF IInv, TypeOK
<1>2. CASE Check(t)
  BY <1>2, ScanBeginIInv DEF Check, Outside
<1>3. CASE Scan(t)
  BY <1>3, ScanIInv
<1>4. CASE CheckFalse(t)
  BY <1>4, ScanLeaveIInv DEF CheckFalse, Outside
<1>5. CASE CheckAlerted(t)
  BY <1>1, <1>5, GotoIInv DEF CheckAlerted, Outside, flags
<1>6. CASE AlertStop(t)
  BY <1>6, AlertStopIInv
<1>7. QED
  BY <1>2, <1>3, <1>4, <1>5, <1>6 DEF CheckStep

\* Every step of a thread in runner() preserves the invariant.
LEMMA RunnerIInv ==
  ASSUME NEW r \in Runners, IInv, Runner(r) \/ RunnerStep(r) \/ WaitEnds(r) \/ AlertThrows(r)
  PROVE  IInv'
<1>1. running \in BOOLEAN
  BY DEF IInv, TypeOK
<1>2. CASE Runner(r)
  BY <1>1, <1>2, GotoIInv DEF Runner, Outside
<1>3. CASE RunnerEnter(r)
  <2>1. running' \in BOOLEAN
    BY <1>3, Zenon DEF RunnerEnter
  <2>2. QED
    BY <1>3, <2>1, GotoIInv DEF RunnerEnter, Outside
<1>4. CASE RunnerCheck(r)
  BY <1>4, ScanBeginIInv DEF RunnerCheck, Outside
<1>5. CASE Scan(r)
  BY <1>5, ScanIInv
<1>6. CASE RunnerNext(r)
  BY <1>6, ScanLeaveIInv DEF RunnerNext, Loop, Outside
<1>7. CASE AlertReturns(r)
  BY <1>1, <1>7, GotoIInv DEF AlertReturns, Outside, flags
<1>8. CASE Relock(r)
  BY <1>1, <1>8, GotoIInv DEF Relock, Loop, Outside, flags
<1>9. CASE AlertStop(r)
  BY <1>9, AlertStopIInv
<1>10. CASE WaitEnds(r)
  BY <1>1, <1>10, GotoIInv DEF WaitEnds, Outside, flags
<1>11. CASE AlertThrows(r)
  BY <1>1, <1>11, GotoIInv DEF AlertThrows, Outside, flags
<1>12. QED
  BY <1>2, <1>3, <1>4, <1>5, <1>6, <1>7, <1>8, <1>9, <1>10, <1>11 DEF RunnerStep

\* Every step preserves the invariant.
LEMMA NextIInv == IInv /\ [Next]_vars => IInv'
<1> SUFFICES ASSUME IInv, [Next]_vars PROVE IInv'
  OBVIOUS
<1>1. CASE Tick
  BY <1>1, TickIInv
<1>2. ASSUME NEW e \in Executors, AddCheckedThread(e) \/ Bump(e) \/ Drop(e) PROVE IInv'
  BY <1>2, AddCheckedThreadIInv, BumpIInv, DropIInv
<1>3. ASSUME NEW t \in Checkers, Check(t) \/ CheckStep(t) PROVE IInv'
  BY <1>3, CheckerIInv
<1>4. ASSUME NEW r \in Runners, Runner(r) \/ RunnerStep(r) \/ WaitEnds(r) \/ AlertThrows(r)
      PROVE  IInv'
  BY <1>4, RunnerIInv
<1>5. ASSUME NEW t \in Threads, AlertCallsStop(t) PROVE IInv'
  BY <1>5, GotoIInv DEF AlertCallsStop, Outside, flags, IInv, TypeOK
<1>6. CASE Stop
  BY <1>6, StopIInv
<1>7. CASE UNCHANGED vars
  <2>1. pc \in [Threads -> Outside \cup {"scan", "elapsed"}] /\ running \in BOOLEAN
    BY DEF IInv, TypeOK, Outside
  <2>2. QED
    BY <1>7, <2>1, OutsideIInv DEF vars, flags
<1>8. QED
  BY <1>1, <1>2, <1>3, <1>4, <1>5, <1>6, <1>7 DEF Next
-----------------------------------------------------------------------------
(* The theorems.                                                           *)

\* The inductive invariant holds in every reachable state.
THEOREM InductiveInvariance == Safe => []IInv
<1>1. QED
  BY InitIInv, NextIInv, PTL DEF Safe

(***************************************************************************)
(* The type invariant; in particular _check() dereferences its iterator    *)
(* only inside items, whatever erase() removed before.                     *)
(***************************************************************************)
THEOREM TypeCorrect == Safe => []TypeOK
<1>1. IInv => TypeOK
  BY DEF IInv
<1>2. QED
  BY <1>1, InductiveInvariance, PTL

\* The alerter is only called about a thread that was silent for longer than the timeout,
\* or that ended between lock() and elapsed().
THEOREM AlarmsAreReal == Safe => []NoFalseAlarm
<1>1. IInv => NoFalseAlarm
  BY DEF IInv
<1>2. QED
  BY <1>1, InductiveInvariance, PTL

(***************************************************************************)
(* A finished _check() has found every thread that stayed late since it    *)
(* began, and erased every heartbeat that had expired by then.             *)
(***************************************************************************)
THEOREM ScansAreComplete == Safe => []ScanIsComplete
<1>1. ASSUME IInv PROVE ScanIsComplete
  <2> SUFFICES ASSUME NEW t \in Threads, Scanned(t)
               PROVE  since[t] \subseteq late[t] /\ gone[t] \cap Range(items) = {}
    BY DEF ScanIsComplete
  <2>1. /\ InScan(t) /\ itr[t] = Len(items) + 1 /\ Len(items) \in Nat
        /\ Range(items) = {items[i] : i \in 1..Len(items)}
    BY <1>1, RangeEquality DEF IInv, TypeOK, Scanned
  <2>2. since[t] \subseteq late[t]
    BY <1>1, <2>1 DEF IInv, ScanProgress
  <2>3. \A i \in 1..Len(items) : items[i] \notin gone[t]
    BY <1>1, <2>1 DEF IInv, ScanProgress
  <2>4. QED
    BY ONLY <2>1, <2>2, <2>3
<1>2. QED
  BY <1>1, InductiveInvariance, PTL

(***************************************************************************)
(* While a _check() is under way only its own erase() changes items: the   *)
(* alerter, addCheckedThread() and other scans need the mutex first.       *)
(***************************************************************************)
THEOREM IteratorsStayValid == Safe => OnlyScanErases
<1>1. ASSUME IInv, [Next]_vars, NEW t \in Threads, InScan(t), items' # items
      PROVE  ScanErase(t)
  <2>1. lock = t /\ t # Free
    BY <1>1 DEF IInv, ScanHoldsLock
  <2>2. \E u \in Threads : ScanErase(u)
    BY <1>1, <2>1 DEF Next, vars, Tick, AddCheckedThread, Bump, Drop, Check, ScanBegin, CheckStep,
         Scan, ScanLock, ScanElapsed, ScanAlert, CheckFalse, CheckAlerted, AlertStop, StopBody,
         Stop, Runner, RunnerStep, RunnerEnter, RunnerCheck, RunnerNext, AlertReturns, Relock,
         WaitEnds, AlertThrows, AlertCallsStop
  <2>3. \A u \in Threads : ScanErase(u) => lock = u
    BY <1>1 DEF IInv, ScanHoldsLock, ScanErase, AtItem
  <2>4. QED
    BY <2>1, <2>2, <2>3
<1>2. IInv /\ [Next]_vars
        => [\A t \in Threads : InScan(t) /\ items' # items => ScanErase(t)]_vars
  BY <1>1
<1>3. QED
  BY <1>2, InductiveInvariance, PTL DEF Safe, OnlyScanErases
=============================================================================
