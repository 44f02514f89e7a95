---------------------------- MODULE LocksProofs ----------------------------
(***************************************************************************)
(* Proofs about WorkerLock, for any set of instances and any ttl, about     *)
(* RateLimiter, for any limit, period and schedule, and about MCLocks, where *)
(* they run side by side with the watch lock, the backups and the            *)
(* collectors: what the proofs of these say holds of their parts.           *)
(***************************************************************************)
EXTENDS MCLocks, TLAPS

WatchP == INSTANCE WatchLockProofs WITH pc <- wpc
VaultP == INSTANCE BackupsProofs
TradesP == INSTANCE TradeCollectorProofs WITH Ttl <- LockTtl, MaxFaults <- MaxLosses,
               pc <- cpc, seen <- cseen, cause <- ccause

-----------------------------------------------------------------------------
\* Every state of the lock protocol is well typed.
THEOREM WorkerTypes == Spec => []TypeOK
<1>1. Init => TypeOK
  BY WorkerLockAssumption DEF Init, TypeOK, Row, FreeRow, PC, Cause
<1>2. TypeOK /\ [Next]_vars => TypeOK'
  <2> SUFFICES ASSUME TypeOK, [Next]_vars PROVE TypeOK'
    OBVIOUS
  <2> USE WorkerLockAssumption DEF TypeOK, Row, FreeRow, PC, Cause
  <2>1. ASSUME NEW w \in Worker, Read(w)
        PROVE  seen' \in [Worker -> Row] /\ cause' \subseteq Cause
    <3>1. row \in Row /\ FreeRow \in Row
      BY DEF Row
    <3>2. seen' = [seen EXCEPT ![w] = row] \/ seen' = [seen EXCEPT ![w] = FreeRow]
      BY <2>1 DEF Read
    <3>3. seen' \in [Worker -> Row]
      BY <3>1, <3>2
    <3>4. cause' \subseteq Cause
      BY <2>1 DEF Read
    <3> QED
      BY <3>3, <3>4
  <2>2. ASSUME NEW w \in Worker, Write(w)
        PROVE  row' \in Row /\ cause' \subseteq Cause
    BY <2>2 DEF Write
  <2>3. ASSUME NEW w \in Worker, NEW l \in PC, Goto(w, l)
        PROVE  pc' \in [Worker -> PC]
    BY <2>3 DEF Goto
  <2>4. ASSUME NEW w \in Worker, AcquireRead(w) PROVE TypeOK'
    BY <2>1, <2>3, <2>4 DEF AcquireRead
  <2>5. ASSUME NEW w \in Worker, AcquireDecide(w) PROVE TypeOK'
    BY <2>3, <2>5 DEF AcquireDecide
  <2>6. ASSUME NEW w \in Worker, AcquireWrite(w) PROVE TypeOK'
    BY <2>2, <2>3, <2>6 DEF AcquireWrite
  <2>7. ASSUME NEW w \in Worker, StandbyStop(w) PROVE TypeOK'
    BY <2>3, <2>7 DEF StandbyStop
  <2>8. ASSUME NEW w \in Worker, HeartbeatRead(w) PROVE TypeOK'
    BY <2>1, <2>3, <2>8 DEF HeartbeatRead
  <2>9. ASSUME NEW w \in Worker, HeartbeatDecide(w) PROVE TypeOK'
    BY <2>3, <2>9 DEF HeartbeatDecide
  <2>10. ASSUME NEW w \in Worker, HeartbeatWrite(w) PROVE TypeOK'
    BY <2>2, <2>3, <2>10 DEF HeartbeatWrite
  <2>11. ASSUME NEW w \in Worker, HeartbeatWriteFails(w) PROVE TypeOK'
    BY <2>3, <2>11 DEF HeartbeatWriteFails
  <2>12. ASSUME NEW w \in Worker, ReleaseRead(w) PROVE TypeOK'
    BY <2>1, <2>3, <2>12 DEF ReleaseRead
  <2>13. ASSUME NEW w \in Worker, ReleaseDelete(w) PROVE TypeOK'
    <3>1. pc' \in [Worker -> PC] /\ UNCHANGED <<now, seen, stamp>>
      BY <2>3, <2>13 DEF ReleaseDelete
    <3>2. row' \in Row
      BY <2>13 DEF ReleaseDelete
    <3>3. cause' = cause \/ cause' = cause \cup {"stale_delete"}
      BY <2>13 DEF ReleaseDelete
    <3>4. cause' \subseteq Cause
      BY <3>3
    <3> QED
      BY <3>1, <3>2, <3>4
  <2>14. ASSUME NEW w \in Worker, Crash(w) PROVE TypeOK'
    BY <2>3, <2>14 DEF Crash
  <2>15. CASE Tick
    BY <2>15 DEF Tick
  <2>16. CASE UNCHANGED vars
    BY <2>16 DEF vars
  <2> QED
    BY <2>4, <2>5, <2>6, <2>7, <2>8, <2>9, <2>10, <2>11, <2>12, <2>13,
       <2>14, <2>15, <2>16 DEF Next
<1> QED
  BY <1>1, <1>2, PTL DEF Spec

\* An instance about to write took its decision on a row it might take; time
\* only makes that decision truer.
DecisionHolds ==
    \A w \in Worker : pc[w] \in {"taking", "renewing"} => MayTake(w, seen[w])

\* The inductive strengthening of OwnedUnlessDisturbed.
LockInv == TypeOK /\ DecisionHolds /\ OwnedUnlessDisturbed

LEMMA LockInvInit == Init => LockInv
BY WorkerLockAssumption
   DEF Init, LockInv, TypeOK, DecisionHolds, OwnedUnlessDisturbed, Active,
       Row, FreeRow, PC, Cause

\* A write that leaves the history clean leaves the writer as only holder.
LEMMA CleanWrite ==
  ASSUME LockInv, NEW w \in Worker, pc[w] \in {"taking", "renewing"},
         Write(w), cause' = {}
  PROVE  Active \subseteq {w} /\ row'.id = w
<1>1. cause = {} /\ row'.id = w
  BY DEF Write
<1>2. row.id = w \/ seen[w] = row
  BY DEF Write
<1>3. Expired(row) => row.id \notin Active \ {w}
  BY DEF Write
<1>4. Active \subseteq {row.id}
  BY <1>1 DEF LockInv, OwnedUnlessDisturbed, Active
<1>5. CASE row.id = w
  BY <1>1, <1>4, <1>5
<1>6. CASE row.id # w
  <2>1. Expired(row)
    BY <1>2, <1>6 DEF LockInv, DecisionHolds, MayTake
  <2> QED
    BY <1>1, <1>3, <1>4, <1>6, <2>1
<1> QED
  BY <1>5, <1>6

\* One step keeps the strengthened invariant.
LEMMA LockInvStep == LockInv /\ TypeOK' /\ [Next]_vars => LockInv'
<1> SUFFICES ASSUME LockInv, TypeOK', [Next]_vars
             PROVE  DecisionHolds' /\ OwnedUnlessDisturbed'
  BY DEF LockInv
<1> USE DEF LockInv, Goto
<1>1. ASSUME NEW w \in Worker, Write(w),
             pc[w] \in {"taking", "renewing"}, pc' = [pc EXCEPT ![w] = "trading"],
             UNCHANGED <<now, seen, stamp>>
      PROVE  DecisionHolds' /\ OwnedUnlessDisturbed'
  <2>1. DecisionHolds'
    BY <1>1 DEF DecisionHolds, MayTake, Expired, TypeOK
  <2>2. ASSUME cause' = {} PROVE \A v \in Active' : row'.id = v
    BY <1>1, <2>2, CleanWrite DEF Active, TypeOK
  <2> QED
    BY <2>1, <2>2 DEF OwnedUnlessDisturbed
<1>2. ASSUME NEW w \in Worker, AcquireRead(w) \/ HeartbeatRead(w) \/ ReleaseRead(w)
      PROVE  DecisionHolds' /\ OwnedUnlessDisturbed'
  <2>1. UNCHANGED <<row, now>> /\ pc'[w] \notin {"taking", "renewing"}
    BY <1>2 DEF AcquireRead, HeartbeatRead, ReleaseRead, TypeOK
  <2>2. \A v \in Worker \ {w} : pc'[v] = pc[v] /\ seen'[v] = seen[v]
    BY <1>2 DEF AcquireRead, HeartbeatRead, ReleaseRead, Read, TypeOK
  <2>3. DecisionHolds'
    BY <2>1, <2>2 DEF DecisionHolds, MayTake, Expired
  <2>4. cause' = {} => cause = {}
    BY <1>2 DEF AcquireRead, HeartbeatRead, ReleaseRead, Read
  <2>5. Active' \subseteq Active
    BY <1>2 DEF AcquireRead, HeartbeatRead, ReleaseRead, Active, TypeOK
  <2> QED
    BY <2>1, <2>3, <2>4, <2>5 DEF OwnedUnlessDisturbed
<1>3. ASSUME NEW w \in Worker, AcquireDecide(w) \/ HeartbeatDecide(w)
      PROVE  DecisionHolds' /\ OwnedUnlessDisturbed'
  <2>1. UNCHANGED <<row, now, seen, cause>> /\ Active' \subseteq Active
    BY <1>3 DEF AcquireDecide, HeartbeatDecide, Active, TypeOK
  <2>2. DecisionHolds'
    BY <1>3 DEF AcquireDecide, HeartbeatDecide, DecisionHolds, MayTake, Expired, TypeOK
  <2> QED
    BY <2>1, <2>2 DEF OwnedUnlessDisturbed
<1>4. ASSUME NEW w \in Worker,
             StandbyStop(w) \/ HeartbeatWriteFails(w) \/ Crash(w)
      PROVE  DecisionHolds' /\ OwnedUnlessDisturbed'
  <2>1. UNCHANGED <<row, now, seen, cause>> /\ Active' \subseteq Active
    BY <1>4 DEF StandbyStop, HeartbeatWriteFails, Crash, Active, TypeOK
  <2>2. DecisionHolds'
    BY <1>4 DEF StandbyStop, HeartbeatWriteFails, Crash, DecisionHolds, MayTake, Expired, TypeOK
  <2> QED
    BY <2>1, <2>2 DEF OwnedUnlessDisturbed
<1>5. ASSUME NEW w \in Worker, ReleaseDelete(w)
      PROVE  DecisionHolds' /\ OwnedUnlessDisturbed'
  <2>1. UNCHANGED <<now, seen>> /\ Active' \subseteq Active /\ w \notin Active
    BY <1>5 DEF ReleaseDelete, Active, TypeOK
  <2>2. DecisionHolds'
    BY <1>5 DEF ReleaseDelete, DecisionHolds, MayTake, Expired, TypeOK
  <2>3. CASE UNCHANGED <<row, cause>>
    BY <2>1, <2>2, <2>3 DEF OwnedUnlessDisturbed
  <2>4. CASE cause' = {} /\ row.id \in {w, NoWorker} /\ cause = {}
    <3>1. Active = {}
      BY <2>1, <2>4, WorkerLockAssumption DEF OwnedUnlessDisturbed, Active
    <3> QED
      BY <2>1, <2>2, <3>1 DEF OwnedUnlessDisturbed
  <2>5. CASE cause' # {}
    BY <2>2, <2>5 DEF OwnedUnlessDisturbed
  <2>6. \/ UNCHANGED <<row, cause>>
        \/ cause' = {} /\ row.id \in {w, NoWorker} /\ cause = {}
        \/ cause' # {}
    BY <1>5 DEF ReleaseDelete
  <2> QED
    BY <2>3, <2>4, <2>5, <2>6
<1>6. CASE Tick
  <2>1. \A r \in Row : Expired(r) => Expired(r)'
    BY <1>6, WorkerLockAssumption DEF Tick, Expired, TypeOK, Row
  <2>2. \A w \in Worker : seen[w] \in Row
    BY DEF TypeOK
  <2>3. UNCHANGED <<row, pc, seen, cause>> /\ Active' = Active
    BY <1>6 DEF Tick, Active
  <2>4. DecisionHolds'
    BY <2>1, <2>2, <2>3 DEF DecisionHolds, MayTake
  <2> QED
    BY <2>3, <2>4 DEF OwnedUnlessDisturbed
<1>7. CASE UNCHANGED vars
  BY <1>7 DEF vars, DecisionHolds, MayTake, Expired, OwnedUnlessDisturbed, Active
<1> QED
  BY <1>1, <1>2, <1>3, <1>4, <1>5, <1>6, <1>7 DEF Next, AcquireWrite, HeartbeatWrite

\* OwnedUnlessDisturbed for every number of instances, every ttl and every
\* run of the clock: main.py's instances can only trade side by side after a
\* failed read, a stale decision or a lapsed lease.
THEOREM Ownership == Spec => []OwnedUnlessDisturbed
<1>1. LockInv /\ TypeOK /\ TypeOK' /\ [Next]_vars => LockInv'
  BY LockInvStep
<1>2. LockInv => OwnedUnlessDisturbed
  BY DEF LockInv
<1> QED
  BY LockInvInit, <1>1, <1>2, WorkerTypes, PTL DEF Spec

\* The same promise seen from one step: nobody but its owner touches an
\* unexpired lock while the history is clean.
THEOREM FreshLock == Spec => FreshLockRespected
<1> DEFINE Respects == (row' # row /\ cause' = {})
                         => \/ Expired(row)
                            \/ row'.id = row.id
                            \/ row' = FreeRow /\ pc[row.id] = "releasing"
<1>1. LockInv /\ [Next]_vars => Respects
  <2> SUFFICES ASSUME LockInv, [Next]_vars, row' # row, cause' = {}
               PROVE  \/ Expired(row)
                      \/ row'.id = row.id
                      \/ row' = FreeRow /\ pc[row.id] = "releasing"
    OBVIOUS
  <2>1. ASSUME NEW w \in Worker, AcquireWrite(w) \/ HeartbeatWrite(w)
        PROVE  Expired(row) \/ row'.id = row.id
    <3>1. Write(w) /\ pc[w] \in {"taking", "renewing"}
      BY <2>1 DEF AcquireWrite, HeartbeatWrite
    <3>2. row.id = w \/ seen[w] = row
      BY <3>1 DEF Write
    <3>3. MayTake(w, seen[w])
      BY <3>1 DEF LockInv, DecisionHolds
    <3> QED
      BY <3>1, <3>2, <3>3 DEF Write, MayTake
  <2>2. ASSUME NEW w \in Worker, ReleaseDelete(w)
        PROVE  Expired(row) \/ (row' = FreeRow /\ pc[row.id] = "releasing")
    BY <2>2 DEF ReleaseDelete, Expired
  <2> QED
    BY <2>1, <2>2 DEF Next, vars, AcquireRead, AcquireDecide, StandbyStop,
       HeartbeatRead, HeartbeatDecide, HeartbeatWriteFails, ReleaseRead,
       Crash, Tick
<1>2. LockInv /\ TypeOK /\ TypeOK' /\ [Next]_vars => LockInv'
  BY LockInvStep
<1> QED
  BY LockInvInit, <1>1, <1>2, WorkerTypes, PTL DEF Spec, FreshLockRespected

-----------------------------------------------------------------------------
\* The times of the calls never decrease.
Ordered == \A i, j \in 1..n : i <= j => granted[i] <= granted[j]

\* A call that has left the deque is older than the period.
LeftIsOld == \A i \in 1..(first - 1) : granted[i] + Period < clock

\* A call too many in the deque came after its head had aged.
HeadAged == Waiting > MaxCalls => granted[first] + Period < granted[n]

\* The thread that holds the lock found at most MaxCalls calls, and outsleeps
\* the head of a full deque.
SleeperOK ==
    until > 0 => /\ Waiting <= MaxCalls
                 /\ Waiting = MaxCalls => granted[first] + Period < until

LimiterInv == LimiterTypeOK /\ Ordered /\ LeftIsOld /\ HeadAged /\ SleeperOK /\ WindowBounded

\* The limiter starts with an empty deque.
LEMMA LimiterStart == LimiterInit => LimiterInv
  BY LimiterAssumption
  DEF LimiterInit, LimiterInv, LimiterTypeOK, Ordered, LeftIsOld, HeadAged, SleeperOK,
      WindowBounded, Waiting

\* Time alone changes nothing that the invariant bounds from above.
LEMMA ElapsePreserves == LimiterInv /\ Elapse => LimiterInv'
  BY LimiterAssumption
  DEF Elapse, LimiterInv, LimiterTypeOK, Ordered, LeftIsOld, HeadAged, SleeperOK,
      WindowBounded, Waiting

\* What is pruned is old, and of a deque with a call too many at least the head is.
LEMMA EnterPreserves == LimiterInv /\ Enter => LimiterInv'
<1> SUFFICES ASSUME LimiterInv, Enter PROVE LimiterInv'
  OBVIOUS
<1> USE LimiterAssumption
<1>1. PICK f \in first..(n + 1) : Pruned(f) /\ first' = f /\ until' = Wake(f)
  BY DEF Enter
<1>2. UNCHANGED <<clock, granted, n>>
  BY DEF Enter
<1>3. LimiterTypeOK /\ Ordered /\ LeftIsOld /\ HeadAged /\ WindowBounded
  BY DEF LimiterInv
<1>4. n \in Nat /\ first \in 1..(n + 1) /\ clock \in Nat \ {0} /\ granted \in [1..n -> 1..clock]
  BY <1>3 DEF LimiterTypeOK
<1>5. f \in 1..(n + 1) /\ f \in Nat
  BY <1>1, <1>4
<1>6. n + 1 - f <= MaxCalls
  <2>1. CASE Waiting <= MaxCalls
    BY <2>1, <1>1, <1>4 DEF Waiting
  <2>2. CASE Waiting > MaxCalls
    <3>1. Waiting = MaxCalls + 1 /\ first \in 1..n /\ n \in 1..n
      BY <2>2, <1>3, <1>4 DEF Waiting, LimiterTypeOK
    <3>2. granted[first] + Period < granted[n] /\ granted[n] \in 1..clock /\ granted[first] \in 1..clock
      BY <2>2, <3>1, <1>3, <1>4 DEF HeadAged
    <3>3. Old(first)
      BY <3>2, <1>4 DEF Old
    <3>4. f # first
      BY <3>1, <3>3, <1>1 DEF Pruned
    <3> QED
      BY <3>1, <3>4, <1>1, <1>4 DEF Waiting
  <2> QED
    BY <2>1, <2>2, <1>4 DEF Waiting
<1>7. Waiting' <= MaxCalls
  BY <1>1, <1>2, <1>6 DEF Waiting
<1>8. LimiterTypeOK'
  <2>1. until' \in Nat
    <3>1. CASE n + 1 - f >= MaxCalls
      <4>1. f \in 1..n
        BY <3>1, <1>4, <1>5
      <4> QED
        BY <4>1, <3>1, <1>1, <1>4 DEF Wake
    <3>2. CASE ~(n + 1 - f >= MaxCalls)
      BY <3>2, <1>1, <1>4 DEF Wake
    <3> QED
      BY <3>1, <3>2
  <2> QED
    BY <2>1, <1>1, <1>2, <1>4, <1>5, <1>7 DEF LimiterTypeOK, Waiting
<1>9. Ordered' /\ WindowBounded'
  BY <1>2, <1>3 DEF Ordered, WindowBounded
<1>10. LeftIsOld'
  BY <1>1, <1>2, <1>3, <1>4 DEF LeftIsOld, Pruned, Old
<1>11. HeadAged'
  BY <1>7, <1>1, <1>2, <1>4, <1>5 DEF HeadAged, Waiting
<1>12. SleeperOK'
  <2>1. CASE n + 1 - f = MaxCalls
    <3>1. f \in 1..n
      BY <2>1, <1>4, <1>5
    <3>2. until' = granted[f] + Period + 1 /\ granted[f] \in Nat
      BY <2>1, <3>1, <1>1, <1>4 DEF Wake
    <3> QED
      BY <3>2, <1>1, <1>2, <1>7 DEF SleeperOK, Waiting
  <2>2. CASE n + 1 - f # MaxCalls
    BY <2>2, <1>1, <1>2, <1>7 DEF SleeperOK, Waiting
  <2> QED
    BY <2>1, <2>2
<1> QED
  BY <1>8, <1>9, <1>10, <1>11, <1>12 DEF LimiterInv

\* The new call is MaxCalls behind a call that has left the deque, or behind the
\* head that the thread outslept.
LEMMA GrantPreserves == LimiterInv /\ Grant => LimiterInv'
<1> SUFFICES ASSUME LimiterInv, Grant PROVE LimiterInv'
  OBVIOUS
<1> USE LimiterAssumption
<1>1. LimiterTypeOK /\ Ordered /\ LeftIsOld /\ HeadAged /\ SleeperOK /\ WindowBounded
  BY DEF LimiterInv
<1>2. n \in Nat /\ first \in 1..(n + 1) /\ clock \in Nat \ {0} /\ granted \in [1..n -> 1..clock]
      /\ until \in Nat
  BY <1>1 DEF LimiterTypeOK
<1>3. clock >= until /\ until > 0 /\ UNCHANGED <<clock, first>> /\ n' = n + 1 /\ until' = 0
  BY DEF Grant
<1>4. granted' = [i \in 1..(n + 1) |-> IF i <= n THEN granted[i] ELSE clock]
  BY DEF Grant
<1>5. /\ \A i \in 1..n : granted'[i] = granted[i] /\ granted[i] \in 1..clock
      /\ granted'[n + 1] = clock
  BY <1>2, <1>4
<1>6. Waiting <= MaxCalls /\ (Waiting = MaxCalls => granted[first] + Period < clock)
  <2>1. Waiting = MaxCalls => first \in 1..n
    BY <1>2 DEF Waiting
  <2> QED
    BY <2>1, <1>1, <1>2, <1>3, <1>5 DEF SleeperOK
<1>7. granted' \in [1..(n + 1) -> 1..clock]
  BY <1>2, <1>4, <1>5
<1>8. LimiterTypeOK'
  BY <1>2, <1>3, <1>6, <1>7 DEF LimiterTypeOK, Waiting
<1>9. Ordered'
  <2> SUFFICES ASSUME NEW i \in 1..(n + 1), NEW j \in 1..(n + 1), i <= j
               PROVE  granted'[i] <= granted'[j]
    BY <1>3 DEF Ordered
  <2>1. CASE j <= n
    BY <2>1, <1>1, <1>2, <1>5 DEF Ordered
  <2>2. CASE j = n + 1
    BY <2>2, <1>2, <1>5
  <2> QED
    BY <2>1, <2>2, <1>2
<1>10. LeftIsOld'
  BY <1>1, <1>2, <1>3, <1>5 DEF LeftIsOld
<1>11. HeadAged'
  <2>1. ASSUME Waiting' > MaxCalls PROVE granted'[first] + Period < granted'[n + 1]
    <3>1. Waiting = MaxCalls
      BY <2>1, <1>2, <1>3, <1>6 DEF Waiting
    <3>2. first \in 1..n
      BY <3>1, <1>2 DEF Waiting
    <3> QED
      BY <3>1, <3>2, <1>5, <1>6
  <2> QED
    BY <2>1, <1>3 DEF HeadAged
<1>12. SleeperOK'
  BY <1>3 DEF SleeperOK
<1>13. WindowBounded'
  <2> SUFFICES ASSUME NEW i \in 1..(n + 1), i + MaxCalls <= n + 1
               PROVE  granted'[i] + Period < granted'[i + MaxCalls]
    BY <1>3 DEF WindowBounded
  <2>1. CASE i + MaxCalls <= n
    <3>1. i \in 1..n /\ i + MaxCalls \in 1..n
      BY <2>1, <1>2
    <3> QED
      BY <2>1, <3>1, <1>1, <1>5 DEF WindowBounded
  <2>2. CASE i + MaxCalls = n + 1
    <3>1. i \in 1..n /\ i <= first
      BY <2>2, <1>2, <1>6 DEF Waiting
    <3>2. granted[i] + Period < clock
      <4>1. CASE i = first
        BY <4>1, <2>2, <1>2, <1>6 DEF Waiting
      <4>2. CASE i < first
        BY <4>2, <3>1, <1>1, <1>2 DEF LeftIsOld
      <4> QED
        BY <4>1, <4>2, <3>1, <1>2
    <3> QED
      BY <2>2, <3>1, <3>2, <1>5
  <2> QED
    BY <2>1, <2>2, <1>2
<1> QED
  BY <1>8, <1>9, <1>10, <1>11, <1>12, <1>13 DEF LimiterInv

\* Always, of every run of the limiter.
LEMMA LimiterInvariant == LimiterSpec => []LimiterInv
<1>1. LimiterInv /\ [LimiterNext]_limiterVars => LimiterInv'
  <2> SUFFICES ASSUME LimiterInv, [LimiterNext]_limiterVars PROVE LimiterInv'
    OBVIOUS
  <2>1. CASE UNCHANGED limiterVars
    BY <2>1
    DEF limiterVars, LimiterInv, LimiterTypeOK, Ordered, LeftIsOld, HeadAged, SleeperOK,
        WindowBounded, Waiting
  <2> QED
    BY <2>1, EnterPreserves, GrantPreserves, ElapsePreserves DEF LimiterNext
<1> QED
  BY <1>1, LimiterStart, PTL DEF LimiterSpec

\* The deque of the limiter never holds more than one call above the limit, whatever
\* the limit, the period and the delays are (SimpleRateLimiter.wait).
THEOREM LimiterTypes == LimiterSpec => []LimiterTypeOK
<1>1. LimiterInv => LimiterTypeOK
  BY DEF LimiterInv
<1> QED
  BY <1>1, LimiterInvariant, PTL

\* No window of the period holds more calls than the limit, whatever the limit, the
\* period and the delays are (SimpleRateLimiter.wait).
THEOREM Windows == LimiterSpec => []WindowBounded
<1>1. LimiterInv => WindowBounded
  BY DEF LimiterInv
<1> QED
  BY <1>1, LimiterInvariant, PTL

-----------------------------------------------------------------------------
\* The part of the watchers is a behaviour of WatchLock.
LEMMA WatchPart == LocksSpec => WatchP!WatchSpec
<1>1. LocksInit => WatchP!WatchInit
  BY DEF LocksInit,
     Watch!WatchInit, WatchP!WatchInit, Watch!NoFile, WatchP!NoFile
<1>2. Watch!WatchNext => WatchP!WatchNext
  BY DEF
     Watch!WatchNext, WatchP!WatchNext, Watch!Acquire, WatchP!Acquire, Watch!Exists, WatchP!Exists,
     Watch!Unlink, WatchP!Unlink, Watch!Create, WatchP!Create, Watch!Fill, WatchP!Fill,
     Watch!Release, WatchP!Release, Watch!ReleaseUnlink, WatchP!ReleaseUnlink, Watch!Crash,
     WatchP!Crash, Watch!Held, WatchP!Held, Watch!Goto, WatchP!Goto, Watch!Watching,
     WatchP!Watching, Watch!Present, WatchP!Present, Watch!NoFile, WatchP!NoFile, Watch!End,
     WatchP!End
<1>3. [LocksNext]_allVars => [WatchP!WatchNext]_WatchP!watchVars
  BY <1>2 DEF LocksNext, allVars, watchVars, WatchP!watchVars
<1> QED
  BY <1>1, <1>3, PTL DEF LocksSpec, WatchP!WatchSpec

\* The part of the backups is a behaviour of Backups.
LEMMA VaultPart == LocksSpec => VaultP!BackupSpec
<1>1. LocksInit => VaultP!BackupInit
  BY DEF LocksInit,
     Vault!BackupInit, VaultP!BackupInit
<1>2. Vault!BackupNext => VaultP!BackupNext
  <2>1. ASSUME NEW t \in Thread, Vault!Judge(t) PROVE VaultP!Judge(t)
    <3>1. Vault!Valid = VaultP!Valid
      BY DEF Vault!Valid, VaultP!Valid, Vault!ToSet, VaultP!ToSet
    <3>2. \A m : Vault!LatestValid(m) = VaultP!LatestValid(m)
      BY DEF Vault!LatestValid, VaultP!LatestValid, Vault!Max, VaultP!Max
    <3>3. \A m : Vault!Doomed(t, m) = VaultP!Doomed(t, m)
      BY <3>2
      DEF Vault!Doomed, VaultP!Doomed, Vault!Newest, VaultP!Newest, Vault!ToSet, VaultP!ToSet,
          Vault!Max, VaultP!Max
    <3> QED
      BY <2>1, <3>1, <3>2, <3>3
      DEF Vault!Judge, VaultP!Judge, Vault!Move, VaultP!Move, Vault!BackupFault, VaultP!BackupFault
  <2>2. ASSUME NEW t \in Thread, Vault!ZipStart(t) PROVE VaultP!ZipStart(t)
    BY <2>2
    DEF Vault!ZipStart, VaultP!ZipStart, Vault!Move, VaultP!Move, Vault!RelyingOn, VaultP!RelyingOn,
        Vault!Prunes, VaultP!Prunes, Vault!Valid, VaultP!Valid, Vault!ToSet, VaultP!ToSet,
        Vault!Without, VaultP!Without, Vault!RemoveFirstMatch, VaultP!RemoveFirstMatch,
        Vault!SelectInSeq, VaultP!SelectInSeq, Vault!RemoveAt, VaultP!RemoveAt, Vault!Min, VaultP!Min
  <2>3. ASSUME NEW t \in Thread, Vault!ZipEnd(t) PROVE VaultP!ZipEnd(t)
    BY <2>3
    DEF Vault!ZipEnd, VaultP!ZipEnd, Vault!Move, VaultP!Move, Vault!Free, VaultP!Free,
        Vault!BackupFault, VaultP!BackupFault, Vault!Names, VaultP!Names, Vault!ToSet, VaultP!ToSet,
        Vault!Without, VaultP!Without, Vault!RemoveFirstMatch, VaultP!RemoveFirstMatch,
        Vault!SelectInSeq, VaultP!SelectInSeq, Vault!RemoveAt, VaultP!RemoveAt, Vault!Min, VaultP!Min
  <2>4. ASSUME NEW t \in Thread, Vault!Delete(t) PROVE VaultP!Delete(t)
    BY <2>4
    DEF Vault!Delete, VaultP!Delete, Vault!BackupFault, VaultP!BackupFault,
        Vault!Without, VaultP!Without, Vault!RemoveFirstMatch, VaultP!RemoveFirstMatch,
        Vault!SelectInSeq, VaultP!SelectInSeq, Vault!RemoveAt, VaultP!RemoveAt, Vault!Min, VaultP!Min
  <2>5. ASSUME NEW t \in Thread PROVE
          /\ Vault!Export(t) => VaultP!Export(t)
          /\ Vault!MakeDirs(t) => VaultP!MakeDirs(t)
          /\ Vault!Collect(t) => VaultP!Collect(t)
          /\ Vault!Upload(t) => VaultP!Upload(t)
          /\ Vault!PruneRequest(t) => VaultP!PruneRequest(t)
    BY DEF Vault!Export, VaultP!Export, Vault!MakeDirs, VaultP!MakeDirs, Vault!Collect,
           VaultP!Collect, Vault!Upload, VaultP!Upload, Vault!PruneRequest, VaultP!PruneRequest,
           Vault!Move, VaultP!Move, Vault!Free, VaultP!Free, Vault!BackupFault, VaultP!BackupFault
  <2>6. ASSUME NEW t \in Thread PROVE
          /\ Vault!List(t) => VaultP!List(t)
          /\ Vault!PruneRaises(t) => VaultP!PruneRaises(t)
          /\ Vault!CheckLock(t) => VaultP!CheckLock(t)
          /\ Vault!DeleteDone(t) => VaultP!DeleteDone(t)
    BY DEF Vault!List, VaultP!List, Vault!PruneRaises, VaultP!PruneRaises, Vault!CheckLock,
           VaultP!CheckLock, Vault!DeleteDone, VaultP!DeleteDone, Vault!PruneOver,
           VaultP!PruneOver, Vault!Move, VaultP!Move
  <2>7. Vault!Clock \/ Vault!ProcessDies => VaultP!Clock \/ VaultP!ProcessDies
    BY DEF Vault!Clock, VaultP!Clock, Vault!ProcessDies, VaultP!ProcessDies,
           Vault!BackupFault, VaultP!BackupFault
  <2> QED
    BY <2>1, <2>2, <2>3, <2>4, <2>5, <2>6, <2>7 DEF Vault!BackupNext, VaultP!BackupNext
<1>3. [LocksNext]_allVars => [VaultP!BackupNext]_VaultP!backupVars
  BY <1>2 DEF LocksNext, allVars, vaultVars, VaultP!backupVars
<1> QED
  BY <1>1, <1>3, PTL DEF LocksSpec, VaultP!BackupSpec

\* The part of the collectors is a behaviour of TradeCollector.
LEMMA TradesPart == LocksSpec => TradesP!SafetySpec
<1>1. LocksInit => TradesP!Init
  BY DEF LocksInit,
     Trades!Init, TradesP!Init, Trades!NoLock, TradesP!NoLock
<1>2. Trades!Next => TradesP!Next
  BY DEF
     Trades!Next, TradesP!Next, Trades!Step, TradesP!Step, Trades!Crash, TradesP!Crash,
     Trades!Interrupt, TradesP!Interrupt, Trades!Publish, TradesP!Publish, Trades!Tick,
     TradesP!Tick, Trades!AcquireRead, TradesP!AcquireRead, Trades!AcquireWrite,
     TradesP!AcquireWrite, Trades!Seed, TradesP!Seed, Trades!Connect, TradesP!Connect,
     Trades!GiveUp, TradesP!GiveUp, Trades!Deliver, TradesP!Deliver, Trades!FlushDue,
     TradesP!FlushDue, Trades!EndSession, TradesP!EndSession, Trades!AppendRows,
     TradesP!AppendRows, Trades!Refresh, TradesP!Refresh, Trades!ReleaseRead, TradesP!ReleaseRead,
     Trades!Unlink, TradesP!Unlink, Trades!Goto, TradesP!Goto, Trades!ToSet, TradesP!ToSet,
     Trades!Forget, TradesP!Forget, Trades!NoLock, TradesP!NoLock, Trades!Fresh, TradesP!Fresh,
     Trades!Running, TradesP!Running, Trades!Blame, TradesP!Blame, Trades!Tail_, TradesP!Tail_,
     Trades!Stored, TradesP!Stored, Trades!Buffered, TradesP!Buffered, Trades!Max, TradesP!Max
<1>3. [LocksNext]_allVars => [TradesP!Next]_TradesP!vars
  BY <1>2 DEF LocksNext, allVars, tradeVars, TradesP!vars
<1> QED
  BY <1>1, <1>3, PTL DEF LocksSpec, TradesP!SafetySpec

\* At the bound of its clock the limiter starts anew, as it began.
LEMMA RestartPreserves == LimiterInv /\ LimiterRestart => LimiterInv'
<1> SUFFICES ASSUME LimiterInv, LimiterRestart PROVE LimiterInv'
  OBVIOUS
<1>1. clock' = 1 /\ granted' = <<>> /\ n' = 0 /\ first' = 1 /\ until' = 0
  BY DEF LimiterRestart
<1>2. 1..0 = {} /\ <<>> \in [{} -> 1..1]
  OBVIOUS
<1>3. LimiterTypeOK'
  BY <1>1, <1>2, LimiterAssumption DEF LimiterTypeOK, Waiting
<1>4. (Ordered /\ LeftIsOld /\ HeadAged /\ SleeperOK /\ WindowBounded)'
  BY <1>1, LimiterAssumption DEF Ordered, LeftIsOld, HeadAged, SleeperOK, WindowBounded, Waiting
<1> QED
  BY <1>3, <1>4 DEF LimiterInv

\* The variables of the watchers, of the rate limiter with its restarts, of the
\* backups and of the collectors keep their types, for every size of each.
THEOREM PartsTypes == LocksSpec => []PartsTypeOK
<1>1. LocksSpec => []WatchP!WatchTypeOK
  <2>1. WatchP!WatchAssumption
    BY LocksAssumption DEF Watch!WatchAssumption, WatchP!WatchAssumption
  <2> QED
    BY <2>1, WatchPart, WatchP!WatchTypes, PTL
<1>2. LocksSpec => []VaultP!BackupTypeOK
  <2>1. VaultP!BackupsAssumption
    BY LocksAssumption DEF Vault!BackupsAssumption, VaultP!BackupsAssumption
  <2> QED
    BY <2>1, VaultPart, VaultP!BackupTypes, PTL
<1>3. LocksSpec => []TradesP!TypeOK
  <2>1. TradesP!CollectorAssumption
    BY LocksAssumption DEF Trades!CollectorAssumption, TradesP!CollectorAssumption
  <2> QED
    BY <2>1, TradesPart, TradesP!CollectorTypes, PTL
<1>4. LocksSpec => []LimiterInv
  <2>1. LocksInit => LimiterInv
    BY LimiterStart DEF LocksInit
  <2>2. LimiterInv /\ [LocksNext]_allVars => LimiterInv'
    <3> SUFFICES ASSUME LimiterInv, [LocksNext]_allVars PROVE LimiterInv'
      OBVIOUS
    <3>1. CASE UNCHANGED limiterVars
      BY <3>1
      DEF limiterVars, LimiterInv, LimiterTypeOK, Ordered, LeftIsOld, HeadAged, SleeperOK,
          WindowBounded, Waiting
    <3> QED
      BY <3>1, EnterPreserves, GrantPreserves, ElapsePreserves, RestartPreserves
      DEF LocksNext, allVars, LimiterNext
  <2> QED
    BY <2>1, <2>2, PTL DEF LocksSpec
<1>5. LimiterInv /\ WatchP!WatchTypeOK /\ VaultP!BackupTypeOK /\ TradesP!TypeOK => PartsTypeOK
  <2>1. WatchP!WatchTypeOK => Watch!WatchTypeOK
    BY DEF Watch!WatchTypeOK, WatchP!WatchTypeOK
  <2>2. VaultP!BackupTypeOK => Vault!BackupTypeOK
    BY DEF Vault!BackupTypeOK, VaultP!BackupTypeOK
  <2>3. TradesP!TypeOK => Trades!TypeOK
    BY DEF Trades!TypeOK, TradesP!TypeOK
  <2> QED
    BY <2>1, <2>2, <2>3 DEF LimiterInv, PartsTypeOK
<1> QED
  BY <1>1, <1>2, <1>3, <1>4, <1>5, PTL

\* A watcher holds the lock file beside everything else that runs, for any number of
\* watchers and any of them misled, unless it was robbed by one that had read the file
\* before it watched or took it for dead (labs/research_dashboard_v10_43c.py:689-747).
THEOREM WatchersApart == LocksSpec => []WatcherOwnsFile
<1>1. WatchP!WatchAssumption
  BY LocksAssumption DEF WatchP!WatchAssumption, Watch!WatchAssumption
<1>2. WatchP!WatcherOwnsFile <=> WatcherOwnsFile
  BY DEF WatcherOwnsFile, Watch!WatcherOwnsFile, WatchP!WatcherOwnsFile, Watch!Watching, WatchP!Watching
<1> QED
  BY <1>1, <1>2, WatchPart, WatchP!WatcherKeepsFile, PTL

\* The only ways to lose the last valid archive to a prune, for any number of threads,
\* of archives to keep and of failures: one that its reading had passed over, or one
\* that was all it relied on and was rewritten (data_vault.py:625-632, 802-817).
THEOREM ArchiveKept == LocksSpec => PruneKeepsAValid
<1>1. VaultP!BackupsAssumption
  BY LocksAssumption DEF VaultP!BackupsAssumption, Vault!BackupsAssumption
<1>2. [\A t \in Thread : VaultP!Delete(t) /\ VaultP!Valid # {} =>
          VaultP!Valid' # {} \/ \E m \in rewritten \cup unread : m >= judged[t]]_VaultP!backupVars
      => [\A t \in Thread : Vault!Delete(t) /\ Vault!Valid # {} =>
             Vault!Valid' # {} \/ \E m \in rewritten \cup unread : m >= judged[t]]_Vault!backupVars
  <2>1. ASSUME NEW t \in Thread, Vault!Delete(t) PROVE VaultP!Delete(t)
    BY <2>1 DEF Vault!Delete, VaultP!Delete, Vault!BackupFault, VaultP!BackupFault,
       Vault!Without, VaultP!Without,
       Vault!RemoveFirstMatch, VaultP!RemoveFirstMatch, Vault!SelectInSeq, VaultP!SelectInSeq,
       Vault!RemoveAt, VaultP!RemoveAt, Vault!Min, VaultP!Min
  <2>2. Vault!Valid = VaultP!Valid /\ Vault!Valid' = VaultP!Valid'
    BY DEF Vault!Valid, VaultP!Valid, Vault!ToSet, VaultP!ToSet
  <2> QED
    BY <2>1, <2>2 DEF Vault!backupVars, VaultP!backupVars
<1> QED
  BY <1>1, <1>2, VaultPart, VaultP!ValidArchiveKept, PTL
  DEF PruneKeepsAValid, Vault!PruneKeepsAValid, VaultP!PruneKeepsAValid

\* A delivered trade has a row or waits in a buffer, unless one of the known failures
\* took it, for any number of collectors (bybit_trades_ws_persistent_v10_43c.py:277-284).
THEOREM TradesStored == LocksSpec => []StoredOrLost
<1>1. TradesP!CollectorAssumption
  BY LocksAssumption DEF TradesP!CollectorAssumption, Trades!CollectorAssumption
<1>2. TradesP!StoredOrLost <=> StoredOrLost
  BY DEF StoredOrLost, Trades!StoredOrLost, TradesP!StoredOrLost,
     Trades!Stored, TradesP!Stored, Trades!Buffered, TradesP!Buffered, Trades!ToSet, TradesP!ToSet
<1> QED
  BY <1>1, <1>2, TradesPart, TradesP!NothingLostInSilence, PTL

\* No trade has two rows while the writer lock has kept a second writer out, when the
\* tail of the file that a collector reads back covers two replays less one trade
\* (bybit_trades_ws_persistent_v10_43c.py:277-280, 290, 293-314).
THEOREM OneRowEach == TradesP!TailCoversReplay => (LocksSpec => []RowsUnique)
<1> SUFFICES ASSUME TradesP!TailCoversReplay PROVE LocksSpec => []RowsUnique
  OBVIOUS
<1>1. TradesP!CollectorAssumption
  BY LocksAssumption DEF TradesP!CollectorAssumption, Trades!CollectorAssumption
<1>2. TradesP!RowsUnique <=> RowsUnique
  BY DEF RowsUnique, Trades!RowsUnique, TradesP!RowsUnique, Trades!IsInjective, TradesP!IsInjective
<1> QED
  BY <1>1, <1>2, TradesPart, TradesP!NoTradeTwice, PTL
=============================================================================
