------------------------ MODULE TradeCollectorProofs ------------------------
(***************************************************************************)
(* Proofs about TradeCollector, for any set of collectors, any replay, tail *)
(* and buffer, any number of trades and failures.                          *)
(***************************************************************************)
EXTENDS TradeCollector, SequenceTheorems, FiniteSetTheorems, TLAPS

\* The specification without its fairness, which no proof here needs.
SafetySpec == Init /\ [][Next]_vars

\* Where a collector may be.
Places == {"down", "write", "seed", "connect", "session", "append", "refresh", "release", "unlink"}

\* The types the proofs use.
Typed ==
    /\ pc \in [Proc -> Places]
    /\ seen \in [Proc -> SUBSET Nat]
    /\ buf \in [Proc -> Seq(Nat)]
    /\ pos \in [Proc -> Nat]
    /\ ended \in [Proc -> BOOLEAN]
    /\ file \in Seq(Nat)
    /\ published \in Nat /\ covered \in Nat
    /\ gone \in SUBSET Nat

\* Where a trade may be once it was delivered.
Kept == Stored \cup Buffered \cup gone

\* No session is ahead of what was delivered, and every id a collector has seen is kept.
KeptOK ==
    /\ \A p \in Proc : pos[p] <= covered
    /\ \A p \in Proc : seen[p] \subseteq Kept
    /\ StoredOrLost

CollectorInv == Typed /\ KeptOK

\* The members of a sequence that is extended, joined with another, or cut.
LEMMA Members ==
  ASSUME NEW s \in Seq(Nat), NEW t \in Seq(Nat), NEW x \in Nat
  PROVE  /\ ToSet(Append(s, x)) = ToSet(s) \cup {x}
         /\ ToSet(s \o t) = ToSet(s) \cup ToSet(t)
         /\ ToSet(<<>>) = {}
         /\ ToSet(s) \subseteq Nat
<1>1. \A q \in Seq(Nat) : ToSet(q) = Range(q)
  BY DEF ToSet, Range
<1>2. ToSet(s \o t) = ToSet(s) \cup ToSet(t)
  <2>1. s \o t \in Seq(Nat)
    BY ConcatProperties
  <2>2. Range(s \o t) = Range(s) \cup Range(t)
    BY RangeConcatenation
  <2> QED
    BY <1>1, <2>1, <2>2
<1>3. ToSet(Append(s, x)) = ToSet(s) \cup {x}
  <2>1. <<x>> \in Seq(Nat) /\ Append(s, x) = s \o <<x>> /\ ToSet(<<x>>) = {x}
    BY AppendIsConcat DEF ToSet
  <2>2. Range(s \o <<x>>) = Range(s) \cup Range(<<x>>) /\ s \o <<x>> \in Seq(Nat)
    BY <2>1, RangeConcatenation, ConcatProperties
  <2> QED
    BY <1>1, <2>1, <2>2
<1>4. ToSet(<<>>) = {} /\ ToSet(s) \subseteq Nat
  BY DEF ToSet
<1> QED
  BY <1>2, <1>3, <1>4

\* The larger of two numbers.
LEMMA MaxOfTwo ==
  ASSUME NEW a \in Int, NEW b \in Int
  PROVE  /\ Max({a, b}) = IF a >= b THEN a ELSE b
         /\ Max({a, b}) \in {a, b} /\ Max({a, b}) >= a /\ Max({a, b}) >= b
<1> DEFINE m == IF a >= b THEN a ELSE b
<1>1. m \in {a, b} /\ \A y \in {a, b} : m >= y
  OBVIOUS
<1>2. \A x \in {a, b} : (\A y \in {a, b} : x >= y) => x = m
  OBVIOUS
<1>3. Max({a, b}) = m
  BY <1>1, <1>2 DEF Max
<1> QED
  BY <1>1, <1>3

\* The tail of the file holds rows of the file.
LEMMA TailIsStored ==
  ASSUME Typed, CollectorAssumption
  PROVE  Tail_(TailRows) \subseteq Stored
<1> DEFINE from == Max({1, Len(file) - TailRows + 1})
<1>1. Len(file) \in Nat /\ TailRows \in Nat
  BY DEF Typed, CollectorAssumption
<1>2. from \in 1..(Len(file) + 1)
  <2>1. 1 \in Int /\ Len(file) - TailRows + 1 \in Int
    BY <1>1
  <2>2. from = IF 1 >= Len(file) - TailRows + 1 THEN 1 ELSE Len(file) - TailRows + 1
    BY <2>1, MaxOfTwo, Zenon
  <2> QED
    BY <1>1, <2>2
<1> HIDE DEF from
<1>3. /\ SubSeq(file, from, Len(file)) \in Seq(Nat)
      /\ \A i \in DOMAIN SubSeq(file, from, Len(file)) : SubSeq(file, from, Len(file))[i] \in Stored
  BY <1>1, <1>2, SubSeqProperties DEF Typed, Stored, ToSet
<1>4. ToSet(SubSeq(file, from, Len(file))) \subseteq Stored
  BY <1>3 DEF ToSet
<1> QED
  BY <1>4 DEF Tail_, from

\* The types of one step.
LEMMA TypedStep ==
  ASSUME CollectorAssumption, Typed, [Next]_vars
  PROVE  Typed'
<1> USE DEF Typed, Goto, Forget, Places
<1>1. ASSUME NEW p \in Proc, AcquireRead(p) PROVE Typed'
  BY <1>1 DEF AcquireRead
<1>2. ASSUME NEW p \in Proc, AcquireWrite(p) PROVE Typed'
  BY <1>2 DEF AcquireWrite
<1>3. ASSUME NEW p \in Proc, Seed(p) PROVE Typed'
  <2>1. Tail_(TailRows) \subseteq Nat
    BY TailIsStored, Members DEF Stored
  <2> QED
    BY <1>3, <2>1 DEF Seed
<1>4. ASSUME NEW p \in Proc, Connect(p) PROVE Typed'
  <2> DEFINE start == IF published > Replay THEN published - Replay ELSE 0
  <2>1. start \in Nat
    BY DEF CollectorAssumption
  <2> HIDE DEF start
  <2>2. Max({covered, start}) \in Nat
    <3>1. covered \in Int /\ start \in Int
      BY <2>1
    <3>2. Max({covered, start}) \in {covered, start}
      BY <3>1, MaxOfTwo, Zenon
    <3> QED
      BY <2>1, <3>2
  <2>3. /\ pc' = [pc EXCEPT ![p] = "session"] /\ pos' = [pos EXCEPT ![p] = start]
        /\ gone' \subseteq gone \cup ((covered + 1)..start) /\ covered' = Max({covered, start})
        /\ UNCHANGED <<seen, buf, ended, file, published>>
    BY <1>4 DEF Connect, start
  <2> QED
    BY <2>1, <2>2, <2>3
<1>5. ASSUME NEW p \in Proc, GiveUp(p) PROVE Typed'
  BY <1>5 DEF GiveUp
<1>6. ASSUME NEW p \in Proc, Deliver(p) PROVE Typed'
  <2>1. pos[p] + 1 \in Nat /\ Max({covered, pos[p] + 1}) \in Nat
    <3>1. covered \in Int /\ pos[p] + 1 \in Int /\ pos[p] + 1 \in Nat
      OBVIOUS
    <3>2. Max({covered, pos[p] + 1}) \in {covered, pos[p] + 1}
      BY <3>1, MaxOfTwo, Zenon
    <3> QED
      BY <3>1, <3>2
  <2>2. Append(buf[p], pos[p] + 1) \in Seq(Nat)
    BY <2>1, AppendProperties
  <2>3. /\ pc' \in {[pc EXCEPT ![p] = "append"], [pc EXCEPT ![p] = "session"]}
        /\ pos' = [pos EXCEPT ![p] = pos[p] + 1]
        /\ covered' = Max({covered, pos[p] + 1})
        /\ seen' = [seen EXCEPT ![p] = seen[p] \cup {pos[p] + 1}]
        /\ buf' \in {buf, [buf EXCEPT ![p] = Append(buf[p], pos[p] + 1)]}
        /\ UNCHANGED <<ended, file, published, gone>>
    BY <1>6 DEF Deliver
  <2>4. pc' \in [Proc -> Places] /\ pos' \in [Proc -> Nat]
    BY <2>1, <2>3
  <2>5. buf' \in [Proc -> Seq(Nat)]
    BY <2>2, <2>3
  <2>6. seen' \in [Proc -> SUBSET Nat]
    BY <2>1, <2>3
  <2> QED
    BY <2>1, <2>3, <2>4, <2>5, <2>6
<1>7. ASSUME NEW p \in Proc, FlushDue(p) PROVE Typed'
  BY <1>7 DEF FlushDue
<1>8. ASSUME NEW p \in Proc, EndSession(p) PROVE Typed'
  BY <1>8 DEF EndSession
<1>9. ASSUME NEW p \in Proc, AppendRows(p) PROVE Typed'
  <2>1. file \o buf[p] \in Seq(Nat) /\ ToSet(buf[p]) \subseteq Nat
    BY ConcatProperties, Members
  <2>2. /\ pc' = [pc EXCEPT ![p] = "refresh"] /\ buf' = [buf EXCEPT ![p] = <<>>]
        /\ file' \in {file, file \o buf[p]} /\ gone' \in {gone, gone \cup ToSet(buf[p])}
        /\ UNCHANGED <<seen, pos, ended, published, covered>>
    BY <1>9 DEF AppendRows
  <2>3. gone' \in SUBSET Nat /\ file' \in Seq(Nat)
    BY <2>1, <2>2
  <2>4. buf' \in [Proc -> Seq(Nat)] /\ pc' \in [Proc -> Places]
    BY <2>2
  <2> QED
    BY <2>2, <2>3, <2>4
<1>10. ASSUME NEW p \in Proc, Refresh(p) PROVE Typed'
  BY <1>10 DEF Refresh
<1>11. ASSUME NEW p \in Proc, ReleaseRead(p) PROVE Typed'
  BY <1>11 DEF ReleaseRead
<1>12. ASSUME NEW p \in Proc, Unlink(p) PROVE Typed'
  BY <1>12 DEF Unlink
<1>13. ASSUME NEW p \in Proc, Crash(p) PROVE Typed'
  <2>1. ToSet(buf[p]) \subseteq Nat
    BY Members
  <2> QED
    BY <1>13, <2>1 DEF Crash
<1>14. ASSUME NEW p \in Proc, Interrupt(p) PROVE Typed'
  <2>1. ToSet(buf[p]) \subseteq Nat
    BY Members
  <2>2. /\ pc' = [pc EXCEPT ![p] = "release"] /\ buf' = [buf EXCEPT ![p] = <<>>]
        /\ ended' = [ended EXCEPT ![p] = FALSE] /\ gone' = gone \cup ToSet(buf[p])
        /\ UNCHANGED <<seen, pos, file, published, covered>>
    BY <1>14 DEF Interrupt
  <2>3. gone' \in SUBSET Nat
    BY <2>1, <2>2
  <2>4. buf' \in [Proc -> Seq(Nat)]
    BY <2>2
  <2>5. pc' \in [Proc -> Places] /\ ended' \in [Proc -> BOOLEAN]
    BY <2>2
  <2> QED
    BY <2>2, <2>3, <2>4, <2>5
<1>15. CASE Publish
  BY <1>15 DEF Publish
<1>16. CASE Tick
  BY <1>16 DEF Tick
<1>17. CASE UNCHANGED vars
  BY <1>17 DEF vars
<1> QED
  BY <1>1, <1>2, <1>3, <1>4, <1>5, <1>6, <1>7, <1>8, <1>9, <1>10, <1>11, <1>12, <1>13, <1>14,
     <1>15, <1>16, <1>17 DEF Next, Step

\* What is buffered when one buffer is emptied.
LEMMA BuffersBut ==
  ASSUME NEW p \in Proc, \A q \in Proc : q # p => buf[q] = buf'[q]
  PROVE  Buffered \subseteq Buffered' \cup ToSet(buf[p])
<1> SUFFICES ASSUME NEW q \in Proc, NEW t \in ToSet(buf[q])
             PROVE  t \in Buffered' \cup ToSet(buf[p])
  BY DEF Buffered
<1>1. CASE q = p
  BY <1>1
<1>2. CASE q # p
  BY <1>2 DEF Buffered
<1> QED
  BY <1>1, <1>2

\* A row stays, and what leaves a buffer goes to the file or is counted as gone.
LEMMA NothingForgotten ==
  ASSUME CollectorAssumption, Typed, [Next]_vars
  PROVE  Kept \subseteq Kept'
<1> USE DEF Typed, Kept, Stored
<1>1. ASSUME NEW p \in Proc, AppendRows(p) PROVE Kept \subseteq Kept'
  <2>1. buf' = [buf EXCEPT ![p] = <<>>] /\ gone \subseteq gone'
    BY <1>1 DEF AppendRows
  <2>2. \A q \in Proc : q # p => buf[q] = buf'[q]
    BY <2>1
  <2>3. ToSet(file \o buf[p]) = ToSet(file) \cup ToSet(buf[p])
    BY Members
  <2>4. /\ file' = file \o buf[p] \/ (file' = file /\ gone' = gone \cup ToSet(buf[p]))
    BY <1>1 DEF AppendRows
  <2>5. ToSet(buf[p]) \subseteq ToSet(file') \cup gone' /\ ToSet(file) \subseteq ToSet(file')
    BY <2>3, <2>4
  <2> QED
    BY <2>1, <2>2, <2>5, BuffersBut
<1>2. ASSUME NEW p \in Proc, Crash(p) \/ Interrupt(p) PROVE Kept \subseteq Kept'
  <2>1. buf' = [buf EXCEPT ![p] = <<>>] /\ gone' = gone \cup ToSet(buf[p]) /\ file' = file
    BY <1>2 DEF Crash, Interrupt
  <2>2. \A q \in Proc : q # p => buf[q] = buf'[q]
    BY <2>1
  <2> QED
    BY <2>1, <2>2, BuffersBut
<1>3. ASSUME NEW p \in Proc, Deliver(p) PROVE Kept \subseteq Kept'
  <2>1. /\ buf' \in {buf, [buf EXCEPT ![p] = Append(buf[p], pos[p] + 1)]}
        /\ gone' = gone /\ file' = file
    BY <1>3 DEF Deliver
  <2>2. ToSet(buf[p]) \subseteq ToSet(Append(buf[p], pos[p] + 1))
    BY Members
  <2>3. \A q \in Proc : ToSet(buf[q]) \subseteq ToSet(buf'[q])
    BY <2>1, <2>2
  <2> QED
    BY <2>1, <2>3 DEF Buffered
<1>4. ASSUME UNCHANGED <<file, buf>>, gone \subseteq gone' PROVE Kept \subseteq Kept'
  BY <1>4 DEF Buffered
<1>5. ASSUME NEW p \in Proc,
             \/ AcquireRead(p) \/ AcquireWrite(p) \/ Seed(p) \/ Connect(p) \/ GiveUp(p)
             \/ FlushDue(p) \/ EndSession(p) \/ Refresh(p) \/ ReleaseRead(p) \/ Unlink(p)
      PROVE  UNCHANGED <<file, buf>> /\ gone \subseteq gone'
  BY <1>5 DEF AcquireRead, AcquireWrite, Seed, Connect, GiveUp, FlushDue, EndSession, Refresh,
              ReleaseRead, Unlink
<1>6. ASSUME Publish \/ Tick \/ UNCHANGED vars PROVE UNCHANGED <<file, buf>> /\ gone \subseteq gone'
  BY <1>6 DEF Publish, Tick, vars
<1> QED
  BY <1>1, <1>2, <1>3, <1>4, <1>5, <1>6 DEF Next, Step

\* Whatever becomes known to a collector is kept, and whatever was delivered.
LEMMA KeptStep ==
  ASSUME CollectorAssumption, CollectorInv, [Next]_vars
  PROVE  KeptOK'
<1>1. Typed' /\ Kept \subseteq Kept'
  BY TypedStep, NothingForgotten DEF CollectorInv
<1>2. ASSUME pos' = pos \/ \E p \in Proc : pos' = [pos EXCEPT ![p] = 0],
             covered' = covered,
             \A p \in Proc : seen'[p] \subseteq seen[p]
      PROVE  KeptOK'
  <2>1. ASSUME NEW q \in Proc PROVE pos'[q] <= covered'
    <3>1. covered \in Nat /\ pos \in [Proc -> Nat] /\ pos[q] <= covered
      BY DEF CollectorInv, Typed, KeptOK
    <3>2. pos'[q] \in {pos[q], 0}
      BY <1>2, <3>1
    <3> QED
      BY <1>2, <3>1, <3>2
  <2>2. \A p \in Proc : seen'[p] \subseteq Kept'
    BY <1>1, <1>2 DEF CollectorInv, KeptOK
  <2>3. StoredOrLost'
    BY <1>1, <1>2 DEF CollectorInv, KeptOK, StoredOrLost, Kept
  <2> QED
    BY <2>1, <2>2, <2>3 DEF KeptOK
<1>3. ASSUME NEW p \in Proc, Seed(p) PROVE KeptOK'
  <2>1. Tail_(TailRows) \subseteq Kept
    BY TailIsStored DEF CollectorInv, Kept
  <2>2. \A q \in Proc : seen'[q] \subseteq seen[q] \cup Tail_(TailRows)
    BY <1>3 DEF Seed, CollectorInv, Typed
  <2>3. UNCHANGED <<pos, covered>>
    BY <1>3 DEF Seed
  <2>4. StoredOrLost'
    BY <1>1, <2>3 DEF CollectorInv, KeptOK, StoredOrLost, Kept
  <2> QED
    BY <1>1, <2>1, <2>2, <2>3, <2>4 DEF CollectorInv, KeptOK
<1>4. ASSUME NEW p \in Proc, Connect(p) PROVE KeptOK'
  <2> DEFINE start == IF published > Replay THEN published - Replay ELSE 0
  <2>1. start \in Nat /\ covered \in Nat
    BY DEF CollectorAssumption, CollectorInv, Typed
  <2>2. /\ pos' = [pos EXCEPT ![p] = start] /\ covered' = Max({covered, start})
        /\ gone' = gone \cup (((covered + 1)..start) \ (Stored \cup Buffered))
        /\ UNCHANGED <<seen, file, buf>>
    BY <1>4 DEF Connect
  <2> HIDE DEF start
  <2>3. covered' \in {covered, start} /\ covered' >= covered /\ covered' >= start
    <3>1. covered \in Int /\ start \in Int
      BY <2>1
    <3> QED
      BY <2>2, <3>1, MaxOfTwo, Zenon
  <2>4. \A q \in Proc : pos'[q] <= covered'
    BY <2>1, <2>2, <2>3 DEF CollectorInv, Typed, KeptOK
  <2>5. ASSUME NEW t \in 1..covered' PROVE t \in Kept'
    <3>1. CASE t <= covered
      BY <1>1, <2>1, <2>3, <3>1 DEF CollectorInv, KeptOK, StoredOrLost, Kept
    <3>2. CASE t > covered
      <4>1. t \in (covered + 1)..start
        BY <2>1, <2>3, <3>2
      <4>2. t \in gone' \cup Stored \cup Buffered
        BY <2>2, <4>1
      <4> QED
        BY <1>1, <4>2 DEF Kept
    <3> QED
      BY <2>1, <2>3, <3>1, <3>2
  <2> QED
    BY <1>1, <2>2, <2>4, <2>5 DEF CollectorInv, KeptOK, StoredOrLost, Kept
<1>5. ASSUME NEW p \in Proc, Deliver(p) PROVE KeptOK'
  <2> DEFINE t == pos[p] + 1
  <2>1. t \in Nat /\ covered \in Nat /\ t <= covered + 1 /\ buf[p] \in Seq(Nat)
    BY DEF CollectorInv, Typed, KeptOK
  <2>2. /\ pos' = [pos EXCEPT ![p] = t] /\ covered' = Max({covered, t})
        /\ seen' = [seen EXCEPT ![p] = seen[p] \cup {t}]
        /\ t \notin seen[p] => buf' = [buf EXCEPT ![p] = Append(buf[p], t)]
    BY <1>5 DEF Deliver
  <2> HIDE DEF t
  <2>3. covered' \in {covered, t} /\ covered' >= covered /\ covered' >= t
    <3>1. covered \in Int /\ t \in Int
      BY <2>1
    <3> QED
      BY <2>2, <3>1, MaxOfTwo, Zenon
  <2>4. t \in Kept'
    <3>1. CASE t \in seen[p]
      BY <1>1, <3>1 DEF CollectorInv, KeptOK
    <3>2. CASE t \notin seen[p]
      <4>1. buf'[p] = Append(buf[p], t)
        BY <2>2, <3>2 DEF CollectorInv, Typed
      <4>2. t \in ToSet(buf'[p])
        BY <2>1, <4>1, Members
      <4> QED
        BY <4>2 DEF Kept, Buffered
    <3> QED
      BY <3>1, <3>2
  <2>5. \A q \in Proc : pos'[q] <= covered'
    BY <2>1, <2>2, <2>3 DEF CollectorInv, Typed, KeptOK
  <2>6. \A q \in Proc : seen'[q] \subseteq seen[q] \cup {t}
    BY <2>2 DEF CollectorInv, Typed
  <2>7. ASSUME NEW u \in 1..covered' PROVE u \in Kept'
    <3>1. CASE u <= covered
      BY <1>1, <2>1, <2>3, <3>1 DEF CollectorInv, KeptOK, StoredOrLost, Kept
    <3>2. CASE u > covered
      BY <2>1, <2>3, <2>4, <3>2
    <3> QED
      BY <2>1, <2>3, <3>1, <3>2
  <2> QED
    BY <1>1, <2>4, <2>5, <2>6, <2>7 DEF CollectorInv, KeptOK, StoredOrLost, Kept
<1>6. ASSUME NEW p \in Proc, ReleaseRead(p) \/ Crash(p) PROVE KeptOK'
  <2>1. covered' = covered /\ pos' = [pos EXCEPT ![p] = 0] /\ seen' = [seen EXCEPT ![p] = {}]
    BY <1>6 DEF ReleaseRead, Crash, Forget
  <2>2. \A q \in Proc : seen'[q] \subseteq seen[q]
    BY <2>1 DEF CollectorInv, Typed
  <2> QED
    BY <1>2, <2>1, <2>2
<1>7. ASSUME NEW p \in Proc,
             \/ AcquireRead(p) \/ AcquireWrite(p) \/ GiveUp(p) \/ FlushDue(p) \/ EndSession(p)
             \/ AppendRows(p) \/ Refresh(p) \/ Unlink(p) \/ Interrupt(p)
      PROVE  UNCHANGED <<pos, covered, seen>>
  BY <1>7 DEF AcquireRead, AcquireWrite, GiveUp, FlushDue, EndSession, AppendRows, Refresh, Unlink,
              Interrupt
<1>8. ASSUME Publish \/ Tick \/ UNCHANGED vars PROVE UNCHANGED <<pos, covered, seen>>
  BY <1>8 DEF Publish, Tick, vars
<1> QED
  BY <1>2, <1>3, <1>4, <1>5, <1>6, <1>7, <1>8 DEF Next, Step

\* No delivered trade is lost in silence, for any number of collectors, whatever
\* dies and whatever append fails: it has a row, waits in a buffer, or its loss
\* has one of the known causes
\* (labs/bybit_trades_ws_persistent_v10_43c.py:277-284, 381-390).
THEOREM NothingLostInSilence == CollectorAssumption => (SafetySpec => []StoredOrLost)
<1> SUFFICES ASSUME CollectorAssumption PROVE SafetySpec => []StoredOrLost
  OBVIOUS
<1>1. Init => CollectorInv
  BY DEF Init, CollectorInv, Typed, Places, KeptOK, StoredOrLost
<1>2. CollectorInv /\ [Next]_vars => CollectorInv'
  BY TypedStep, KeptStep DEF CollectorInv
<1>3. CollectorInv => StoredOrLost
  BY DEF CollectorInv, KeptOK
<1> QED
  BY <1>1, <1>2, <1>3, PTL DEF SafetySpec
-----------------------------------------------------------------------------
\* The writer lock.

\* The types the lock needs.
LockTyped ==
    /\ pc \in [Proc -> Places]
    /\ lock \in [owner : Proc \cup {"none", "dead"}, age : Nat]

\* As long as the lock has not failed, a collector at work owns it.
LockOK == cause = "none" => \A p \in Proc : Running(p) => lock.owner = p

\* As long as the lock has not failed, one collector is at work.
OneWriterWhileSound == cause = "none" => OneWriter

\* Who takes the lock of nobody at work is alone, and nobody replaces it before
\* its owner gives it back, or the failure is recorded.
LEMMA LockStep ==
  ASSUME LockTyped, LockOK, [Next]_vars
  PROVE  LockTyped' /\ LockOK'
<1> USE DEF LockTyped, LockOK, Running, Goto, Blame, Places, NoLock, Forget
<1>1. ASSUME NEW p \in Proc, AcquireRead(p) PROVE LockTyped' /\ LockOK'
  BY <1>1 DEF AcquireRead
<1>2. ASSUME NEW p \in Proc, AcquireWrite(p) PROVE LockTyped' /\ LockOK'
  <2>1. /\ pc' = [pc EXCEPT ![p] = "seed"] /\ lock' = [owner |-> p, age |-> 0]
        /\ cause' = "none" => cause = "none" /\ ~\E q \in Proc : Running(q) /\ lock.owner = q
    BY <1>2 DEF AcquireWrite
  <2>2. LockTyped'
    BY <2>1
  <2>3. cause' = "none" => \A q \in Proc : ~Running(q)
    BY <2>1
  <2>4. LockOK'
    BY <2>1, <2>3
  <2> QED
    BY <2>2, <2>4
<1>3. ASSUME NEW p \in Proc, Seed(p) \/ Connect(p) PROVE LockTyped' /\ LockOK'
  BY <1>3 DEF Seed, Connect
<1>4. ASSUME NEW p \in Proc, GiveUp(p) \/ FlushDue(p) PROVE LockTyped' /\ LockOK'
  BY <1>4 DEF GiveUp, FlushDue
<1>5. ASSUME NEW p \in Proc, Deliver(p) PROVE LockTyped' /\ LockOK'
  <2>1. /\ pc' \in {[pc EXCEPT ![p] = "append"], [pc EXCEPT ![p] = "session"]}
        /\ pc[p] = "session" /\ UNCHANGED <<lock, cause>>
    BY <1>5 DEF Deliver
  <2> QED
    BY <2>1
<1>6. ASSUME NEW p \in Proc, EndSession(p) \/ AppendRows(p) PROVE LockTyped' /\ LockOK'
  BY <1>6 DEF EndSession, AppendRows
<1>7. ASSUME NEW p \in Proc, Refresh(p) PROVE LockTyped' /\ LockOK'
  <2>1. /\ pc' \in {[pc EXCEPT ![p] = "connect"], [pc EXCEPT ![p] = "session"]}
        /\ pc[p] = "refresh" /\ lock' = [owner |-> p, age |-> 0] /\ cause' = cause
    BY <1>7 DEF Refresh
  <2> QED
    BY <2>1
<1>8. ASSUME NEW p \in Proc, ReleaseRead(p) PROVE LockTyped' /\ LockOK'
  BY <1>8 DEF ReleaseRead
<1>9. ASSUME NEW p \in Proc, Unlink(p) PROVE LockTyped' /\ LockOK'
  BY <1>9 DEF Unlink
<1>10. ASSUME NEW p \in Proc, Crash(p) PROVE LockTyped' /\ LockOK'
  <2>1. /\ pc' = [pc EXCEPT ![p] = "down"] /\ cause' = cause
        /\ lock' = IF lock.owner = p THEN [lock EXCEPT !.owner = "dead"] ELSE lock
    BY <1>10 DEF Crash
  <2>2. lock' \in [owner : Proc \cup {"none", "dead"}, age : Nat]
    BY <2>1
  <2>3. lock.owner = p \/ lock' = lock
    BY <2>1
  <2> QED
    BY <2>1, <2>2, <2>3
<1>11. ASSUME NEW p \in Proc, Interrupt(p) PROVE LockTyped' /\ LockOK'
  BY <1>11 DEF Interrupt
<1>12. CASE Publish
  BY <1>12 DEF Publish
<1>13. CASE Tick
  <2>1. lock' = [lock EXCEPT !.age = lock.age + 1] /\ UNCHANGED <<pc, cause>>
    BY <1>13 DEF Tick
  <2>2. lock'.owner = lock.owner /\ lock' \in [owner : Proc \cup {"none", "dead"}, age : Nat]
    BY <2>1
  <2> QED
    BY <2>1, <2>2
<1>14. CASE UNCHANGED vars
  BY <1>14 DEF vars
<1> QED
  BY <1>1, <1>2, <1>3, <1>4, <1>5, <1>6, <1>7, <1>8, <1>9, <1>10, <1>11, <1>12, <1>13, <1>14
     DEF Next, Step

\* The writer lock lets one collector work, for any number of them, unless two
\* raced for it, one outlived its ttl, or one unlinked the lock of another
\* (labs/bybit_trades_ws_persistent_v10_43c.py:86-128).
THEOREM WritersAlone == SafetySpec => []OneWriterWhileSound
<1>1. Init => LockTyped /\ LockOK
  BY DEF Init, LockTyped, LockOK, Running, NoLock, Places
<1>2. LockTyped /\ LockOK /\ [Next]_vars => LockTyped' /\ LockOK'
  BY LockStep
<1>3. LockOK => OneWriterWhileSound
  BY DEF LockOK, OneWriterWhileSound, OneWriter
<1> QED
  BY <1>1, <1>2, <1>3, PTL DEF SafetySpec
-----------------------------------------------------------------------------
\* No trade has two rows.

\* What SEED_TAIL_ROWS is to a replay: the ids in the tail of the file reach
\* behind the replay of a new subscription.  150_000 rows
\* (labs/bybit_trades_ws_persistent_v10_43c.py:290) are far more than any replay.
TailCoversReplay == TailRows >= 2 * Replay - 1

\* Where a collector knows what the file holds.
Seeded(p) == pc[p] \in {"connect", "session", "append", "refresh"}
InSession(p) == pc[p] \in {"session", "append", "refresh"}

\* The rows of the file, and those a collector is about to add.
Rows(p) == file \o buf[p]

\* Distinct published trades, none written a replay or more after a later one.
RowsOK(s, last) ==
    /\ IsInjective(s)
    /\ \A i, j \in DOMAIN s : i < j => s[i] < s[j] + Replay
    /\ \A i \in DOMAIN s : s[i] \in 1..last

\* A subscription replays nothing that has a row and is not among the ids seen.
KnowsReplay(p) == \A i \in DOMAIN file : file[i] > published - Replay => file[i] \in seen[p]

\* Nor does the rest of the session.
SessionOK(p) ==
    /\ RowsOK(Rows(p), published)
    /\ \A i \in DOMAIN buf[p] : buf[p][i] \in seen[p]
    /\ \A i \in DOMAIN file : file[i] > pos[p] => file[i] \in seen[p]
    /\ \A i \in DOMAIN Rows(p) : Rows(p)[i] <= pos[p] + Replay
    /\ pos[p] <= published

\* A buffer outside of a session is empty; and while the lock has not failed the
\* rows are distinct, whoever is to add more knows them, and so he will.
BufferOK == \A p \in Proc : pc[p] \notin {"session", "append"} => buf[p] = <<>>
WritingOK ==
    /\ RowsOK(file, published)
    /\ \A p \in Proc : Seeded(p) => KnowsReplay(p)
    /\ \A p \in Proc : InSession(p) => SessionOK(p)
UniqueOK == BufferOK /\ (cause = "none" => WritingOK)

UniqueInv == Typed /\ LockTyped /\ LockOK /\ UniqueOK

\* The failure of the lock is not forgotten.
LEMMA CauseStays ==
  ASSUME [Next]_vars, cause' = "none"
  PROVE  cause = "none"
<1>1. ASSUME NEW p \in Proc, Step(p) PROVE cause = "none"
  BY <1>1 DEF Step, AcquireRead, AcquireWrite, Seed, Connect, GiveUp, Deliver, FlushDue, EndSession,
              AppendRows, Refresh, ReleaseRead, Unlink, Blame
<1>2. ASSUME NEW p \in Proc, Crash(p) \/ Interrupt(p) PROVE cause = "none"
  BY <1>2 DEF Crash, Interrupt
<1>3. CASE Publish \/ Tick \/ UNCHANGED vars
  BY <1>3 DEF Publish, Tick, vars
<1> QED
  BY <1>1, <1>2, <1>3 DEF Next

\* A buffer is filled in a session and leaves it empty.
LEMMA BufferStep ==
  ASSUME Typed, BufferOK, [Next]_vars
  PROVE  BufferOK'
<1> USE DEF Typed, BufferOK, Goto
<1>1. ASSUME NEW p \in Proc, Deliver(p) PROVE BufferOK'
  <2>1. /\ pc'[p] \in {"session", "append"} /\ \A q \in Proc : q # p => pc'[q] = pc[q]
        /\ \A q \in Proc : q # p => buf'[q] = buf[q]
    BY <1>1 DEF Deliver
  <2> QED
    BY <2>1
<1>2. ASSUME NEW p \in Proc, EndSession(p) PROVE BufferOK'
  BY <1>2 DEF EndSession
<1>3. ASSUME NEW p \in Proc, AppendRows(p) PROVE BufferOK'
  BY <1>3 DEF AppendRows
<1>4. ASSUME NEW p \in Proc, Refresh(p) PROVE BufferOK'
  BY <1>4 DEF Refresh
<1>5. ASSUME NEW p \in Proc, Crash(p) PROVE BufferOK'
  BY <1>5 DEF Crash
<1>6. ASSUME NEW p \in Proc, Interrupt(p) PROVE BufferOK'
  BY <1>6 DEF Interrupt
<1>7. ASSUME NEW p \in Proc, AcquireRead(p) \/ AcquireWrite(p) \/ Seed(p) PROVE BufferOK'
  BY <1>7 DEF AcquireRead, AcquireWrite, Seed
<1>8. ASSUME NEW p \in Proc, Connect(p) \/ GiveUp(p) PROVE BufferOK'
  BY <1>8 DEF Connect, GiveUp
<1>9. ASSUME NEW p \in Proc, FlushDue(p) \/ ReleaseRead(p) \/ Unlink(p) PROVE BufferOK'
  BY <1>9 DEF FlushDue, ReleaseRead, Unlink
<1>10. CASE Publish \/ Tick \/ UNCHANGED vars
  BY <1>10 DEF Publish, Tick, vars
<1> QED
  BY <1>1, <1>2, <1>3, <1>4, <1>5, <1>6, <1>7, <1>8, <1>9, <1>10 DEF Next, Step

\* The tail that a collector reads holds every row that may come again: were one
\* before it, the tail would be that many distinct ids less than a replay away.
LEMMA TailReaches ==
  ASSUME Typed, CollectorAssumption, TailCoversReplay, RowsOK(file, published),
         NEW i \in DOMAIN file, file[i] > published - Replay
  PROVE  file[i] \in Tail_(TailRows)
<1> DEFINE n == Len(file)
           x == file[i]
           from == Max({1, n - TailRows + 1})
<1>1. /\ n \in Nat /\ TailRows \in Nat /\ Replay \in Nat /\ published \in Nat
      /\ i \in 1..n /\ DOMAIN file = 1..n /\ \A j \in 1..n : file[j] \in Nat
      /\ x \in Nat /\ x > published - Replay
  BY DEF Typed, CollectorAssumption
<1>2. from = IF 1 >= n - TailRows + 1 THEN 1 ELSE n - TailRows + 1
  <2>1. 1 \in Int /\ n - TailRows + 1 \in Int
    BY <1>1
  <2> QED
    BY <2>1, MaxOfTwo, Zenon
<1>3. \A j \in 1..n : /\ x = file[j] => j = i
                      /\ j > i => x < file[j] + Replay
                      /\ file[j] <= published
  BY <1>1 DEF RowsOK, IsInjective
<1> HIDE DEF n, x, from
<1>4. from \in 1..(n + 1)
  BY <1>1, <1>2
<1>5. CASE i >= from
  <2> DEFINE tail == SubSeq(file, from, n)
  <2>1. /\ tail \in Seq(Nat) /\ Len(tail) = n - from + 1
        /\ \A j \in 1..(n - from + 1) : tail[j] = file[from + j - 1]
    BY <1>1, <1>4, <1>5, SubSeqProperties
  <2>2. i - from + 1 \in 1..(n - from + 1) /\ from + (i - from + 1) - 1 = i
    BY <1>1, <1>4, <1>5
  <2>3. tail[i - from + 1] = x
    BY <2>1, <2>2 DEF x
  <2>4. i - from + 1 \in DOMAIN tail
    BY <2>1, <2>2
  <2> HIDE DEF tail
  <2>5. x \in ToSet(tail)
    BY <2>3, <2>4 DEF ToSet
  <2> QED
    BY <2>5 DEF Tail_, tail, x, from, n
<1>6. CASE i < from
  <2> DEFINE later == (i + 1)..n
             near == (x - Replay + 1)..(x + Replay - 1)
             f == [j \in later |-> file[j]]
  <2>1. n - i >= TailRows
    BY <1>1, <1>2, <1>6
  <2>2. \A j \in later : j \in 1..n /\ j > i
    BY <1>1
  <2>3. \A j \in later : file[j] \in near \ {x}
    BY <1>1, <1>3, <2>2
  <2>4. f \in Injection(later, near \ {x})
    <3>1. \A a, b \in later : file[a] = file[b] => a = b
      BY <2>2, <1>1 DEF RowsOK, IsInjective
    <3> QED
      BY <2>3, <3>1 DEF Injection, IsInjective
  <2>5. IsFiniteSet(near) /\ Cardinality(near) = IF x - Replay + 1 > x + Replay - 1 THEN 0 ELSE 2 * Replay - 1
    <3>1. x - Replay + 1 \in Int /\ x + Replay - 1 \in Int
      BY <1>1
    <3>2. /\ IsFiniteSet(near)
          /\ Cardinality(near) = IF x - Replay + 1 > x + Replay - 1 THEN 0
                                 ELSE (x + Replay - 1) - (x - Replay + 1) + 1
      BY <3>1, FS_Interval
    <3> QED
      BY <1>1, <3>2
  <2>6. Replay >= 1
    <3>1. x <= published
      BY <1>1, <1>3 DEF x
    <3> QED
      BY <1>1, <3>1
  <2>7. x \in near
    BY <1>1, <2>6
  <2>8. Cardinality(near) = 2 * Replay - 1
    BY <1>1, <2>5, <2>6
  <2>9. IsFiniteSet(near \ {x}) /\ Cardinality(near \ {x}) = 2 * Replay - 2
    <3>1. IsFiniteSet(near \ {x}) /\ Cardinality(near \ {x}) = Cardinality(near) - 1
      BY <2>5, <2>7, FS_RemoveElement
    <3> QED
      BY <1>1, <2>8, <3>1
  <2>10. Cardinality(later) <= Cardinality(near \ {x})
    BY <2>4, <2>9, FS_Injection
  <2>11. Cardinality(later) = n - i
    <3>1. i + 1 \in Int /\ n \in Int
      BY <1>1
    <3>2. Cardinality(later) = IF i + 1 > n THEN 0 ELSE n - (i + 1) + 1
      BY <3>1, FS_Interval
    <3> HIDE DEF later
    <3> QED
      BY <1>1, <3>2
  <2> QED
    BY <1>1, <2>1, <2>9, <2>10, <2>11 DEF TailCoversReplay
<1> QED
  BY <1>1, <1>4, <1>5, <1>6

\* One more trade at the end of the rows.
LEMMA RowsGrow ==
  ASSUME NEW s \in Seq(Nat), NEW b \in Seq(Nat), NEW t \in Nat, NEW last \in Nat,
         Replay \in Nat, RowsOK(s \o b, last), t \in 1..last,
         \A i \in DOMAIN (s \o b) : (s \o b)[i] # t /\ (s \o b)[i] < t + Replay
  PROVE  /\ RowsOK(s \o Append(b, t), last)
         /\ \A i \in DOMAIN (s \o Append(b, t)) :
               (s \o Append(b, t))[i] = t \/ \E j \in DOMAIN (s \o b) : (s \o Append(b, t))[i] = (s \o b)[j]
<1> DEFINE r == s \o b
           q == s \o Append(b, t)
<1>1. /\ r \in Seq(Nat) /\ Append(b, t) \in Seq(Nat) /\ <<t>> \in Seq(Nat)
      /\ Append(b, t) = b \o <<t>> /\ Append(r, t) = r \o <<t>>
  BY ConcatProperties, AppendProperties, AppendIsConcat
<1>2. q = Append(r, t)
  BY <1>1, ConcatAssociative
<1> HIDE DEF r
<1>3. /\ Len(r) \in Nat /\ DOMAIN r = 1..Len(r) /\ \A i \in DOMAIN r : r[i] \in Nat
      /\ Append(r, t) \in Seq(Nat) /\ Len(Append(r, t)) = Len(r) + 1
      /\ \A i \in 1..Len(r) : Append(r, t)[i] = r[i]
      /\ Append(r, t)[Len(r) + 1] = t
  BY <1>1, AppendProperties
<1>4. /\ DOMAIN q = 1..(Len(r) + 1) /\ \A i \in 1..Len(r) : q[i] = r[i]
      /\ q[Len(r) + 1] = t
  BY <1>2, <1>3
<1>5. /\ \A i, j \in 1..Len(r) : r[i] = r[j] => i = j
      /\ \A i, j \in 1..Len(r) : i < j => r[i] < r[j] + Replay
      /\ \A i \in 1..Len(r) : r[i] \in 1..last /\ r[i] # t /\ r[i] < t + Replay
  BY <1>3 DEF RowsOK, IsInjective, r
<1> HIDE DEF q
<1>6. \A i \in 1..(Len(r) + 1) : i \in 1..Len(r) \/ i = Len(r) + 1
  BY <1>3
<1>7. ASSUME NEW i \in DOMAIN q, NEW j \in DOMAIN q, i < j
      PROVE  q[i] # q[j] /\ q[i] < q[j] + Replay
  <2>1. i \in 1..Len(r) /\ q[i] = r[i]
    BY <1>3, <1>4, <1>7
  <2>2. CASE j \in 1..Len(r)
    <3>1. q[j] = r[j] /\ i \in Int /\ j \in Int /\ i # j
      BY <1>3, <1>4, <1>7, <2>1, <2>2
    <3>2. r[i] # r[j] /\ r[i] < r[j] + Replay
      BY <1>5, <1>7, <2>1, <2>2, <3>1
    <3> QED
      BY <2>1, <3>1, <3>2
  <2>3. CASE j = Len(r) + 1
    BY <1>4, <1>5, <2>1, <2>3
  <2> QED
    BY <1>4, <1>6, <2>2, <2>3
<1>8. IsInjective(q)
  <2>1. DOMAIN q \subseteq Int
    BY <1>3, <1>4
  <2>2. \A i, j \in Int : i < j \/ j < i \/ i = j
    OBVIOUS
  <2> QED
    BY <1>7, <2>1, <2>2 DEF IsInjective
<1>9. \A i \in DOMAIN q : q[i] \in 1..last
  BY <1>3, <1>4, <1>5, <1>6
<1>10. \A i \in DOMAIN q : q[i] = t \/ \E j \in DOMAIN r : q[i] = r[j]
  BY <1>3, <1>4, <1>6
<1>11. RowsOK(q, last)
  BY <1>7, <1>8, <1>9 DEF RowsOK
<1> QED
  BY <1>10, <1>11 DEF q, r

\* The rows before and in a buffer.
LEMMA RowsOf ==
  ASSUME NEW s \in Seq(Nat), NEW b \in Seq(Nat)
  PROVE  /\ \A i \in DOMAIN s : i \in DOMAIN (s \o b) /\ (s \o b)[i] = s[i]
         /\ \A i \in DOMAIN b : Len(s) + i \in DOMAIN (s \o b) /\ (s \o b)[Len(s) + i] = b[i]
         /\ \A i \in DOMAIN (s \o b) : \/ i \in DOMAIN s /\ (s \o b)[i] = s[i]
                                       \/ i - Len(s) \in DOMAIN b /\ (s \o b)[i] = b[i - Len(s)]
<1>1. /\ s \o b \in Seq(Nat) /\ Len(s) \in Nat /\ Len(b) \in Nat
      /\ DOMAIN s = 1..Len(s) /\ DOMAIN b = 1..Len(b)
      /\ DOMAIN (s \o b) = 1..(Len(s) + Len(b))
      /\ \A i \in 1..(Len(s) + Len(b)) : (s \o b)[i] = IF i <= Len(s) THEN s[i] ELSE b[i - Len(s)]
  BY ConcatProperties
<1> QED
  BY <1>1

\* While the lock has not failed nobody else is at work.
LEMMA OthersDown ==
  ASSUME LockOK, cause = "none", NEW p \in Proc, Running(p), NEW q \in Proc, q # p
  PROVE  ~Seeded(q)
BY DEF LockOK, Running, Seeded

\* Nothing that was written or known is touched for those who are still at work.
LEMMA WritingFrame ==
  ASSUME WritingOK, UNCHANGED <<file, published>>,
         \A q \in Proc : Seeded(q)' => Seeded(q) /\ seen'[q] = seen[q],
         \A q \in Proc : InSession(q)' => InSession(q) /\ buf'[q] = buf[q] /\ pos'[q] = pos[q]
  PROVE  WritingOK'
<1>1. RowsOK(file, published)'
  BY DEF WritingOK
<1>2. ASSUME NEW q \in Proc, Seeded(q)' PROVE KnowsReplay(q)'
  BY <1>2 DEF WritingOK, KnowsReplay
<1>3. ASSUME NEW q \in Proc, InSession(q)' PROVE SessionOK(q)'
  <2>1. SessionOK(q) /\ seen'[q] = seen[q] /\ buf'[q] = buf[q] /\ pos'[q] = pos[q]
    BY <1>3 DEF WritingOK, InSession, Seeded
  <2> QED
    BY <2>1 DEF SessionOK, Rows
<1> QED
  BY <1>1, <1>2, <1>3 DEF WritingOK

\* What was published before is still published, and farther behind.
LEMMA WritingPublish ==
  ASSUME CollectorAssumption, Typed, WritingOK, Publish
  PROVE  WritingOK'
<1>1. /\ published' = published + 1 /\ published \in Nat /\ Replay \in Nat
      /\ UNCHANGED <<pc, seen, buf, pos, file>>
  BY DEF Publish, Typed, CollectorAssumption
<1>2. ASSUME NEW s, RowsOK(s, published) PROVE RowsOK(s, published')
  <2>1. \A x \in 1..published : x \in 1..published'
    BY <1>1
  <2> QED
    BY <1>2, <2>1 DEF RowsOK
<1>3. RowsOK(file, published)'
  BY <1>1, <1>2 DEF WritingOK
<1>4. ASSUME NEW q \in Proc, Seeded(q)' PROVE KnowsReplay(q)'
  <2>1. \A i \in DOMAIN file : file[i] \in Nat
    BY DEF Typed
  <2>2. KnowsReplay(q)
    BY <1>1, <1>4 DEF WritingOK, Seeded
  <2> QED
    BY <1>1, <2>1, <2>2 DEF KnowsReplay
<1>5. ASSUME NEW q \in Proc, InSession(q)' PROVE SessionOK(q)'
  <2>1. SessionOK(q)
    BY <1>1, <1>5 DEF WritingOK, InSession
  <2>2. RowsOK(Rows(q), published')
    BY <1>2, <2>1 DEF SessionOK
  <2>3. pos[q] <= published'
    BY <1>1, <2>1 DEF SessionOK, Typed
  <2> QED
    BY <1>1, <2>1, <2>2, <2>3 DEF SessionOK, Rows
<1> QED
  BY <1>3, <1>4, <1>5 DEF WritingOK

\* Who is seeded from the tail knows what a subscription may replay.
LEMMA WritingSeed ==
  ASSUME CollectorAssumption, TailCoversReplay, Typed, LockOK, cause = "none", WritingOK,
         NEW p \in Proc, Seed(p)
  PROVE  WritingOK'
<1>1. /\ pc[p] = "seed" /\ pc' = [pc EXCEPT ![p] = "connect"]
      /\ seen' = [seen EXCEPT ![p] = Tail_(TailRows)]
      /\ UNCHANGED <<file, published, buf, pos>>
  BY DEF Seed, Goto
<1>2. \A q \in Proc : q # p => ~Seeded(q)
  BY <1>1, OthersDown DEF Running
<1>3. \A q \in Proc : (q # p => ~Seeded(q)') /\ ~InSession(q)'
  BY <1>1, <1>2 DEF Typed, Seeded, InSession
<1>4. KnowsReplay(p)'
  <2>1. \A i \in DOMAIN file : file[i] > published - Replay => file[i] \in Tail_(TailRows)
    BY TailReaches DEF WritingOK
  <2>2. seen'[p] = Tail_(TailRows)
    BY <1>1 DEF Typed
  <2> QED
    BY <1>1, <2>1, <2>2 DEF KnowsReplay
<1> QED
  BY <1>1, <1>3, <1>4 DEF WritingOK

\* A session begins a replay behind what was published.
LEMMA WritingConnect ==
  ASSUME CollectorAssumption, Typed, BufferOK, LockOK, cause = "none", WritingOK,
         NEW p \in Proc, Connect(p)
  PROVE  WritingOK'
<1> DEFINE start == IF published > Replay THEN published - Replay ELSE 0
<1>1. /\ pc[p] = "connect" /\ pc' = [pc EXCEPT ![p] = "session"]
      /\ pos' = [pos EXCEPT ![p] = start]
      /\ UNCHANGED <<file, published, buf, seen>>
  BY DEF Connect, Goto
<1>2. /\ published \in Nat /\ Replay \in Nat /\ start \in Nat /\ start <= published
      /\ published <= start + Replay /\ (start > published - Replay => start = 0)
      /\ start = 0 => published <= Replay
  BY DEF Typed, CollectorAssumption
<1> HIDE DEF start
<1>3. \A q \in Proc : q # p => ~Seeded(q)'
  <2>1. \A q \in Proc : q # p => ~Seeded(q)
    BY <1>1, OthersDown DEF Running
  <2> QED
    BY <1>1, <2>1 DEF Typed, Seeded
<1>4. RowsOK(file, published) /\ KnowsReplay(p)
  BY <1>1 DEF WritingOK, Seeded
<1>5. Rows(p)' = file /\ buf'[p] = <<>> /\ pos'[p] = start
  <2>1. buf[p] = <<>> /\ file \in Seq(Nat)
    BY <1>1 DEF BufferOK, Typed
  <2>2. file \o <<>> = file
    BY <2>1, ConcatEmptySeq
  <2> QED
    BY <1>1, <2>1, <2>2 DEF Rows, Typed
<1>6. \A i \in DOMAIN file : file[i] \in 1..published
  BY <1>4 DEF RowsOK
<1>7. \A i \in DOMAIN file : file[i] > start => file[i] \in seen[p]
  BY <1>2, <1>4, <1>6 DEF KnowsReplay
<1>8. \A i \in DOMAIN file : file[i] <= start + Replay
  BY <1>2, <1>6
<1>9. SessionOK(p)'
  BY <1>1, <1>2, <1>4, <1>5, <1>7, <1>8 DEF SessionOK
<1>10. KnowsReplay(p)' /\ RowsOK(file, published)'
  BY <1>1, <1>4 DEF KnowsReplay
<1>11. \A q \in Proc : InSession(q)' => q = p
  BY <1>3 DEF InSession, Seeded
<1> QED
  BY <1>3, <1>9, <1>10, <1>11 DEF WritingOK

\* A delivered trade is either known or new to the file and the buffer.
LEMMA WritingDeliver ==
  ASSUME CollectorAssumption, Typed, LockOK, cause = "none", WritingOK, NEW p \in Proc, Deliver(p)
  PROVE  WritingOK'
<1> DEFINE t == pos[p] + 1
<1>1. /\ pc[p] = "session" /\ pos[p] < published /\ pos' = [pos EXCEPT ![p] = t]
      /\ seen' = [seen EXCEPT ![p] = seen[p] \cup {t}]
      /\ buf' = IF t \notin seen[p] THEN [buf EXCEPT ![p] = Append(buf[p], t)] ELSE buf
      /\ \A q \in Proc : q # p => pc'[q] = pc[q]
      /\ UNCHANGED <<file, published>>
  BY DEF Deliver, Goto, Typed
<1>2. /\ published \in Nat /\ Replay \in Nat /\ pos[p] \in Nat /\ t \in 1..published
      /\ file \in Seq(Nat) /\ buf[p] \in Seq(Nat) /\ Rows(p) \in Seq(Nat)
  BY <1>1, ConcatProperties DEF Typed, CollectorAssumption, Rows
<1>3. \A q \in Proc : q # p => ~Seeded(q)'
  BY <1>1, OthersDown DEF Running, Seeded
<1>4. RowsOK(file, published) /\ KnowsReplay(p) /\ SessionOK(p)
  BY <1>1 DEF WritingOK, Seeded, InSession
<1>5. pos'[p] = t /\ seen'[p] = seen[p] \cup {t}
  BY <1>1 DEF Typed
<1>6. KnowsReplay(p)' /\ RowsOK(file, published)'
  BY <1>1, <1>4, <1>5 DEF KnowsReplay
<1>7. \A i \in DOMAIN file : file[i] \in Nat
  BY <1>2
<1>8. \A i \in DOMAIN file : file[i] > t => file[i] \in seen[p]
  BY <1>2, <1>4, <1>7 DEF SessionOK
<1>9. ASSUME NEW i \in DOMAIN Rows(p) PROVE Rows(p)[i] \in Nat /\ Rows(p)[i] <= pos[p] + Replay
  BY <1>2, <1>4, <1>9 DEF SessionOK
<1>10. SessionOK(p)'
  <2>1. CASE t \in seen[p]
    <3>1. buf'[p] = buf[p] /\ Rows(p)' = Rows(p)
      BY <1>1, <2>1 DEF Rows
    <3>2. \A i \in DOMAIN Rows(p) : Rows(p)[i] <= t + Replay
      BY <1>2, <1>9
    <3>3. t <= published
      BY <1>2
    <3>4. RowsOK(Rows(p), published) /\ \A i \in DOMAIN buf[p] : buf[p][i] \in seen[p]
      BY <1>4 DEF SessionOK
    <3> HIDE DEF t
    <3> QED
      BY <1>1, <1>5, <1>8, <3>1, <3>2, <3>3, <3>4 DEF SessionOK
  <2>2. CASE t \notin seen[p]
    <3>1. buf'[p] = Append(buf[p], t) /\ Rows(p)' = file \o Append(buf[p], t)
      BY <1>1, <2>2 DEF Rows, Typed
    <3>2. \A i \in DOMAIN Rows(p) : Rows(p)[i] # t
      <4>1. \A i \in DOMAIN file : file[i] # t
        BY <1>2, <1>4, <2>2 DEF SessionOK
      <4>2. \A i \in DOMAIN buf[p] : buf[p][i] # t
        BY <1>4, <2>2 DEF SessionOK
      <4> QED
        BY <1>2, <4>1, <4>2, RowsOf DEF Rows
    <3>3. \A i \in DOMAIN Rows(p) : Rows(p)[i] < t + Replay
      BY <1>2, <1>9
    <3>4. RowsOK(Rows(p), published)
      BY <1>4 DEF SessionOK
    <3>5. t \in Nat
      BY <1>2
    <3> HIDE DEF t
    <3>6. /\ RowsOK(Rows(p)', published)
          /\ \A i \in DOMAIN (Rows(p)') : Rows(p)'[i] = t \/ \E j \in DOMAIN Rows(p) : Rows(p)'[i] = Rows(p)[j]
      <4>1. /\ RowsOK(file \o Append(buf[p], t), published)
            /\ \A i \in DOMAIN (file \o Append(buf[p], t)) :
                  \/ (file \o Append(buf[p], t))[i] = t
                  \/ \E j \in DOMAIN (file \o buf[p]) : (file \o Append(buf[p], t))[i] = (file \o buf[p])[j]
        BY <1>2, <3>2, <3>3, <3>4, <3>5, RowsGrow DEF Rows
      <4>2. Rows(p) = file \o buf[p]
        BY DEF Rows
      <4> QED
        BY <3>1, <4>1, <4>2
    <3>7. \A i \in DOMAIN (Rows(p)') : Rows(p)'[i] <= t + Replay
      <4>1. \A j \in DOMAIN Rows(p) : Rows(p)[j] <= t + Replay
        BY <1>2, <1>9, <3>3, <3>5
      <4>2. t <= t + Replay
        BY <1>2, <3>5
      <4> QED
        BY <3>6, <4>1, <4>2
    <3>8. \A i \in DOMAIN buf'[p] : buf'[p][i] \in seen'[p]
      <4>1. /\ DOMAIN Append(buf[p], t) = 1..(Len(buf[p]) + 1) /\ Len(buf[p]) \in Nat
            /\ DOMAIN buf[p] = 1..Len(buf[p])
            /\ \A i \in 1..Len(buf[p]) : Append(buf[p], t)[i] = buf[p][i]
            /\ Append(buf[p], t)[Len(buf[p]) + 1] = t
        BY <1>2, <3>5, AppendProperties
      <4>2. \A i \in 1..Len(buf[p]) : buf[p][i] \in seen[p]
        BY <1>4, <4>1 DEF SessionOK
      <4>3. \A i \in 1..(Len(buf[p]) + 1) : i \in 1..Len(buf[p]) \/ i = Len(buf[p]) + 1
        BY <4>1
      <4> QED
        BY <1>5, <3>1, <4>1, <4>2, <4>3
    <3>9. t <= published
      BY <1>2
    <3> QED
      BY <1>1, <1>5, <1>8, <3>6, <3>7, <3>8, <3>9 DEF SessionOK
  <2> QED
    BY <2>1, <2>2
<1>11. \A q \in Proc : InSession(q)' => q = p
  BY <1>3 DEF InSession, Seeded
<1> QED
  BY <1>3, <1>6, <1>10, <1>11 DEF WritingOK

\* Appended rows become rows of the file; rows that could not be are gone.
LEMMA WritingAppend ==
  ASSUME Typed, LockOK, cause = "none", WritingOK, NEW p \in Proc, AppendRows(p)
  PROVE  WritingOK'
<1>1. /\ pc[p] = "append" /\ pc' = [pc EXCEPT ![p] = "refresh"]
      /\ buf' = [buf EXCEPT ![p] = <<>>]
      /\ file' = Rows(p) \/ file' = file
      /\ UNCHANGED <<published, seen, pos>>
  BY DEF AppendRows, Goto, Rows
<1>2. file \in Seq(Nat) /\ buf[p] \in Seq(Nat) /\ Rows(p) \in Seq(Nat)
  BY ConcatProperties DEF Typed, Rows
<1>3. \A q \in Proc : q # p => ~Seeded(q)'
  <2>1. \A q \in Proc : q # p => ~Seeded(q)
    BY <1>1, OthersDown DEF Running
  <2> QED
    BY <1>1, <2>1 DEF Typed, Seeded
<1>4. RowsOK(file, published) /\ KnowsReplay(p) /\ SessionOK(p)
  BY <1>1 DEF WritingOK, Seeded, InSession
<1>5. RowsOK(file, published)'
  BY <1>1, <1>4 DEF SessionOK
<1>6. \A i \in DOMAIN file' : \/ i \in DOMAIN file /\ file'[i] = file[i]
                              \/ i - Len(file) \in DOMAIN buf[p] /\ file'[i] = buf[p][i - Len(file)]
  <2>1. CASE file' = Rows(p)
    BY <1>2, <2>1, RowsOf DEF Rows
  <2>2. CASE file' = file
    BY <2>2
  <2> QED
    BY <1>1, <2>1, <2>2
<1>7. KnowsReplay(p)'
  BY <1>1, <1>4, <1>6 DEF KnowsReplay, SessionOK
<1>8. SessionOK(p)'
  <2>1. Rows(p)' = file' /\ buf'[p] = <<>>
    <3>1. buf'[p] = <<>> /\ file' \in Seq(Nat)
      BY <1>1, <1>2 DEF Typed
    <3>2. file' \o <<>> = file'
      BY <3>1, ConcatEmptySeq
    <3> QED
      BY <3>1, <3>2 DEF Rows
  <2>2. \A i \in DOMAIN file' : file'[i] > pos[p] => file'[i] \in seen[p]
    BY <1>4, <1>6 DEF SessionOK
  <2>3. \A i \in DOMAIN file' : file'[i] <= pos[p] + Replay
    <3>1. \A i \in DOMAIN file : i \in DOMAIN Rows(p) /\ Rows(p)[i] = file[i]
      BY <1>2, RowsOf DEF Rows
    <3>2. \A i \in DOMAIN Rows(p) : Rows(p)[i] <= pos[p] + Replay
      BY <1>4 DEF SessionOK
    <3> QED
      BY <1>1, <3>1, <3>2
  <2>4. pos[p] <= published
    BY <1>4 DEF SessionOK
  <2> QED
    BY <1>1, <1>5, <2>1, <2>2, <2>3, <2>4 DEF SessionOK
<1>9. \A q \in Proc : InSession(q)' => q = p
  BY <1>3 DEF InSession, Seeded
<1> QED
  BY <1>3, <1>5, <1>7, <1>8, <1>9 DEF WritingOK

\* Every step keeps the rows distinct and known to whoever may add to them.
LEMMA UniqueStep ==
  ASSUME CollectorAssumption, TailCoversReplay, UniqueInv, [Next]_vars
  PROVE  UniqueInv'
<1>1. Typed' /\ LockTyped' /\ LockOK'
  BY TypedStep, LockStep DEF UniqueInv
<1>2. BufferOK'
  BY BufferStep DEF UniqueInv, UniqueOK
<1> SUFFICES ASSUME cause' = "none" PROVE WritingOK'
  BY <1>1, <1>2 DEF UniqueInv, UniqueOK
<1>3. cause = "none"
  BY CauseStays
<1>4. Typed /\ LockOK /\ BufferOK /\ WritingOK
  BY <1>3 DEF UniqueInv, UniqueOK
<1>5. ASSUME NEW p \in Proc, Seed(p) \/ Connect(p) \/ Deliver(p) \/ AppendRows(p) PROVE WritingOK'
  BY <1>3, <1>4, <1>5, WritingSeed, WritingConnect, WritingDeliver, WritingAppend
<1>6. CASE Publish
  BY <1>4, <1>6, WritingPublish
<1> DEFINE Still(q) ==
      /\ Seeded(q)' => Seeded(q) /\ seen'[q] = seen[q]
      /\ InSession(q)' => InSession(q) /\ buf'[q] = buf[q] /\ pos'[q] = pos[q]
<1>7. ASSUME UNCHANGED <<file, published>>, \A q \in Proc : Still(q) PROVE WritingOK'
  BY <1>4, <1>7, WritingFrame
<1>8. ASSUME NEW p \in Proc,
             \/ AcquireRead(p) \/ AcquireWrite(p) \/ GiveUp(p) \/ FlushDue(p) \/ EndSession(p)
             \/ Refresh(p) \/ Unlink(p)
      PROVE  WritingOK'
  <2>1. UNCHANGED <<file, published, seen, buf, pos>> /\ \E to \in Places : Goto(p, to)
    BY <1>8 DEF AcquireRead, AcquireWrite, GiveUp, FlushDue, EndSession, Refresh, Unlink, Places
  <2>2. \A q \in Proc : q # p => pc'[q] = pc[q]
    BY <1>4, <2>1 DEF Goto, Typed
  <2>3. \/ pc'[p] \in {"write", "seed", "release", "down"}
        \/ InSession(p) /\ Seeded(p)
    BY <1>4, <1>8 DEF AcquireRead, AcquireWrite, GiveUp, FlushDue, EndSession, Refresh, Unlink,
                      Goto, Typed, InSession, Seeded
  <2>4. \A q \in Proc : Still(q)
    BY <2>1, <2>2, <2>3 DEF InSession, Seeded
  <2> QED
    BY <1>7, <2>1, <2>4
<1>9. ASSUME NEW p \in Proc, ReleaseRead(p) \/ Crash(p) \/ Interrupt(p) PROVE WritingOK'
  <2>1. /\ UNCHANGED <<file, published>>
        /\ \A q \in Proc : q # p => /\ pc'[q] = pc[q] /\ seen'[q] = seen[q]
                                    /\ buf'[q] = buf[q] /\ pos'[q] = pos[q]
        /\ pc'[p] \in {"unlink", "release", "down"}
    BY <1>4, <1>9 DEF ReleaseRead, Crash, Interrupt, Goto, Forget, Typed
  <2>2. \A q \in Proc : Still(q)
    BY <2>1 DEF InSession, Seeded
  <2> QED
    BY <1>7, <2>1, <2>2
<1>10. CASE Tick \/ UNCHANGED vars
  <2>1. UNCHANGED <<pc, file, published, seen, buf, pos>>
    BY <1>10 DEF Tick, vars
  <2>2. \A q \in Proc : Still(q)
    BY <2>1 DEF InSession, Seeded
  <2> QED
    BY <1>7, <2>1, <2>2
<1> QED
  BY <1>5, <1>6, <1>8, <1>9, <1>10 DEF Next, Step

\* No trade has two rows, for any number of collectors, sessions, crashes and
\* replays, as long as the writer lock keeps the others out and the tail that a
\* collector reads covers a replay on both sides
\* (labs/bybit_trades_ws_persistent_v10_43c.py:293-314, 277-280).
THEOREM NoTradeTwice == CollectorAssumption /\ TailCoversReplay => (SafetySpec => []RowsUnique)
<1> SUFFICES ASSUME CollectorAssumption, TailCoversReplay PROVE SafetySpec => []RowsUnique
  OBVIOUS
<1>1. Init => UniqueInv
  <2> SUFFICES ASSUME Init PROVE UniqueInv
    OBVIOUS
  <2>1. Typed
    BY DEF Init, Typed, Places
  <2>2. LockTyped /\ LockOK
    BY DEF Init, LockTyped, LockOK, Running, NoLock, Places
  <2>3. BufferOK /\ \A p \in Proc : ~Seeded(p) /\ ~InSession(p)
    BY DEF Init, BufferOK, Seeded, InSession
  <2>4. RowsOK(file, published)
    BY DEF Init, RowsOK, IsInjective
  <2> QED
    BY <2>1, <2>2, <2>3, <2>4 DEF UniqueInv, UniqueOK, WritingOK
<1>2. UniqueInv /\ [Next]_vars => UniqueInv'
  BY UniqueStep
<1>3. UniqueInv => RowsUnique
  BY DEF UniqueInv, UniqueOK, WritingOK, RowsOK, RowsUnique
<1> QED
  BY <1>1, <1>2, <1>3, PTL DEF SafetySpec
-----------------------------------------------------------------------------
\* Types.

\* The values of the variables, when last is the last trade published.
Bounds(last) ==
    /\ pc \in [Proc -> Places]
    /\ lock \in [owner : Proc \cup {"none", "dead"}, age : 0..(Ttl + 1)]
    /\ seen \in [Proc -> SUBSET (1..last)]
    /\ buf \in [Proc -> Seq(1..last)]
    /\ pos \in [Proc -> 0..last]
    /\ ended \in [Proc -> BOOLEAN]
    /\ file \in Seq(1..last)
    /\ covered \in 0..last
    /\ gone \subseteq 1..last
    /\ cause \in {"none", "lapsed", "raced", "unlinked"}
    /\ faults \in 0..MaxFaults

\* Nothing is known of a trade before it was published.
BoundsInv == published \in 0..MaxTrades /\ Bounds(published)

\* The members of a sequence are of its type, and so are those of its tail.
LEMMA MembersOfType ==
  ASSUME NEW S, NEW s \in Seq(S), NEW m \in 1..(Len(s) + 1)
  PROVE  ToSet(s) \subseteq S /\ ToSet(SubSeq(s, m, Len(s))) \subseteq S
<1>1. Len(s) \in Nat /\ m \in Int /\ Len(s) \in Int /\ \A i \in m..Len(s) : s[i] \in S
  OBVIOUS
<1>2. SubSeq(s, m, Len(s)) \in Seq(S)
  BY <1>1, SubSeqProperties
<1>3. \A q \in Seq(S) : ToSet(q) \subseteq S
  BY DEF ToSet
<1> QED
  BY <1>2, <1>3

\* What is published stays so.
LEMMA BoundsPublish ==
  ASSUME CollectorAssumption, BoundsInv, Publish
  PROVE  BoundsInv'
<1>1. /\ published \in Nat /\ published' = published + 1 /\ published' \in 0..MaxTrades
      /\ UNCHANGED <<pc, lock, seen, buf, pos, ended, file, covered, gone, cause, faults>>
  BY DEF Publish, BoundsInv, CollectorAssumption
<1>2. 1..published \subseteq 1..published' /\ 0..published \subseteq 0..published'
  BY <1>1
<1>3. Seq(1..published) \subseteq Seq(1..published')
  BY <1>2, SeqMonotonic
<1> HIDE DEF Publish
<1>4. seen \in [Proc -> SUBSET (1..published')] /\ pos \in [Proc -> 0..published']
  BY <1>2 DEF BoundsInv, Bounds
<1>5. buf \in [Proc -> Seq(1..published')] /\ file \in Seq(1..published')
  BY <1>3 DEF BoundsInv, Bounds
<1>6. covered \in 0..published' /\ gone \subseteq 1..published'
  BY <1>2 DEF BoundsInv, Bounds
<1> QED
  BY <1>1, <1>4, <1>5, <1>6 DEF BoundsInv, Bounds

\* Of the other steps the last trade published is no part.
LEMMA BoundsOther ==
  ASSUME CollectorAssumption, NEW last \in Nat, last = published, Bounds(last),
         NEW p \in Proc, Step(p) \/ Crash(p) \/ Interrupt(p)
  PROVE  Bounds(last)'
<1>1. Ttl \in Nat /\ Replay \in Nat /\ MaxFaults \in Nat /\ TailRows \in Nat
  BY DEF CollectorAssumption
<1> USE DEF Bounds, Goto, Forget, Places
<1>2. CASE AcquireRead(p) \/ GiveUp(p) \/ FlushDue(p)
  BY <1>2 DEF AcquireRead, GiveUp, FlushDue
<1>3. CASE AcquireWrite(p)
  BY <1>1, <1>3 DEF AcquireWrite, Blame
<1>4. CASE Seed(p)
  <2>1. Len(file) \in Nat
    OBVIOUS
  <2>2. Max({1, Len(file) - TailRows + 1}) \in 1..(Len(file) + 1)
    <3>1. 1 \in Int /\ Len(file) - TailRows + 1 \in Int
      BY <1>1, <2>1
    <3>2. Max({1, Len(file) - TailRows + 1}) = IF 1 >= Len(file) - TailRows + 1 THEN 1 ELSE Len(file) - TailRows + 1
      BY <3>1, MaxOfTwo, Zenon
    <3> QED
      BY <1>1, <2>1, <3>2
  <2>3. Tail_(TailRows) \subseteq 1..last
    BY <2>2, MembersOfType DEF Tail_
  <2> QED
    BY <1>4, <2>3 DEF Seed
<1>5. CASE Connect(p)
  <2> DEFINE start == IF published > Replay THEN published - Replay ELSE 0
  <2>1. start \in 0..last /\ covered \in 0..last
    BY <1>1
  <2>2. /\ pc' = [pc EXCEPT ![p] = "session"] /\ pos' = [pos EXCEPT ![p] = start]
        /\ gone' \subseteq gone \cup ((covered + 1)..start) /\ covered' = Max({covered, start})
        /\ UNCHANGED <<lock, seen, buf, ended, file, cause, faults>>
    BY <1>5 DEF Connect
  <2> HIDE DEF start
  <2>3. covered' \in 0..last
    <3>1. covered \in Int /\ start \in Int
      BY <2>1
    <3>2. covered' \in {covered, start}
      BY <2>2, <3>1, MaxOfTwo, Zenon
    <3> QED
      BY <2>1, <3>2
  <2>4. gone' \subseteq 1..last
    BY <2>1, <2>2
  <2>5. pos' \in [Proc -> 0..last]
    BY <2>1, <2>2
  <2> QED
    BY <2>2, <2>3, <2>4, <2>5
<1>6. CASE Deliver(p)
  <2> DEFINE t == pos[p] + 1
  <2>1. t \in 1..last /\ covered \in 0..last
    BY <1>6 DEF Deliver
  <2>2. /\ pc' \in {[pc EXCEPT ![p] = "append"], [pc EXCEPT ![p] = "session"]}
        /\ pos' = [pos EXCEPT ![p] = t]
        /\ covered' = Max({covered, t})
        /\ seen' = [seen EXCEPT ![p] = seen[p] \cup {t}]
        /\ buf' \in {buf, [buf EXCEPT ![p] = Append(buf[p], t)]}
        /\ UNCHANGED <<lock, ended, file, gone, cause, faults>>
    BY <1>6 DEF Deliver
  <2> HIDE DEF t
  <2>3. covered' \in 0..last
    <3>1. covered \in Int /\ t \in Int
      BY <2>1
    <3>2. covered' \in {covered, t}
      BY <2>2, <3>1, MaxOfTwo, Zenon
    <3> QED
      BY <2>1, <3>2
  <2>4. Append(buf[p], t) \in Seq(1..last)
    BY <2>1, AppendProperties
  <2>5. buf' \in [Proc -> Seq(1..last)]
    BY <2>2, <2>4
  <2>6. seen' \in [Proc -> SUBSET (1..last)]
    BY <2>1, <2>2
  <2>7. pos' \in [Proc -> 0..last]
    BY <2>1, <2>2
  <2>8. pc' \in [Proc -> Places]
    BY <2>2
  <2> QED
    BY <2>2, <2>3, <2>5, <2>6, <2>7, <2>8
<1>7. CASE EndSession(p)
  BY <1>7 DEF EndSession
<1>8. CASE AppendRows(p)
  <2>1. file \o buf[p] \in Seq(1..last) /\ ToSet(buf[p]) \subseteq 1..last
    <3>1. buf[p] \in Seq(1..last) /\ 1 \in 1..(Len(buf[p]) + 1)
      OBVIOUS
    <3> QED
      BY <3>1, ConcatProperties, MembersOfType
  <2>2. /\ pc' = [pc EXCEPT ![p] = "refresh"] /\ buf' = [buf EXCEPT ![p] = <<>>]
        /\ file' \in {file, file \o buf[p]} /\ gone' \in {gone, gone \cup ToSet(buf[p])}
        /\ faults' \in 0..MaxFaults
        /\ UNCHANGED <<lock, seen, pos, ended, covered, cause>>
    BY <1>1, <1>8 DEF AppendRows
  <2>3. buf' \in [Proc -> Seq(1..last)] /\ pc' \in [Proc -> Places]
    BY <2>2
  <2>4. file' \in Seq(1..last) /\ gone' \subseteq 1..last
    BY <2>1, <2>2
  <2> QED
    BY <2>2, <2>3, <2>4
<1>9. CASE Refresh(p)
  BY <1>1, <1>9 DEF Refresh
<1>10. CASE ReleaseRead(p)
  BY <1>10 DEF ReleaseRead
<1>11. CASE Unlink(p)
  BY <1>1, <1>11 DEF Unlink, NoLock, Blame
<1>12. CASE Crash(p) \/ Interrupt(p)
  <2>1. ToSet(buf[p]) \subseteq 1..last
    <3>1. buf[p] \in Seq(1..last) /\ 1 \in 1..(Len(buf[p]) + 1)
      OBVIOUS
    <3> QED
      BY <3>1, MembersOfType
  <2>2. /\ gone' = gone \cup ToSet(buf[p]) /\ buf' = [buf EXCEPT ![p] = <<>>]
        /\ ended' = [ended EXCEPT ![p] = FALSE] /\ faults' = faults + 1 /\ faults < MaxFaults
        /\ lock' \in {lock, [lock EXCEPT !.owner = "dead"]}
        /\ seen' \in {seen, [seen EXCEPT ![p] = {}]} /\ pos' \in {pos, [pos EXCEPT ![p] = 0]}
        /\ pc' \in {[pc EXCEPT ![p] = "down"], [pc EXCEPT ![p] = "release"]}
        /\ UNCHANGED <<file, covered, cause>>
    BY <1>12 DEF Crash, Interrupt
  <2>3. buf' \in [Proc -> Seq(1..last)]
    BY <2>2
  <2>4. gone' \subseteq 1..last /\ faults' \in 0..MaxFaults
    BY <1>1, <2>1, <2>2
  <2>5. pc' \in [Proc -> Places] /\ ended' \in [Proc -> BOOLEAN]
    BY <2>2
  <2>6. seen' \in [Proc -> SUBSET (1..last)]
    BY <2>2
  <2>7. pos' \in [Proc -> 0..last]
    <3>1. pos \in [Proc -> 0..last] /\ 0 \in 0..last
      OBVIOUS
    <3>2. CASE pos' = pos
      BY <3>1, <3>2
    <3>3. CASE pos' = [pos EXCEPT ![p] = 0]
      BY <3>1, <3>3
    <3> QED
      BY <2>2, <3>2, <3>3
  <2>8. lock' \in [owner : Proc \cup {"none", "dead"}, age : 0..(Ttl + 1)]
    BY <2>2
  <2> QED
    BY <2>2, <2>3, <2>4, <2>5, <2>6, <2>7, <2>8
<1> QED
  BY <1>2, <1>3, <1>4, <1>5, <1>6, <1>7, <1>8, <1>9, <1>10, <1>11, <1>12 DEF Step

\* The values after one step.
LEMMA BoundsStep ==
  ASSUME CollectorAssumption, BoundsInv, [Next]_vars
  PROVE  BoundsInv'
<1>1. CASE Publish
  BY <1>1, BoundsPublish
<1>2. ASSUME NEW p \in Proc, Step(p) \/ Crash(p) \/ Interrupt(p) PROVE BoundsInv'
  <2>1. published' = published
    BY <1>2 DEF Step, AcquireRead, AcquireWrite, Seed, Connect, GiveUp, Deliver, FlushDue, EndSession,
                AppendRows, Refresh, ReleaseRead, Unlink, Crash, Interrupt
  <2>2. published \in Nat /\ published \in 0..MaxTrades
    BY DEF BoundsInv, CollectorAssumption
  <2>3. ASSUME NEW last \in Nat, last = published PROVE Bounds(last)'
    BY <1>2, <2>3, BoundsOther DEF BoundsInv
  <2>4. \E last \in Nat : last = published /\ Bounds(last)'
    BY <2>2, <2>3
  <2>5. PICK last \in Nat : last = published /\ Bounds(last)'
    BY <2>4
  <2> QED
    BY <2>1, <2>2, <2>5 DEF BoundsInv, Bounds
<1>3. CASE Tick
  <2>1. /\ lock' = [lock EXCEPT !.age = lock.age + 1] /\ lock.age <= Ttl /\ Ttl \in Nat
        /\ UNCHANGED <<pc, seen, buf, pos, ended, file, published, covered, gone, cause, faults>>
    BY <1>3 DEF Tick, CollectorAssumption
  <2>2. lock.owner \in Proc \cup {"none", "dead"} /\ lock.age \in 0..(Ttl + 1)
        /\ lock' = [owner |-> lock.owner, age |-> lock.age + 1]
    BY <2>1 DEF BoundsInv, Bounds
  <2>3. lock.age + 1 \in 0..(Ttl + 1)
    BY <2>1, <2>2
  <2>4. lock' \in [owner : Proc \cup {"none", "dead"}, age : 0..(Ttl + 1)]
    BY <2>2, <2>3
  <2> QED
    BY <2>1, <2>4 DEF BoundsInv, Bounds
<1>4. CASE UNCHANGED vars
  BY <1>4 DEF vars, BoundsInv, Bounds
<1> QED
  BY <1>1, <1>2, <1>3, <1>4 DEF Next

\* Every variable keeps its type, for any number of collectors and any sizes.
THEOREM CollectorTypes == CollectorAssumption => (SafetySpec => []TypeOK)
<1> SUFFICES ASSUME CollectorAssumption PROVE SafetySpec => []TypeOK
  OBVIOUS
<1>1. Init => BoundsInv
  BY DEF Init, BoundsInv, Bounds, Places, NoLock, CollectorAssumption
<1>2. BoundsInv /\ [Next]_vars => BoundsInv'
  BY BoundsStep
<1>3. BoundsInv => TypeOK
  <2> SUFFICES ASSUME BoundsInv PROVE TypeOK
    OBVIOUS
  <2>1. 1..published \subseteq 1..MaxTrades /\ 0..published \subseteq 0..MaxTrades
    BY DEF BoundsInv, CollectorAssumption
  <2>2. Seq(1..published) \subseteq Seq(1..MaxTrades)
    BY <2>1, SeqMonotonic
  <2>3. seen \in [Proc -> SUBSET (1..MaxTrades)] /\ pos \in [Proc -> 0..MaxTrades]
    BY <2>1 DEF BoundsInv, Bounds
  <2>4. buf \in [Proc -> Seq(1..MaxTrades)] /\ file \in Seq(1..MaxTrades)
    BY <2>2 DEF BoundsInv, Bounds
  <2> QED
    BY <2>3, <2>4 DEF TypeOK, BoundsInv, Bounds, Places
<1> QED
  BY <1>1, <1>2, <1>3, PTL DEF SafetySpec
=============================================================================
