-------------------------- MODULE WatchLockProofs --------------------------
(***************************************************************************)
(* Proofs about WatchLock, for any set of processes.                       *)
(***************************************************************************)
EXTENDS WatchLock, TLAPS

\* The places after the creation of the file.
After == {"fill", "watch", "unlinkOwn"}

\* A process that created the file and was not robbed of it still owns it, and
\* has put its name into it by the time it is at work.
OwnersOK ==
    \A p \in Watcher \ robbed :
        pc[p] \in After => lockFile.owner = p /\ lockFile.filled = (pc[p] # "fill")

\* Only who created a file owns one or can be robbed of it, and then owns it no
\* more; a removed file is nobody's.
CreatedOK ==
    /\ \A p \in Watcher : lockFile.owner = p \/ p \in robbed => pc[p] \in After
    /\ lockFile.owner \notin robbed
    /\ ~Present => lockFile.owner \notin Watcher

\* Whoever a reader saw at work and did not take for dead had lost the file before:
\* the removal takes it from no watcher that the reader had seen.
EarlyOK == \A p \in Watcher : early[p] \subseteq robbed

WatchInv == WatchTypeOK /\ OwnersOK /\ CreatedOK /\ EarlyOK

\* The first processes find no file.
LEMMA WatchInitOK == WatchAssumption /\ WatchInit => WatchInv
  BY DEF WatchAssumption, WatchInit, WatchInv, WatchTypeOK, OwnersOK, CreatedOK, EarlyOK, NoFile, Present, After

\* The types of one step.
LEMMA WatchTypeStep ==
  ASSUME WatchTypeOK, [WatchNext]_watchVars
  PROVE  WatchTypeOK'
<1> USE DEF WatchTypeOK, NoFile, Goto
<1>1. ASSUME NEW p \in Watcher, End(p) PROVE early' \in [Watcher -> SUBSET Watcher]
  BY <1>1 DEF End
<1>2. ASSUME NEW p \in Watcher, Acquire(p) PROVE WatchTypeOK'
  BY <1>2 DEF Acquire, Watching
<1>3. ASSUME NEW p \in Watcher, Exists(p) PROVE WatchTypeOK'
  BY <1>3 DEF Exists
<1>4. ASSUME NEW p \in Watcher, Unlink(p) PROVE WatchTypeOK'
  <2>1. early' \in [Watcher -> SUBSET Watcher]
    BY <1>1, <1>4 DEF Unlink
  <2>2. CASE lockFile' = NoFile /\ robbed' = robbed \cup ({lockFile.owner} \cap (Watcher \ early[p])) /\ Goto(p, "create")
    BY <2>1, <2>2
  <2>3. CASE End(p) /\ UNCHANGED <<lockFile, robbed>>
    BY <2>1, <2>3 DEF End
  <2> QED
    BY <1>4, <2>2, <2>3 DEF Unlink
<1>5. ASSUME NEW p \in Watcher, Create(p) PROVE WatchTypeOK'
  <2>1. early' \in [Watcher -> SUBSET Watcher]
    BY <1>1, <1>5 DEF Create
  <2> QED
    <3>1. lockFile' \in {lockFile, [owner |-> p, filled |-> FALSE]} /\ robbed' = robbed
      BY <1>5 DEF Create
    <3>2. pc' \in {[pc EXCEPT ![p] = "down"], [pc EXCEPT ![p] = "fill"]}
      BY <1>5 DEF Create, End
    <3>3. pc' \in [Watcher -> {"down", "exists", "unlink", "create", "fill", "watch", "unlinkOwn"}]
      BY <3>2
    <3>4. lockFile' \in [owner : Watcher \cup {"nobody", "dead"}, filled : BOOLEAN]
      <4>1. CASE lockFile' = lockFile
        BY <4>1
      <4>2. CASE lockFile' = [owner |-> p, filled |-> FALSE]
        BY <4>2
      <4> QED
        BY <3>1, <4>1, <4>2, Zenon
    <3>5. robbed' \subseteq Watcher
      BY <3>1
    <3> QED
      BY <2>1, <3>3, <3>4, <3>5
<1>6. ASSUME NEW p \in Watcher, Fill(p) PROVE WatchTypeOK'
  BY <1>6 DEF Fill
<1>7. ASSUME NEW p \in Watcher, Release(p) PROVE WatchTypeOK'
  <2>1. early' \in [Watcher -> SUBSET Watcher]
    BY <1>1, <1>7 DEF Release
  <2> QED
    BY <1>7, <2>1 DEF Release, End
<1>8. ASSUME NEW p \in Watcher, ReleaseUnlink(p) PROVE WatchTypeOK'
  <2>1. early' \in [Watcher -> SUBSET Watcher]
    BY <1>1, <1>8 DEF ReleaseUnlink
  <2> QED
    BY <1>8, <2>1 DEF ReleaseUnlink, End
<1>9. ASSUME NEW p \in Watcher, Crash(p) PROVE WatchTypeOK'
  <2>1. early' \in [Watcher -> SUBSET Watcher]
    BY <1>1, <1>9 DEF Crash
  <2> QED
    BY <1>9, <2>1 DEF Crash, End
<1>10. CASE UNCHANGED watchVars
  BY <1>10 DEF watchVars
<1> QED
  BY <1>2, <1>3, <1>4, <1>5, <1>6, <1>7, <1>8, <1>9, <1>10 DEF WatchNext

\* Whoever watches and was not robbed owns the file: it keeps a reader out or is the
\* one taken for dead, so that the others a reader has seen at work are robbed.
LEMMA ReadersSeeRobbed ==
  ASSUME WatchInv, NEW p \in Watcher, Acquire(p)
  PROVE  early' = [early EXCEPT ![p] = early'[p]] /\ early'[p] \subseteq robbed
<1>1. \A q \in Watching \ robbed : lockFile.owner = q /\ Held
  BY DEF WatchInv, OwnersOK, Held, Watching, After
<1>2. early \in [Watcher -> SUBSET Watcher]
  BY DEF WatchInv, WatchTypeOK
<1>3. CASE ~Held /\ early' = [early EXCEPT ![p] = Watching]
  BY <1>1, <1>2, <1>3
<1>4. CASE early' = [early EXCEPT ![p] = Watching \ {lockFile.owner}]
  BY <1>1, <1>2, <1>4
<1> QED
  BY <1>3, <1>4 DEF Acquire

\* The removal of a file robs its owner, if it has one.
LEMMA RemovalRobs ==
  ASSUME WatchInv, NEW p \in Watcher,
         robbed' = robbed \cup ({lockFile.owner} \cap (Watcher \ early[p]))
  PROVE  robbed' = robbed \cup ({lockFile.owner} \cap Watcher)
  BY DEF WatchInv, EarlyOK

\* Every step keeps what is known of owners, robbed watchers and early readers.
LEMMA WatchStep ==
  ASSUME WatchAssumption, WatchInv, [WatchNext]_watchVars
  PROVE  WatchInv'
<1>1. WatchTypeOK'
  BY WatchTypeStep DEF WatchInv
<1> USE DEF WatchAssumption, WatchInv, WatchTypeOK, OwnersOK, CreatedOK, EarlyOK, After, NoFile, Present, Goto, End
<1> DEFINE Rest == OwnersOK' /\ CreatedOK' /\ EarlyOK'
<1>2. ASSUME NEW p \in Watcher, Acquire(p) PROVE Rest
  <2>1. early' = [early EXCEPT ![p] = early'[p]] /\ early'[p] \subseteq robbed
    BY <1>2, ReadersSeeRobbed
  <2>2. pc[p] = "down" /\ pc' = [pc EXCEPT ![p] = "exists"] /\ UNCHANGED <<lockFile, robbed>>
    BY <1>2 DEF Acquire
  <2> QED
    BY <2>1, <2>2
<1>3. ASSUME NEW p \in Watcher, Exists(p) PROVE Rest
  BY <1>3 DEF Exists
<1>4. ASSUME NEW p \in Watcher, Unlink(p) PROVE Rest
  <2>1. p \notin robbed /\ lockFile.owner # p
    BY <1>4 DEF Unlink
  <2>2. CASE /\ Present /\ lockFile' = NoFile /\ Goto(p, "create") /\ UNCHANGED early
             /\ robbed' = robbed \cup ({lockFile.owner} \cap (Watcher \ early[p]))
    <3>1. robbed' = robbed \cup ({lockFile.owner} \cap Watcher)
      BY <2>2, RemovalRobs
    <3> QED
      BY <1>4, <2>1, <2>2, <3>1 DEF Unlink
  <2>3. CASE End(p) /\ UNCHANGED <<lockFile, robbed>>
    BY <2>1, <2>3
  <2> QED
    BY <1>4, <2>2, <2>3 DEF Unlink
<1>5. ASSUME NEW p \in Watcher, Create(p) PROVE Rest
  <2>1. p \notin robbed /\ lockFile.owner # p /\ robbed' = robbed
    BY <1>5 DEF Create
  <2>2. CASE Present
    <3>1. OwnersOK'
      BY <1>5, <2>1, <2>2 DEF Create
    <3>2. CreatedOK'
      BY <1>5, <2>1, <2>2 DEF Create
    <3>3. EarlyOK'
      <4>1. early' = [q \in Watcher |-> IF q = p THEN {} ELSE early[q] \ {p}]
        BY <1>5, <2>2 DEF Create
      <4> QED
        BY <2>1, <4>1
    <3> QED
      BY <3>1, <3>2, <3>3
  <2>3. CASE ~Present
    <3>1. OwnersOK'
      <4>1. \A q \in Watcher \ robbed : pc[q] \notin After
        BY <2>3
      <4>2. lockFile' = [owner |-> p, filled |-> FALSE] /\ pc' = [pc EXCEPT ![p] = "fill"]
        BY <1>5, <2>3 DEF Create
      <4> QED
        BY <2>1, <4>1, <4>2
    <3>2. CreatedOK'
      BY <1>5, <2>1, <2>3 DEF Create
    <3>3. EarlyOK'
      BY <1>5, <2>1, <2>3 DEF Create
    <3> QED
      BY <3>1, <3>2, <3>3
  <2> QED
    BY <2>2, <2>3
<1>6. ASSUME NEW p \in Watcher, Fill(p) PROVE Rest
  BY <1>6 DEF Fill
<1>7. ASSUME NEW p \in Watcher, Release(p) PROVE Rest
  <2>1. OwnersOK'
    BY <1>7 DEF Release
  <2>2. CreatedOK'
    BY <1>7 DEF Release
  <2>3. EarlyOK'
    BY <1>7 DEF Release
  <2> QED
    BY <2>1, <2>2, <2>3
<1>8. ASSUME NEW p \in Watcher, ReleaseUnlink(p) PROVE Rest
  <2>1. OwnersOK'
    BY <1>8 DEF ReleaseUnlink
  <2>2. CreatedOK'
    BY <1>8 DEF ReleaseUnlink
  <2>3. EarlyOK'
    BY <1>8 DEF ReleaseUnlink
  <2> QED
    BY <2>1, <2>2, <2>3
<1>9. ASSUME NEW p \in Watcher, Crash(p) PROVE Rest
  BY <1>9 DEF Crash
<1>10. CASE UNCHANGED watchVars
  BY <1>10 DEF watchVars
<1>11. Rest
  BY <1>2, <1>3, <1>4, <1>5, <1>6, <1>7, <1>8, <1>9, <1>10 DEF WatchNext
<1> QED
  BY <1>1, <1>11

\* Every variable keeps its type, for any set of processes.
THEOREM WatchTypes == WatchAssumption => (WatchSpec => []WatchTypeOK)
<1> SUFFICES ASSUME WatchAssumption PROVE WatchSpec => []WatchTypeOK
  OBVIOUS
<1>1. WatchInit => WatchInv
  BY WatchInitOK
<1>2. WatchInv /\ [WatchNext]_watchVars => WatchInv'
  BY WatchStep
<1>3. WatchInv => WatchTypeOK
  BY DEF WatchInv
<1> QED
  BY <1>1, <1>2, <1>3, PTL DEF WatchSpec

\* A watcher owns the lock file, however many processes start, die and release
\* around it, unless it was robbed by one that had read the file before it was at work
\* or whose check took it for dead (labs/research_dashboard_v10_43c.py:689-747).
THEOREM WatcherKeepsFile == WatchAssumption => (WatchSpec => []WatcherOwnsFile)
<1> SUFFICES ASSUME WatchAssumption PROVE WatchSpec => []WatcherOwnsFile
  OBVIOUS
<1>1. WatchInit => WatchInv
  BY WatchInitOK
<1>2. WatchInv /\ [WatchNext]_watchVars => WatchInv'
  BY WatchStep
<1>3. WatchInv => WatcherOwnsFile
  BY DEF WatchInv, WatchTypeOK, OwnersOK, After, WatcherOwnsFile, Watching
<1> QED
  BY <1>1, <1>2, <1>3, PTL DEF WatchSpec
=============================================================================
