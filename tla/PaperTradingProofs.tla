------------------------- MODULE PaperTradingProofs -------------------------
(***************************************************************************)
(* Proofs about PaperTrading, for any symbols, slots and bounds, with a     *)
(* database that may fail at any call, crashes, and commands beside the     *)
(* worker.                                                                  *)
(***************************************************************************)
EXTENDS PaperTrading, FiniteSetTheorems, WellFoundedInduction, TLAPS

-----------------------------------------------------------------------------
\* The rows.

\* There are MaxTrades rows to give.
LEMMA TradesFinite == IsFiniteSet(Trade) /\ Cardinality(Trade) = MaxTrades
  BY PaperAssumption, FS_Interval DEF Trade

\* The query for open rows and the loops over rows take the oldest one.  The
\* order of the rows is the order of their initial segments.
LEMMA OldestIsARow ==
  ASSUME NEW S, S \subseteq Trade, S # {}
  PROVE  First(S) \in S
<1> DEFINE Segments == {1..t : t \in S}
<1>1. IsWellFoundedOn(StrictSubsetOrdering(Trade), SUBSET Trade)
  BY TradesFinite, FS_FiniteSubsetsOfFinite, FS_StrictSubsetOrderingWellFounded, Zenon
<1>2. Segments \subseteq SUBSET Trade /\ Segments # {}
  <2>1. ASSUME NEW t \in Trade PROVE 1..t \subseteq Trade
    BY PaperAssumption DEF Trade
  <2> QED
    BY <2>1
<1>3. PICK I \in Segments : \A J \in Segments : ~(<<J, I>> \in StrictSubsetOrdering(Trade))
  <2> HIDE DEF Segments
  <2> QED
    BY <1>1, <1>2, WFMin, Zenon
<1>4. PICK x \in S : I = 1..x
  BY <1>3
<1>5. \A y \in S : x <= y
  <2> SUFFICES ASSUME NEW y \in S, y < x PROVE FALSE
    BY PaperAssumption DEF Trade
  <2>1. 1..y \subseteq 1..x /\ 1..y # 1..x
    BY PaperAssumption DEF Trade
  <2>2. <<1..y, I>> \in StrictSubsetOrdering(Trade)
    BY <2>1, <1>2, <1>4 DEF StrictSubsetOrdering
  <2> QED
    BY <1>3, <2>2
<1> QED
  BY <1>4, <1>5 DEF First

-----------------------------------------------------------------------------
\* Types, and what the tables say of each other.

\* There is a row left for every selected signal; the trade being opened and
\* the tracked trades have one; monitor looks at tracked symbols only.
ShapeOK ==
    /\ todo # {} => Cardinality(todo) + Cardinality(Recorded) <= MaxTrades
    /\ pc \in {"insert", "mark"} => current \in Recorded
    /\ Tracked \subseteq Recorded /\ batch \subseteq Recorded /\ cmdBatch \subseteq Recorded
    /\ watch # {} => pc = "monitor"
    /\ \A s \in watch : positions[s] # NoTrade

\* Only recorded trades are operated or labelled, and the newest label of a
\* key is a label of an operated trade of that key.
LabelsOK ==
    /\ operated \subseteq Recorded
    /\ \A t \in Trade : outcome[t] # "none" => t \in Recorded
    /\ \A k \in Key : latest[k] # NoTrade =>
          /\ latest[k] \in operated
          /\ outcome[latest[k]] # "none" /\ key[latest[k]] = k

\* A reason names a labelled trade, and never changes without the status.
ReasonsOK ==
    /\ \A t \in Trade : closedBy[t] # NoTrade => outcome[closedBy[t]] # "none"
    /\ ReasonMatchesStatus

\* The invariant that needs no assumption on failures or commands.
PaperInv == TypeOK /\ ShapeOK /\ LabelsOK /\ ReasonsOK

\* What is written on a row when it is closed.
LEMMA StatusNames ==
    \A b \in Barrier :
        StatusFromBarrier(b) \in Status /\ StatusFromBarrier(b) \notin {"none", "PAPER_OPEN"}
  BY DEF Barrier, StatusFromBarrier, Status

\* What the trader and the age rule write.
LEMMA WrittenNames == {"PAPER_OPEN", "STOP_LOSS", "TAKE_PROFIT_2", "TIME_EXIT"} \subseteq Status
  BY DEF Barrier, StatusFromBarrier, Status

\* The rows in use are finitely many.
LEMMA RecordedFinite == IsFiniteSet(Recorded) /\ Cardinality(Recorded) \in Nat
  BY TradesFinite, FS_Subset, FS_CardinalityType DEF Recorded

\* load_open_positions_from_db tracks open rows only.
LEMMA LoadedRows == Loaded \in [Symbol -> OpenRows \cup {NoTrade}] /\ OpenRows \subseteq Recorded
<1>1. ASSUME NEW s \in Symbol, {t \in OpenRows : SymbolOf(t) = s} # {}
      PROVE  First({t \in OpenRows : SymbolOf(t) = s}) \in OpenRows
  BY <1>1, OldestIsARow DEF OpenRows
<1> QED
  BY <1>1 DEF Loaded, OpenRows, Recorded

\* A new row is none of those that exist.
LEMMA FreshRow ==
  ASSUME PaperInv, NEW k \in Key, RecordTrade(k)
  PROVE  First(Trade \ Recorded) \in Trade \ Recorded
<1>1. todo # {} /\ IsFiniteSet(todo)
  BY FS_Subset, PaperAssumption DEF RecordTrade, PaperInv, TypeOK
<1>2. Cardinality(todo) \in Nat /\ Cardinality(todo) # 0
  BY <1>1, FS_EmptySet, FS_CardinalityType
<1>3. Cardinality(Recorded) # MaxTrades
  BY <1>1, <1>2, RecordedFinite, PaperAssumption DEF PaperInv, ShapeOK
<1>4. Trade \ Recorded # {}
  BY <1>3, TradesFinite DEF Recorded
<1> QED
  BY <1>4, OldestIsARow, Zenon

\* The tables stay consistent in every step.
LEMMA PaperInvStep ==
  ASSUME PaperInv, [Next]_vars PROVE PaperInv'
<1>1. /\ anyClosed' = FALSE \/ anyClosed' = TRUE => anyClosed' \in BOOLEAN
      /\ booted' = FALSE \/ booted' = TRUE => booted' \in BOOLEAN
  BY Zenon
<1> USE PaperAssumption, StatusNames, WrittenNames, <1>1
    DEF PaperInv, TypeOK, ShapeOK, LabelsOK, ReasonsOK, ReasonMatchesStatus,
        Goto, AbortCycle, NoPositions, worker, tables, outside
<1>2. PaperInv'
<2>1. ASSUME NEW t \in Trade, NEW b \in LabelBarriers, Label(t, b) PROVE PaperInv'
  <3>1. Recorded' = Recorded
    BY <2>1 DEF Label, Recorded
  <3>2. TypeOK'
    BY <2>1 DEF Label
  <3>3. ShapeOK'
    BY <2>1, <3>1, <3>2 DEF Label, Tracked
  <3>4. LabelsOK'
    BY <2>1, <3>1, <3>2 DEF Label, Barrier
  <3>5. ReasonsOK'
    BY <2>1, <3>2 DEF Label
  <3> QED
    BY <3>2, <3>3, <3>4, <3>5
<2>2. CASE LabelDone
  BY <2>2 DEF LabelDone, Recorded, Tracked
<2>3. CASE Plan
  BY <2>3 DEF Plan, Recorded, Tracked
<2>4. CASE InsertPosition
  BY <2>4 DEF InsertPosition, SymbolOf, Recorded, Tracked
<2>5. CASE MarkOperated
  BY <2>5 DEF MarkOperated, Recorded, Tracked
<2>6. CASE MarkRaises
  BY <2>6 DEF MarkRaises, Recorded, Tracked
<2>7. CASE OpeningRaises
  BY <2>7 DEF OpeningRaises, Recorded, Tracked
<2>8. ASSUME NEW k \in Key, OpenFails(k) PROVE PaperInv'
  <3>1. TypeOK'
    BY <2>8 DEF OpenFails
  <3>2. ShapeOK'
    <4>1. IsFiniteSet(todo)
      BY FS_Subset
    <4>2. Cardinality(todo') <= Cardinality(todo)
      <5>1. todo' = todo \ {k}
        BY <2>8 DEF OpenFails
      <5>2. todo' \in SUBSET todo
        BY <5>1
      <5> QED
        BY <4>1, <5>2, FS_Subset
    <4>3. Recorded' = Recorded
      BY <2>8 DEF OpenFails, Recorded
    <4>4. IsFiniteSet(todo') /\ Cardinality(todo) \in Nat
      BY <2>8, <4>1, FS_RemoveElement, FS_CardinalityType DEF OpenFails
    <4>5. Cardinality(todo') \in Nat
      BY <4>4, FS_CardinalityType
    <4>6. Cardinality(todo') + Cardinality(Recorded') <= MaxTrades
      BY <2>8, <4>2, <4>3, <4>4, <4>5, RecordedFinite DEF OpenFails
    <4> QED
      BY <2>8, <4>3, <4>6 DEF OpenFails, Tracked
  <3>3. LabelsOK' /\ ReasonsOK'
    BY <2>8 DEF OpenFails, Recorded
  <3> QED
    BY <3>1, <3>2, <3>3
<2>9. ASSUME NEW k \in Key, RecordTrade(k) PROVE PaperInv'
  <3> DEFINE t == First(Trade \ Recorded)
  <3>1. t \in Trade /\ t \notin Recorded
    BY <2>9, FreshRow
  <3> HIDE DEF t
  <3>2. /\ status' = [status EXCEPT ![t] = "PAPER_OPEN"]
        /\ key' = [key EXCEPT ![t] = k]
        /\ current' = t /\ todo' = todo \ {k} /\ k \in todo
        /\ pc' = "insert"
        /\ UNCHANGED <<positions, tp1Hit, watch, batch, anyClosed, booted,
                       closedBy, operated, outcome, latest, outside>>
    BY <2>9 DEF RecordTrade, t
  <3>3. TypeOK'
    BY <3>1, <3>2 DEF Status
  <3>4. Recorded' = Recorded \cup {t}
    BY <3>1, <3>2 DEF Recorded
  <3>5. Cardinality(todo') + Cardinality(Recorded') <= MaxTrades
    <4>1. IsFiniteSet(todo)
      BY FS_Subset
    <4>2. Cardinality(todo') = Cardinality(todo) - 1
      BY <3>2, <4>1, FS_RemoveElement
    <4>3. Cardinality(Recorded') = Cardinality(Recorded) + 1
      BY <3>1, <3>4, RecordedFinite, FS_AddElement
    <4> QED
      BY <3>2, <4>1, <4>2, <4>3, RecordedFinite, FS_CardinalityType
  <3>6. ShapeOK'
    BY <2>9, <3>2, <3>4, <3>5 DEF RecordTrade, Tracked
  <3>7. LabelsOK'
    BY <3>1, <3>2, <3>4
  <3>8. ReasonsOK'
    BY <3>1, <3>2 DEF Recorded
  <3> QED
    BY <3>3, <3>6, <3>7, <3>8
<2>10. CASE MonitorStart
  BY <2>10 DEF MonitorStart, Recorded, Tracked
<2>11. CASE MonitorDone
  BY <2>11 DEF MonitorDone, Recorded, Tracked
<2>12. ASSUME NEW s \in Symbol, MonitorNoPrice(s) PROVE PaperInv'
  BY <2>12 DEF MonitorNoPrice, Recorded, Tracked
<2>13. ASSUME NEW s \in Symbol, NEW l \in Level, MonitorStop(s, l) PROVE PaperInv'
  <3>a. positions[s] \in Recorded
    BY <2>13 DEF MonitorStop, Tracked
  <3>1. Recorded' = Recorded
    BY <3>a, <2>13 DEF MonitorStop, Close, Recorded
  <3>2. TypeOK'
    BY <3>a, <2>13 DEF MonitorStop, Close, Recorded
  <3>3. ShapeOK'
    BY <3>a, <2>13, <3>1, <3>2 DEF MonitorStop, Close, Tracked
  <3>4. LabelsOK'
    BY <3>a, <2>13, <3>1, <3>2 DEF MonitorStop, Close
  <3>5. ReasonsOK'
    BY <3>a, <2>13, <3>2 DEF MonitorStop, Close
  <3> QED
    BY <3>2, <3>3, <3>4, <3>5
<2>14. ASSUME NEW s \in Symbol, NEW l \in Level, MonitorHold(s, l) PROVE PaperInv'
  <3>a. positions[s] \in Recorded
    BY <2>14 DEF MonitorHold, Tracked
  <3>1. Recorded' = Recorded
    BY <3>a, <2>14 DEF MonitorHold, Close, Touch, Recorded
  <3>2. TypeOK'
    BY <3>a, <2>14 DEF MonitorHold, Close, Touch, Recorded
  <3>3. ShapeOK'
    BY <3>a, <2>14, <3>1, <3>2 DEF MonitorHold, Close, Touch, Tracked
  <3>4. LabelsOK'
    BY <3>a, <2>14, <3>1, <3>2 DEF MonitorHold, Close, Touch
  <3>5. ReasonsOK'
    BY <3>a, <2>14, <3>2 DEF MonitorHold, Close, Touch
  <3> QED
    BY <3>2, <3>3, <3>4, <3>5
<2>15. ASSUME NEW s \in Symbol, NEW l \in Level, MonitorRaises(s, l) PROVE PaperInv'
  BY <2>15 DEF MonitorRaises, Recorded, Tracked
<2>16. CASE ReconcileNotDue
  BY <2>16 DEF ReconcileNotDue, Recorded, Tracked
<2>17. CASE ReconcileStart
  BY <2>17 DEF ReconcileStart, Recorded, OpenRows, Tracked
<2>18. CASE ReconcileReadFails
  BY <2>18 DEF ReconcileReadFails, Recorded, Tracked
<2>19. CASE Reload
  <3>a. positions' \in [Symbol -> Recorded \cup {NoTrade}]
    BY <2>19, LoadedRows DEF Reload, Tracked
  <3>1. Recorded' = Recorded
    BY <3>a, <2>19 DEF Reload, Recorded
  <3>2. TypeOK'
    BY <3>a, <2>19 DEF Reload, Recorded
  <3>3. ShapeOK'
    BY <3>a, <2>19, <3>1, <3>2 DEF Reload, Tracked
  <3>4. LabelsOK'
    BY <3>a, <2>19, <3>1, <3>2 DEF Reload
  <3>5. ReasonsOK'
    BY <3>a, <2>19, <3>2 DEF Reload
  <3> QED
    BY <3>2, <3>3, <3>4, <3>5
<2>20. CASE ReconcileDone
  BY <2>20 DEF ReconcileDone, Recorded, Tracked
<2>21. CASE LoadAtStart
  <3>a. positions' \in [Symbol -> Recorded \cup {NoTrade}]
    BY <2>21, LoadedRows DEF LoadAtStart, Tracked
  <3>1. Recorded' = Recorded
    BY <3>a, <2>21 DEF LoadAtStart, Recorded
  <3>2. TypeOK'
    BY <3>a, <2>21 DEF LoadAtStart, Recorded
  <3>3. ShapeOK'
    BY <3>a, <2>21, <3>1, <3>2 DEF LoadAtStart, Tracked
  <3>4. LabelsOK'
    BY <3>a, <2>21, <3>1, <3>2 DEF LoadAtStart
  <3>5. ReasonsOK'
    BY <3>a, <2>21, <3>2 DEF LoadAtStart
  <3> QED
    BY <3>2, <3>3, <3>4, <3>5
<2>22. ASSUME NEW t \in Trade, ReconcileClose(t) PROVE PaperInv'
  <3>a. /\ t \in Recorded
        /\ latest[key[t]] # NoTrade => outcome[latest[key[t]]] \in Barrier
    BY <2>22 DEF ReconcileClose, Recorded
  <3>1. Recorded' = Recorded
    BY <3>a, <2>22 DEF ReconcileClose, CloseRow, LabelFor, Recorded
  <3>2. TypeOK'
    BY <3>a, <2>22 DEF ReconcileClose, CloseRow, LabelFor, Recorded
  <3>3. ShapeOK'
    BY <3>a, <2>22, <3>1, <3>2 DEF ReconcileClose, CloseRow, LabelFor, Tracked
  <3>4. LabelsOK'
    BY <3>a, <2>22, <3>1, <3>2 DEF ReconcileClose, CloseRow, LabelFor
  <3>5. ReasonsOK'
    BY <3>a, <2>22, <3>2 DEF ReconcileClose, CloseRow, LabelFor
  <3> QED
    BY <3>2, <3>3, <3>4, <3>5
<2>23. ASSUME NEW t \in Trade, ReconcileLeave(t) PROVE PaperInv'
  BY <2>23 DEF ReconcileLeave, Recorded, Tracked
<2>24. CASE Restart
  BY <2>24 DEF Restart, Recorded, Tracked
<2>25. CASE CommandStart
  BY <2>25 DEF CommandStart, Recorded, OpenRows, Tracked
<2>26. ASSUME NEW t \in Trade, CommandRow(t) PROVE PaperInv'
  <3>a. /\ t \in Recorded
        /\ latest[key[t]] # NoTrade => outcome[latest[key[t]]] \in Barrier
    BY <2>26 DEF CommandRow, Recorded
  <3>1. Recorded' = Recorded
    BY <3>a, <2>26 DEF CommandRow, CloseRow, LabelFor, Recorded
  <3>2. TypeOK'
    BY <3>a, <2>26 DEF CommandRow, CloseRow, LabelFor, Recorded
  <3>3. ShapeOK'
    BY <3>a, <2>26, <3>1, <3>2 DEF CommandRow, CloseRow, LabelFor, Tracked
  <3>4. LabelsOK'
    BY <3>a, <2>26, <3>1, <3>2 DEF CommandRow, CloseRow, LabelFor
  <3>5. ReasonsOK'
    BY <3>a, <2>26, <3>2 DEF CommandRow, CloseRow, LabelFor
  <3> QED
    BY <3>2, <3>3, <3>4, <3>5
<2>27. CASE Crash
  BY <2>27 DEF Crash, Recorded, Tracked
<2>28. ASSUME NEW t \in Trade, GrowOld(t) PROVE PaperInv'
  BY <2>28 DEF GrowOld, Recorded, Tracked
<2>29. CASE UNCHANGED vars
  BY <2>29 DEF vars, Recorded, Tracked
<2> QED
  BY <2>1, <2>2, <2>3, <2>4, <2>5, <2>6, <2>7, <2>8, <2>9, <2>10, <2>11, <2>12, <2>13,
     <2>14, <2>15, <2>16, <2>17, <2>18, <2>19, <2>20, <2>21, <2>22, <2>23, <2>24,
     <2>25, <2>26, <2>27, <2>28, <2>29
     DEF Next, WorkerStep, Labelling, Opening, Monitoring, Reconciling, Command
<1> QED
  BY <1>2

-----------------------------------------------------------------------------
\* No command beside the worker: the rows of a reconciliation in progress are
\* open, and nobody else writes them until it is over.
AloneOK ==
    /\ cmdBatch = {}
    /\ batch \subseteq OpenRows
    /\ batch # {} => pc = "reconcile"

\* With calls that answer and no command: the open rows are the tracked trades,
\* plus the one between record_trade and the dictionary, minus those the
\* reconciler has closed; a process that has not loaded yet tracks nothing.
MemoryOK ==
    /\ \A t, u \in OpenRows : SymbolOf(t) = SymbolOf(u) => t = u
    /\ \A s \in Symbol : positions[s] # NoTrade => SymbolOf(positions[s]) = s
    /\ pc \in {"label", "plan", "open", "insert", "mark", "monitor", "due"} => booted
    /\ pc \in {"down", "boot", "load"} => ~booted
    /\ IF booted
       THEN /\ OpenRows \subseteq Tracked \cup (IF pc = "insert" THEN {current} ELSE {})
            /\ pc # "reconcile" \/ ~anyClosed => Tracked \subseteq OpenRows
            /\ pc = "insert" => /\ current \in OpenRows
                                /\ positions[SymbolOf(current)] = NoTrade
                                /\ Cardinality(Tracked) < MaxPositions
       ELSE positions = NoPositions
    /\ pc # "reconcile" => ~anyClosed
    /\ Cardinality(OpenRows) <= MaxPositions

\* What UntrackedIsFinal says of one step.
FinalRows == \A t \in ClosedRows \ Tracked : status'[t] = status[t] /\ closedBy'[t] = closedBy[t]

\* Every step keeps the rows of a reconciliation open until it treats them, and
\* none writes a closed row that is not tracked.
LEMMA AloneStep ==
  ASSUME MaxCommands = 0, PaperInv, AloneOK, [Next]_vars
  PROVE  AloneOK' /\ FinalRows
<1> USE PaperAssumption, StatusNames, WrittenNames
    DEF PaperInv, TypeOK, ShapeOK, LabelsOK, AloneOK, FinalRows, OpenRows, ClosedRows, Recorded,
        Goto, AbortCycle, worker, tables, outside
<1>1. ASSUME NEW t \in Trade, NEW b \in LabelBarriers, Label(t, b) PROVE AloneOK' /\ FinalRows
  BY <1>1 DEF Label
<1>2. CASE LabelDone
  BY <1>2 DEF LabelDone
<1>3. CASE Plan
  BY <1>3 DEF Plan
<1>4. CASE InsertPosition
  BY <1>4 DEF InsertPosition, SymbolOf
<1>5. CASE MarkOperated
  BY <1>5 DEF MarkOperated
<1>6. CASE MarkRaises
  BY <1>6 DEF MarkRaises
<1>7. CASE OpeningRaises
  BY <1>7 DEF OpeningRaises
<1>8. ASSUME NEW k \in Key, OpenFails(k) PROVE AloneOK' /\ FinalRows
  BY <1>8 DEF OpenFails
<1>9. ASSUME NEW k \in Key, RecordTrade(k) PROVE AloneOK' /\ FinalRows
  BY <1>9, FreshRow DEF RecordTrade
<1>10. CASE MonitorStart
  BY <1>10 DEF MonitorStart
<1>11. CASE MonitorDone
  BY <1>11 DEF MonitorDone
<1>12. ASSUME NEW s \in Symbol, MonitorNoPrice(s) PROVE AloneOK' /\ FinalRows
  BY <1>12 DEF MonitorNoPrice
<1>13. ASSUME NEW s \in Symbol, NEW l \in Level, MonitorStop(s, l) PROVE AloneOK' /\ FinalRows
  BY <1>13 DEF MonitorStop, Close, Tracked
<1>14. ASSUME NEW s \in Symbol, NEW l \in Level, MonitorHold(s, l) PROVE AloneOK' /\ FinalRows
  BY <1>14 DEF MonitorHold, Close, Touch, Tracked
<1>15. ASSUME NEW s \in Symbol, NEW l \in Level, MonitorRaises(s, l) PROVE AloneOK' /\ FinalRows
  BY <1>15 DEF MonitorRaises
<1>16. CASE ReconcileNotDue
  BY <1>16 DEF ReconcileNotDue
<1>17. CASE ReconcileStart
  BY <1>17 DEF ReconcileStart
<1>18. CASE ReconcileReadFails
  BY <1>18 DEF ReconcileReadFails
<1>19. CASE Reload
  BY <1>19 DEF Reload, Loaded
<1>20. CASE ReconcileDone
  BY <1>20 DEF ReconcileDone
<1>21. CASE LoadAtStart
  BY <1>21 DEF LoadAtStart, Loaded
<1>22. ASSUME NEW t \in Trade, ReconcileClose(t) PROVE AloneOK' /\ FinalRows
  BY <1>22 DEF ReconcileClose, CloseRow, LabelFor
<1>23. ASSUME NEW t \in Trade, ReconcileLeave(t) PROVE AloneOK' /\ FinalRows
  BY <1>23 DEF ReconcileLeave
<1>24. CASE Restart
  BY <1>24 DEF Restart
<1>25. CASE CommandStart
  BY <1>25 DEF CommandStart
<1>26. ASSUME NEW t \in Trade, CommandRow(t) PROVE AloneOK' /\ FinalRows
  BY <1>26 DEF CommandRow, CloseRow, LabelFor
<1>27. CASE Crash
  BY <1>27 DEF Crash
<1>28. ASSUME NEW t \in Trade, GrowOld(t) PROVE AloneOK' /\ FinalRows
  BY <1>28 DEF GrowOld
<1>29. CASE UNCHANGED vars
  BY <1>29 DEF vars
<1> QED
  BY <1>1, <1>2, <1>3, <1>4, <1>5, <1>6, <1>7, <1>8, <1>9, <1>10, <1>11, <1>12, <1>13,
     <1>14, <1>15, <1>16, <1>17, <1>18, <1>19, <1>20, <1>21, <1>22, <1>23, <1>24,
     <1>25, <1>26, <1>27, <1>28, <1>29
     DEF Next, WorkerStep, Labelling, Opening, Monitoring, Reconciling, Command

\* A step of the book, or none.
BookStep == [Book!Next]_<<OpenRows, ClosedRows, [t \in Trade |-> SymbolOf(t)]>>

\* TradeBook counts with the same Cardinality.
LEMMA BookCardinality == ASSUME NEW S PROVE Book!Cardinality(S) = Cardinality(S)
  BY Zenon DEF Book!Cardinality, Cardinality

\* A step that writes no status is no step of the book.
LEMMA TablesKept ==
  UNCHANGED <<key, status>> => OpenRows' = OpenRows /\ ClosedRows' = ClosedRows /\ BookStep
  BY DEF OpenRows, ClosedRows, Recorded, SymbolOf, BookStep

\* Open and closed rows are recorded.
LEMMA OpenSubset ==
    OpenRows \subseteq Recorded /\ ClosedRows \subseteq Recorded /\ Recorded \subseteq Trade
  BY DEF OpenRows, ClosedRows, Recorded

\* The row of a trade is closed: one trade of the book is closed.
LEMMA RowCloses ==
  ASSUME PaperInv, Cardinality(OpenRows) <= MaxPositions, NEW t \in OpenRows,
         NEW x, x \notin {"none", "PAPER_OPEN"}, status' = [status EXCEPT ![t] = x], key' = key
  PROVE  /\ OpenRows' = OpenRows \ {t}
         /\ Cardinality(OpenRows') <= MaxPositions
         /\ BookStep
<1> USE DEF PaperInv, TypeOK, OpenRows
<1>1. OpenRows' = OpenRows \ {t}
  OBVIOUS
<1>2. ClosedRows' = ClosedRows \cup {t} /\ t \in Trade
  BY DEF ClosedRows, Recorded
<1>3. Book!Close(t)
  BY <1>1, <1>2 DEF Book!Close, SymbolOf
<1>4. Cardinality(OpenRows') <= MaxPositions
  <2>1. IsFiniteSet(OpenRows) /\ Cardinality(OpenRows) \in Nat
    BY TradesFinite, FS_Subset, FS_CardinalityType
  <2>2. Cardinality(OpenRows') = Cardinality(OpenRows) - 1
    <3> HIDE DEF OpenRows
    <3> QED
      BY <1>1, <2>1, FS_RemoveElement
  <2> QED
    BY <2>1, <2>2, PaperAssumption
<1>5. BookStep
  BY <1>2, <1>3 DEF BookStep, Book!Next
<1> QED
  BY <1>1, <1>4, <1>5

\* Monitor closes a tracked trade: the row and the entry of its symbol go.
LEMMA TrackedCloses ==
  ASSUME PaperInv, MemoryOK, pc = "monitor", NEW s \in Symbol, positions[s] \in OpenRows,
         \E x \in {"STOP_LOSS", "TAKE_PROFIT_2"} : status' = [status EXCEPT ![positions[s]] = x],
         positions' = [positions EXCEPT ![s] = NoTrade],
         UNCHANGED <<pc, anyClosed, booted, current, key>>
  PROVE  MemoryOK' /\ BookStep
<1>1. /\ OpenRows' = OpenRows \ {positions[s]}
      /\ Cardinality(OpenRows') <= MaxPositions /\ BookStep
  BY RowCloses, "STOP_LOSS" \notin {"none", "PAPER_OPEN"},
     "TAKE_PROFIT_2" \notin {"none", "PAPER_OPEN"}
     DEF MemoryOK
<1>2. Tracked' = Tracked \ {positions[s]}
  BY DEF MemoryOK, Tracked, PaperInv, TypeOK
<1> QED
  BY <1>1, <1>2 DEF MemoryOK, SymbolOf, PaperInv, TypeOK

\* What is loaded into an empty dictionary are the open rows.
LEMMA LoadedIsTable ==
  ASSUME PaperInv, \A t, u \in OpenRows : SymbolOf(t) = SymbolOf(u) => t = u
  PROVE  /\ {Loaded[s] : s \in Symbol} \ {NoTrade} = OpenRows
         /\ \A s \in Symbol : Loaded[s] # NoTrade => SymbolOf(Loaded[s]) = s
<1> DEFINE Rows(s) == {t \in OpenRows : SymbolOf(t) = s}
<1>1. \A s \in Symbol : Rows(s) # {} => First(Rows(s)) \in Rows(s)
  <2> SUFFICES ASSUME NEW s \in Symbol, Rows(s) # {} PROVE First(Rows(s)) \in Rows(s)
    OBVIOUS
  <2>1. Rows(s) \subseteq Trade
    BY DEF OpenRows
  <2> HIDE DEF Rows
  <2> QED
    BY <2>1, OldestIsARow, Zenon
<1>2. \A s \in Symbol : Loaded[s] = IF Rows(s) = {} THEN NoTrade ELSE First(Rows(s))
  BY DEF Loaded
<1>3. \A t \in OpenRows : SymbolOf(t) \in Symbol /\ t # NoTrade /\ t \in Rows(SymbolOf(t))
  BY PaperAssumption DEF PaperInv, TypeOK, OpenRows, SymbolOf, Trade, NoTrade
<1>4. \A t \in OpenRows : Loaded[SymbolOf(t)] = t
  BY <1>1, <1>2, <1>3
<1>5. \A s \in Symbol : Loaded[s] # NoTrade => Loaded[s] \in OpenRows /\ SymbolOf(Loaded[s]) = s
  BY <1>1, <1>2
<1> QED
  BY <1>3, <1>4, <1>5

\* Without failing calls and commands, memory and table stay in agreement and every
\* step is one of the book or none.
LEMMA MemoryStep ==
  ASSUME MaxCommands = 0, ~DbFails, PaperInv, AloneOK, MemoryOK, [Next]_vars
  PROVE  MemoryOK' /\ BookStep
<1>1. ASSUME NEW s \in Symbol, NEW l \in Level, MonitorStop(s, l) PROVE MemoryOK' /\ BookStep
  <2>1. positions[s] \in OpenRows
    BY <1>1 DEF MonitorStop, Tracked, MemoryOK, PaperInv, ShapeOK
  <2>2. /\ status' = [status EXCEPT ![positions[s]] = "STOP_LOSS"]
        /\ positions' = [positions EXCEPT ![s] = NoTrade]
        /\ UNCHANGED <<pc, anyClosed, booted, current, key>> /\ pc = "monitor"
    BY <1>1 DEF MonitorStop, Close
  <2> QED
    BY <2>1, <2>2, TrackedCloses
<1>2. ASSUME NEW s \in Symbol, NEW l \in Level, MonitorHold(s, l) PROVE MemoryOK' /\ BookStep
  <2>1. positions[s] \in OpenRows
    BY <1>2 DEF MonitorHold, Tracked, MemoryOK, PaperInv, ShapeOK
  <2>2. UNCHANGED <<pc, anyClosed, booted, current, key>> /\ pc = "monitor"
    BY <1>2 DEF MonitorHold
  <2>3. CASE l = 4
    <3>1. /\ status' = [status EXCEPT ![positions[s]] = "TAKE_PROFIT_2"]
          /\ positions' = [positions EXCEPT ![s] = NoTrade]
      BY <1>2, <2>3 DEF MonitorHold, Close
    <3> QED
      BY <2>1, <2>2, <3>1, TrackedCloses
  <2>4. CASE l # 4
    <3>1. status' = [status EXCEPT ![positions[s]] = "PAPER_OPEN"] /\ positions' = positions
      BY <1>2, <2>4 DEF MonitorHold, Touch
    <3>2. status' = status
      BY <2>1, <3>1 DEF OpenRows, PaperInv, TypeOK
    <3> QED
      BY <2>2, <3>1, <3>2, TablesKept DEF MemoryOK, Tracked, SymbolOf
  <2> QED
    BY <2>3, <2>4
<1>3. ASSUME NEW t \in Trade, ReconcileClose(t) PROVE MemoryOK' /\ BookStep
  <2>1. t \in OpenRows /\ (latest[key[t]] # NoTrade => outcome[latest[key[t]]] \in Barrier)
    BY <1>3 DEF ReconcileClose, AloneOK, PaperInv, TypeOK, LabelsOK
  <2>2. \E x : x \notin {"none", "PAPER_OPEN"} /\ status' = [status EXCEPT ![t] = x]
    BY <1>3, <2>1, StatusNames DEF ReconcileClose, CloseRow, LabelFor
  <2>3. /\ UNCHANGED <<pc, positions, booted, current, key>>
        /\ pc = "reconcile" /\ anyClosed'
    BY <1>3 DEF ReconcileClose
  <2>4. /\ OpenRows' = OpenRows \ {t}
        /\ Cardinality(OpenRows') <= MaxPositions /\ BookStep
    BY <2>1, <2>2, <2>3, RowCloses DEF MemoryOK
  <2> QED
    BY <2>3, <2>4 DEF MemoryOK, Tracked, SymbolOf
<1>4. CASE Reload
  <2>1. positions' = Loaded /\ pc' = "label" /\ booted' /\ ~anyClosed' /\ UNCHANGED <<key, status>>
    BY <1>4 DEF Reload, Goto, tables, MemoryOK
  <2>2. OpenRows' = OpenRows /\ ClosedRows' = ClosedRows /\ BookStep
    BY <2>1, TablesKept
  <2>3. Tracked' = OpenRows /\ \A s \in Symbol : positions'[s] # NoTrade => SymbolOf(positions[s])' = s
    BY <2>1, LoadedIsTable DEF MemoryOK, Tracked, SymbolOf
  <2> QED
    BY <2>1, <2>2, <2>3 DEF MemoryOK, SymbolOf
<1>5. CASE LoadAtStart
  <2>1. positions' = Loaded /\ pc' = "label" /\ booted' /\ ~anyClosed' /\ UNCHANGED <<key, status>>
    BY <1>5 DEF LoadAtStart, Goto, tables, MemoryOK
  <2>2. OpenRows' = OpenRows /\ ClosedRows' = ClosedRows /\ BookStep
    BY <2>1, TablesKept
  <2>3. Tracked' = OpenRows /\ \A s \in Symbol : positions'[s] # NoTrade => SymbolOf(positions[s])' = s
    BY <2>1, LoadedIsTable DEF MemoryOK, Tracked, SymbolOf
  <2> QED
    BY <2>1, <2>2, <2>3 DEF MemoryOK, SymbolOf
<1>6. CASE InsertPosition
  <2>1. /\ positions' = [positions EXCEPT ![SymbolOf(current)] = current]
        /\ pc = "insert" /\ pc' = "mark" /\ UNCHANGED <<anyClosed, booted, current, key, status>>
    BY <1>6 DEF InsertPosition, Goto, tables
  <2>2. /\ current \in OpenRows /\ current # NoTrade /\ SymbolOf(current) \in Symbol
        /\ positions[SymbolOf(current)] = NoTrade /\ booted
        /\ OpenRows \subseteq Tracked \cup {current} /\ Tracked \subseteq OpenRows
    BY <2>1, PaperAssumption DEF MemoryOK, SymbolOf, PaperInv, TypeOK, Trade, NoTrade, OpenRows
  <2>3. Tracked' = Tracked \cup {current}
    BY <2>1, <2>2 DEF Tracked, PaperInv, TypeOK
  <2>4. OpenRows' = OpenRows /\ ClosedRows' = ClosedRows /\ BookStep
    BY <2>1, TablesKept
  <2>5. \A s \in Symbol : positions'[s] # NoTrade => SymbolOf(positions[s])' = s
    BY <2>1, <2>2 DEF MemoryOK, SymbolOf, PaperInv, TypeOK
  <2> QED
    BY <2>1, <2>2, <2>3, <2>4, <2>5 DEF MemoryOK, SymbolOf
<1>7. ASSUME NEW k \in Key, RecordTrade(k) PROVE MemoryOK' /\ BookStep
  <2>0. PICK t \in Trade \ Recorded :
             status' = [status EXCEPT ![t] = "PAPER_OPEN"] /\ key' = [key EXCEPT ![t] = k] /\ current' = t
    BY <1>7, FreshRow DEF RecordTrade, Recorded
  <2>1. t \in Trade /\ t \notin Recorded
    OBVIOUS
  <2>2. /\ status' = [status EXCEPT ![t] = "PAPER_OPEN"] /\ key' = [key EXCEPT ![t] = k]
        /\ current' = t /\ pc = "open" /\ pc' = "insert"
        /\ positions[SymOf[k]] = NoTrade /\ Cardinality(Tracked) < MaxPositions
        /\ UNCHANGED <<positions, anyClosed, booted>>
    BY <1>7, <2>0 DEF RecordTrade, Goto
  <2>3. Tracked = OpenRows /\ Tracked' = Tracked /\ booted /\ ~anyClosed
    BY <2>2 DEF Tracked, MemoryOK
  <2>4. OpenRows' = OpenRows \cup {t} /\ ClosedRows' = ClosedRows /\ t \notin OpenRows \cup ClosedRows
    BY <2>1, <2>2 DEF PaperInv, TypeOK, OpenRows, ClosedRows, Recorded
  <2>5. Cardinality(OpenRows') <= MaxPositions /\ Cardinality(OpenRows) < MaxPositions
    <3>1. IsFiniteSet(OpenRows) /\ Cardinality(OpenRows) \in Nat
      BY TradesFinite, FS_Subset, FS_CardinalityType DEF OpenRows
    <3>2. Cardinality(OpenRows') = Cardinality(OpenRows) + 1
      BY <2>4, <3>1, FS_AddElement
    <3> QED
      BY <2>2, <2>3, <3>1, <3>2, PaperAssumption
  <2>6. /\ SymbolOf(t)' = SymOf[k]
        /\ \A u \in Recorded : SymbolOf(u)' = SymbolOf(u)
        /\ \A u \in OpenRows : SymbolOf(u) # SymOf[k]
    <3>1. \A u \in OpenRows : positions[SymbolOf(u)] = u /\ u # NoTrade
      BY <2>3 DEF Tracked, MemoryOK
    <3> QED
      BY <2>1, <2>2, <3>1 DEF SymbolOf, PaperInv, TypeOK, Recorded
  <2>7. Book!Open(t)
    <3> DEFINE sym == [u \in Trade |-> SymbolOf(u)]
    <3>1. /\ sym'[t] = SymOf[k]
          /\ \A u \in OpenRows : sym[u] # SymOf[k]
          /\ \A u \in OpenRows \cup ClosedRows : sym'[u] = sym[u]
      BY <2>1, <2>6, OpenSubset DEF SymbolOf
    <3>2. t \notin OpenRows \cup ClosedRows /\ Cardinality(OpenRows) < MaxPositions
      BY <2>4, <2>5
    <3>3. OpenRows' = OpenRows \cup {t} /\ ClosedRows' = ClosedRows
      BY <2>4
    <3>4. \A u \in OpenRows : sym[u] # sym'[t]
      BY <3>1
    <3>5. \A u \in OpenRows \cup ClosedRows : sym'[u] = sym[u]
      BY <3>1
    <3>6. UNCHANGED ClosedRows
      BY <3>3
    <3> QED
      BY <3>2, <3>3, <3>4, <3>5, <3>6, BookCardinality, Zenon DEF Book!Open
  <2>8. BookStep
    BY <2>1, <2>7 DEF Book!Next, BookStep
  <2>9. \A s \in Symbol : positions[s] # NoTrade => SymbolOf(positions[s])' = s
    BY <2>2, <2>3, <2>6, OpenSubset DEF Tracked, MemoryOK, SymbolOf
  <2> QED
    BY <2>1, <2>2, <2>3, <2>4, <2>5, <2>6, <2>8, <2>9, OpenSubset DEF MemoryOK, SymbolOf
<1> USE PaperAssumption
    DEF PaperInv, TypeOK, ShapeOK, AloneOK, MemoryOK, OpenRows, ClosedRows, Recorded,
        BookStep, Goto, AbortCycle, NoPositions, worker, tables, outside
<1>8. ASSUME NEW t \in Trade, NEW b \in LabelBarriers, Label(t, b) PROVE MemoryOK' /\ BookStep
  BY <1>8 DEF Label, Tracked, SymbolOf
<1>9. CASE LabelDone
  BY <1>9 DEF LabelDone, Tracked, SymbolOf
<1>10. CASE Plan
  BY <1>10 DEF Plan, Tracked, SymbolOf
<1>11. CASE MarkOperated
  BY <1>11 DEF MarkOperated, Tracked, SymbolOf
<1>12. CASE MarkRaises
  BY <1>12 DEF MarkRaises, Tracked, SymbolOf
<1>13. CASE OpeningRaises
  BY <1>13 DEF OpeningRaises, Tracked, SymbolOf
<1>14. ASSUME NEW k \in Key, OpenFails(k) PROVE MemoryOK' /\ BookStep
  BY <1>14 DEF OpenFails, Tracked, SymbolOf
<1>15. CASE MonitorStart
  BY <1>15 DEF MonitorStart, Tracked, SymbolOf
<1>16. CASE MonitorDone
  BY <1>16 DEF MonitorDone, Tracked, SymbolOf
<1>17. ASSUME NEW s \in Symbol, MonitorNoPrice(s) PROVE MemoryOK' /\ BookStep
  BY <1>17 DEF MonitorNoPrice, Tracked, SymbolOf
<1>18. ASSUME NEW s \in Symbol, NEW l \in Level, MonitorRaises(s, l) PROVE MemoryOK' /\ BookStep
  BY <1>18 DEF MonitorRaises, Tracked, SymbolOf
<1>19. CASE ReconcileNotDue
  BY <1>19 DEF ReconcileNotDue, Tracked, SymbolOf
<1>20. CASE ReconcileStart
  BY <1>20 DEF ReconcileStart, Tracked, SymbolOf
<1>21. CASE ReconcileReadFails
  BY <1>21 DEF ReconcileReadFails, Tracked, SymbolOf
<1>22. CASE ReconcileDone
  BY <1>22 DEF ReconcileDone, Tracked, SymbolOf
<1>23. ASSUME NEW t \in Trade, ReconcileLeave(t) PROVE MemoryOK' /\ BookStep
  BY <1>23 DEF ReconcileLeave, Tracked, SymbolOf
<1>24. CASE Restart
  BY <1>24 DEF Restart, Tracked, SymbolOf
<1>25. CASE CommandStart
  BY <1>25 DEF CommandStart, Tracked, SymbolOf
<1>26. ASSUME NEW t \in Trade, CommandRow(t) PROVE MemoryOK' /\ BookStep
  BY <1>26 DEF CommandRow, CloseRow, LabelFor, Tracked, SymbolOf
<1>27. CASE Crash
  BY <1>27 DEF Crash, Tracked, SymbolOf
<1>28. ASSUME NEW t \in Trade, GrowOld(t) PROVE MemoryOK' /\ BookStep
  BY <1>28 DEF GrowOld, Tracked, SymbolOf
<1>29. CASE UNCHANGED vars
  BY <1>29 DEF vars, Tracked, SymbolOf
<1> QED
  BY <1>1, <1>2, <1>3, <1>4, <1>5, <1>6, <1>7, <1>8, <1>9, <1>10, <1>11, <1>12, <1>13,
     <1>14, <1>15, <1>16, <1>17, <1>18, <1>19, <1>20, <1>21, <1>22, <1>23, <1>24,
     <1>25, <1>26, <1>27, <1>28, <1>29
     DEF Next, WorkerStep, Labelling, Opening, Monitoring, Reconciling, Command

-----------------------------------------------------------------------------
\* The invariants hold at the start.
LEMMA InitOK == Init => PaperInv /\ AloneOK /\ MemoryOK /\ Book!Init
<1> SUFFICES ASSUME Init PROVE PaperInv /\ AloneOK /\ MemoryOK /\ Book!Init
  OBVIOUS
<1>1. (CHOOSE k \in Key : TRUE) \in Key
  BY PaperAssumption
<1>2. anyClosed \in BOOLEAN /\ booted \in BOOLEAN
  BY Zenon DEF Init
<1>3. Recorded = {} /\ OpenRows = {} /\ ClosedRows = {} /\ Tracked = {}
  BY DEF Init, Recorded, OpenRows, ClosedRows, Tracked, NoPositions
<1>4. PaperInv
  BY <1>1, <1>2, <1>3, PaperAssumption
     DEF Init, PaperInv, TypeOK, ShapeOK, LabelsOK, ReasonsOK, ReasonMatchesStatus, NoPositions, Status
<1>5. AloneOK /\ MemoryOK
  BY <1>3, FS_EmptySet, PaperAssumption DEF Init, AloneOK, MemoryOK, NoPositions
<1> QED
  BY <1>3, <1>4, <1>5 DEF Book!Init

\* The memory of the trader and the tables stay well typed.
THEOREM TypeInv == Spec => []TypeOK
<1>1. PaperInv /\ [Next]_vars => PaperInv'
  BY PaperInvStep
<1>2. PaperInv => TypeOK
  BY DEF PaperInv
<1> QED
  BY <1>1, <1>2, InitOK, PTL DEF Spec

\* Whoever closed a row (monitor, the reconciler of the worker, a command beside
\* it) wrote status and reason together: the label a row names has the barrier
\* of its status, and is of the same symbol, side and entry (_close_by_label).
THEOREM ReasonsAreTrue == Spec => []ReasonMatchesStatus
<1>1. PaperInv /\ [Next]_vars => PaperInv'
  BY PaperInvStep
<1>2. PaperInv => ReasonMatchesStatus
  BY DEF PaperInv, ReasonsOK
<1> QED
  BY <1>1, <1>2, InitOK, PTL DEF Spec

\* Without a command beside the worker, whatever calls raise and however often it
\* crashes, a closed row that the trader does not track is never written again.
THEOREM UntrackedRowsFinal == MaxCommands = 0 => (Spec => UntrackedIsFinal)
<1> SUFFICES ASSUME MaxCommands = 0 PROVE Spec => UntrackedIsFinal
  OBVIOUS
<1>1. PaperInv /\ [Next]_vars => PaperInv'
  BY PaperInvStep
<1>2. PaperInv /\ AloneOK /\ [Next]_vars => AloneOK' /\ FinalRows
  BY AloneStep
<1>3. PaperInv /\ AloneOK /\ [Next]_vars =>
      [\A t \in ClosedRows \ Tracked : status'[t] = status[t] /\ closedBy'[t] = closedBy[t]]_vars
  BY <1>2 DEF FinalRows
<1> QED
  BY <1>1, <1>2, <1>3, InitOK, PTL DEF Spec, UntrackedIsFinal

\* With calls that answer and no command, the dictionary of PaperTrader holds exactly
\* the PAPER_OPEN rows whenever a cycle begins: opening, monitor, reconciliation, its
\* reload, crash and restart leave neither a row nor an entry behind.
THEOREM MemoryAgrees == MaxCommands = 0 /\ ~DbFails => (Spec => []MemoryIsTable)
<1> SUFFICES ASSUME MaxCommands = 0, ~DbFails PROVE Spec => []MemoryIsTable
  OBVIOUS
<1>1. PaperInv /\ [Next]_vars => PaperInv'
  BY PaperInvStep
<1>2. PaperInv /\ AloneOK /\ [Next]_vars => AloneOK'
  BY AloneStep
<1>3. PaperInv /\ AloneOK /\ MemoryOK /\ [Next]_vars => MemoryOK'
  BY MemoryStep
<1>4. MemoryOK => MemoryIsTable
  BY DEF MemoryOK, MemoryIsTable
<1> QED
  BY <1>1, <1>2, <1>3, <1>4, InitOK, PTL DEF Spec

\* Under the same conditions the tables behave like TradeBook: each trade is opened
\* once, in a free slot of a free symbol, and closed once.
THEOREM ImplementsBook == MaxCommands = 0 /\ ~DbFails => (Spec => BookSpec)
<1> SUFFICES ASSUME MaxCommands = 0, ~DbFails PROVE Spec => BookSpec
  OBVIOUS
<1>1. PaperInv /\ [Next]_vars => PaperInv'
  BY PaperInvStep
<1>2. PaperInv /\ AloneOK /\ [Next]_vars => AloneOK'
  BY AloneStep
<1>3. PaperInv /\ AloneOK /\ MemoryOK /\ [Next]_vars => MemoryOK' /\ [Book!Next]_(Book!book)
  BY MemoryStep DEF BookStep, Book!book
<1> QED
  BY <1>1, <1>2, <1>3, InitOK, PTL DEF Spec, BookSpec, Book!Spec

=============================================================================
