------------------------ MODULE LiveExecutionProofs ------------------------
(***************************************************************************)
(* Proofs about LiveExecution, for any symbols, any number of orders and   *)
(* crashes, and any slot limit.                                            *)
(***************************************************************************)
EXTENDS LiveExecution, FiniteSetTheorems, TLAPS

\* A sync in progress is one of the syncs still to be made, and the steps of
\* execute are those that have an order in progress.
ControlOK ==
    /\ pc \in {"sync", "closing"} => syncs \in 1..3
    /\ IF pc \in Call THEN op \in Oid ELSE op = NoOid

\* Every state of the order path is well typed.
LEMMA TypeInv == Spec => [](TypeOK /\ ControlOK)
<1>0. stopOk = FALSE => stopOk \in BOOLEAN
  BY Zenon
<1>1. Init => TypeOK /\ ControlOK
  BY LiveAssumption, <1>0 DEF Init, TypeOK, ControlOK, PC, Call, IntentStatus, TradeStatus
<1>2. TypeOK /\ ControlOK /\ [Next]_vars => TypeOK' /\ ControlOK'
  <2> SUFFICES ASSUME TypeOK, ControlOK, [Next]_vars PROVE TypeOK' /\ ControlOK'
    OBVIOUS
  <2>0. stopOk' = FALSE => stopOk' \in BOOLEAN
    BY Zenon
  <2> USE LiveAssumption, <2>0
      DEF TypeOK, ControlOK, PC, Call, IntentStatus, TradeStatus,
          Goto, Return, AbortCycle, Step, ApiError, OtherError, CallLocals, CycleLocals, bot, database, exchange
  <2>1. CASE Prepare
    BY <2>1 DEF Prepare
  <2>2. CASE RecordIntent
    BY <2>2 DEF RecordIntent
  <2>3. CASE PlaceOrder
    BY <2>3 DEF PlaceOrder, Accept, Fill, Reply
  <2>4. CASE MarkSent
    BY <2>4 DEF MarkSent, SetIntent
  <2>5. CASE PlaceStop
    BY <2>5 DEF PlaceStop
  <2>6. CASE PlaceTakeProfits
    BY <2>6 DEF PlaceTakeProfits
  <2>7. CASE PanicClose
    BY <2>7 DEF PanicClose, EmergencyClose, Leave, Emptied, Units
  <2>8. CASE MarkUnknown
    BY <2>8 DEF MarkUnknown, UpdateIntent, SetIntent
  <2>9. CASE RecordCritical
    BY <2>9 DEF RecordCritical, RecordAndReturn, AddTrade
  <2>10. CASE RecordPanicClosed
    BY <2>10 DEF RecordPanicClosed, RecordAndReturn, AddTrade
  <2>11. CASE TpClose
    BY <2>11 DEF TpClose, EmergencyClose, Leave, Emptied, Units
  <2>12. CASE RecordTpClosed
    BY <2>12 DEF RecordTpClosed, RecordAndReturn, AddTrade
  <2>13. CASE RecordOpen
    BY <2>13 DEF RecordOpen, AddTrade
  <2>14. CASE Confirm
    BY <2>14 DEF Confirm, SetIntent
  <2>15. CASE MarkFailed
    BY <2>15 DEF MarkFailed, SetIntent
  <2>16. CASE RecordError
    BY <2>16 DEF RecordError, AddTrade
  <2>17. CASE Sync
    BY <2>17 DEF Sync
  <2>18. CASE CycleFails
    BY <2>18 DEF CycleFails
  <2>19. CASE SyncDone
    BY <2>19 DEF SyncDone
  <2>20. ASSUME NEW s \in Symbol, CloseUnprotected(s) PROVE TypeOK' /\ ControlOK'
    BY <2>20 DEF CloseUnprotected, Leave, Emptied, Units
  <2>21. CASE Plan
    BY <2>21 DEF Plan
  <2>22. CASE EndSelection
    BY <2>22 DEF EndSelection
  <2>23. ASSUME NEW s \in Symbol, Refuse(s) PROVE TypeOK' /\ ControlOK'
    BY <2>23 DEF Refuse
  <2>24. ASSUME NEW s \in Symbol, NEW o \in Oid, Begin(s, o) PROVE TypeOK' /\ ControlOK'
    BY <2>24 DEF Begin, Fresh
  <2>25. ASSUME NEW o \in Oid, FillLimit(o) PROVE TypeOK' /\ ControlOK'
    BY <2>25 DEF FillLimit, Fill
  <2>26. ASSUME NEW o \in Oid, Trigger(o) PROVE TypeOK' /\ ControlOK'
    BY <2>26 DEF Trigger, Leave, Emptied, Units
  <2>27. ASSUME NEW o \in Oid, Reconcile(o) PROVE TypeOK' /\ ControlOK'
    BY <2>27 DEF Reconcile, Unresolved, Pending
  <2>28. CASE Crash
    BY <2>28 DEF Crash
  <2>29. CASE Start
    BY <2>29 DEF Start
  <2>30. CASE UNCHANGED vars
    BY <2>30 DEF vars
  <2> QED
    BY <2>1, <2>2, <2>3, <2>4, <2>5, <2>6, <2>7, <2>8, <2>9, <2>10, <2>11,
       <2>12, <2>13, <2>14, <2>15, <2>16, <2>17, <2>18, <2>19, <2>20, <2>21,
       <2>22, <2>23, <2>24, <2>25, <2>26, <2>27, <2>28, <2>29, <2>30
    DEF Next, Execute, Cycle, Environment
<1> QED
  BY <1>1, <1>2, PTL DEF Spec

-----------------------------------------------------------------------------
\* The steps of execute between the record of the intent and its outcome.
Underway == Call \ {"prepare", "record", "failed", "errorRow"}

\* The inductive strengthening of WriteAhead: while execute runs, no intent but
\* its own is unresolved; its own is written before the order is sent and
\* stays unresolved until the outcome is recorded.
LatchInv ==
    /\ pc \in Call => Unresolved \subseteq {op}
    /\ pc \in {"prepare", "record"} => intents[op] = "none"
    /\ pc \in Underway => intents[op] \in Pending
    /\ WriteAhead

\* No order is announced and none sent in the initial state.
LEMMA LatchInvInit == Init => LatchInv /\ Latch!Init
  BY DEF Init, LatchInv, WriteAhead, Call, Underway, Unresolved, Pending, Latch!Init

\* The strengthened invariant survives every step, and every step is one of
\* the abstract latch or leaves it alone.
LEMMA LatchInvStep ==
    ASSUME TypeOK, ControlOK, LatchInv, [Next]_vars
    PROVE  LatchInv' /\ [Latch!Next]_<<Unresolved, accepted>>
<1> USE LiveAssumption
    DEF TypeOK, ControlOK, LatchInv, WriteAhead, PC, Call, Underway,
        Unresolved, Pending, IntentStatus, Latch!Next, Latch!Announce, Latch!Send, Latch!Settle,
        Goto, Return, AbortCycle, Step, ApiError, OtherError, CallLocals, CycleLocals, bot, database, exchange
<1>1. CASE Prepare
  BY <1>1 DEF Prepare
<1>2. CASE RecordIntent
  BY <1>2 DEF RecordIntent
<1>3. CASE PlaceOrder
  BY <1>3 DEF PlaceOrder, Accept, Fill, Reply
<1>4. CASE MarkSent
  BY <1>4 DEF MarkSent, SetIntent
<1>5. CASE PlaceStop
  BY <1>5 DEF PlaceStop
<1>6. CASE PlaceTakeProfits
  BY <1>6 DEF PlaceTakeProfits
<1>7. CASE PanicClose
  BY <1>7 DEF PanicClose, EmergencyClose, Leave, Emptied, Units
<1>8. CASE MarkUnknown
  BY <1>8 DEF MarkUnknown, UpdateIntent, SetIntent
<1>9. CASE RecordCritical
  BY <1>9 DEF RecordCritical, RecordAndReturn, AddTrade
<1>10. CASE RecordPanicClosed
  BY <1>10 DEF RecordPanicClosed, RecordAndReturn, AddTrade
<1>11. CASE TpClose
  BY <1>11 DEF TpClose, EmergencyClose, Leave, Emptied, Units
<1>12. CASE RecordTpClosed
  BY <1>12 DEF RecordTpClosed, RecordAndReturn, AddTrade
<1>13. CASE RecordOpen
  BY <1>13 DEF RecordOpen, AddTrade
<1>14. CASE Confirm
  BY <1>14 DEF Confirm, SetIntent
<1>15. CASE MarkFailed
  BY <1>15 DEF MarkFailed, SetIntent
<1>16. CASE RecordError
  BY <1>16 DEF RecordError, AddTrade
<1>17. CASE Sync
  BY <1>17 DEF Sync
<1>18. CASE CycleFails
  BY <1>18 DEF CycleFails
<1>19. CASE SyncDone
  BY <1>19 DEF SyncDone
<1>20. ASSUME NEW s \in Symbol, CloseUnprotected(s)
      PROVE LatchInv' /\ [Latch!Next]_<<Unresolved, accepted>>
  BY <1>20 DEF CloseUnprotected, Leave, Emptied, Units
<1>21. CASE Plan
  BY <1>21 DEF Plan
<1>22. CASE EndSelection
  BY <1>22 DEF EndSelection
<1>23. ASSUME NEW s \in Symbol, Refuse(s)
      PROVE LatchInv' /\ [Latch!Next]_<<Unresolved, accepted>>
  BY <1>23 DEF Refuse
<1>24. ASSUME NEW s \in Symbol, NEW o \in Oid, Begin(s, o)
      PROVE LatchInv' /\ [Latch!Next]_<<Unresolved, accepted>>
  BY <1>24 DEF Begin, Fresh
<1>25. ASSUME NEW o \in Oid, FillLimit(o)
      PROVE LatchInv' /\ [Latch!Next]_<<Unresolved, accepted>>
  BY <1>25 DEF FillLimit, Fill
<1>26. ASSUME NEW o \in Oid, Trigger(o)
      PROVE LatchInv' /\ [Latch!Next]_<<Unresolved, accepted>>
  BY <1>26 DEF Trigger, Leave, Emptied, Units
<1>27. ASSUME NEW o \in Oid, Reconcile(o)
      PROVE LatchInv' /\ [Latch!Next]_<<Unresolved, accepted>>
  BY <1>27 DEF Reconcile, Unresolved, Pending
<1>28. CASE Crash
  BY <1>28 DEF Crash
<1>29. CASE Start
  BY <1>29 DEF Start
<1>30. CASE UNCHANGED vars
  BY <1>30 DEF vars
<1> QED
  BY <1>1, <1>2, <1>3, <1>4, <1>5, <1>6, <1>7, <1>8, <1>9, <1>10, <1>11, <1>12,
     <1>13, <1>14, <1>15, <1>16, <1>17, <1>18, <1>19, <1>20, <1>21, <1>22,
     <1>23, <1>24, <1>25, <1>26, <1>27, <1>28, <1>29, <1>30
  DEF Next, Execute, Cycle, Environment

\* Write-ahead in every reachable state: no order is on the exchange without a
\* row of execution_intents, whatever crashes (execute writes the row first).
THEOREM WriteAheadAlways == Spec => []WriteAhead
<1>1. TypeOK /\ ControlOK /\ LatchInv /\ [Next]_vars => LatchInv'
  BY LatchInvStep
<1>2. LatchInv => WriteAhead
  BY DEF LatchInv
<1> QED
  BY TypeInv, LatchInvInit, <1>1, <1>2, PTL DEF Spec

\* No order leaves while another one is unresolved: the check of the pending
\* intents at the top of execute is enough, across cycles and restarts.
THEOREM OneOrderAtATime == Spec => NoOrderWhileUnresolved
<1>1. ASSUME TypeOK, ControlOK, LatchInv, [Next]_vars
      PROVE  [accepted' # accepted => Unresolved \subseteq accepted' \ accepted]_vars
  <2> SUFFICES ASSUME accepted' # accepted
               PROVE  Unresolved \subseteq accepted' \ accepted
    OBVIOUS
  <2>1. PlaceOrder
    BY <1>1 DEF Next, Execute, Cycle, Environment, vars, bot, database, exchange,
       Prepare, RecordIntent, MarkSent, PlaceStop, PlaceTakeProfits, PanicClose, TpClose,
       EmergencyClose, Leave, MarkUnknown, UpdateIntent, RecordCritical, RecordPanicClosed,
       RecordTpClosed, RecordAndReturn, RecordOpen, Confirm, MarkFailed, RecordError,
       Sync, CycleFails, SyncDone, CloseUnprotected, Plan, EndSelection, Refuse, Begin,
       FillLimit, Trigger, Reconcile, Crash, Start
  <2>2. pc \in Call /\ op \notin accepted /\ accepted' = accepted \cup {op}
    BY <2>1 DEF PlaceOrder, Accept, Call, exchange
  <2> QED
    BY <2>2, <1>1 DEF LatchInv
<1>2. TypeOK /\ ControlOK /\ LatchInv /\ [Next]_vars
        => LatchInv' /\ [accepted' # accepted => Unresolved \subseteq accepted' \ accepted]_vars
  BY <1>1, LatchInvStep
<1> QED
  BY TypeInv, LatchInvInit, <1>2, PTL DEF Spec, NoOrderWhileUnresolved

\* The order path implements the latch: one order announced at a time, sent
\* only while it is announced, and never announced or sent a second time.
THEOREM ImplementsLatch == Spec => LatchSpec
<1>1. TypeOK /\ ControlOK /\ LatchInv /\ [Next]_vars
        => LatchInv' /\ [Latch!Next]_<<Unresolved, accepted>>
  BY LatchInvStep
<1> QED
  BY TypeInv, LatchInvInit, <1>1, PTL DEF Spec, LatchSpec, Latch!Spec

-----------------------------------------------------------------------------
\* The steps of execute after the exchange has answered the opening order.
Opened == Underway \ {"place"}

\* An order needs no further care: its units have a stop, or it has left the
\* exchange, or an order of its symbol was written off.
Covered(o) == o \in filled \cap stops \/ ~Live(o) \/ WrittenOff(SymbolOf[o])

\* Orders rest or are filled only after they were accepted, and not both.
ExchangeOK ==
    /\ resting \cap filled = {} /\ resting \cup filled \subseteq accepted
    /\ pc \in Opened => op \in accepted

\* What rows say of the orders they belong to, and what execute knows when it
\* is about to write them.
RowsOK ==
    /\ (pc = "tp" /\ stopOk) \/ pc \in {"openRow", "confirm"} => Covered(op)
    /\ pc = "panicRow" => ~Live(op) \/ WrittenOff(SymbolOf[op])
    /\ \A o \in Oid :
          /\ intents[o] = "CONFIRMED" => o \in accepted /\ Covered(o)
          /\ intents[o] = "RECONCILED" => ~Live(o)
          /\ "LIVE_OPEN" \in trades[o] => o \in accepted /\ Covered(o)
          /\ "LIVE_PROTECTION_FAILED_CLOSED" \in trades[o]
                => o \in accepted /\ (~Live(o) \/ WrittenOff(SymbolOf[o]))

\* What the cycle has seen: the symbol of a live, confirmed order is known to
\* the selection, is not selected, and is not the one execute is opening.
SeenOK ==
    /\ pc \in Call => SymbolOf[op] \notin todo
    /\ \A o \in Oid :
          intents[o] = "CONFIRMED" /\ Live(o) /\ ~WrittenOff(SymbolOf[o]) =>
            /\ pc \in {"closing", "plan"} => SymbolOf[o] \in known
            /\ SymbolOf[o] \notin todo
            /\ pc \in {"prepare", "record", "place"} => SymbolOf[o] # SymbolOf[op]

\* The inductive strengthening of DuplicateOnlyAfterFailed, NakedIsAccounted,
\* OpenRowIsProtected and PanicRowIsFlat, which hold only together: a second
\* order is kept off by the sync, the sync sees a confirmed order because it
\* is filled, it is filled because its stop was taken, and the stop is its own
\* because no second order holds the position.
StopInv == ExchangeOK /\ RowsOK /\ SeenOK /\ DuplicateOnlyAfterFailed

\* What no step undoes: an order stays accepted, nothing but a fill makes a
\* known order live, a unit keeps its stop while it is held, FAILED is final.
Persist ==
    /\ accepted \subseteq accepted'
    /\ resting' \cap accepted \subseteq resting
    /\ filled' \cap accepted \subseteq filled \cup resting
    /\ filled \cap stops \cap filled' \subseteq stops'
    /\ \A o \in Oid : intents[o] = "FAILED" => intents'[o] = "FAILED"

\* Nothing is on the exchange in the initial state.
LEMMA StopInvInit == Init => StopInv
  BY DEF Init, StopInv, ExchangeOK, RowsOK, SeenOK, DuplicateOnlyAfterFailed, Covered, Live,
     Opened, Underway, Call

\* Plans that vanish with a position are those of units that left with it.
LEMMA LeaveKeeps ==
    ASSUME TypeOK, NEW U \in SUBSET filled, Leave(U)
    PROVE  /\ UNCHANGED <<accepted, resting>>
           /\ filled' \subseteq filled
           /\ filled \cap stops \cap filled' \subseteq stops'
<1>1. \A o \in filled' : o \notin U /\ o \notin Emptied(U)
  BY DEF Leave, Emptied, Units, TypeOK
<1> QED
  BY <1>1 DEF Leave

\* Every step persists, and leaves resting and filled orders accepted.
LEMMA Persistence ==
    ASSUME TypeOK, ControlOK, LatchInv, ExchangeOK, [Next]_vars
    PROVE  Persist /\ ExchangeOK'
<1> USE LiveAssumption
    DEF TypeOK, ControlOK, LatchInv, ExchangeOK, Persist, PC, Call, Underway, Opened,
        Unresolved, Pending, IntentStatus,
        Goto, Return, AbortCycle, Step, ApiError, OtherError, CallLocals, CycleLocals, bot, database, exchange
<1>1. CASE Prepare
  BY <1>1 DEF Prepare
<1>2. CASE RecordIntent
  BY <1>2 DEF RecordIntent
<1>3. CASE PlaceOrder
  BY <1>3 DEF PlaceOrder, Accept, Fill, Reply
<1>4. CASE MarkSent
  BY <1>4 DEF MarkSent, SetIntent
<1>5. CASE PlaceStop
  BY <1>5 DEF PlaceStop
<1>6. CASE PlaceTakeProfits
  BY <1>6 DEF PlaceTakeProfits
<1>7. CASE PanicClose
  <2>1. UNCHANGED <<accepted, resting>> /\ filled' \subseteq filled
        /\ filled \cap stops \cap filled' \subseteq stops'
    <3>1. CASE UNCHANGED exchange
      BY <3>1
    <3>2. CASE \E u \in filled : Leave({u})
      BY <3>2, LeaveKeeps
    <3> QED
      BY <3>1, <3>2, <1>7 DEF PanicClose, EmergencyClose, Units
  <2>2. UNCHANGED <<intents, op>> /\ op \in accepted
    BY <1>7 DEF PanicClose, EmergencyClose
  <2> QED
    BY <2>1, <2>2
<1>8. CASE MarkUnknown
  BY <1>8 DEF MarkUnknown, UpdateIntent, SetIntent
<1>9. CASE RecordCritical
  BY <1>9 DEF RecordCritical, RecordAndReturn
<1>10. CASE RecordPanicClosed
  BY <1>10 DEF RecordPanicClosed, RecordAndReturn
<1>11. CASE TpClose
  <2>1. UNCHANGED <<accepted, resting>> /\ filled' \subseteq filled
        /\ filled \cap stops \cap filled' \subseteq stops'
    <3>1. CASE UNCHANGED exchange
      BY <3>1
    <3>2. CASE \E u \in filled : Leave({u})
      BY <3>2, LeaveKeeps
    <3> QED
      BY <3>1, <3>2, <1>11 DEF TpClose, EmergencyClose, Units
  <2>2. UNCHANGED <<intents, op>> /\ op \in accepted
    BY <1>11 DEF TpClose, EmergencyClose
  <2> QED
    BY <2>1, <2>2
<1>12. CASE RecordTpClosed
  BY <1>12 DEF RecordTpClosed, RecordAndReturn
<1>13. CASE RecordOpen
  BY <1>13 DEF RecordOpen
<1>14. CASE Confirm
  BY <1>14 DEF Confirm, SetIntent
<1>15. CASE MarkFailed
  BY <1>15 DEF MarkFailed, SetIntent
<1>16. CASE RecordError
  BY <1>16 DEF RecordError
<1>17. CASE Sync
  BY <1>17 DEF Sync
<1>18. CASE CycleFails
  BY <1>18 DEF CycleFails
<1>19. CASE SyncDone
  BY <1>19 DEF SyncDone
<1>20. ASSUME NEW s \in Symbol, CloseUnprotected(s) PROVE Persist /\ ExchangeOK'
  <2>1. CASE UNCHANGED exchange
    BY <2>1, <1>20 DEF CloseUnprotected
  <2>2. CASE Leave(Units(s))
    BY <2>2, <1>20, LeaveKeeps DEF CloseUnprotected, Units
  <2> QED
    BY <2>1, <2>2, <1>20 DEF CloseUnprotected
<1>21. CASE Plan
  BY <1>21 DEF Plan
<1>22. CASE EndSelection
  BY <1>22 DEF EndSelection
<1>23. ASSUME NEW s \in Symbol, Refuse(s) PROVE Persist /\ ExchangeOK'
  BY <1>23 DEF Refuse
<1>24. ASSUME NEW s \in Symbol, NEW o \in Oid, Begin(s, o) PROVE Persist /\ ExchangeOK'
  BY <1>24 DEF Begin
<1>25. ASSUME NEW o \in Oid, FillLimit(o) PROVE Persist /\ ExchangeOK'
  BY <1>25 DEF FillLimit, Fill
<1>26. ASSUME NEW o \in Oid, Trigger(o) PROVE Persist /\ ExchangeOK'
  BY <1>26, LeaveKeeps DEF Trigger
<1>27. ASSUME NEW o \in Oid, Reconcile(o) PROVE Persist /\ ExchangeOK'
  BY <1>27 DEF Reconcile
<1>28. CASE Crash
  BY <1>28 DEF Crash
<1>29. CASE Start
  BY <1>29 DEF Start
<1>30. CASE UNCHANGED vars
  BY <1>30 DEF vars
<1> QED
  BY <1>1, <1>2, <1>3, <1>4, <1>5, <1>6, <1>7, <1>8, <1>9, <1>10, <1>11,
   <1>12, <1>13, <1>14, <1>15, <1>16, <1>17, <1>18, <1>19, <1>20, <1>21,
   <1>22, <1>23, <1>24, <1>25, <1>26, <1>27, <1>28, <1>29, <1>30
  DEF Next, Execute, Cycle, Environment

\* So an order that needs no care never needs any again, and an order the
\* exchange has taken does not come to life again.
LEMMA CoverPersists ==
    ASSUME TypeOK, ExchangeOK, Persist
    PROVE  /\ \A o \in Oid : WrittenOff(SymbolOf[o]) => WrittenOff(SymbolOf[o])'
           /\ \A o \in accepted : Live(o)' => Live(o)
           /\ \A o \in accepted : Covered(o) => Covered(o)'
<1>1. \A o \in Oid : WrittenOff(SymbolOf[o]) => WrittenOff(SymbolOf[o])'
  BY DEF TypeOK, Persist, WrittenOff
<1>2. \A o \in accepted : Live(o)' => Live(o)
  BY DEF Persist, Live
<1>3. ASSUME NEW o \in accepted, o \in filled \cap stops, Live(o)'
      PROVE  o \in filled' \cap stops'
  BY <1>3 DEF Persist, ExchangeOK, Live
<1> QED
  BY <1>1, <1>2, <1>3 DEF Covered, TypeOK

\* Which steps write the statuses that the invariant speaks of: each is written
\* at one point of execute, for the order in progress, or by the owner.
LEMMA NewRows ==
    ASSUME TypeOK, ControlOK, LatchInv, [Next]_vars, NEW o \in Oid
    PROVE  /\ intents'[o] = "CONFIRMED" /\ intents[o] # "CONFIRMED" => pc = "confirm" /\ o = op
           /\ intents'[o] = "RECONCILED" /\ intents[o] # "RECONCILED" => Reconcile(o)
           /\ "LIVE_OPEN" \in trades'[o] \ trades[o] => pc = "openRow" /\ o = op
           /\ "LIVE_PROTECTION_FAILED_CLOSED" \in trades'[o] \ trades[o]
                => pc = "panicRow" /\ o = op
<1> USE DEF Next, Execute, Cycle, Environment, vars, bot, database, exchange, CallLocals, CycleLocals,
        Prepare, RecordIntent, PlaceOrder, MarkSent, PlaceStop, PlaceTakeProfits, PanicClose,
        TpClose, EmergencyClose, MarkUnknown, UpdateIntent, RecordCritical, RecordPanicClosed,
        RecordTpClosed, RecordAndReturn, RecordOpen, Confirm, MarkFailed, RecordError, Sync,
        CycleFails, SyncDone, CloseUnprotected, Plan, EndSelection, Refuse, Begin, FillLimit,
        Trigger, Crash, Start, Goto, Return, AbortCycle, Step, ApiError, OtherError,
        Fresh, Call, PC, ControlOK
<1>1. \/ UNCHANGED intents
      \/ /\ op \in Oid
         /\ \/ pc = "confirm" /\ SetIntent("CONFIRMED")
            \/ \E status \in {"SENT", "UNKNOWN", "FAILED"} : SetIntent(status)
            \/ intents' = [intents EXCEPT ![op] = "PENDING_EXECUTION"]
      \/ \E u \in Oid : Reconcile(u)
  OBVIOUS
<1>2. /\ intents'[o] = "CONFIRMED" /\ intents[o] # "CONFIRMED" => pc = "confirm" /\ o = op
      /\ intents'[o] = "RECONCILED" /\ intents[o] # "RECONCILED" => Reconcile(o)
  <2>1. CASE UNCHANGED intents
    BY <2>1
  <2>2. CASE op \in Oid /\ pc = "confirm" /\ SetIntent("CONFIRMED")
    BY <2>2 DEF SetIntent, TypeOK
  <2>3. ASSUME op \in Oid, NEW status \in {"SENT", "UNKNOWN", "FAILED"}, SetIntent(status)
        PROVE  intents'[o] \in {"CONFIRMED", "RECONCILED"} => intents'[o] = intents[o]
    BY <2>3 DEF SetIntent, TypeOK
  <2>4. CASE op \in Oid /\ intents' = [intents EXCEPT ![op] = "PENDING_EXECUTION"]
    BY <2>4 DEF TypeOK
  <2>5. ASSUME NEW u \in Oid, Reconcile(u)
        PROVE  /\ intents'[o] = "CONFIRMED" => intents[o] = "CONFIRMED"
               /\ intents'[o] = "RECONCILED" => intents[o] = "RECONCILED" \/ o = u
    BY <2>5 DEF Reconcile, TypeOK
  <2> QED
    BY <1>1, <2>1, <2>2, <2>3, <2>4, <2>5
<1>3. \/ UNCHANGED trades
      \/ /\ op \in Oid
         /\ \/ pc = "openRow" /\ AddTrade("LIVE_OPEN")
            \/ pc = "panicRow" /\ AddTrade("LIVE_PROTECTION_FAILED_CLOSED")
            \/ \E status \in {"LIVE_ERROR", "LIVE_TP_FAILED_CLOSED",
                              "CRITICAL_UNPROTECTED_POSITION"} : AddTrade(status)
  BY DEF Reconcile, SetIntent
<1>4. \/ trades'[o] = trades[o]
      \/ o = op /\ pc = "openRow" /\ trades'[o] = trades[o] \cup {"LIVE_OPEN"}
      \/ o = op /\ pc = "panicRow" /\ trades'[o] = trades[o] \cup {"LIVE_PROTECTION_FAILED_CLOSED"}
      \/ \E status \in {"LIVE_ERROR", "LIVE_TP_FAILED_CLOSED", "CRITICAL_UNPROTECTED_POSITION"} :
            trades'[o] = trades[o] \cup {status}
  BY <1>3 DEF AddTrade, TypeOK
<1>5. /\ "LIVE_OPEN" \in trades'[o] \ trades[o] => pc = "openRow" /\ o = op
      /\ "LIVE_PROTECTION_FAILED_CLOSED" \in trades'[o] \ trades[o]
           => pc = "panicRow" /\ o = op
  BY <1>4
<1> QED
  BY <1>2, <1>5

\* Which steps lead to the points of execute where rows are written.
LEMMA NewPoints ==
    ASSUME TypeOK, ControlOK, [Next]_vars
    PROVE  /\ pc' = "tp" /\ stopOk' /\ ~(pc = "tp" /\ stopOk /\ op' = op)
                => PlaceStop /\ op \in stops' /\ Held(SymbolOf[op]) /\ UNCHANGED <<op, filled>>
           /\ pc' \in {"openRow", "confirm"}
                => op' = op /\ ((pc = "tp" /\ stopOk) \/ pc \in {"openRow", "confirm"})
           /\ pc' = "panicRow" /\ ~(pc = "panicRow" /\ op' = op)
                => PanicClose /\ op' = op /\ \E u \in Units(SymbolOf[op]) :
                                               /\ u = op \/ op \notin filled
                                               /\ Leave({u})
           /\ accepted' # accepted => PlaceOrder /\ accepted' = accepted \cup {op}
<1> USE DEF Next, Execute, Cycle, Environment, vars, bot, database, exchange, CallLocals, CycleLocals,
        Prepare, RecordIntent, PlaceOrder, MarkSent, PlaceStop, PlaceTakeProfits, PanicClose,
        TpClose, EmergencyClose, MarkUnknown, UpdateIntent, RecordCritical, RecordPanicClosed,
        RecordTpClosed, RecordAndReturn, RecordOpen, Confirm, MarkFailed, RecordError, Sync,
        CycleFails, SyncDone, CloseUnprotected, Plan, EndSelection, Refuse, Begin, FillLimit,
        Trigger, Reconcile, Crash, Start, Goto, Return, AbortCycle, Step, ApiError, OtherError,
        SetIntent, AddTrade, Fresh, Call, PC, ControlOK
<1>1. pc' = "tp" /\ stopOk' /\ ~(pc = "tp" /\ stopOk /\ op' = op)
        => PlaceStop /\ op \in stops' /\ Held(SymbolOf[op]) /\ UNCHANGED <<op, filled>>
  OBVIOUS
<1>2. pc' \in {"openRow", "confirm"}
        => op' = op /\ ((pc = "tp" /\ stopOk) \/ pc \in {"openRow", "confirm"})
  OBVIOUS
<1>3. pc' = "panicRow" /\ ~(pc = "panicRow" /\ op' = op)
        => PanicClose /\ op' = op /\ \E u \in Units(SymbolOf[op]) :
                                       /\ u = op \/ op \notin filled
                                       /\ Leave({u})
  OBVIOUS
<1>4. accepted' # accepted => PlaceOrder /\ accepted' = accepted \cup {op}
  BY DEF Leave, Accept
<1> QED
  BY <1>1, <1>2, <1>3, <1>4

\* What the steps of the cycle do to the selection.
LEMMA NewSelection ==
    ASSUME TypeOK, ControlOK, [Next]_vars
    PROVE  /\ \/ todo' \subseteq todo
              \/ pc = "plan" /\ pc' = "select" /\ todo' \cap known = {}
           /\ pc' \in Call => \/ pc \in Call /\ op' = op
                              \/ pc' = "prepare" /\ op' \in Oid /\ SymbolOf[op'] \in todo \ todo'
           /\ pc' \in {"prepare", "record", "place"} => pc \in {"prepare", "record", "place", "select"}
           /\ pc' \in {"closing", "plan"} => \/ pc = "closing" /\ known' = known
                                             \/ pc = "plan" /\ known' = known
                                             \/ Sync
<1> USE DEF Next, Execute, Cycle, Environment, vars, bot, database, exchange, CallLocals, CycleLocals,
        Prepare, RecordIntent, PlaceOrder, MarkSent, PlaceStop, PlaceTakeProfits, PanicClose,
        TpClose, EmergencyClose, MarkUnknown, UpdateIntent, RecordCritical, RecordPanicClosed,
        RecordTpClosed, RecordAndReturn, RecordOpen, Confirm, MarkFailed, RecordError, Sync,
        CycleFails, SyncDone, CloseUnprotected, Plan, EndSelection, Refuse, FillLimit,
        Trigger, Reconcile, Crash, Start, Goto, Return, AbortCycle, Step, ApiError, OtherError,
        SetIntent, AddTrade, Call, PC, ControlOK
<1>1. \/ todo' \subseteq todo
      \/ pc = "plan" /\ pc' = "select" /\ todo' \cap known = {}
  BY DEF Begin
<1>2. pc' \in Call => \/ pc \in Call /\ op' = op
                      \/ pc' = "prepare" /\ op' \in Oid /\ SymbolOf[op'] \in todo \ todo'
  <2>1. ASSUME NEW s \in Symbol, NEW u \in Oid, Begin(s, u)
        PROVE  pc' = "prepare" /\ op' \in Oid /\ SymbolOf[op'] \in todo \ todo'
    BY <2>1 DEF Begin, Fresh, TypeOK
  <2> HIDE DEF Next, Execute, Cycle, Environment, Start, vars
  <2>2. CASE Execute
    BY <2>2 DEF Execute
  <2>3. CASE Cycle /\ ~ \E s \in Symbol : \E u \in Oid : Begin(s, u)
    BY <2>3 DEF Cycle
  <2>4. CASE Start \/ Environment
    BY <2>4 DEF Start, Environment
  <2>5. CASE UNCHANGED vars
    BY <2>5 DEF vars
  <2> QED
    BY <2>1, <2>2, <2>3, <2>4, <2>5 DEF Next
<1>3. pc' \in {"prepare", "record", "place"} => pc \in {"prepare", "record", "place", "select"}
  BY DEF Begin
<1>4. pc' \in {"closing", "plan"} => \/ pc = "closing" /\ known' = known
                                     \/ pc = "plan" /\ known' = known
                                     \/ Sync
  BY DEF Begin
<1> QED
  BY <1>1, <1>2, <1>3, <1>4

\* A second live order of a symbol: only the one that is being placed is new,
\* and any other live order of its symbol is confirmed (then the sync saw it),
\* written off, or not live.
LEMMA DuplicateStep ==
    ASSUME TypeOK, ControlOK, LatchInv, StopInv, [Next]_vars, Persist
    PROVE  DuplicateOnlyAfterFailed'
<1> USE LiveAssumption DEF StopInv
<1>0. /\ \A o \in Oid : WrittenOff(SymbolOf[o]) => WrittenOff(SymbolOf[o])'
      /\ \A o \in accepted : Live(o)' => Live(o)
  BY CoverPersists
<1>1. ASSUME accepted' # accepted, NEW o \in accepted,
             Live(o), SymbolOf[o] = SymbolOf[op]
      PROVE  WrittenOff(SymbolOf[o])
  <2>1. pc = "place" /\ op \in Oid /\ op \notin accepted
    BY <1>1, NewPoints DEF PlaceOrder, Accept, Call, ControlOK
  <2>2. o # op /\ o \in Oid /\ intents[o] \in IntentStatus \ ({"none"} \cup Pending)
    BY <2>1 DEF LatchInv, WriteAhead, Unresolved, Call, TypeOK
  <2>3. intents[o] \in {"CONFIRMED", "FAILED", "RECONCILED"}
    BY <2>2 DEF IntentStatus, Pending
  <2>4. intents[o] # "RECONCILED"
    BY <1>1, <2>2 DEF RowsOK
  <2>5. CASE intents[o] = "CONFIRMED"
    BY <1>1, <2>1, <2>2, <2>5 DEF SeenOK
  <2>6. CASE intents[o] = "FAILED"
    BY <1>1, <2>6 DEF WrittenOff
  <2> QED
    BY <2>3, <2>4, <2>5, <2>6
<1>2. SUFFICES ASSUME NEW o \in accepted', NEW p \in accepted', o # p,
                      Live(o)', Live(p)', SymbolOf[o] = SymbolOf[p]
               PROVE  WrittenOff(SymbolOf[o])'
  BY DEF DuplicateOnlyAfterFailed
<1>3. CASE o \in accepted /\ p \in accepted
  BY <1>0, <1>2, <1>3 DEF DuplicateOnlyAfterFailed, TypeOK
<1>4. CASE o \notin accepted \/ p \notin accepted
  <2>1. accepted' # accepted /\ accepted' = accepted \cup {op}
    BY <1>4, NewPoints
  <2>2. op \in Oid
    BY <2>1, NewPoints DEF PlaceOrder, ControlOK, Call
  <2>3. \/ o \in accepted /\ p = op
        \/ p \in accepted /\ o = op
    BY <1>2, <1>4, <2>1
  <2> QED
    BY <1>0, <1>1, <1>2, <2>1, <2>2, <2>3 DEF TypeOK
<1> QED
  BY <1>3, <1>4

\* The rows: each is written at a point where what it says is true, and
\* nothing makes it false afterwards.
LEMMA RowsStep ==
    ASSUME TypeOK, ControlOK, LatchInv, StopInv, [Next]_vars, Persist
    PROVE  RowsOK'
<1> USE LiveAssumption DEF StopInv
<1>0. /\ \A o \in Oid : WrittenOff(SymbolOf[o]) => WrittenOff(SymbolOf[o])'
      /\ \A o \in accepted : Live(o)' => Live(o)
      /\ \A o \in accepted : Covered(o) => Covered(o)'
      /\ accepted \subseteq accepted' /\ accepted \subseteq Oid
  BY CoverPersists DEF Persist, TypeOK
<1>1. pc' = "tp" /\ stopOk' => Covered(op)'
  <2>1. CASE pc = "tp" /\ stopOk /\ op' = op
    <3>1. op \in accepted /\ Covered(op)
      BY <2>1 DEF ExchangeOK, RowsOK, Opened, Underway, Call
    <3> QED
      BY <1>0, <2>1, <3>1 DEF Covered, Live, WrittenOff
  <2>2. CASE PlaceStop /\ op \in stops' /\ Held(SymbolOf[op]) /\ UNCHANGED <<op, filled>>
    <3>1. pc = "stop" /\ op \in accepted /\ op \in Oid
      BY <2>2 DEF PlaceStop, ExchangeOK, ControlOK, Opened, Underway, Call
    <3>2. CASE op \in filled
      BY <2>2, <3>2 DEF Covered
    <3>3. CASE op \notin filled /\ op \in resting
      <4>1. PICK u \in filled : SymbolOf[u] = SymbolOf[op]
        BY <2>2 DEF Held, Units
      <4>2. WrittenOff(SymbolOf[op])
        BY <3>1, <3>3, <4>1 DEF DuplicateOnlyAfterFailed, ExchangeOK, Live
      <4> QED
        BY <1>0, <2>2, <3>1, <4>2 DEF Covered, WrittenOff
    <3>4. CASE ~Live(op)
      BY <1>0, <2>2, <3>1, <3>4 DEF Covered, Live
    <3> QED
      BY <3>2, <3>3, <3>4 DEF Live
  <2> QED
    BY <2>1, <2>2, NewPoints
<1>2. pc' \in {"openRow", "confirm"} => Covered(op)'
  <2> SUFFICES ASSUME pc' \in {"openRow", "confirm"} PROVE Covered(op)'
    OBVIOUS
  <2>1. op' = op /\ op \in accepted /\ Covered(op)
    BY NewPoints DEF ExchangeOK, RowsOK, Opened, Underway, Call
  <2> QED
    BY <1>0, <2>1 DEF Covered, Live, WrittenOff
<1>3. pc' = "panicRow" => ~Live(op)' \/ WrittenOff(SymbolOf[op])'
  <2>1. CASE pc = "panicRow" /\ op' = op
    <3>1. op \in accepted /\ (~Live(op) \/ WrittenOff(SymbolOf[op]))
      BY <2>1 DEF ExchangeOK, RowsOK, Opened, Underway, Call
    <3> QED
      BY <1>0, <2>1, <3>1 DEF Live, WrittenOff
  <2>2. ASSUME PanicClose, op' = op, NEW u \in Units(SymbolOf[op]),
               u = op \/ op \notin filled, Leave({u})
        PROVE  ~Live(op)' \/ WrittenOff(SymbolOf[op])'
    <3>1. op \in accepted /\ op \in Oid /\ u \in filled /\ SymbolOf[u] = SymbolOf[op]
      BY <2>2 DEF PanicClose, ExchangeOK, ControlOK, Opened, Underway, Call, Units
    <3>2. CASE u = op
      <4>1. op \notin filled' /\ op \notin resting'
        BY <2>2, <3>1, <3>2 DEF Leave, ExchangeOK
      <4> QED
        BY <2>2, <4>1 DEF Live
    <3>3. CASE u # op /\ Live(op)
      <4>1. WrittenOff(SymbolOf[op])
        BY <3>1, <3>3 DEF DuplicateOnlyAfterFailed, ExchangeOK, Live
      <4> QED
        BY <1>0, <2>2, <3>1, <4>1 DEF WrittenOff
    <3>4. CASE ~Live(op)
      BY <1>0, <2>2, <3>1, <3>4 DEF Live
    <3> QED
      BY <3>2, <3>3, <3>4
  <2> QED
    BY <2>1, <2>2, NewPoints
<1>4. ASSUME NEW o \in Oid, intents'[o] = "CONFIRMED" PROVE o \in accepted' /\ Covered(o)'
  <2>1. o \in accepted /\ Covered(o)
    BY <1>4, NewRows DEF RowsOK, ExchangeOK, Opened, Underway, Call
  <2> QED
    BY <1>0, <2>1
<1>5. ASSUME NEW o \in Oid, intents'[o] = "RECONCILED" PROVE ~Live(o)'
  <2>1. CASE Reconcile(o)
    BY <2>1 DEF Reconcile, Live, exchange
  <2>2. CASE intents[o] = "RECONCILED" /\ ~Live(o) /\ o \notin accepted
    <3>1. CASE accepted' = accepted
      BY <2>2, <3>1, Persistence DEF ExchangeOK, Live
    <3>2. CASE o # op
      BY <2>2, <3>2, NewPoints, Persistence DEF ExchangeOK, Live
    <3>3. CASE accepted' # accepted /\ o = op
      BY <2>2, <3>3, NewPoints DEF PlaceOrder, LatchInv, Underway, Call, Pending
    <3> QED
      BY <3>1, <3>2, <3>3
  <2>3. CASE intents[o] = "RECONCILED" /\ ~Live(o) /\ o \in accepted
    BY <1>0, <2>3
  <2> QED
    BY <1>5, <2>1, <2>2, <2>3, NewRows DEF RowsOK
<1>6. ASSUME NEW o \in Oid, "LIVE_OPEN" \in trades'[o] PROVE o \in accepted' /\ Covered(o)'
  <2>1. o \in accepted /\ Covered(o)
    BY <1>6, NewRows DEF RowsOK, ExchangeOK, Opened, Underway, Call
  <2> QED
    BY <1>0, <2>1
<1>7. ASSUME NEW o \in Oid, "LIVE_PROTECTION_FAILED_CLOSED" \in trades'[o]
      PROVE  o \in accepted' /\ (~Live(o)' \/ WrittenOff(SymbolOf[o])')
  <2>1. o \in accepted /\ (~Live(o) \/ WrittenOff(SymbolOf[o]))
    BY <1>7, NewRows DEF RowsOK, ExchangeOK, Opened, Underway, Call
  <2> QED
    BY <1>0, <2>1
<1> QED
  BY <1>1, <1>2, <1>3, <1>4, <1>5, <1>6, <1>7 DEF RowsOK

\* The selection: a confirmed order that is live is filled, so the sync sees it.
LEMMA SeenStep ==
    ASSUME TypeOK, ControlOK, LatchInv, StopInv, [Next]_vars, Persist
    PROVE  SeenOK'
<1> USE LiveAssumption DEF StopInv
<1>0. /\ \A o \in Oid : WrittenOff(SymbolOf[o]) => WrittenOff(SymbolOf[o])'
      /\ \A o \in accepted : Live(o)' => Live(o)
  BY CoverPersists
<1>1. pc' \in Call => SymbolOf[op'] \notin todo'
  BY NewSelection DEF SeenOK, Call
<1>2. SUFFICES ASSUME NEW o \in Oid, intents'[o] = "CONFIRMED", Live(o)',
                      ~WrittenOff(SymbolOf[o])'
               PROVE  /\ pc' \in {"closing", "plan"} => SymbolOf[o] \in known'
                      /\ SymbolOf[o] \notin todo'
                      /\ pc' \in {"prepare", "record", "place"} => SymbolOf[o] # SymbolOf[op']
  BY <1>1 DEF SeenOK
<1>3. CASE intents[o] # "CONFIRMED"
  <2>1. pc = "confirm" /\ o = op /\ op \in Oid
    BY <1>2, <1>3, NewRows
  <2>2. SymbolOf[o] \notin todo
    BY <2>1 DEF SeenOK, Call
  <2> QED
    BY <2>1, <2>2, NewSelection DEF Sync
<1>4. CASE intents[o] = "CONFIRMED"
  <2>1. o \in accepted /\ Live(o) /\ ~WrittenOff(SymbolOf[o]) /\ o \in filled
    BY <1>0, <1>2, <1>4 DEF RowsOK, Covered
  <2>2. pc' \in {"closing", "plan"} => SymbolOf[o] \in known'
    <3>1. CASE Sync
      BY <2>1, <3>1 DEF Sync, Held, Units, TypeOK
    <3> QED
      BY <1>4, <2>1, <3>1, NewSelection DEF SeenOK
  <2>3. SymbolOf[o] \notin todo'
    BY <1>4, <2>1, NewSelection DEF SeenOK
  <2>4. pc' \in {"prepare", "record", "place"} => SymbolOf[o] # SymbolOf[op']
    BY <1>4, <2>1, NewSelection DEF SeenOK, Call
  <2> QED
    BY <2>2, <2>3, <2>4
<1> QED
  BY <1>3, <1>4

\* The strengthened invariant survives every step.
LEMMA StopInvStep ==
    ASSUME TypeOK, ControlOK, LatchInv, StopInv, [Next]_vars
    PROVE  StopInv'
  BY Persistence, DuplicateStep, RowsStep, SeenStep DEF StopInv

\* It holds in every reachable state.
LEMMA StopInvAlways == Spec => [](TypeOK /\ LatchInv /\ StopInv)
<1>1. TypeOK /\ ControlOK /\ LatchInv /\ StopInv /\ [Next]_vars => LatchInv' /\ StopInv'
  BY LatchInvStep, StopInvStep
<1> QED
  BY TypeInv, LatchInvInit, StopInvInit, <1>1, PTL DEF Spec

\* A unit without a stop is known to the tables: its intent is unresolved, or
\* an order of its symbol was written off as FAILED.
THEOREM NakedAlwaysAccounted == Spec => []NakedIsAccounted
<1>1. TypeOK /\ LatchInv /\ StopInv => NakedIsAccounted
  <2> SUFFICES ASSUME TypeOK, LatchInv, StopInv, NEW o \in filled \ stops
               PROVE  intents[o] \in Pending \/ WrittenOff(SymbolOf[o])
    BY DEF NakedIsAccounted
  <2>1. o \in accepted /\ o \in Oid /\ Live(o)
    BY DEF StopInv, ExchangeOK, TypeOK, Live
  <2>2. intents[o] \in Pending \cup {"CONFIRMED", "FAILED", "RECONCILED"}
    BY <2>1 DEF TypeOK, IntentStatus, Pending, LatchInv, WriteAhead
  <2>3. CASE intents[o] = "FAILED"
    BY <2>1, <2>3 DEF WrittenOff
  <2>4. CASE intents[o] \in {"CONFIRMED", "RECONCILED"}
    BY <2>1, <2>4 DEF StopInv, RowsOK, Covered
  <2> QED
    BY <2>2, <2>3, <2>4
<1> QED
  BY StopInvAlways, <1>1, PTL

\* The sync before the selection keeps a second order of a symbol off: two are
\* live only after one was written off, whatever fills, fails or crashes.
THEOREM NoDuplicateUnlessFailed == Spec => []DuplicateOnlyAfterFailed
<1>1. StopInv => DuplicateOnlyAfterFailed
  BY DEF StopInv
<1> QED
  BY StopInvAlways, <1>1, PTL

\* A LIVE_OPEN row is as good as its word: the live order has its units and
\* their stop, unless an order of its symbol was written off.
THEOREM OpenRowsProtected == Spec => []OpenRowIsProtected
<1>1. StopInv => OpenRowIsProtected
  BY DEF StopInv, RowsOK, Covered, OpenRowIsProtected
<1> QED
  BY StopInvAlways, <1>1, PTL

\* A row of the panic close is as good as its word: the order has left the
\* exchange, unless an order of its symbol was written off.
THEOREM PanicRowsFlat == Spec => []PanicRowIsFlat
<1>1. StopInv => PanicRowIsFlat
  BY DEF StopInv, RowsOK, PanicRowIsFlat
<1> QED
  BY StopInvAlways, <1>1, PTL

-----------------------------------------------------------------------------
\* The symbols of a set of orders; the orders that are live, and those of them
\* that are confirmed.
SymbolsOf(O) == {SymbolOf[o] : o \in O}
LiveOrders == {o \in Oid : Live(o)}
Settled == {o \in LiveOrders : intents[o] = "CONFIRMED"}

\* The symbols that are taken or may be taken in this cycle: those of confirmed
\* orders, of selected signals, and of the order execute is working on.
Claimed == SymbolsOf(Settled) \cup todo \cup SymbolsOf({op} \cap Oid)
Claiming == pc \in Call \/ (pc = "select" /\ todo # {})

\* The inductive strengthening of SlotsUnlessFailed: the slots count what may
\* still be opened in this cycle.  Outside a selection the live orders may
\* include unresolved ones, which keep any further order off.
SlotInv ==
    \/ \E s \in Symbol : WrittenOff(s)
    \/ /\ Cardinality(SymbolsOf(LiveOrders)) <= MaxPositions
       /\ Claiming => Cardinality(Claimed) <= MaxPositions

\* Fewer symbols take fewer slots.
LEMMA FewerSymbols ==
    ASSUME NEW S \in SUBSET Symbol, NEW T \in SUBSET S, Cardinality(S) <= MaxPositions
    PROVE  Cardinality(T) <= MaxPositions
<1>1. IsFiniteSet(S)
  BY LiveAssumption, FS_Subset
<1>2. Cardinality(T) <= Cardinality(S) /\ Cardinality(S) \in Nat /\ IsFiniteSet(T)
  BY <1>1, FS_Subset, FS_CardinalityType
<1>3. Cardinality(T) \in Nat
  BY <1>2, FS_CardinalityType
<1> QED
  BY <1>2, <1>3, LiveAssumption

\* Claims come from the selection and then only shrink.
LEMMA NewClaims ==
    ASSUME TypeOK, ControlOK, [Next]_vars, Claiming'
    PROVE  \/ Plan
           \/ /\ Claiming /\ todo' \subseteq todo
              /\ op' \in Oid => op' = op \/ SymbolOf[op'] \in todo
<1> USE DEF Next, Execute, Cycle, Environment, vars, bot, database, exchange, CallLocals, CycleLocals,
        Prepare, RecordIntent, PlaceOrder, MarkSent, PlaceStop, PlaceTakeProfits, PanicClose,
        TpClose, EmergencyClose, MarkUnknown, UpdateIntent, RecordCritical, RecordPanicClosed,
        RecordTpClosed, RecordAndReturn, RecordOpen, Confirm, MarkFailed, RecordError, Sync,
        CycleFails, SyncDone, CloseUnprotected, EndSelection, Refuse, Begin, FillLimit,
        Trigger, Reconcile, Crash, Start, Goto, Return, AbortCycle, Step, ApiError, OtherError,
        SetIntent, AddTrade, Fresh, Call, PC, ControlOK, Claiming
<1> QED
  BY LiveAssumption

\* The live orders stay within the slots, and so do the claims.
LEMMA SlotStep ==
    ASSUME TypeOK, ControlOK, LatchInv, StopInv, SlotInv, [Next]_vars
    PROVE  SlotInv'
<1>1. Persist /\ ExchangeOK'
  BY Persistence DEF StopInv
<1>2. SUFFICES ASSUME ~\E s \in Symbol : WrittenOff(s)'
               PROVE  /\ Cardinality(SymbolsOf(LiveOrders))' <= MaxPositions
                      /\ Claiming' => Cardinality(Claimed)' <= MaxPositions
  BY DEF SlotInv
<1>3. ~\E s \in Symbol : WrittenOff(s)
  BY <1>1, <1>2 DEF WrittenOff, Persist, TypeOK
<1>4. /\ Cardinality(SymbolsOf(LiveOrders)) <= MaxPositions
      /\ Claiming => Cardinality(Claimed) <= MaxPositions
  BY <1>3 DEF SlotInv
<1>5. /\ \A o \in Oid : SymbolOf[o] \in Symbol
      /\ accepted \subseteq Oid /\ \A o \in accepted : Live(o)' => Live(o)
  BY <1>1, CoverPersists, LiveAssumption DEF TypeOK, StopInv
<1>6. SymbolsOf(LiveOrders) \subseteq Symbol /\ Claimed \subseteq Symbol /\ LiveOrders \subseteq accepted
  BY <1>5 DEF SymbolsOf, LiveOrders, Settled, Claimed, TypeOK, StopInv, ExchangeOK, Live
<1>7. Cardinality(SymbolsOf(LiveOrders))' <= MaxPositions
  <2>1. CASE accepted' = accepted
    <3>1. LiveOrders' \subseteq LiveOrders
      BY <1>1, <1>5, <2>1 DEF LiveOrders, Live, ExchangeOK
    <3>2. SymbolsOf(LiveOrders)' \subseteq SymbolsOf(LiveOrders)
      BY <3>1 DEF SymbolsOf
    <3> QED
      BY <1>4, <1>6, <3>2, FewerSymbols
  <2>2. CASE accepted' # accepted
    <3>1. pc = "place" /\ op \in Oid /\ accepted' = accepted \cup {op} /\ op \notin accepted
      BY <2>2, NewPoints DEF PlaceOrder, Accept, Call, ControlOK
    <3>2. ASSUME NEW o \in Oid, Live(o)', o # op PROVE o \in Settled
      <4>1. o \in accepted /\ Live(o)
        BY <1>1, <1>5, <3>1, <3>2 DEF ExchangeOK, Live
      <4>2. intents[o] \in IntentStatus \ ({"none"} \cup Pending)
        BY <3>1, <3>2, <4>1 DEF LatchInv, WriteAhead, Unresolved, Call, TypeOK
      <4>3. intents[o] # "FAILED" /\ intents[o] # "RECONCILED"
        BY <1>3, <1>5, <4>1 DEF WrittenOff, StopInv, RowsOK
      <4> QED
        BY <4>1, <4>2, <4>3 DEF IntentStatus, Pending, Settled, LiveOrders
    <3>3. SymbolsOf(LiveOrders)' \subseteq Claimed
      BY <3>1, <3>2 DEF SymbolsOf, LiveOrders, Claimed
    <3>4. Claimed \in SUBSET Symbol /\ Cardinality(Claimed) <= MaxPositions
      <4>1. Claiming
        BY <3>1 DEF Claiming, Call
      <4> QED
        BY <1>4, <1>6, <4>1
    <3> QED
      BY <3>3, <3>4, FewerSymbols
  <2> QED
    BY <2>1, <2>2
<1>8. ASSUME Claiming' PROVE Cardinality(Claimed)' <= MaxPositions
  <2>1. CASE Plan
    <3>1. PICK S \in SUBSET Symbol : /\ todo' = S
                                     /\ S = {} \/ Cardinality(S) <= MaxPositions - Cardinality(known)
      BY <2>1 DEF Plan
    <3>2. pc = "plan" /\ pc' = "select" /\ op' = NoOid /\ op = NoOid /\ UNCHANGED <<database, exchange>>
      BY <2>1 DEF Plan, Goto, CallLocals, ControlOK, Call
    <3>3. SymbolsOf(Settled) \subseteq known
      BY <1>3, <1>5, <3>2 DEF StopInv, SeenOK, SymbolsOf, Settled, LiveOrders
    <3>4. Claimed' \subseteq known \cup S
      BY <3>1, <3>2, <3>3, LiveAssumption DEF Claimed, SymbolsOf, Settled, LiveOrders, Live, database, exchange
    <3>5. S # {}
      BY <1>8, <3>1, <3>2 DEF Claiming, Call
    <3>6. Cardinality(known \cup S) <= MaxPositions
      <4>1. IsFiniteSet(S) /\ IsFiniteSet(known) /\ IsFiniteSet(known \cap S)
        BY LiveAssumption, FS_Subset DEF TypeOK
      <4>2. Cardinality(S) \in Nat /\ Cardinality(known) \in Nat /\ Cardinality(known \cap S) \in Nat
        BY <4>1, FS_CardinalityType
      <4>3. Cardinality(known \cup S) = Cardinality(known) + Cardinality(S) - Cardinality(known \cap S)
        BY <4>1, FS_Union
      <4> QED
        BY <3>1, <3>5, <4>2, <4>3, LiveAssumption
    <3>7. known \cup S \in SUBSET Symbol
      BY DEF TypeOK
    <3> QED
      BY <3>4, <3>6, <3>7, FewerSymbols
  <2>2. CASE ~Plan
    <3>1. Claiming /\ todo' \subseteq todo /\ (op' \in Oid => op' = op \/ SymbolOf[op'] \in todo)
      BY <1>8, <2>2, NewClaims
    <3>2. ASSUME NEW o \in Oid, Live(o)', intents'[o] = "CONFIRMED"
          PROVE  o \in Settled \cup {op}
      BY <1>5, <3>2, NewRows DEF StopInv, RowsOK, Settled, LiveOrders
    <3>3. SymbolsOf(Settled)' \subseteq SymbolsOf(Settled) \cup SymbolsOf({op} \cap Oid)
      BY <3>2 DEF SymbolsOf, Settled, LiveOrders
    <3>4. Claimed' \subseteq Claimed
      BY <3>1, <3>3 DEF Claimed, SymbolsOf
    <3> QED
      BY <1>4, <1>6, <3>1, <3>4, FewerSymbols
  <2> QED
    BY <2>1, <2>2
<1> QED
  BY <1>7, <1>8

\* The slot limit on the exchange: the open symbols never exceed the maximum of
\* open positions, through crashes and lost answers, until an order was written off.
THEOREM SlotsKept == Spec => []SlotsUnlessFailed
<1>1. Init => SlotInv
  <2> SUFFICES ASSUME Init PROVE SlotInv
    OBVIOUS
  <2>1. SymbolsOf(LiveOrders) = {} /\ ~Claiming
    BY DEF Init, SymbolsOf, LiveOrders, Live, Claiming, Call
  <2> QED
    BY <2>1, FS_EmptySet, LiveAssumption DEF SlotInv
<1>2. TypeOK /\ ControlOK /\ LatchInv /\ StopInv /\ SlotInv /\ [Next]_vars => SlotInv'
  BY SlotStep
<1>3. SlotInv => SlotsUnlessFailed
  BY DEF SlotInv, SlotsUnlessFailed, SymbolsOf, LiveOrders
<1> QED
  BY TypeInv, StopInvAlways, <1>1, <1>2, <1>3, PTL DEF Spec
=============================================================================
