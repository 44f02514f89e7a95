--------------------------- MODULE LiveExecution ---------------------------
(***************************************************************************)
(* The live order path: the part of the cycle of app/main.py that syncs    *)
(* positions and executes the selected signals, ExecutionEngine.execute,   *)
(* PositionManager.sync_open_positions, and the tables execution_intents   *)
(* and trades they write.  Every call to the exchange and every database   *)
(* transaction is a step of its own, so that the process may die, or the   *)
(* exchange fill an order, between any two of them.                        *)
(***************************************************************************)
EXTENDS Integers, FiniteSets

CONSTANTS Symbol,       \* trading pairs
          Oid,          \* client order ids of opening orders (fresh uuids)
          NoOid,        \* no order in progress
          SymbolOf,     \* the symbol each client order id is generated for
          MaxPositions, \* max_open_positions
          MaxCrashes,   \* bound on process crashes, for model checking only
          CloseIfProtectionFails \* config.close_if_protection_fails

ASSUME LiveAssumption ==
    /\ IsFiniteSet(Symbol)
    /\ NoOid \notin Oid
    /\ SymbolOf \in [Oid -> Symbol]
    /\ MaxPositions \in Nat
    /\ MaxCrashes \in Nat
    /\ CloseIfProtectionFails \in BOOLEAN

VARIABLES
    \* the bot process, lost in a crash
    pc,         \* next step of the main thread
    op,         \* client_oid of the execute call in progress
    todo,       \* selected signals not executed yet in this cycle
    known,      \* open_positions: symbols seen open by the cycle's sync
    toClose,    \* unprotected positions the sync still has to close
    syncs,      \* calls of sync_open_positions left before the next selection
    blocked,    \* ExecutionEngine.blocked_symbols
    tries,      \* failed attempts of the retry loop in progress
    stopOk,     \* result of _place_stop
    \* the database
    intents,    \* execution_intents.status by client_oid
    trades,     \* trades.status values recorded for each client_oid
    \* the exchange
    accepted,   \* opening orders the exchange has accepted
    resting,    \* accepted limit orders that are not filled
    filled,     \* filled orders whose units are still in a position
    stops,      \* units covered by a stop loss
    tps,        \* units covered by a take profit
    reused,     \* symbols whose oid codex-protection-<symbol> is used up
    crashes

bot == <<pc, op, todo, known, toClose, syncs, blocked, tries, stopOk>>
database == <<intents, trades>>
exchange == <<accepted, resting, filled, stops, tps, reused>>
vars == <<bot, database, exchange, crashes>>

\* The steps inside ExecutionEngine.execute, and all steps of the main thread.
Call == {"prepare", "record", "place", "sent", "stop", "tp", "panic",
         "panicRow", "unknown", "criticalRow", "tpClose", "tpRow", "openRow",
         "confirm", "failed", "errorRow"}
PC == Call \cup {"down", "sync", "closing", "plan", "select"}

IntentStatus == {"none", "PENDING_EXECUTION", "SENT", "UNKNOWN",
                 "CONFIRMED", "FAILED", "RECONCILED"}

\* fetch_pending_execution_intents
Pending == {"PENDING_EXECUTION", "SENT", "UNKNOWN"}
Unresolved == {o \in Oid : intents[o] \in Pending}

TradeStatus == {"LIVE_OPEN", "LIVE_PROTECTION_FAILED_CLOSED",
                "LIVE_TP_FAILED_CLOSED", "CRITICAL_UNPROTECTED_POSITION",
                "LIVE_ERROR"}

\* How a client call ends after its three tries: a response, a
\* BitgetAPIError, or any other exception (a timeout, for instance).
Reply == {"ok", "api", "other"}

Units(s) == {o \in filled : SymbolOf[o] = s}
Held(s) == Units(s) # {}
Live(o) == o \in resting \cup filled

\* A position listed without stopLoss or without takeProfit.
Unprotected(s) == Held(s) /\ (Units(s) \cap stops = {} \/ Units(s) \cap tps = {})
Naked(s) == Held(s) /\ Units(s) \cap stops = {}

\* Types of the process's memory, of the two tables and of the exchange.
TypeOK ==
    /\ pc \in PC
    /\ op \in Oid \cup {NoOid}
    /\ todo \subseteq Symbol /\ known \subseteq Symbol /\ toClose \subseteq Symbol
    /\ blocked \subseteq Symbol /\ reused \subseteq Symbol
    /\ syncs \in 0..3 /\ tries \in 0..2 /\ stopOk \in BOOLEAN
    /\ intents \in [Oid -> IntentStatus]
    /\ trades \in [Oid -> SUBSET TradeStatus]
    /\ accepted \subseteq Oid /\ resting \subseteq Oid /\ filled \subseteq Oid
    /\ stops \subseteq Oid /\ tps \subseteq Oid
    /\ crashes \in 0..MaxCrashes

Init ==
    /\ pc = "sync" /\ op = NoOid /\ syncs = 2
    /\ todo = {} /\ known = {} /\ toClose = {} /\ blocked = {}
    /\ tries = 0 /\ stopOk = FALSE
    /\ intents = [o \in Oid |-> "none"]
    /\ trades = [o \in Oid |-> {}]
    /\ accepted = {} /\ resting = {} /\ filled = {} /\ stops = {} /\ tps = {}
    /\ reused = {}
    /\ crashes = 0

-----------------------------------------------------------------------------
\* The exchange: modelled from the calls the code makes and the errors it
\* prepares for.

\* A fill.  The order carries a preset stop and take profit; whether they are
\* attached is left open, the code places its own plans in any case.
Fill(o) ==
    /\ filled' = filled \cup {o}
    /\ \E sl, tp \in BOOLEAN :
          /\ stops' = IF sl THEN stops \cup {o} ELSE stops
          /\ tps' = IF tp THEN tps \cup {o} ELSE tps

\* Accepting an opening order: a market order fills, a limit order rests.
Accept(o) ==
    /\ o \notin accepted
    /\ accepted' = accepted \cup {o}
    /\ \/ Fill(o) /\ UNCHANGED resting
       \/ resting' = resting \cup {o} /\ UNCHANGED <<filled, stops, tps>>
    /\ UNCHANGED reused

\* The orders of a symbol whose last units are among U.
Emptied(U) == {o \in Oid : \E u \in U : SymbolOf[u] = SymbolOf[o] /\ Units(SymbolOf[u]) \subseteq U}

\* Units U leave the position, with the plans that protected them.  When the
\* position is gone, so may be plans placed for an order that still rests.
Leave(U) ==
    /\ filled' = filled \ U
    /\ \E gone \in {U, U \cup Emptied(U)} :
          /\ stops' = stops \ gone
          /\ tps' = tps \ gone
    /\ UNCHANGED <<accepted, resting>>

\* A resting limit order is filled.
FillLimit(o) ==
    /\ o \in resting
    /\ resting' = resting \ {o}
    /\ Fill(o)
    /\ UNCHANGED <<accepted, reused, bot, database, crashes>>

\* A stop or take profit is triggered.
Trigger(o) ==
    /\ o \in filled \cap (stops \cup tps)
    /\ Leave({o})
    /\ UNCHANGED <<reused, bot, database, crashes>>

\* The owner of the account settles an intent after review, once the order
\* has nothing left on the exchange.
Reconcile(o) ==
    /\ o \in Unresolved /\ o # op /\ ~Live(o)
    /\ intents' = [intents EXCEPT ![o] = "RECONCILED"]
    /\ UNCHANGED <<trades, bot, exchange, crashes>>

-----------------------------------------------------------------------------
\* Helpers of the bot's actions.

Goto(label) == pc' = label

\* Local variables of execute, and those of the cycle.
CallLocals == <<op, tries, stopOk>>
CycleLocals == <<todo, known, toClose, syncs, blocked>>

\* execute returns: the loop takes the next selected signal.
Return ==
    /\ Goto("select")
    /\ op' = NoOid /\ tries' = 0 /\ stopOk' = FALSE

\* An exception leaves the cycle: the handler sleeps and a new cycle begins.
AbortCycle ==
    /\ Goto("sync")
    /\ op' = NoOid /\ tries' = 0 /\ stopOk' = FALSE
    /\ todo' = {} /\ toClose' = {} /\ syncs' = 1
    /\ UNCHANGED <<known, blocked>>

SetIntent(status) ==
    intents' = IF intents[op] = "none" THEN intents   \* UPDATE matches no row
               ELSE [intents EXCEPT ![op] = status]

AddTrade(status) ==
    trades' = [trades EXCEPT ![op] = @ \cup {status}]

-----------------------------------------------------------------------------
\* PositionManager.sync_open_positions, once before the selection and twice
\* after it (monitor is a sync in live mode); at startup once more.

\* Mutant: the snapshot taken at startup is never refreshed.
SyncStaleSnapshot ==
    /\ pc = "sync"
    /\ toClose' = IF CloseIfProtectionFails
                    THEN {s \in Symbol : Unprotected(s)} ELSE {}
    /\ Goto("closing")
    /\ UNCHANGED <<CallLocals, todo, known, syncs, blocked, database, exchange, crashes>>

\* Mutant: only a missing take profit counts as missing protection.
SyncTakeProfitOnly ==
    /\ pc = "sync"
    /\ known' = {s \in Symbol : Held(s)}
    /\ toClose' = {s \in Symbol : Held(s) /\ Units(s) \cap tps = {}}
    /\ Goto("closing")
    /\ UNCHANGED <<CallLocals, todo, syncs, blocked, database, exchange, crashes>>

Sync ==
    /\ pc = "sync"
    /\ known' = {s \in Symbol : Held(s)}
    /\ toClose' = IF CloseIfProtectionFails
                    THEN {s \in Symbol : Unprotected(s)} ELSE {}
    /\ Goto("closing")
    /\ UNCHANGED <<CallLocals, todo, syncs, blocked, database, exchange, crashes>>

\* get_positions raises, or a query of the selection, or the update of the
\* observation that follows a call of execute.
CycleFails ==
    /\ pc \in {"sync", "plan", "select"}
    /\ AbortCycle
    /\ UNCHANGED <<database, exchange, crashes>>

\* The protective close: its client_oid is the same every time, and the
\* exchange takes a client order id only once.  Errors are logged only.
CloseUnprotected(s) ==
    /\ pc = "closing" /\ s \in toClose
    /\ toClose' = toClose \ {s}
    /\ \/ /\ Held(s) /\ s \notin reused
          /\ Leave(Units(s))
          /\ reused' = reused \cup {s}
       \/ UNCHANGED exchange
    /\ UNCHANGED <<pc, CallLocals, todo, known, syncs, blocked, database, crashes>>

\* Mutant: one sync too many.
SyncDoneLate ==
    /\ pc = "closing" /\ toClose = {}
    /\ syncs' = syncs - 1
    /\ Goto(IF syncs = 0 THEN "plan" ELSE "sync")
    /\ UNCHANGED <<CallLocals, todo, known, toClose, blocked, database, exchange, crashes>>

SyncDone ==
    /\ pc = "closing" /\ toClose = {}
    /\ syncs' = syncs - 1
    /\ Goto(IF syncs = 1 THEN "plan" ELSE "sync")
    /\ UNCHANGED <<CallLocals, todo, known, toClose, blocked, database, exchange, crashes>>

-----------------------------------------------------------------------------
\* The trading part of the cycle.

\* A client_oid that nothing refers to yet; Oid bounds the number of orders.
Fresh(s) == {o \in Oid : SymbolOf[o] = s /\ intents[o] = "none" /\ trades[o] = {}}

\* Mutant: max_positions is compared with the selection alone.
PlanIgnoringOpen ==
    /\ pc = "plan"
    /\ \E S \in SUBSET {s \in Symbol \ known : Fresh(s) # {}} :
          /\ Cardinality(S) <= MaxPositions
          /\ todo' = S
    /\ Goto("select")
    /\ UNCHANGED <<CallLocals, known, toClose, syncs, blocked, database, exchange, crashes>>

\* Allocator and RiskManager, on the positions seen by the sync: signals of
\* symbols without a known position, within the free slots.
Plan ==
    /\ pc = "plan"
    /\ \E S \in SUBSET {s \in Symbol \ known : Fresh(s) # {}} :
          /\ S = {} \/ Cardinality(S) <= MaxPositions - Cardinality(known)
          /\ todo' = S
    /\ Goto("select")
    /\ UNCHANGED <<CallLocals, known, toClose, syncs, blocked, database, exchange, crashes>>

\* execute refuses: blocked symbol, or an intent awaits reconciliation.
Refuse(s) ==
    /\ pc = "select" /\ s \in todo
    /\ s \in blocked \/ Unresolved # {}
    /\ todo' = todo \ {s}
    /\ UNCHANGED <<pc, CallLocals, known, toClose, syncs, blocked, database, exchange, crashes>>

\* Mutant: the check of the pending intents is dropped.
BeginUnchecked(s, o) ==
    /\ pc = "select" /\ s \in todo
    /\ s \notin blocked
    /\ o \in Fresh(s)
    /\ todo' = todo \ {s}
    /\ op' = o
    /\ Goto("prepare")
    /\ UNCHANGED <<tries, stopOk, known, toClose, syncs, blocked, database, exchange, crashes>>

\* execute passes its checks and generates a client_oid.
Begin(s, o) ==
    /\ pc = "select" /\ s \in todo
    /\ s \notin blocked /\ Unresolved = {}
    /\ o \in Fresh(s)
    /\ todo' = todo \ {s}
    /\ op' = o
    /\ Goto("prepare")
    /\ UNCHANGED <<tries, stopOk, known, toClose, syncs, blocked, database, exchange, crashes>>

\* The loop over the selected signals is over: monitor, then sync.
EndSelection ==
    /\ pc = "select" /\ todo = {}
    /\ syncs' = 3
    /\ Goto("sync")
    /\ UNCHANGED <<CallLocals, todo, known, toClose, blocked, database, exchange, crashes>>

-----------------------------------------------------------------------------
\* ExecutionEngine.execute from the client_oid on.  A BitgetAPIError blocks
\* the symbol and returns; any other exception goes to "failed".

\* The two ways a step of execute ends in an exception.
ApiError == Return /\ blocked' = blocked \cup {SymbolOf[op]}
OtherError == Goto("failed") /\ UNCHANGED <<op, tries, stopOk, blocked>>

\* Continue with the next step.
Step(label) == Goto(label) /\ UNCHANGED <<op, tries, stopOk, blocked>>

\* Mutant: the order is sent before its intent is recorded.
PrepareThenPlace ==
    /\ pc = "prepare"
    /\ Step("place") \/ ApiError \/ OtherError
    /\ UNCHANGED <<todo, known, toClose, syncs, database, exchange, crashes>>

\* ensure_isolated_margin and set_leverage; a status that is not isolated is
\* handled like an API error.
Prepare ==
    /\ pc = "prepare"
    /\ Step("record") \/ ApiError \/ OtherError
    /\ UNCHANGED <<todo, known, toClose, syncs, database, exchange, crashes>>

RecordIntent ==
    /\ pc = "record"
    /\ \/ /\ intents' = [intents EXCEPT ![op] = "PENDING_EXECUTION"]
          /\ Step("place")
       \/ OtherError /\ UNCHANGED intents
    /\ UNCHANGED <<todo, known, toClose, syncs, trades, exchange, crashes>>

\* Mutant: a retry after a lost answer generates a fresh client_oid.
PlaceOrderFreshRetry ==
    /\ pc = "place"
    /\ \E reply \in Reply :
          /\ \/ \E o \in {op} \cup Fresh(SymbolOf[op]) : Accept(o)
             \/ reply # "ok" /\ UNCHANGED exchange
          /\ \/ reply = "ok" /\ Step("sent")
             \/ reply = "api" /\ ApiError
             \/ reply = "other" /\ OtherError
    /\ UNCHANGED <<todo, known, toClose, syncs, database, crashes>>

\* The order may be accepted whatever answer comes back: the three tries of
\* the client carry the same client_oid, so a lost answer makes the next try a
\* duplicate, which is an API error, or all of them time out.
PlaceOrder ==
    /\ pc = "place"
    /\ \E reply \in Reply :
          /\ \/ Accept(op)
             \/ reply # "ok" /\ UNCHANGED exchange
          /\ \/ reply = "ok" /\ Step("sent")
             \/ reply = "api" /\ ApiError
             \/ reply = "other" /\ OtherError
    /\ UNCHANGED <<todo, known, toClose, syncs, database, crashes>>

\* Mutant: the intent is confirmed as soon as the order is accepted.
MarkConfirmedEarly ==
    /\ pc = "sent"
    /\ \/ SetIntent("CONFIRMED") /\ Step("stop")
       \/ OtherError /\ UNCHANGED intents
    /\ UNCHANGED <<todo, known, toClose, syncs, trades, exchange, crashes>>

MarkSent ==
    /\ pc = "sent"
    /\ \/ SetIntent("SENT") /\ Step("stop")
       \/ OtherError /\ UNCHANGED intents
    /\ UNCHANGED <<todo, known, toClose, syncs, trades, exchange, crashes>>

\* Mutant: the last failed attempt still returns True.
PlaceStopSwallowed ==
    /\ pc = "stop"
    /\ \E ok \in BOOLEAN :
          /\ \/ Held(SymbolOf[op]) /\ stops' = stops \cup {op}
             \/ ~ok /\ UNCHANGED stops
          /\ stopOk' = TRUE
          /\ \/ (ok \/ tries = 2) /\ Goto("tp") /\ tries' = 0
             \/ ~ok /\ tries < 2 /\ tries' = tries + 1 /\ UNCHANGED pc
    /\ UNCHANGED <<op, CycleLocals, database, accepted, resting, filled, tps, reused, crashes>>

\* One of the three attempts of _place_stop.  The exchange takes a plan only
\* for a position that is held; its answer may be lost.
PlaceStop ==
    /\ pc = "stop"
    /\ \E ok \in BOOLEAN :
          /\ \/ Held(SymbolOf[op]) /\ stops' = stops \cup {op}
             \/ ~ok /\ UNCHANGED stops
          /\ stopOk' = ok
          /\ \/ (ok \/ tries = 2) /\ Goto("tp") /\ tries' = 0
             \/ ~ok /\ tries < 2 /\ tries' = tries + 1 /\ UNCHANGED pc
    /\ UNCHANGED <<op, CycleLocals, database, accepted, resting, filled, tps, reused, crashes>>

\* _place_take_profits: both plans, and the branch on the two results.
PlaceTakeProfits ==
    /\ pc = "tp"
    /\ \E ok \in BOOLEAN :
          /\ \/ Held(SymbolOf[op]) /\ tps' = tps \cup {op}
             \/ ~ok /\ UNCHANGED tps
          /\ Step(IF ~stopOk THEN "panic"
                  ELSE IF ~ok /\ CloseIfProtectionFails THEN "tpClose"
                  ELSE "openRow")
    /\ UNCHANGED <<todo, known, toClose, syncs, database, accepted, resting, filled, stops, reused, crashes>>

\* One of the three attempts of emergency_close_with_retry: a reduce-only
\* market order for the size of this order, under a fresh client_oid.
EmergencyClose(closed, gaveUp) ==
    /\ \E ok \in BOOLEAN :
          /\ \/ /\ Held(SymbolOf[op])
                /\ \E u \in Units(SymbolOf[op]) :
                      /\ u = op \/ op \notin filled
                      /\ Leave({u})
                /\ UNCHANGED reused
             \/ ~ok /\ UNCHANGED exchange
          /\ \/ ok /\ Goto(closed) /\ tries' = 0
             \/ ~ok /\ tries = 2 /\ Goto(gaveUp) /\ tries' = 0
             \/ ~ok /\ tries < 2 /\ tries' = tries + 1 /\ UNCHANGED pc
    /\ UNCHANGED <<op, stopOk, CycleLocals, database, crashes>>

\* Mutant: the result of the panic close is not looked at.
PanicCloseUnchecked == pc = "panic" /\ EmergencyClose("panicRow", "panicRow")

PanicClose == pc = "panic" /\ EmergencyClose("panicRow", "unknown")

\* After the take profits failed the status of the close is not looked at.
TpClose == pc = "tpClose" /\ EmergencyClose("tpRow", "tpRow")

\* update_execution_intent(status) in the middle of execute.
UpdateIntent(at, status, next) ==
    /\ pc = at
    /\ \/ SetIntent(status) /\ Step(next)
       \/ OtherError /\ UNCHANGED intents
    /\ UNCHANGED <<todo, known, toClose, syncs, trades, exchange, crashes>>

MarkUnknown == UpdateIntent("unknown", "UNKNOWN", "criticalRow")

\* record_trade, after which execute returns.
RecordAndReturn(at, status) ==
    /\ pc = at
    /\ \/ AddTrade(status) /\ Return /\ UNCHANGED blocked
       \/ OtherError /\ UNCHANGED trades
    /\ UNCHANGED <<todo, known, toClose, syncs, intents, exchange, crashes>>

RecordCritical == RecordAndReturn("criticalRow", "CRITICAL_UNPROTECTED_POSITION")
RecordPanicClosed == RecordAndReturn("panicRow", "LIVE_PROTECTION_FAILED_CLOSED")
RecordTpClosed == RecordAndReturn("tpRow", "LIVE_TP_FAILED_CLOSED")

RecordOpen ==
    /\ pc = "openRow"
    /\ \/ AddTrade("LIVE_OPEN") /\ Step("confirm")
       \/ OtherError /\ UNCHANGED trades
    /\ UNCHANGED <<todo, known, toClose, syncs, intents, exchange, crashes>>

Confirm ==
    /\ pc = "confirm"
    /\ \/ SetIntent("CONFIRMED") /\ Return /\ UNCHANGED blocked
       \/ OtherError /\ UNCHANGED intents
    /\ UNCHANGED <<todo, known, toClose, syncs, trades, exchange, crashes>>

\* The handler of other exceptions: FAILED, then a LIVE_ERROR row.  When one
\* of the two writes raises, the exception leaves execute and the cycle.
MarkFailed ==
    /\ pc = "failed"
    /\ \/ SetIntent("FAILED") /\ Step("errorRow") /\ UNCHANGED <<todo, known, toClose, syncs>>
       \/ AbortCycle /\ UNCHANGED intents
    /\ UNCHANGED <<trades, exchange, crashes>>

RecordError ==
    /\ pc = "errorRow"
    /\ \/ AddTrade("LIVE_ERROR") /\ Return /\ UNCHANGED CycleLocals
       \/ AbortCycle /\ UNCHANGED trades
    /\ UNCHANGED <<intents, exchange, crashes>>

-----------------------------------------------------------------------------
\* The process dies between two steps; memory is lost, the tables stay.
Crash ==
    /\ pc # "down" /\ crashes < MaxCrashes
    /\ crashes' = crashes + 1
    /\ Goto("down")
    /\ op' = NoOid /\ tries' = 0 /\ stopOk' = FALSE
    /\ todo' = {} /\ known' = {} /\ toClose' = {} /\ syncs' = 0 /\ blocked' = {}
    /\ UNCHANGED <<database, exchange>>

\* main: reconcile_pending_executions only counts the pending intents and
\* warns; then the startup sync and the one of the first cycle.
Start ==
    /\ pc = "down"
    /\ Goto("sync") /\ syncs' = 2
    /\ UNCHANGED <<CallLocals, todo, known, toClose, blocked, database, exchange, crashes>>

Execute ==
    \/ Prepare \/ RecordIntent \/ PlaceOrder \/ MarkSent
    \/ PlaceStop \/ PlaceTakeProfits
    \/ PanicClose \/ MarkUnknown \/ RecordCritical \/ RecordPanicClosed
    \/ TpClose \/ RecordTpClosed
    \/ RecordOpen \/ Confirm \/ MarkFailed \/ RecordError

Cycle ==
    \/ Sync \/ CycleFails \/ SyncDone
    \/ \E s \in Symbol : CloseUnprotected(s)
    \/ Plan \/ EndSelection
    \/ \E s \in Symbol : Refuse(s) \/ \E o \in Oid : Begin(s, o)

Environment ==
    \/ \E o \in Oid : FillLimit(o) \/ Trigger(o) \/ Reconcile(o)
    \/ Crash

Next == Execute \/ Cycle \/ Start \/ Environment

Spec == Init /\ [][Next]_vars

-----------------------------------------------------------------------------
\* Safety

\* Write-ahead: whatever the exchange has accepted was announced in table
\* execution_intents before, so a crash cannot leave an unknown order behind.
WriteAhead == \A o \in accepted : intents[o] # "none"

\* No order leaves while another order is unresolved, across cycles and
\* restarts (the check at the top of execute).
NoOrderWhileUnresolved ==
    [][accepted' # accepted => Unresolved \subseteq accepted' \ accepted]_vars

\* The handler of execute wrote an order of symbol s off as FAILED, and the
\* exchange had taken it.
WrittenOff(s) == \E p \in accepted : SymbolOf[p] = s /\ intents[p] = "FAILED"

\* A unit held without a stop is always known to the tables: its intent is
\* unresolved, which stops further orders, or one of its symbol was written off.
NakedIsAccounted ==
    \A o \in filled \ stops : intents[o] \in Pending \/ WrittenOff(SymbolOf[o])

\* A LIVE_OPEN trade row is only ever written for an order whose units have a
\* stop, unless they share the symbol with an order written off.
OpenRowIsProtected ==
    \A o \in Oid :
        "LIVE_OPEN" \in trades[o] /\ Live(o)
          => o \in filled \cap stops \/ WrittenOff(SymbolOf[o])

\* Two orders of one symbol are live at once only after one of that symbol
\* was written off: the sync before the selection sees every other one.
DuplicateOnlyAfterFailed ==
    \A o, p \in accepted :
        o # p /\ Live(o) /\ Live(p) /\ SymbolOf[o] = SymbolOf[p]
          => WrittenOff(SymbolOf[o])

\* A row LIVE_PROTECTION_FAILED_CLOSED means that the order left the exchange,
\* unless it shared the position with an order written off.
PanicRowIsFlat ==
    \A o \in Oid :
        "LIVE_PROTECTION_FAILED_CLOSED" \in trades[o] /\ Live(o) => WrittenOff(SymbolOf[o])

\* The slot limit counts what the cycle has seen; it is kept on the exchange
\* until an order was written off.
SlotsUnlessFailed ==
    \/ Cardinality({SymbolOf[o] : o \in {p \in Oid : Live(p)}}) <= MaxPositions
    \/ \E s \in Symbol : WrittenOff(s)

-----------------------------------------------------------------------------
\* What the repository says and the code does not do.

\* docs/future_live_runbook_v10_33.md: at-most-once.
AtMostOneLiveOrder ==
    \A o, p \in accepted :
        Live(o) /\ Live(p) /\ SymbolOf[o] = SymbolOf[p] => o = p

\* The status says that the position was closed.
TpRowIsFlat ==
    \A o \in filled : "LIVE_TP_FAILED_CLOSED" \notin trades[o]

-----------------------------------------------------------------------------
\* Liveness.  The main thread keeps running, and a call that is repeated for
\* ever is answered some day; nothing is assumed of the market, the owner and
\* crashes (bounded by MaxCrashes).
BotStep == Execute \/ Cycle \/ Start
FairSpec ==
    /\ Spec
    /\ WF_vars(BotStep)
    /\ SF_vars(Sync)
    /\ \A s \in Symbol : SF_vars(CloseUnprotected(s) /\ reused' # reused)

\* README: an unprotected position is detected and may be closed.  The close
\* works once per symbol.
FirstNakedIsHandled ==
    \A s \in Symbol :
        (CloseIfProtectionFails /\ Naked(s) /\ s \notin reused)
          ~> (~Naked(s) \/ s \in reused)

\* README: "Si detecta una posicion real sin proteccion, alerta y puede cerrar":
\* every position without a stop is closed or protected in the end.
NakedIsHandled ==
    \A s \in Symbol : Naked(s) ~> ~Naked(s)

-----------------------------------------------------------------------------
Latch == INSTANCE IntentLatch WITH open <- Unresolved, sent <- accepted

\* The order path, cycles, restarts and exchange together behave like the
\* latch: an order is sent only while no other is open.
LatchSpec == Latch!Spec
=============================================================================
