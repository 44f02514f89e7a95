---------------------------- MODULE PaperTrading ----------------------------
(***************************************************************************)
(* The paper trading side of the bot: PaperTrader keeps the simulated      *)
(* positions in memory and a row per trade in table trades;                *)
(* PaperReconciler closes rows behind its back, from the labels of the     *)
(* triple-barrier labeler or by age, and the trader then reloads its       *)
(* positions from the table.  The reconciler also exists as a command      *)
(* (research_lab reconcile-paper), another process on the same tables.     *)
(* Every database transaction is a step; DbFails lets each of them raise.  *)
(***************************************************************************)
EXTENDS Integers, FiniteSets

CONSTANTS Symbol,
          Key,          \* (symbol, side, entry price within the tolerance)
          SymOf,        \* the symbol of a key
          MaxTrades,    \* bound on the rows of table trades
          MaxPositions, \* position slots
          MaxCrashes,   \* bound on process crashes
          MaxCommands,  \* bound on runs of the command reconcile-paper
          DbFails,      \* whether a database call may raise
          LabelBarriers \* the barriers that labels may name

Barrier == {"SL", "TP1", "TP2", "TIME"}

\* _status_from_barrier
StatusFromBarrier(b) ==
    [SL |-> "STOP_LOSS", TP1 |-> "TAKE_PROFIT_1",
     TP2 |-> "TAKE_PROFIT_2", TIME |-> "TIME_EXIT"][b]

ASSUME PaperAssumption ==
    /\ IsFiniteSet(Key) /\ Key # {}
    /\ SymOf \in [Key -> Symbol]
    /\ MaxTrades \in Nat /\ MaxPositions \in Nat
    /\ MaxCrashes \in Nat /\ MaxCommands \in Nat
    /\ DbFails \in BOOLEAN
    /\ LabelBarriers \subseteq Barrier

Trade == 1..MaxTrades   \* trades.id, given in the order of opening
NoTrade == 0

VARIABLES
    \* the worker process, lost in a crash
    pc,
    positions,  \* PaperTrader.positions: the trade tracked for each symbol
    tp1Hit,     \* tracked trades whose stop was moved to break-even
    todo,       \* selected signals (their keys) not opened yet
    current,    \* trade between record_trade and the end of its signal
    watch,      \* symbols monitor has still to look at
    batch,      \* rows the reconciler has read and not yet treated
    anyClosed,  \* the reconciler has closed a row
    booted,     \* startup is over
    \* the database
    key,        \* symbol, side and entry of each trade
    status,     \* trades.status
    closedBy,   \* trades.error_message: the label that closed the row
    operated,   \* signal_observations.operated, by trade
    outcome,    \* signal_labels.first_barrier_hit of the trade's observation
    latest,     \* newest label of an operated observation, by key
    \* the rest of the world
    old,        \* trades older than max_holding_bars
    announced,  \* trades whose "Stop movido a break-even" was sent
    cmdBatch,   \* rows the command has read and not yet treated
    commands, crashes

worker == <<pc, positions, tp1Hit, todo, current, watch, batch, anyClosed, booted>>
tables == <<key, status, closedBy, operated, outcome, latest>>
outside == <<old, announced, cmdBatch, commands, crashes>>
vars == <<worker, tables, outside>>

Status == {"none", "PAPER_OPEN"} \cup {StatusFromBarrier(b) : b \in Barrier}

\* Where the price is, seen from the position: at or beyond the original
\* stop, between stop and entry, between entry and TP1, between TP1 and TP2,
\* at or beyond TP2.
Level == 0..4

Recorded == {t \in Trade : status[t] # "none"}
OpenRows == {t \in Trade : status[t] = "PAPER_OPEN"}  \* fetch_open_paper_trades
ClosedRows == Recorded \ OpenRows
SymbolOf(t) == SymOf[key[t]]
Tracked == {positions[s] : s \in Symbol} \ {NoTrade}
First(S) == CHOOSE t \in S : \A u \in S : t <= u       \* ORDER BY timestamp ASC

\* Types of the worker's memory and of the tables.
TypeOK ==
    /\ pc \in {"down", "boot", "load", "label", "plan", "open", "insert", "mark",
               "monitor", "due", "reconcile"}
    /\ positions \in [Symbol -> Trade \cup {NoTrade}]
    /\ tp1Hit \subseteq Trade /\ todo \subseteq Key
    /\ current \in Trade \cup {NoTrade}
    /\ watch \subseteq Symbol /\ batch \subseteq Trade
    /\ anyClosed \in BOOLEAN /\ booted \in BOOLEAN
    /\ key \in [Trade -> Key]
    /\ status \in [Trade -> Status]
    /\ closedBy \in [Trade -> Trade \cup {NoTrade}]
    /\ operated \subseteq Trade
    /\ outcome \in [Trade -> {"none"} \cup Barrier]
    /\ latest \in [Key -> Trade \cup {NoTrade}]
    /\ old \subseteq Trade /\ announced \subseteq Trade /\ cmdBatch \subseteq Trade
    /\ commands \in 0..MaxCommands /\ crashes \in 0..MaxCrashes

NoPositions == [s \in Symbol |-> NoTrade]

Init ==
    /\ pc = "boot" /\ booted = FALSE
    /\ positions = NoPositions /\ tp1Hit = {}
    /\ todo = {} /\ current = NoTrade /\ watch = {} /\ batch = {} /\ anyClosed = FALSE
    /\ key \in [Trade -> {CHOOSE k \in Key : TRUE}]
    /\ status = [t \in Trade |-> "none"]
    /\ closedBy = [t \in Trade |-> NoTrade]
    /\ operated = {}
    /\ outcome = [t \in Trade |-> "none"]
    /\ latest = [k \in Key |-> NoTrade]
    /\ old = {} /\ announced = {} /\ cmdBatch = {}
    /\ commands = 0 /\ crashes = 0

Goto(label) == pc' = label

\* An exception leaves the cycle; the handler sleeps and a new cycle begins.
AbortCycle ==
    /\ DbFails
    /\ Goto("label")
    /\ todo' = {} /\ current' = NoTrade /\ watch' = {} /\ batch' = {} /\ anyClosed' = FALSE
    /\ UNCHANGED <<positions, tp1Hit, booted, tables, outside>>

-----------------------------------------------------------------------------
\* The first part of the cycle: _label_matured_observations.

\* Observations are labelled at any age, whether their trade is open or not.
Label(t, b) ==
    /\ pc = "label"
    /\ t \in Recorded /\ outcome[t] = "none"
    /\ outcome' = [outcome EXCEPT ![t] = b]
    /\ latest' = IF t \in operated THEN [latest EXCEPT ![key[t]] = t] ELSE latest
    /\ UNCHANGED <<worker, key, status, closedBy, operated, outside>>

LabelDone ==
    /\ pc = "label"
    /\ Goto("plan")
    /\ UNCHANGED <<positions, tp1Hit, todo, current, watch, batch, anyClosed, booted, tables, outside>>

\* Allocator and RiskManager: one signal at most for each symbol without a
\* tracked position, within the free slots.
Plan ==
    /\ pc = "plan"
    /\ \E S \in SUBSET {k \in Key : positions[SymOf[k]] = NoTrade} :
          /\ \A k, l \in S : SymOf[k] = SymOf[l] => k = l
          /\ Cardinality(S) + Cardinality(Recorded) <= MaxTrades
          /\ S = {} \/ Cardinality(S) + Cardinality(Tracked) <= MaxPositions
          /\ todo' = S
    /\ Goto("open")
    /\ UNCHANGED <<positions, tp1Hit, current, watch, batch, anyClosed, booted, tables, outside>>

-----------------------------------------------------------------------------
\* PaperTrader.open_position and what the loop does after it.

\* A query of the selection raises, before any attempt or between two, or the
\* event that reports a failed one.
OpeningRaises == pc = "open" /\ AbortCycle

\* Refused (margin), or record_trade raises: the signal is skipped.
OpenFails(k) ==
    /\ pc = "open" /\ k \in todo
    /\ todo' = todo \ {k}
    /\ UNCHANGED <<pc, positions, tp1Hit, current, watch, batch, anyClosed, booted, tables, outside>>

\* Mutant: the row gets the status of the older versions of the bot.
RecordTradeLegacyStatus(k) ==
    /\ pc = "open" /\ k \in todo
    /\ positions[SymOf[k]] = NoTrade /\ Cardinality(Tracked) < MaxPositions
    /\ LET t == First(Trade \ Recorded) IN
          /\ status' = [status EXCEPT ![t] = "OPEN"]
          /\ key' = [key EXCEPT ![t] = k]
          /\ current' = t
    /\ todo' = todo \ {k}
    /\ Goto("insert")
    /\ UNCHANGED <<positions, tp1Hit, watch, batch, anyClosed, booted,
                   closedBy, operated, outcome, latest, outside>>

\* record_trade, after the checks of symbol and slots.
RecordTrade(k) ==
    /\ pc = "open" /\ k \in todo
    /\ positions[SymOf[k]] = NoTrade /\ Cardinality(Tracked) < MaxPositions
    /\ LET t == First(Trade \ Recorded) IN
          /\ status' = [status EXCEPT ![t] = "PAPER_OPEN"]
          /\ key' = [key EXCEPT ![t] = k]
          /\ current' = t
    /\ todo' = todo \ {k}
    /\ Goto("insert")
    /\ UNCHANGED <<positions, tp1Hit, watch, batch, anyClosed, booted,
                   closedBy, operated, outcome, latest, outside>>

\* The new position enters the dictionary.
InsertPosition ==
    /\ pc = "insert"
    /\ positions' = [positions EXCEPT ![SymbolOf(current)] = current]
    /\ Goto("mark")
    /\ UNCHANGED <<tp1Hit, todo, current, watch, batch, anyClosed, booted, tables, outside>>

\* The event of the attempt and the flag operated of the observation.  When
\* the event raises, the open position is taken for a failed one.
MarkOperated ==
    /\ pc = "mark"
    /\ \/ operated' = operated \cup {current}
       \/ DbFails /\ UNCHANGED operated
    /\ current' = NoTrade
    /\ Goto("open")
    /\ UNCHANGED <<positions, tp1Hit, todo, watch, batch, anyClosed, booted,
                   key, status, closedBy, outcome, latest, outside>>

MarkRaises == pc = "mark" /\ AbortCycle

-----------------------------------------------------------------------------
\* PaperTrader.monitor, one tracked symbol at a time.

MonitorStart ==
    /\ pc = "open" /\ todo = {}
    /\ watch' = {s \in Symbol : positions[s] # NoTrade}
    /\ Goto("monitor")
    /\ UNCHANGED <<positions, tp1Hit, todo, current, batch, anyClosed, booted, tables, outside>>

HitStop(t, level) == level <= IF t \in tp1Hit THEN 1 ELSE 0

\* _close: the row first, then the dictionary.
Close(s, barrier) ==
    /\ status' = [status EXCEPT ![positions[s]] = barrier]
    /\ closedBy' = [closedBy EXCEPT ![positions[s]] = NoTrade]
    /\ positions' = [positions EXCEPT ![s] = NoTrade]

\* No price for the symbol in this cycle.
MonitorNoPrice(s) ==
    /\ pc = "monitor" /\ s \in watch
    /\ watch' = watch \ {s}
    /\ UNCHANGED <<pc, positions, tp1Hit, todo, current, batch, anyClosed, booted, tables, outside>>

MonitorStop(s, level) ==
    /\ pc = "monitor" /\ s \in watch
    /\ HitStop(positions[s], level)
    /\ Close(s, "STOP_LOSS")
    /\ tp1Hit' = tp1Hit \ {positions[s]}
    /\ watch' = watch \ {s}
    /\ UNCHANGED <<pc, todo, current, batch, anyClosed, booted,
                   key, operated, outcome, latest, outside>>

\* Mutant: error_message is left as it is.
TouchKeepsReason(s) ==
    /\ status' = [status EXCEPT ![positions[s]] = "PAPER_OPEN"]
    /\ UNCHANGED <<positions, closedBy>>

\* The update of the row that ends each look at a live position.
Touch(s) ==
    /\ status' = [status EXCEPT ![positions[s]] = "PAPER_OPEN"]
    /\ closedBy' = [closedBy EXCEPT ![positions[s]] = NoTrade]
    /\ UNCHANGED positions

\* TP1 moves the stop to the entry; TP2 closes; otherwise the row is updated.
MonitorHold(s, level) ==
    /\ pc = "monitor" /\ s \in watch
    /\ ~HitStop(positions[s], level)
    /\ LET t == positions[s] IN
          /\ announced' = IF level >= 3 THEN announced \cup {t} ELSE announced
          /\ tp1Hit' = (IF level >= 3 THEN tp1Hit \cup {t} ELSE tp1Hit)
                       \ (IF level = 4 THEN {t} ELSE {})
    /\ IF level = 4 THEN Close(s, "TAKE_PROFIT_2") ELSE Touch(s)
    /\ watch' = watch \ {s}
    /\ UNCHANGED <<pc, todo, current, batch, anyClosed, booted,
                   key, operated, outcome, latest, old, cmdBatch, commands, crashes>>

\* The row update raises; a stop that was moved stays moved.
MonitorRaises(s, level) ==
    /\ DbFails
    /\ pc = "monitor" /\ s \in watch
    /\ LET moves == ~HitStop(positions[s], level) /\ level >= 3 IN
          /\ tp1Hit' = IF moves THEN tp1Hit \cup {positions[s]} ELSE tp1Hit
          /\ announced' = IF moves THEN announced \cup {positions[s]} ELSE announced
    /\ Goto("label") /\ watch' = {}
    /\ UNCHANGED <<positions, todo, current, batch, anyClosed, booted, tables,
                   old, cmdBatch, commands, crashes>>

MonitorDone ==
    /\ pc = "monitor" /\ watch = {}
    /\ Goto("due")
    /\ UNCHANGED <<positions, tp1Hit, todo, current, watch, batch, anyClosed, booted, tables, outside>>

-----------------------------------------------------------------------------
\* PaperReconciler.reconcile, at startup and in _reconcile_paper_if_due.

ReconcileNotDue ==
    /\ pc = "due"
    /\ Goto("label")
    /\ UNCHANGED <<positions, tp1Hit, todo, current, watch, batch, anyClosed, booted, tables, outside>>

\* Mutant: the query has no condition on the status.
ReconcileStartAllRows ==
    /\ pc \in {"boot", "due"}
    /\ batch' = Recorded /\ anyClosed' = FALSE
    /\ Goto("reconcile")
    /\ UNCHANGED <<positions, tp1Hit, todo, current, watch, booted, tables, outside>>

ReconcileStart ==
    /\ pc \in {"boot", "due"}
    /\ batch' = OpenRows /\ anyClosed' = FALSE
    /\ Goto("reconcile")
    /\ UNCHANGED <<positions, tp1Hit, todo, current, watch, booted, tables, outside>>

\* The rows cannot be read: nothing to do this time.
ReconcileReadFails ==
    /\ DbFails
    /\ pc \in {"boot", "due"}
    /\ Goto(IF booted THEN "label" ELSE "load")
    /\ UNCHANGED <<positions, tp1Hit, todo, current, watch, batch, anyClosed, booted, tables, outside>>

\* find_label_for_paper_trade: the newest label of an operated observation
\* with the same symbol and side and nearly the same entry.
LabelFor(t) == latest[key[t]]

\* _close_by_label or _close_by_time on row t.
CloseRow(t) ==
    IF LabelFor(t) # NoTrade
      THEN /\ status' = [status EXCEPT ![t] = StatusFromBarrier(outcome[LabelFor(t)])]
           /\ closedBy' = [closedBy EXCEPT ![t] = LabelFor(t)]
      ELSE /\ status' = [status EXCEPT ![t] = "TIME_EXIT"]
           /\ closedBy' = [closedBy EXCEPT ![t] = NoTrade]

\* Mutant: age is not looked at.
DueByLabelOnly(t) == LabelFor(t) # NoTrade

Due(t) == LabelFor(t) # NoTrade \/ t \in old

\* The loop over the rows that were read.
ReconcileClose(t) ==
    /\ pc = "reconcile" /\ t \in batch /\ t = First(batch)
    /\ Due(t) /\ CloseRow(t)
    /\ anyClosed' = TRUE
    /\ batch' = batch \ {t}
    /\ UNCHANGED <<pc, positions, tp1Hit, todo, current, watch, booted,
                   key, operated, outcome, latest, outside>>

\* Neither label nor age, or an error of this row.
ReconcileLeave(t) ==
    /\ pc = "reconcile" /\ t \in batch /\ t = First(batch)
    /\ ~Due(t) \/ DbFails
    /\ batch' = batch \ {t}
    /\ UNCHANGED <<pc, positions, tp1Hit, todo, current, watch, anyClosed, booted, tables, outside>>

\* load_open_positions_from_db into an empty dictionary: of several rows of a
\* symbol the oldest, with the stop and the targets of the row.
Loaded == [s \in Symbol |->
    LET rows == {t \in OpenRows : SymbolOf(t) = s}
    IN IF rows = {} THEN NoTrade ELSE First(rows)]

\* Mutant: the positions are cleared and not loaded again.
ReloadClearsOnly ==
    /\ pc = "reconcile" /\ batch = {} /\ booted /\ anyClosed
    /\ positions' = NoPositions /\ tp1Hit' = {}
    /\ Goto("label") /\ anyClosed' = FALSE
    /\ UNCHANGED <<todo, current, watch, batch, booted, tables, outside>>

\* Mutant: the dictionary is not cleared before it is loaded.
ReloadWithoutClear ==
    /\ pc = "reconcile" /\ batch = {} /\ booted /\ anyClosed
    /\ positions' = [s \in Symbol |-> IF positions[s] = NoTrade THEN Loaded[s] ELSE positions[s]]
    /\ tp1Hit' = {}
    /\ Goto("label") /\ anyClosed' = FALSE
    /\ UNCHANGED <<todo, current, watch, batch, booted, tables, outside>>

\* After a periodic run that closed something: clear, then load.
Reload ==
    /\ pc = "reconcile" /\ batch = {} /\ booted /\ anyClosed
    /\ \/ positions' = Loaded
       \/ DbFails /\ positions' = NoPositions
    /\ tp1Hit' = {}
    /\ Goto("label") /\ anyClosed' = FALSE
    /\ UNCHANGED <<todo, current, watch, batch, booted, tables, outside>>

\* The run closed nothing, it was the one at startup, or the event that
\* reports it raises before the positions are reloaded.
ReconcileDone ==
    /\ pc = "reconcile" /\ batch = {}
    /\ ~booted \/ ~anyClosed \/ DbFails
    /\ Goto(IF booted THEN "label" ELSE "load") /\ anyClosed' = FALSE
    /\ UNCHANGED <<positions, tp1Hit, todo, current, watch, batch, booted, tables, outside>>

\* main, after the reconciliation at startup.
LoadAtStart ==
    /\ pc = "load"
    /\ \/ positions' = Loaded
       \/ DbFails /\ UNCHANGED positions
    /\ booted' = TRUE
    /\ Goto("label")
    /\ UNCHANGED <<tp1Hit, todo, current, watch, batch, anyClosed, tables, outside>>

-----------------------------------------------------------------------------
\* The world outside the worker.

\* max_holding_bars pass.
GrowOld(t) ==
    /\ t \in Recorded \ old
    /\ old' = old \cup {t}
    /\ UNCHANGED <<worker, tables, announced, cmdBatch, commands, crashes>>

\* python -m app.research_lab reconcile-paper, in a process of its own.
CommandStart ==
    /\ commands < MaxCommands /\ cmdBatch = {}
    /\ commands' = commands + 1
    /\ cmdBatch' = OpenRows
    /\ UNCHANGED <<worker, tables, old, announced, crashes>>

CommandRow(t) ==
    /\ t \in cmdBatch /\ t = First(cmdBatch)
    /\ cmdBatch' = cmdBatch \ {t}
    /\ IF Due(t) THEN CloseRow(t) ELSE UNCHANGED <<status, closedBy>>
    /\ UNCHANGED <<worker, key, operated, outcome, latest, old, announced, commands, crashes>>

Crash ==
    /\ pc # "down" /\ crashes < MaxCrashes
    /\ crashes' = crashes + 1
    /\ Goto("down") /\ booted' = FALSE
    /\ positions' = NoPositions /\ tp1Hit' = {}
    /\ todo' = {} /\ current' = NoTrade /\ watch' = {} /\ batch' = {} /\ anyClosed' = FALSE
    /\ UNCHANGED <<tables, old, announced, cmdBatch, commands>>

\* A new process; with both reconcile_on_start options off it only loads.
Restart ==
    /\ pc = "down"
    /\ Goto("boot") \/ Goto("load")
    /\ UNCHANGED <<positions, tp1Hit, todo, current, watch, batch, anyClosed, booted, tables, outside>>

Labelling == LabelDone \/ \E t \in Trade, b \in LabelBarriers : Label(t, b)

Opening ==
    \/ Plan \/ InsertPosition \/ MarkOperated \/ MarkRaises \/ OpeningRaises
    \/ \E k \in Key : OpenFails(k) \/ RecordTrade(k)

Monitoring ==
    \/ MonitorStart \/ MonitorDone
    \/ \E s \in Symbol :
          \/ MonitorNoPrice(s)
          \/ \E level \in Level :
                MonitorStop(s, level) \/ MonitorHold(s, level) \/ MonitorRaises(s, level)

Reconciling ==
    \/ ReconcileNotDue \/ ReconcileStart \/ ReconcileReadFails
    \/ Reload \/ ReconcileDone \/ LoadAtStart
    \/ \E t \in Trade : ReconcileClose(t) \/ ReconcileLeave(t)

WorkerStep == Labelling \/ Opening \/ Monitoring \/ Reconciling \/ Restart

Command == CommandStart \/ \E t \in Trade : CommandRow(t)

Next == WorkerStep \/ Command \/ Crash \/ \E t \in Trade : GrowOld(t)

Spec == Init /\ [][Next]_vars

-----------------------------------------------------------------------------
\* Safety, with a database that answers and no command beside the worker.

\* When a cycle begins, the positions in memory are exactly the PAPER_OPEN
\* rows of the table: a reconciliation that closes rows, a restart or a
\* crash in the middle of an opening leaves none of the two behind.
MemoryIsTable ==
    pc \in {"label", "plan", "due"} => Tracked = OpenRows

Book == INSTANCE TradeBook
          WITH open <- OpenRows, closed <- ClosedRows, symbol <- [t \in Trade |-> SymbolOf(t)]

\* The table behaves like a book of trades, each opened once in a free slot
\* of a free symbol and closed once, crashes and reconciliations included.
BookSpec == Book!Spec

\* Safety, with a database that fails at any call.

\* Status and reason of a row are one write: a row that names a label has the
\* barrier of that label, whichever of the trader, the reconciler and a command
\* beside them wrote last, and the label is of the same symbol, side and entry.
ReasonMatchesStatus ==
    \A t \in Trade :
        closedBy[t] # NoTrade =>
          /\ status[t] = StatusFromBarrier(outcome[closedBy[t]])
          /\ key[closedBy[t]] = key[t] /\ closedBy[t] \in operated

\* A closed row that the trader no longer tracks is final: neither status nor
\* reason is ever written again.
UntrackedIsFinal ==
    [][\A t \in ClosedRows \ Tracked :
          status'[t] = status[t] /\ closedBy'[t] = closedBy[t]]_vars

-----------------------------------------------------------------------------
\* What the repository says and the code does not do.

\* "Stop movido a break-even": while the position is tracked its stop stays
\* at the entry.
BreakEvenIsKept == Tracked \cap announced \subseteq tp1Hit

\* A row that was closed is never opened again.
ClosedStaysClosed == [][OpenRows' \cap ClosedRows = {}]_vars

-----------------------------------------------------------------------------
\* Liveness.  The worker keeps running, time passes, cycles without a selected
\* signal keep coming, and a database call that is made for ever succeeds some
\* day.
FairSpec ==
    /\ Spec
    /\ WF_vars(WorkerStep)
    /\ SF_vars(Plan /\ todo' = {}) /\ SF_vars(MonitorStart) /\ SF_vars(ReconcileStart)
    /\ WF_vars(\E t \in Trade : GrowOld(t))
    /\ \A t \in Trade : SF_vars(ReconcileClose(t))
    /\ \A s \in Symbol : SF_vars(\E l \in Level : MonitorStop(s, l) \/ MonitorHold(s, l))

\* No paper trade stays open for ever, not even a row that the trader lost
\* sight of: it is closed by its prices, by a label or by its age.
OpenIsEventuallyClosed ==
    \A t \in Trade : (status[t] = "PAPER_OPEN") ~> (t \in ClosedRows)
=============================================================================
