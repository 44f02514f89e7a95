------------------------------ MODULE RiskGate ------------------------------
(***************************************************************************)
(* What stands between a signal and an opening, in paper and in live mode: *)
(* PortfolioAllocator.allocate, RiskManager.validate_signal with its sizing *)
(* and the checks of PaperTrader.open_position, in the selection loop of    *)
(* main.py.  The loop works on what it read when it began: the positions,   *)
(* the balance of the last refresh and the profits of the day and the week. *)
(*                                                                         *)
(* Amounts are whole USDT.  A cap that the code computes as a product is    *)
(* rounded down, a floor up.                                               *)
(***************************************************************************)
EXTENDS Integers, Sequences, FiniteSets, FiniteSetsExt, SequencesExt

CONSTANTS
    Symbol, GroupOf,           \* symbols and their correlation group
    Signal,                    \* signals above the threshold the engine may produce
    Modes,                     \* the modes to explore: "paper", "live"
    Capital,                   \* STARTING_CAPITAL_USDT
    MaxOpen, SmallMaxOpen,     \* MAX_OPEN_POSITIONS, SMALL_ACCOUNT_MAX_OPEN_POSITIONS
    AllowSecond,               \* ALLOW_SECOND_POSITION_SMALL_ACCOUNT
    FixedMargin, MaxMargin, MinMargin,   \* TRADE_, MAX_TRADE_, MIN_TRADE_MARGIN_USDT
    TradePct, TotalPct, FreePct, Buffer, \* margin per trade, in total, left free
    DayPct, WeekPct,           \* MAX_DAILY_LOSS, MAX_WEEKLY_LOSS
    StopBelow,                 \* STOP_TRADING_BELOW_BALANCE_USDT
    MaxApiFailures,            \* 3 in the code
    Step,                      \* how far rounding the quantity moves the margin
    MaxLoss, Gain,             \* what a trade may lose or win
    DaysPerWeek, MaxDay, MaxTrades

ASSUME ConstantsAssumption ==
    /\ IsFiniteSet(Symbol)
    /\ Signal \subseteq [symbol : Symbol, side : {"LONG", "SHORT"},
                          grade : {"fair", "excellent", "top"}]
    /\ Modes \subseteq {"paper", "live"}
    /\ {Capital, MaxOpen, SmallMaxOpen, FixedMargin, MaxMargin, MinMargin, TradePct, TotalPct,
        FreePct, Buffer, DayPct, WeekPct, StopBelow, MaxApiFailures, Step, MaxLoss, Gain,
        MaxTrades} \subseteq Nat
    /\ {MaxDay, DaysPerWeek} \subseteq Nat \ {0}
    /\ AllowSecond \in BOOLEAN
    /\ FreePct <= 100                 \* a share of the balance; above 1 the code reads an amount
    /\ MinMargin - Step >= MaxLoss    \* isolated margin: a trade loses its margin at most

VARIABLES
    mode,        \* "paper" or "live"
    pc,          \* "idle", "select" (the selection loop) or "monitor"
    positions,   \* by symbol: memory of the paper trader, or the exchange
    known,       \* by symbol: margin of the position when the loop began, 0 for none
    todo,        \* selected signals not yet handled
    reduce,      \* the news ask for half the risk
    pnl,         \* profits read when the loop began: [day, week]
    balance,     \* main's balance: Capital, or equity at the last refresh
    halved,      \* live: since it was flat, the account opened on half its balance (history)
    equity,      \* equity of the account
    booked,      \* by day: realized_pnl of the trades opened that day, as the table sums it
    suffered,    \* by day: profit of the trades closed that day (history)
    day,
    fails,       \* RiskManager.api_failure_count
    trades       \* openings so far (bounds the model)

vars == <<mode, pc, positions, known, todo, reduce, pnl, balance, halved, equity, booked, suffered,
          day, fails, trades>>

(* A signal is fair from the threshold, excellent from 85 and top from 90. *)
Excellent(s) == s.grade # "fair"

NoPosition == [mem |-> 0, real |-> 0, day |-> 0, side |-> "NONE", excellent |-> FALSE]
Open == {s \in Symbol : positions[s].day > 0}
Total(f) == FoldFunction(+, 0, f)
Memory(f) == Total([s \in Symbol |-> f[s].mem])
Real(f) == Total([s \in Symbol |-> f[s].real])
KnownMargin == Total(known)
KnownOpen == {s \in Symbol : known[s] > 0}
WeekOf(d) == (d - 1) \div DaysPerWeek
DaysOfWeek(d) == {e \in 1..MaxDay : WeekOf(e) = WeekOf(d)}
WeekPnl(f, d) == Total([e \in DaysOfWeek(d) |-> f[e]])
-----------------------------------------------------------------------------
(* PortfolioAllocator.allocate *)

AllocatorSlots(highVolatility) ==
    LET byBalance == IF balance < 30 \/ (balance <= 60 /\ ~AllowSecond) THEN 1
                     ELSE IF balance <= 60 THEN SmallMaxOpen ELSE MaxOpen
    IN  IF highVolatility THEN Min({byBalance, 1}) ELSE byBalance

Remaining(highVolatility) == Max({0, AllocatorSlots(highVolatility) - Cardinality(Open)})

(* A slip: only the signals of this cycle are compared. *)
CorrelatedWithChosen(s, chosen) ==
    \E c \in ToSet(chosen) : GroupOf[c.symbol] = GroupOf[s.symbol] /\ c.side = s.side

Correlated(s, chosen) ==
    \/ \E p \in Open : GroupOf[p] = GroupOf[s.symbol]
    \/ \E c \in ToSet(chosen) : GroupOf[c.symbol] = GroupOf[s.symbol] /\ c.side = s.side

(* A slip: the selected signals are not counted against the free slots. *)
AdmitUncounted(chosen, s, slots) ==
    IF (Correlated(s, chosen) => Excellent(s)) /\ (Len(chosen) = 1 => Excellent(s))
    THEN Append(chosen, s)
    ELSE chosen

Admit(chosen, s, slots) ==
    IF /\ Len(chosen) < slots
       /\ Correlated(s, chosen) => Excellent(s)
       /\ Len(chosen) = 1 => Excellent(s)
    THEN Append(chosen, s)
    ELSE chosen

Allocate(ranked, slots) ==
    IF ranked = <<>> \/ slots = 0 THEN <<>>
    ELSE IF ranked[1].grade = "top" THEN <<ranked[1]>>
    ELSE FoldLeft(LAMBDA chosen, s : Admit(chosen, s, slots), <<>>, ranked)
-----------------------------------------------------------------------------
(* RiskManager *)

MaxPositions(b) ==
    IF b < 60 \/ (b <= 60 /\ ~AllowSecond) THEN SmallMaxOpen
    ELSE Min({MaxOpen, IF b <= 60 THEN SmallMaxOpen ELSE MaxOpen})

(* A slip: the sum of the day is taken for the one of the week. *)
WeeklyLossByDay(b) == pnl.day * 100 <= -(b * WeekPct)

DailyLossReached(b) == pnl.day * 100 <= -(b * DayPct)
WeeklyLossReached(b) == pnl.week * 100 <= -(b * WeekPct)

Preflight(s, b) ==
    /\ b >= StopBelow
    /\ fails < MaxApiFailures
    /\ ~DailyLossReached(b)
    /\ ~WeeklyLossReached(b)
    /\ Cardinality(KnownOpen) < MaxPositions(b)
    /\ s.symbol \notin KnownOpen

TotalCap(b) == Max({0, (b * TotalPct) \div 100 - Buffer})
FreeFloor(b) == Max({Buffer, (b * FreePct + 99) \div 100})
TradeCap(b, available) ==
    Min({MaxMargin, (available * TradePct) \div 100, Max({0, TotalCap(b) - KnownMargin})})
SelectedMargin(b, available) ==
    Min({FixedMargin, TradeCap(b, available), Max({0, available - FreeFloor(b)})})

Affordable(m, b, available) ==
    /\ m >= MinMargin
    /\ KnownMargin + m <= TotalCap(b)
    /\ available - m >= FreeFloor(b)

(* The margin of the order once its quantity is rounded down or up to the step *)
(* of the instrument.  The cap on the notional of a small account only makes it *)
(* less, and no property needs a margin to be large. *)
Rounded(m, b, available) ==
    {r \in {m - Step, m + Step} : r <= TradeCap(b, available) /\ KnownMargin + r <= TotalCap(b)}
-----------------------------------------------------------------------------
NoKnown == [s \in Symbol |-> 0]
NoPnl == [day |-> 0, week |-> 0]

(* The locals of a cycle mean nothing once it is over. *)
Forget ==
    /\ known' = NoKnown
    /\ todo' = <<>>
    /\ reduce' = FALSE
    /\ pnl' = NoPnl

Init ==
    /\ mode \in Modes
    /\ pc = "idle"
    /\ positions = [s \in Symbol |-> NoPosition]
    /\ known = NoKnown
    /\ todo = <<>>
    /\ reduce = FALSE
    /\ pnl = NoPnl
    /\ balance = Capital
    /\ halved = FALSE
    /\ equity = Capital
    /\ booked = [d \in 1..MaxDay |-> 0]
    /\ suffered = [d \in 1..MaxDay |-> 0]
    /\ day = 1
    /\ fails = 0
    /\ trades = 0

Rankings == {q \in SeqOf(Signal, Cardinality(Symbol)) :
                \A i, j \in 1..Len(q) : i # j => q[i].symbol # q[j].symbol}

(* sync_open_positions, allocate and the two sums of realized profits. *)
Plan ==
    /\ pc = "idle"
    /\ trades < MaxTrades
    /\ known' = [s \in Symbol |-> IF mode = "paper" THEN positions[s].mem ELSE positions[s].real]
    /\ \E ranked \in Rankings, highVolatility \in BOOLEAN :
            todo' = Allocate(ranked, Remaining(highVolatility))
    /\ todo' # <<>>
    /\ reduce' \in BOOLEAN
    /\ pnl' = [day |-> booked[day], week |-> WeekPnl(booked, day)]
    /\ pc' = "select"
    /\ UNCHANGED <<mode, positions, balance, halved, equity, booked, suffered, day, fails, trades>>

(* _refresh_live_account_balance for the signal about to be judged. *)
Refreshed == IF mode = "live" THEN equity ELSE balance
(* A slip: the positions of the beginning of the loop. *)
AvailableStale == IF mode = "live" THEN Max({0, equity - KnownMargin}) ELSE Capital
Available == IF mode = "live" THEN Max({0, equity - Real(positions)}) ELSE Capital
(* build_effective_balance_for_risk *)
Effective == IF reduce THEN Refreshed \div 2 ELSE Refreshed
EffectiveAvailable == Min({Available, Effective})

(* A signal that some check of the loop refuses, or an exception of open_position. *)
Skip ==
    /\ pc = "select"
    /\ todo # <<>>
    /\ todo' = Tail(todo)
    /\ balance' = Refreshed
    /\ UNCHANGED <<mode, pc, positions, known, reduce, pnl, halved, equity, booked, suffered, day, fails,
                   trades>>

(* A slip: the margin already reserved is left to the risk manager. *)
PaperAdmitsByCount(s, m) ==
    /\ s.symbol \notin Open
    /\ Cardinality(Open) < (IF Capital < 60 THEN SmallMaxOpen ELSE MaxOpen)

(* The checks of PaperTrader.open_position, on its own memory. *)
PaperAdmits(s, m) ==
    /\ s.symbol \notin Open
    /\ Cardinality(Open) < (IF Capital < 60 THEN SmallMaxOpen ELSE MaxOpen)
    /\ Memory(positions) + m < TotalCap(Capital)

(* An approved signal is opened: in memory and table, or on the exchange. *)
OpenPosition ==
    /\ pc = "select"
    /\ todo # <<>>
    /\ trades < MaxTrades
    /\ LET s == Head(todo)
           m == SelectedMargin(Effective, EffectiveAvailable)
       IN  /\ Refreshed >= StopBelow
           /\ Preflight(s, Effective)
           /\ Affordable(m, Effective, EffectiveAvailable)
           /\ mode = "paper" => PaperAdmits(s, m)
           /\ \E r \in Rounded(m, Effective, EffectiveAvailable) :
                positions' = [positions EXCEPT ![s.symbol] =
                    [mem |-> IF mode = "paper" THEN m ELSE r, real |-> r, day |-> day,
                     side |-> s.side, excellent |-> Excellent(s)]]
    /\ todo' = Tail(todo)
    /\ balance' = Refreshed
    /\ halved' = (mode = "live" /\ (reduce \/ (halved /\ Open # {})))
    /\ trades' = trades + 1
    /\ UNCHANGED <<mode, pc, known, reduce, pnl, equity, booked, suffered, day, fails>>

SelectDone ==
    /\ pc = "select"
    /\ todo = <<>>
    /\ pc' = "monitor"
    /\ Forget
    /\ UNCHANGED <<mode, positions, balance, halved, equity, booked, suffered, day,
                   fails, trades>>

(* A slip: the position gets its final status and stays in the dictionary. *)
PaperCloseKept(s) ==
    /\ mode = "paper"
    /\ pc = "monitor"
    /\ s \in Open
    /\ \E p \in {-MaxLoss, Gain} :
        /\ booked' = [booked EXCEPT ![positions[s].day] = @ + p]
        /\ suffered' = [suffered EXCEPT ![day] = @ + p]
    /\ positions' = [positions EXCEPT ![s].side = "CLOSED"]
    /\ UNCHANGED <<mode, pc, known, todo, reduce, pnl, balance, halved, equity, day, fails, trades>>

(* A slip: the profit stays in memory. *)
PaperCloseUnbooked(s) ==
    /\ mode = "paper"
    /\ pc = "monitor"
    /\ s \in Open
    /\ \E p \in {-MaxLoss, Gain} : suffered' = [suffered EXCEPT ![day] = @ + p]
    /\ positions' = [positions EXCEPT ![s] = NoPosition]
    /\ UNCHANGED <<mode, pc, known, todo, reduce, pnl, balance, halved, equity, booked, day, fails, trades>>

(* monitor or the reconciler closes a paper trade: the table adds its profit *)
(* to the day it was opened. *)
PaperClose(s) ==
    /\ mode = "paper"
    /\ pc = "monitor"
    /\ s \in Open
    /\ \E p \in {-MaxLoss, Gain} :
        /\ booked' = [booked EXCEPT ![positions[s].day] = @ + p]
        /\ suffered' = [suffered EXCEPT ![day] = @ + p]
    /\ positions' = [positions EXCEPT ![s] = NoPosition]
    /\ UNCHANGED <<mode, pc, known, todo, reduce, pnl, balance, halved, equity, day, fails, trades>>

(* The stop or the target of a live trade is hit on the exchange, at any time. *)
(* Nothing writes the profit to the table. *)
LiveClose(s) ==
    /\ mode = "live"
    /\ s \in Open
    /\ \E p \in {-MaxLoss, Gain} :
        /\ equity' = equity + p
        /\ suffered' = [suffered EXCEPT ![day] = @ + p]
    /\ positions' = [positions EXCEPT ![s] = NoPosition]
    /\ UNCHANGED <<mode, pc, known, todo, reduce, pnl, balance, halved, booked, day, fails, trades>>

(* Positions loaded from the rows carry the margin of the order, not the one selected. *)
Reloaded == [s \in Symbol |-> [positions[s] EXCEPT !.mem = positions[s].real]]

(* End of the cycle, with or without the reload of the reconciliation. *)
EndCycle ==
    /\ pc = "monitor"
    /\ pc' = "idle"
    /\ positions' \in {positions, Reloaded}
    /\ UNCHANGED <<mode, known, todo, reduce, pnl, balance, halved, equity, booked, suffered, day, fails,
                   trades>>

(* An exception leaves the cycle through the handler of main.py. *)
CycleFails ==
    /\ pc # "idle"
    /\ fails < MaxApiFailures
    /\ fails' = fails + 1
    /\ pc' = "idle"
    /\ Forget
    /\ UNCHANGED <<mode, positions, balance, halved, equity, booked, suffered, day, trades>>

(* Only the tables and the exchange survive a restart. *)
Restart ==
    /\ pc' = "idle"
    /\ Forget
    /\ fails' = 0
    /\ positions' = Reloaded
    /\ balance' = IF mode = "live" THEN equity ELSE Capital
    /\ UNCHANGED <<mode, halved, equity, booked, suffered, day, trades>>

Midnight ==
    /\ day < MaxDay
    /\ day' = day + 1
    /\ UNCHANGED <<mode, pc, positions, known, todo, reduce, pnl, balance, halved, equity, booked, suffered,
                   fails, trades>>

Next ==
    \/ Plan \/ Skip \/ OpenPosition \/ SelectDone
    \/ \E s \in Symbol : PaperClose(s) \/ LiveClose(s)
    \/ EndCycle \/ CycleFails \/ Restart \/ Midnight

Spec == Init /\ [][Next]_vars
-----------------------------------------------------------------------------
Slots == Max({MaxOpen, SmallMaxOpen})

(* Every variable keeps its type. *)
TypeOK ==
    /\ mode \in {"paper", "live"}
    /\ pc \in {"idle", "select", "monitor"}
    /\ positions \in [Symbol -> [mem : Nat, real : Nat, day : 0..MaxDay,
                                 side : {"NONE", "LONG", "SHORT"}, excellent : BOOLEAN]]
    /\ known \in [Symbol -> Nat]
    /\ todo \in Seq(Signal)
    /\ reduce \in BOOLEAN
    /\ pnl \in [day : Int, week : Int]
    /\ balance \in Int
    /\ halved \in BOOLEAN
    /\ equity \in Int
    /\ booked \in [1..MaxDay -> Int]
    /\ suffered \in [1..MaxDay -> Int]
    /\ day \in 1..MaxDay
    /\ fails \in 0..MaxApiFailures
    /\ trades \in 0..MaxTrades

(* The positions never outnumber the slots, although the loop counts the ones *)
(* it saw when it began (portfolio_allocator.py:63, risk_manager.py:505). *)
WithinSlots == Cardinality(Open) <= Slots

(* Of two open positions of one correlation group on one side, one came from an *)
(* excellent signal, also when they were opened in different cycles *)
(* (portfolio_allocator.py:77-87). *)
CorrelatedPairs ==
    \A s, t \in Open :
        (s # t /\ GroupOf[s] = GroupOf[t] /\ positions[s].side = positions[t].side) =>
            positions[s].excellent \/ positions[t].excellent

(* The paper trader's reserved margin stays below the cap, but for the rounding *)
(* that a reload from the rows brings in (paper_trader.py:85-88, 195-198). *)
PaperMarginBounded ==
    mode = "paper" /\ Open # {} =>
        Memory(positions) < TotalCap(Capital) + Step * Cardinality(Open)

(* A live account keeps its floor of free margin whatever the loop opens in one *)
(* cycle and whatever trades lose: each signal is judged on a balance read after *)
(* the previous order.  When the news halved the balance of an opening, what is *)
(* kept is the floor of half the equity (main.py:499, risk_manager.py:263). *)
FreeMarginKept ==
    mode = "live" /\ Open # {} =>
        equity - Real(positions) >= FreeFloor(IF halved THEN equity \div 2 ELSE equity) - Step

(* The trades opened on one day lose at most the daily limit and one loss for *)
(* each slot, because the sum is read before the openings and counts closed *)
(* trades only; and the same for a week (main.py:415, risk_manager.py:501). *)
LossesBounded ==
    mode = "paper" => \A d \in 1..MaxDay :
        /\ -booked[d] * 100 <= Capital * DayPct + Slots * MaxLoss * 100
        /\ -WeekPnl(booked, d) * 100 <= Capital * WeekPct + Slots * MaxLoss * 100

(* What a calendar day really loses may also hold the trades opened the day *)
(* before, which the sum by opening day does not show (database.py:3363). *)
DailyLossSuffered ==
    mode = "paper" => \A d \in 1..MaxDay :
        -suffered[d] * 100 <= Capital * DayPct + 2 * Slots * MaxLoss * 100

(* A cycle that begins when the losses of the day have reached the limit reads *)
(* a sum that blocks its entries (README.md:351, main.py:415, risk_manager.py:501). *)
LossLimitBlocksEntries ==
    [][(pc = "idle" /\ pc' = "select" /\ -suffered[day] * 100 >= Capital * DayPct) =>
           pnl'.day * 100 <= -(Capital * DayPct)]_vars
=============================================================================
