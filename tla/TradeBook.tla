----------------------------- MODULE TradeBook -----------------------------
(***************************************************************************)
(* What the paper trading side promises of the table trades: a trade is    *)
(* opened once and closed once, and the open trades never share a symbol   *)
(* or exceed the position slots.                                           *)
(***************************************************************************)
EXTENDS Naturals, FiniteSets

CONSTANTS Trade, MaxPositions

VARIABLES
    open,   \* trades that are open
    closed, \* trades that were closed
    symbol  \* the symbol of each trade

book == <<open, closed, symbol>>

Init == open = {} /\ closed = {}

Open(t) ==
    /\ t \notin open \cup closed
    /\ Cardinality(open) < MaxPositions
    /\ \A u \in open : symbol[u] # symbol'[t]
    /\ open' = open \cup {t}
    /\ \A u \in open \cup closed : symbol'[u] = symbol[u]
    /\ UNCHANGED closed

Close(t) ==
    /\ t \in open
    /\ open' = open \ {t}
    /\ closed' = closed \cup {t}
    /\ UNCHANGED symbol

Next == \E t \in Trade : Open(t) \/ Close(t)

Spec == Init /\ [][Next]_book
=============================================================================
