---------------------------- MODULE IntentLatch ----------------------------
(***************************************************************************)
(* What table execution_intents promises about live orders: one order is   *)
(* announced at a time, an order reaches the exchange only while it is the *)
(* announced one, and the next order waits until somebody settles it.      *)
(***************************************************************************)
CONSTANT Oid           \* client order ids

VARIABLES open,        \* announced and not settled
          sent         \* reached the exchange

Init == open = {} /\ sent = {}

\* A row PENDING_EXECUTION is written before the order leaves.
Announce(o) ==
    /\ open = {}
    /\ o \notin sent
    /\ open' = {o}
    /\ UNCHANGED sent

\* The exchange takes the order; it takes a client order id only once.
Send(o) ==
    /\ o \in open
    /\ o \notin sent
    /\ sent' = sent \cup {o}
    /\ UNCHANGED open

\* CONFIRMED, FAILED, or reconciled by hand.
Settle(o) ==
    /\ o \in open
    /\ open' = open \ {o}
    /\ UNCHANGED sent

Next == \E o \in Oid : Announce(o) \/ Send(o) \/ Settle(o)

Spec == Init /\ [][Next]_<<open, sent>>
=============================================================================
