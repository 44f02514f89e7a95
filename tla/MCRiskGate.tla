----------------------------- MODULE MCRiskGate -----------------------------
(* Instance of RiskGate: two majors and one of another group. *)
EXTENDS RiskGate

CONSTANTS btc, eth, doge

Groups == [s \in {btc, eth, doge} |-> IF s = doge THEN "alts_beta" ELSE "majors"]

Sig(s, side, grade) == [symbol |-> s, side |-> side, grade |-> grade]

SomeSignals ==
    {Sig(btc, "LONG", "fair"), Sig(btc, "LONG", "excellent"), Sig(eth, "LONG", "fair"),
     Sig(eth, "LONG", "excellent"), Sig(eth, "SHORT", "fair"), Sig(doge, "SHORT", "top")}
=============================================================================
