-------------------------- MODULE MCLiveExecution --------------------------
(***************************************************************************)
(* Instances of LiveExecution for TLC.                                     *)
(***************************************************************************)
EXTENDS LiveExecution, TLC

CONSTANTS btc, eth, o1, o2, o3

\* Two orders of one symbol, the least for a duplicate.
OneSymbol == o1 :> btc @@ o2 :> btc

\* Two orders of one symbol and one of another, for the slots.
TwoSymbols == OneSymbol @@ o3 :> eth

\* The two orders of the first symbol are alike.
Alike == Permutations({o1, o2})
=============================================================================
