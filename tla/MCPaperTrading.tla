-------------------------- MODULE MCPaperTrading --------------------------
\* Model values for PaperTrading: one entry price for each of two symbols.
EXTENDS PaperTrading

CONSTANTS btc, eth, btcLow, ethLow

OneKey == {btcLow}
TwoKeys == {btcLow, ethLow}

SymOfKey == [k \in Key |-> IF k = ethLow THEN eth ELSE btc]

=============================================================================
