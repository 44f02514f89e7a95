----------------------------- MODULE MCResearch -----------------------------
\* The three places where the program collects what research is done on: the
\* trades of the exchange, the paths of prices after a signal and the labels of
\* observations.  They share no state, so one of them runs at a time and the
\* others stay as they began; the states are the sum of theirs.  Labels run in
\* two ways: with all observations and symbols, one candle less and no target to
\* touch, and with one observation, of a symbol that stays, for all candles.  Of
\* the collectors there is one (MCLocks has two).
EXTENDS PathMetrics, Labeling

CONSTANTS Proc, LockTtl, Replay, TailRows, FlushN, MaxTrades, MaxLosses   \* of TradeCollector

CONSTANTS k1, k2, k3
Buckets == [k \in {k2, k3} |-> IF k = k2 THEN 1 ELSE 2]

VARIABLES part, pc, lock, seen, buf, pos, ended, file, published, covered, gone, cause, losses

Trades == INSTANCE TradeCollector WITH Ttl <- LockTtl, MaxFaults <- MaxLosses, faults <- losses

ASSUME ResearchAssumption == Trades!CollectorAssumption

tradeVars == <<pc, lock, seen, buf, pos, ended, file, published, covered, gone, cause, losses>>
allVars == <<part, tradeVars, metricVars, labelVars>>

\* The candles there are, and a step of the labels within them.
\* Symbols are interchangeable: the first observation is of one of them.
First == CHOOSE s \in Symbol : TRUE
LastBar == IF part = "many" THEN MaxBar - 1 ELSE MaxBar
Labels(step) ==
    /\ part \in {"many", "late"}
    /\ step
    /\ bar' <= LastBar
    /\ symbol'[1] \in {"none", First}
    /\ part = "many" => \A o \in Obs : \A i \in DOMAIN path'[o] : "tp" \notin path'[o][i]
    /\ part = "late" => dropped' = {} /\ frame'.of \in {{}, Symbol} /\ \A o \in Obs \ {1} : born'[o] = 0

ResearchInit ==
    /\ part \in {"trades", "paths", "many", "late"}
    /\ Trades!Init /\ MetricsInit /\ LabelInit

ResearchNext ==
    /\ UNCHANGED part
    /\ \/ part = "trades" /\ Trades!Next /\ UNCHANGED <<metricVars, labelVars>>
       \/ part = "paths" /\ MetricsNext /\ UNCHANGED <<tradeVars, labelVars>>
       \/ Labels(LabelNext) /\ UNCHANGED <<tradeVars, metricVars>>

\* What each module asks of its scheduler, for the part that runs.
PathsGoOn ==
    /\ WF_metricVars(part = "paths" /\ (ProbeNext \/ ProbeEnd \/ UpdateRow))
    /\ WF_metricVars(part = "paths" /\ UpdateStart)
LabelsGoOn ==
    /\ WF_labelVars(Labels(Fetch \/ ReadPending \/ LabelOne))
    /\ WF_labelVars(Labels(NextBar))

ResearchSpec == ResearchInit /\ [][ResearchNext]_allVars /\ Trades!Fairness /\ PathsGoOn /\ LabelsGoOn
-----------------------------------------------------------------------------
\* The variables of every part keep their types.
ResearchTypeOK == Trades!TypeOK /\ MetricsTypeOK /\ LabelTypeOK

\* A delivered trade does not wait for ever
\* (labs/bybit_trades_ws_persistent_v10_43c.py:257-262, 282-284).
DeliveredIsSettled == Trades!DeliveredIsSettled

\* Every observation whose horizon is reached gets its label, however many wait
\* before it, but for symbols that are downloaded no more
\* (main.py:1341-1357, database.py:2778); see Labeling.
EveryObservationIsLabelled ==
    \A o \in Obs : \/ [](born[o] \in 1..(LastBar - MaxHold) => <>(label[o] # NoLabel))
                  \/ <>[](symbol[o] \in dropped \/ Blocked(o))
=============================================================================
