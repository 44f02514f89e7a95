------------------------------ MODULE MCLocks ------------------------------
\* The five ways this program keeps processes and threads out of each other's
\* way.  They share no state, so one of them runs at a time and the others
\* stay as they began; the states are the sum of theirs, not the product.
EXTENDS WorkerLock, RateLimiter

CONSTANTS
    Watcher, Misled,                                     \* of WatchLock
    Thread, Requests, Keep, MaxSecond, MaxFaults,        \* of Backups
    Proc, LockTtl, Replay, TailRows, FlushN, MaxTrades, MaxLosses   \* of TradeCollector

VARIABLES part,
          wpc, lockFile, early, robbed,
          cpc, lock, cseen, buf, pos, ended, file, published, covered, gone, ccause, faults,
          at, backupLock, dir, second, name, listed, judged, doomed, rewritten, unread, backupFaults

Watch == INSTANCE WatchLock WITH pc <- wpc
Vault == INSTANCE Backups
Trades == INSTANCE TradeCollector WITH Ttl <- LockTtl, MaxFaults <- MaxLosses,
              pc <- cpc, seen <- cseen, cause <- ccause

ASSUME LocksAssumption ==
    Watch!WatchAssumption /\ Vault!BackupsAssumption /\ Trades!CollectorAssumption

tradeVars == <<cpc, lock, cseen, buf, pos, ended, file, published, covered, gone, ccause, faults>>
watchVars == <<wpc, lockFile, early, robbed>>
vaultVars == <<at, backupLock, dir, second, name, listed, judged, doomed, rewritten, unread, backupFaults>>
allVars == <<part, vars, limiterVars, watchVars, vaultVars, tradeVars>>

\* At the bound of its clock the limiter starts anew, as with a new process.
LimiterRestart ==
    /\ clock = MaxClock
    /\ clock' = 1 /\ granted' = <<>> /\ n' = 0 /\ first' = 1 /\ until' = 0

LocksInit ==
    /\ part \in {"worker", "limiter", "watch", "vault", "trades"}
    /\ Init /\ LimiterInit /\ Watch!WatchInit /\ Vault!BackupInit /\ Trades!Init

LocksNext ==
    /\ UNCHANGED part
    /\ \/ part = "worker" /\ Next /\ UNCHANGED <<limiterVars, watchVars, vaultVars, tradeVars>>
       \/ part = "limiter" /\ (LimiterNext \/ LimiterRestart) /\ UNCHANGED <<vars, watchVars, vaultVars, tradeVars>>
       \/ part = "watch" /\ Watch!WatchNext /\ UNCHANGED <<vars, limiterVars, vaultVars, tradeVars>>
       \/ part = "vault" /\ Vault!BackupNext /\ UNCHANGED <<vars, limiterVars, watchVars, tradeVars>>
       \/ part = "trades" /\ Trades!Next /\ UNCHANGED <<vars, limiterVars, watchVars, vaultVars>>

LocksSpec == LocksInit /\ [][LocksNext]_allVars
-----------------------------------------------------------------------------
\* The variables of the rate limiter, the watch lock, the backups and
\* the trade collectors keep their types.
PartsTypeOK == LimiterTypeOK /\ Watch!WatchTypeOK /\ Vault!BackupTypeOK /\ Trades!TypeOK

\* A dashboard watcher holds the lock file, unless it was robbed of it by a process
\* that had not seen it watch (labs/research_dashboard_v10_43c.py:689-747); see
\* WatchLock.
WatcherOwnsFile == Watch!WatcherOwnsFile

\* The only ways to lose the last valid archive to a prune: its reading raised, or it
\* was rewritten while a prune relied on it alone (data_vault.py:625-632, 802-817); see
\* Backups.
PruneKeepsAValid == Vault!PruneKeepsAValid

\* No trade has two rows while the writer lock keeps a second writer out
\* (labs/bybit_trades_ws_persistent_v10_43c.py:277-280, 293-314); see
\* TradeCollector.
RowsUnique == Trades!RowsUnique

\* A delivered trade has a row or waits in a buffer, unless one of the known
\* failures took it (labs/bybit_trades_ws_persistent_v10_43c.py:277-284, 381-390).
StoredOrLost == Trades!StoredOrLost
=============================================================================
