--------------------------- MODULE TradeCollector ---------------------------
(***************************************************************************)
(* labs/bybit_trades_ws_persistent_v10_43c.py: collectors of the public     *)
(* trades of an exchange that share one file.  Each takes the writer lock,  *)
(* seeds the ids it has seen from the tail of the file, runs one session    *)
(* after the other and appends what is new.  A subscription replays the     *)
(* last trades; whatever was published longer ago is missed.                *)
(*                                                                         *)
(* Trades are numbered in the order of their publication.                   *)
(***************************************************************************)
EXTENDS Naturals, Sequences, FiniteSets, FiniteSetsExt, SequencesExt

CONSTANTS
    Proc,        \* collector processes
    Ttl,         \* LOCK_TTL_S, in ticks
    Replay,      \* trades replayed by a subscription
    TailRows,    \* SEED_TAIL_ROWS
    FlushN,      \* flush_every_n
    MaxTrades,   \* bound of the model
    MaxFaults    \* bound of the model: crashes and failed appends

(* What the constants are; the instances check it with their types. *)
CollectorAssumption ==
    /\ {Ttl, FlushN} \subseteq Nat \ {0}
    /\ {Replay, TailRows, MaxTrades, MaxFaults} \subseteq Nat

VARIABLES
    pc, lock, seen, buf, pos, ended,   \* by process, but for the lock file
    file,        \* ids of the rows of trades.csv
    published,   \* the last trade published
    covered,     \* the last trade some session delivered (history)
    gone,        \* trades missed between sessions, or lost with a buffer (history)
    cause,       \* how the lock failed first, "none" while it has not (history)
    faults

vars == <<pc, lock, seen, buf, pos, ended, file, published, covered, gone, cause, faults>>

NoLock == [owner |-> "none", age |-> 0]
Fresh == lock # NoLock /\ lock.age <= Ttl
Running(p) == pc[p] \in {"seed", "connect", "session", "append", "refresh", "release", "unlink"}
Stored == ToSet(file)
Buffered == UNION {ToSet(buf[p]) : p \in Proc}
Tail_(n) == ToSet(SubSeq(file, Max({1, Len(file) - n + 1}), Len(file)))
-----------------------------------------------------------------------------
Init ==
    /\ pc = [p \in Proc |-> "down"]
    /\ lock = NoLock
    /\ seen = [p \in Proc |-> {}]
    /\ buf = [p \in Proc |-> <<>>]
    /\ pos = [p \in Proc |-> 0]
    /\ ended = [p \in Proc |-> FALSE]
    /\ file = <<>>
    /\ published = 0
    /\ covered = 0
    /\ gone = {}
    /\ cause = "none"
    /\ faults = 0

Goto(p, label) == pc' = [pc EXCEPT ![p] = label]
Blame(why) == cause' = IF cause = "none" THEN why ELSE cause

(* The memory of a process ends with it. *)
Forget(p) ==
    /\ seen' = [seen EXCEPT ![p] = {}]
    /\ pos' = [pos EXCEPT ![p] = 0]

(* acquire_writer_lock reads the file; with a fresh lock of another process *)
(* the collector ends as ALREADY_RUNNING. *)
AcquireRead(p) ==
    /\ pc[p] = "down"
    /\ ~(Fresh /\ lock.owner # p)
    /\ Goto(p, "write")
    /\ UNCHANGED <<lock, seen, buf, pos, ended, file, published, covered, gone, cause, faults>>

(* _write_lock replaces the file, whatever it holds by now. *)
AcquireWrite(p) ==
    /\ pc[p] = "write"
    /\ Goto(p, "seed")
    /\ lock' = [owner |-> p, age |-> 0]
    /\ IF \E q \in Proc : Running(q) /\ lock.owner = q
       THEN Blame(IF Fresh THEN "raced" ELSE "lapsed") ELSE UNCHANGED cause
    /\ UNCHANGED <<seen, buf, pos, ended, file, published, covered, gone, faults>>

(* A slip: the ids seen by an earlier process are not read back. *)
SeedNothing(p) ==
    /\ pc[p] = "seed"
    /\ Goto(p, "connect")
    /\ UNCHANGED <<lock, seen, buf, pos, ended, file, published, covered, gone, cause, faults>>

(* seed_seen_from_tail *)
Seed(p) ==
    /\ pc[p] = "seed"
    /\ Goto(p, "connect")
    /\ seen' = [seen EXCEPT ![p] = Tail_(TailRows)]
    /\ UNCHANGED <<lock, buf, pos, ended, file, published, covered, gone, cause, faults>>

(* connect_fn succeeds and the session begins.  Failed tries change nothing. *)
Connect(p) ==
    /\ pc[p] = "connect"
    /\ Goto(p, "session")
    /\ LET start == IF published > Replay THEN published - Replay ELSE 0
       IN  /\ pos' = [pos EXCEPT ![p] = start]
           /\ gone' = gone \cup (((covered + 1)..start) \ (Stored \cup Buffered))
           /\ covered' = Max({covered, start})
    /\ UNCHANGED <<lock, seen, buf, ended, file, published, cause, faults>>

(* Between sessions the run is over: by its limits, or because connections fail. *)
GiveUp(p) ==
    /\ pc[p] = "connect"
    /\ Goto(p, "release")
    /\ UNCHANGED <<lock, seen, buf, pos, ended, file, published, covered, gone, cause, faults>>

(* A frame with the next trade: dedup_by_trade_id, then the buffer, which is *)
(* flushed when it is full. *)
Deliver(p) ==
    /\ pc[p] = "session"
    /\ pos[p] < published
    /\ LET t == pos[p] + 1
           new == t \notin seen[p]
           full == new /\ Len(buf[p]) + 1 >= FlushN
       IN  /\ pos' = [pos EXCEPT ![p] = t]
           /\ covered' = Max({covered, t})
           /\ seen' = [seen EXCEPT ![p] = @ \cup {t}]
           /\ buf' = IF new THEN [buf EXCEPT ![p] = Append(@, t)] ELSE buf
           /\ Goto(p, IF full THEN "append" ELSE "session")
    /\ UNCHANGED <<lock, ended, file, published, gone, cause, faults>>

(* A slip: only a full buffer is flushed. *)
FlushWhenFull(p) ==
    /\ pc[p] = "session"
    /\ Len(buf[p]) >= FlushN
    /\ Goto(p, "append")
    /\ UNCHANGED <<lock, seen, buf, pos, ended, file, published, covered, gone, cause, faults>>

(* The flush interval has passed, seen on an idle tick. *)
FlushDue(p) ==
    /\ pc[p] = "session"
    /\ buf[p] # <<>>
    /\ Goto(p, "append")
    /\ UNCHANGED <<lock, seen, buf, pos, ended, file, published, covered, gone, cause, faults>>

(* A slip: the buffer of the session is dropped with it. *)
EndSessionUnflushed(p) ==
    /\ pc[p] = "session"
    /\ buf' = [buf EXCEPT ![p] = <<>>]
    /\ Goto(p, "connect")
    /\ UNCHANGED <<lock, seen, pos, ended, file, published, covered, gone, cause, faults>>

(* A socket error, a stale stream or the end of a bounded session: what the *)
(* buffer holds is flushed first. *)
EndSession(p) ==
    /\ pc[p] = "session"
    /\ IF buf[p] # <<>> THEN Goto(p, "append") /\ ended' = [ended EXCEPT ![p] = TRUE]
       ELSE Goto(p, "connect") /\ UNCHANGED ended
    /\ UNCHANGED <<lock, seen, buf, pos, file, published, covered, gone, cause, faults>>

(* append_rows_incremental; an error is swallowed and the rows are forgotten. *)
AppendRows(p) ==
    /\ pc[p] = "append"
    /\ Goto(p, "refresh")
    /\ buf' = [buf EXCEPT ![p] = <<>>]
    /\ \/ /\ file' = file \o buf[p]
          /\ UNCHANGED <<gone, faults>>
       \/ /\ faults < MaxFaults
          /\ faults' = faults + 1
          /\ gone' = gone \cup ToSet(buf[p])
          /\ UNCHANGED file
    /\ UNCHANGED <<lock, seen, pos, ended, published, covered, cause>>

(* refresh_writer_lock does not look whose lock it replaces. *)
Refresh(p) ==
    /\ pc[p] = "refresh"
    /\ lock' = [owner |-> p, age |-> 0]
    /\ Goto(p, IF ended[p] THEN "connect" ELSE "session")
    /\ ended' = [ended EXCEPT ![p] = FALSE]
    /\ UNCHANGED <<seen, buf, pos, file, published, covered, gone, cause, faults>>

(* release_writer_lock reads the file and unlinks it when it names this process. *)
ReleaseRead(p) ==
    /\ pc[p] = "release"
    /\ Goto(p, IF lock.owner = p THEN "unlink" ELSE "down")
    /\ Forget(p)
    /\ UNCHANGED <<lock, buf, ended, file, published, covered, gone, cause, faults>>

Unlink(p) ==
    /\ pc[p] = "unlink"
    /\ Goto(p, "down")
    /\ lock' = NoLock
    /\ IF lock.owner # p THEN Blame("unlinked") ELSE UNCHANGED cause
    /\ UNCHANGED <<seen, buf, pos, ended, file, published, covered, gone, faults>>

(* The process dies with its buffer; lock and file stay, and the process started *)
(* in its place has another pid. *)
Crash(p) ==
    /\ pc[p] # "down"
    /\ faults < MaxFaults
    /\ faults' = faults + 1
    /\ Goto(p, "down")
    /\ gone' = gone \cup ToSet(buf[p])
    /\ buf' = [buf EXCEPT ![p] = <<>>]
    /\ lock' = IF lock.owner = p THEN [lock EXCEPT !.owner = "dead"] ELSE lock
    /\ ended' = [ended EXCEPT ![p] = FALSE]
    /\ Forget(p)
    /\ UNCHANGED <<file, published, covered, cause>>

(* Control-C while a collector waits, or a refresh of the lock that raises: the *)
(* buffer is dropped, the lock released. *)
Interrupt(p) ==
    /\ pc[p] \in {"connect", "session", "refresh"}
    /\ faults < MaxFaults
    /\ faults' = faults + 1
    /\ Goto(p, "release")
    /\ gone' = gone \cup ToSet(buf[p])
    /\ buf' = [buf EXCEPT ![p] = <<>>]
    /\ ended' = [ended EXCEPT ![p] = FALSE]
    /\ UNCHANGED <<lock, seen, pos, file, published, covered, cause>>

Publish ==
    /\ published < MaxTrades
    /\ published' = published + 1
    /\ UNCHANGED <<pc, lock, seen, buf, pos, ended, file, covered, gone, cause, faults>>

Tick ==
    /\ lock # NoLock
    /\ lock.age <= Ttl
    /\ lock' = [lock EXCEPT !.age = @ + 1]
    /\ UNCHANGED <<pc, seen, buf, pos, ended, file, published, covered, gone, cause, faults>>

Step(p) ==
    \/ AcquireRead(p) \/ AcquireWrite(p) \/ Seed(p)
    \/ Connect(p) \/ GiveUp(p) \/ Deliver(p) \/ FlushDue(p) \/ EndSession(p) \/ AppendRows(p) \/ Refresh(p)
    \/ ReleaseRead(p) \/ Unlink(p)

Next == (\E p \in Proc : Step(p) \/ Crash(p) \/ Interrupt(p)) \/ Publish \/ Tick

(* A running collector keeps running: a full or overdue buffer is flushed and *)
(* a flush comes to its end.  Nothing obliges the exchange to publish or a *)
(* process to be started. *)
Fairness ==
    \A p \in Proc : WF_vars(FlushDue(p)) /\ WF_vars(AppendRows(p)) /\ WF_vars(Refresh(p))

Spec == Init /\ [][Next]_vars /\ Fairness
-----------------------------------------------------------------------------
(* Every variable keeps its type. *)
TypeOK ==
    /\ pc \in [Proc -> {"down", "write", "seed", "connect", "session", "append", "refresh",
                        "release", "unlink"}]
    /\ lock \in [owner : Proc \cup {"none", "dead"}, age : 0..(Ttl + 1)]
    /\ seen \in [Proc -> SUBSET (1..MaxTrades)]
    /\ buf \in [Proc -> Seq(1..MaxTrades)]
    /\ pos \in [Proc -> 0..MaxTrades]
    /\ ended \in [Proc -> BOOLEAN]
    /\ file \in Seq(1..MaxTrades)
    /\ published \in 0..MaxTrades
    /\ covered \in 0..published
    /\ gone \subseteq 1..published
    /\ cause \in {"none", "lapsed", "raced", "unlinked"}
    /\ faults \in 0..MaxFaults

(* No trade has two rows, over sessions, crashes, restarts and replays, unless *)
(* the lock failed to keep a second writer out *)
(* (bybit_trades_ws_persistent_v10_43c.py:293-314, 277-280). *)
RowsUnique == cause = "none" => IsInjective(file)

(* A trade that was delivered has a row or is in the buffer of its collector, *)
(* unless the session missed it, its append failed or its collector died *)
(* (bybit_trades_ws_persistent_v10_43c.py:277-284, 381-390). *)
StoredOrLost == \A t \in 1..covered : t \in Stored \cup Buffered \cup gone

(* A trade that was delivered gets its row or is lost to one of these failures; *)
(* it does not wait in a buffer that never fills, nor behind the next session *)
(* (bybit_trades_ws_persistent_v10_43c.py:257-262, 282-284). *)
DeliveredIsSettled ==
    \A t \in 1..MaxTrades : [](t <= covered => <>(t \in Stored \cup gone))

(* "a writer LOCK (pid + heartbeat, TTL-based) prevents two persistent *)
(* collectors from writing the same dataset" *)
(* (bybit_trades_ws_persistent_v10_43c.py:16-17). *)
OneWriter == \A p, q \in Proc : Running(p) /\ Running(q) => p = q
=============================================================================
