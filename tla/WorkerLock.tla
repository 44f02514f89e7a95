----------------------------- MODULE WorkerLock -----------------------------
(***************************************************************************)
(* The single-worker lock of app/worker_lock.py and the way app/main.py    *)
(* uses it.  The lock is one row of table bot_state, read and written by   *)
(* separate transactions (Database.get_state, set_state, delete_state), so *)
(* every manager method is a read, a decision on the value read and a      *)
(* write: other instances, and the clock, may move between these steps.    *)
(***************************************************************************)
EXTENDS Integers, FiniteSets

CONSTANTS Worker,     \* bot instances that share one database
          NoWorker,   \* "no instance_id": the row is missing or empty
          Ttl,        \* worker_lock_ttl_seconds, in clock ticks
          MaxTime     \* bound on the clock, for model checking only

ASSUME WorkerLockAssumption ==
    /\ NoWorker \notin Worker
    /\ Ttl \in Nat
    /\ MaxTime \in Nat

VARIABLES row,    \* the lock row: instance_id and updated_at_ts
          now,    \* time.time()
          pc,     \* what each instance is doing
          seen,   \* the row an instance read last
          stamp,  \* the timestamp an instance is about to write
          cause   \* history: what has gone wrong with the lock so far

vars == <<row, now, pc, seen, stamp, cause>>

FreeRow == [id |-> NoWorker, at |-> 0]
Row == [id : Worker \cup {NoWorker}, at : Nat]

Cause == {"failed_read", "stale_write", "stale_delete", "lapsed_takeover"}

PC == { "off",        \* next: AcquireRead
        "acquiring",  \* next: AcquireDecide
        "taking",     \* next: AcquireWrite
        "standby",    \* next: StandbyStop; the loop only reads status()
        "trading",    \* next: HeartbeatRead or ReleaseRead
        "beating",    \* next: HeartbeatDecide
        "renewing",   \* next: HeartbeatWrite
        "releasing" } \* next: ReleaseDelete

\* The instances that run trading cycles.
Active == {w \in Worker : pc[w] \in {"trading", "beating", "renewing"}}

TypeOK ==
    /\ row \in Row
    /\ now \in Nat
    /\ pc \in [Worker -> PC]
    /\ seen \in [Worker -> Row]
    /\ stamp \in [Worker -> Nat]
    /\ cause \subseteq Cause

Init ==
    /\ row = FreeRow
    /\ now = 0
    /\ pc = [w \in Worker |-> "off"]
    /\ seen = [w \in Worker |-> FreeRow]
    /\ stamp = [w \in Worker |-> 0]
    /\ cause = {}

-----------------------------------------------------------------------------
\* The instances share one clock, so no stamp is in the future and the age
\* needs no max(0, .); a row without an id is expired whatever its age.
Expired(r) == r.id = NoWorker \/ now - r.at > Ttl

\* Mutant: age >= ttl instead of age > ttl.
MayTakeTooEarly(w, r) == r.id \in {w, NoWorker} \/ now - r.at >= Ttl

MayTake(w, r) == Expired(r) \/ r.id = w

Goto(w, label) == pc' = [pc EXCEPT ![w] = label]

\* _read: a database error is swallowed and reads as a missing row.
Read(w) ==
    \/ /\ seen' = [seen EXCEPT ![w] = row]
       /\ UNCHANGED cause
    \/ /\ seen' = [seen EXCEPT ![w] = FreeRow]
       /\ cause' = cause \cup {"failed_read"}

\* _write with the decision taken on seen[w]: what makes it unsafe is a row
\* that has changed since, or a previous holder that is still trading.
Write(w) ==
    /\ row' = [id |-> w, at |-> stamp[w]]
    /\ cause' = cause
         \cup (IF seen[w] # row /\ row.id # w THEN {"stale_write"} ELSE {})
         \cup (IF Expired(row) /\ row.id \in Active \ {w}
                 THEN {"lapsed_takeover"} ELSE {})

-----------------------------------------------------------------------------
\* WorkerLockManager.acquire, called once when the process starts.

AcquireRead(w) ==
    /\ pc[w] = "off"
    /\ Read(w)
    /\ Goto(w, "acquiring")
    /\ UNCHANGED <<row, now, stamp>>

\* Mutant: main ignores lock_status.acquired
AcquireDecideUnchecked(w) ==
    /\ pc[w] = "acquiring"
    /\ stamp' = [stamp EXCEPT ![w] = now]
    /\ Goto(w, IF MayTake(w, seen[w]) THEN "taking" ELSE "trading")
    /\ UNCHANGED <<row, now, seen, cause>>

\* Mutant: the stamp is the expiry of the previous lease instead of time.time()
AcquireDecideBackdated(w) ==
    /\ pc[w] = "acquiring"
    /\ MayTake(w, seen[w])
    /\ stamp' = [stamp EXCEPT ![w] = now - Ttl]
    /\ Goto(w, "taking")
    /\ UNCHANGED <<row, now, seen, cause>>

AcquireDecide(w) ==
    /\ pc[w] = "acquiring"
    /\ \/ /\ MayTake(w, seen[w])
          /\ stamp' = [stamp EXCEPT ![w] = now]
          /\ Goto(w, "taking")
       \/ /\ ~MayTake(w, seen[w])
          /\ Goto(w, "standby")
          /\ UNCHANGED stamp
    /\ UNCHANGED <<row, now, seen, cause>>

\* A failed write is not caught: main ends with the exception (see Crash).
AcquireWrite(w) ==
    /\ pc[w] = "taking"
    /\ Write(w)
    /\ Goto(w, "trading")
    /\ UNCHANGED <<now, seen, stamp>>

\* The instance that did not get the lock waits for a stop request.
StandbyStop(w) ==
    /\ pc[w] = "standby"
    /\ Goto(w, "off")
    /\ UNCHANGED <<row, now, seen, stamp, cause>>

-----------------------------------------------------------------------------
\* WorkerLockManager.heartbeat, once per trading cycle; the cycle goes on
\* whatever it answers.

HeartbeatRead(w) ==
    /\ pc[w] = "trading"
    /\ Read(w)
    /\ Goto(w, "beating")
    /\ UNCHANGED <<row, now, stamp>>

HeartbeatDecide(w) ==
    /\ pc[w] = "beating"
    /\ \/ /\ MayTake(w, seen[w])
          /\ stamp' = [stamp EXCEPT ![w] = now]
          /\ Goto(w, "renewing")
       \/ /\ ~MayTake(w, seen[w])
          /\ Goto(w, "trading")
          /\ UNCHANGED stamp
    /\ UNCHANGED <<row, now, seen, cause>>

HeartbeatWrite(w) ==
    /\ pc[w] = "renewing"
    /\ Write(w)
    /\ Goto(w, "trading")
    /\ UNCHANGED <<now, seen, stamp>>

\* set_state raises: the cycle's handler catches it and the loop continues.
HeartbeatWriteFails(w) ==
    /\ pc[w] = "renewing"
    /\ Goto(w, "trading")
    /\ UNCHANGED <<row, now, seen, stamp, cause>>

-----------------------------------------------------------------------------
\* WorkerLockManager.release, after the loop has ended.

ReleaseRead(w) ==
    /\ pc[w] = "trading"
    /\ Read(w)
    /\ Goto(w, "releasing")
    /\ UNCHANGED <<row, now, stamp>>

ReleaseDelete(w) ==
    /\ pc[w] = "releasing"
    /\ \/ /\ seen[w].id = w
          /\ row' = FreeRow
          /\ cause' = IF row.id \in {w, NoWorker} THEN cause
                                                  ELSE cause \cup {"stale_delete"}
       \* not the owner, or the delete failed and the error was swallowed
       \/ UNCHANGED <<row, cause>>
    /\ Goto(w, "off")
    /\ UNCHANGED <<now, seen, stamp>>

-----------------------------------------------------------------------------
\* The process dies at any point; a restart begins with AcquireRead.
Crash(w) ==
    /\ pc[w] # "off"
    /\ Goto(w, "off")
    /\ UNCHANGED <<row, now, seen, stamp, cause>>

Tick ==
    /\ now < MaxTime
    /\ now' = now + 1
    /\ UNCHANGED <<row, pc, seen, stamp, cause>>

Next ==
    \/ \E w \in Worker :
          \/ AcquireRead(w) \/ AcquireDecide(w) \/ AcquireWrite(w)
          \/ StandbyStop(w)
          \/ HeartbeatRead(w) \/ HeartbeatDecide(w)
          \/ HeartbeatWrite(w) \/ HeartbeatWriteFails(w)
          \/ ReleaseRead(w) \/ ReleaseDelete(w)
          \/ Crash(w)
    \/ Tick

Spec == Init /\ [][Next]_vars

-----------------------------------------------------------------------------
\* At most one instance runs trading cycles: what "single worker lock"
\* promises in main.py and in the migration smoke test.
SingleWorker == Cardinality(Active) <= 1

\* As long as no read failed, no decision was carried out on a row that had
\* changed meanwhile and no lock lapsed under a live holder, every trading
\* instance is the one named in the row; so there is at most one.
OwnedUnlessDisturbed == cause = {} => \A w \in Active : row.id = w

\* What a holder relies on between two heartbeats: without a failed read or a
\* stale decision, a step never replaces or removes an unexpired lock of
\* another instance; only its owner renews it, or deletes it on release.
FreshLockRespected ==
    [][(row' # row /\ cause' = {})
          => \/ Expired(row)
             \/ row'.id = row.id
             \/ row' = FreeRow /\ pc[row.id] = "releasing"]_vars
=============================================================================
