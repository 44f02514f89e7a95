---------------------------- MODULE PathMetrics ----------------------------
(***************************************************************************)
(* MfeMaeTracker of mfe_mae_tracker.py on table signal_path_metrics: which  *)
(* way the price went after an observation, over MaxBars updates.  Metrics  *)
(* come from signals and from market probes; each check, insert and update  *)
(* is a database call of its own and may raise.                             *)
(***************************************************************************)
EXTENDS Integers, Sequences, FiniteSets, FiniteSetsExt, SequencesExt

CONSTANTS
    Observed,      \* observations of signals
    Probe,         \* keys of market probes
    BucketOf,      \* the time bucket in the key of a probe
    MaxBucket,     \* bound of the model
    MaxActive, MaxBars, UpdateBatch,   \* mfe_mae_max_active, _max_bars, _batch_size
    PerCycle,      \* mfe_mae_probe_max_per_cycle
    MaxMetricFaults   \* bound of the model: calls that raise, restarts

ASSUME MetricsAssumption ==
    /\ Observed \cap Probe = {}
    /\ BucketOf \in [Probe -> 1..MaxBucket]
    /\ {MaxActive, MaxMetricFaults} \subseteq Nat
    /\ {MaxBucket, MaxBars, UpdateBatch, PerCycle} \subseteq Nat \ {0}

Key == Observed \cup Probe

VARIABLES
    rows,        \* the table, by key
    order,       \* keys in the order of their first insert: created_at, id
    bucket,      \* the time bucket it is
    bucketsSeen, \* _probe_buckets_seen
    phase, todo, \* "idle", "probe" or "update", and the keys still to treat
    created,     \* probes created in this cycle
    forced,      \* signals let in because the check before the insert raised (history)
    metricFaults

metricVars == <<rows, order, bucket, bucketsSeen, phase, todo, created, forced, metricFaults>>

NoRow == [status |-> "none", bars |-> 0, mfe |-> 0, mae |-> 0, hit |-> "none", ended |-> FALSE]
Ended == {"matured", "insufficient_price"}
Active == {k \in Key : rows[k].status = "active"}
Exists(k) == rows[k].status # "none"

MetricsInit ==
    /\ rows = [k \in Key |-> NoRow]
    /\ order = <<>>
    /\ bucket = 1
    /\ bucketsSeen = {}
    /\ phase = "idle" /\ todo = {} /\ created = 0
    /\ forced = {}
    /\ metricFaults = 0

MetricFault == metricFaults < MaxMetricFaults /\ metricFaults' = metricFaults + 1

(* A slip: an update keeps what the row knows of the path. *)
UpsertKeepsPath(k) ==
    /\ rows' = [rows EXCEPT ![k] = [@ EXCEPT !.status = "active", !.bars = 0, !.mfe = 0, !.mae = 0]]
    /\ order' = IF Exists(k) THEN order ELSE Append(order, k)

(* A slip: a second row is inserted for a key that has one. *)
InsertAlways(k) ==
    /\ rows' = [rows EXCEPT ![k] = [NoRow EXCEPT !.status = "active", !.ended = rows[k].ended]]
    /\ order' = Append(order, k)

(* upsert_signal_path_metric: an insert, or an update of every column of the *)
(* payload; created_at stays, and matured_at is not in the payload. *)
Upsert(k) ==
    /\ rows' = [rows EXCEPT ![k] = [NoRow EXCEPT !.status = "active", !.ended = rows[k].ended]]
    /\ order' = IF Exists(k) THEN order ELSE Append(order, k)

(* A slip: the limit counts from the second metric on. *)
MayTrackOneMore(k) == ~Exists(k) /\ Cardinality(Active) <= MaxActive

MayTrack(k) == ~Exists(k) /\ Cardinality(Active) < MaxActive

(* A slip: a signal that was tracked before starts again. *)
RegisterAgain(k) ==
    /\ phase = "idle"
    /\ Cardinality(Active) < MaxActive
    /\ Upsert(k)
    /\ UNCHANGED <<bucket, bucketsSeen, phase, todo, created, forced, metricFaults>>

(* register_signal for a candidate with a price: tracked when the checks say so. *)
Register(k) ==
    /\ phase = "idle"
    /\ MayTrack(k)
    /\ Upsert(k)
    /\ UNCHANGED <<bucket, bucketsSeen, phase, todo, created, forced, metricFaults>>

(* The checks raise; the error is logged and the insert follows. *)
RegisterUnchecked(k) ==
    /\ phase = "idle"
    /\ MetricFault
    /\ Upsert(k)
    /\ forced' = forced \cup {k}
    /\ UNCHANGED <<bucket, bucketsSeen, phase, todo, created>>

(* register_market_probes: the bucket is marked before any probe is made. *)
ProbeStart ==
    /\ phase = "idle"
    /\ bucket \notin bucketsSeen
    /\ bucketsSeen' = bucketsSeen \cup {bucket}
    /\ todo' = {k \in Probe : BucketOf[k] = bucket}
    /\ phase' = "probe"
    /\ created' = 0
    /\ UNCHANGED <<rows, order, bucket, forced, metricFaults>>

(* One probe, in some order of the symbols; an error of its check or of its *)
(* insert passes it over. *)
ProbeNext ==
    /\ phase = "probe"
    /\ created < PerCycle
    /\ \E k \in todo :
        /\ todo' = todo \ {k}
        /\ \/ /\ MayTrack(k)
              /\ Upsert(k)
              /\ created' = created + 1
              /\ UNCHANGED metricFaults
           \/ /\ ~MayTrack(k)
              /\ UNCHANGED <<rows, order, created, metricFaults>>
           \/ /\ MetricFault
              /\ UNCHANGED <<rows, order, created>>
    /\ UNCHANGED <<bucket, bucketsSeen, phase, forced>>

ProbeEnd ==
    /\ phase = "probe"
    /\ todo = {} \/ created >= PerCycle
    /\ phase' = "idle" /\ todo' = {}
    /\ UNCHANGED <<rows, order, bucket, bucketsSeen, created, forced, metricFaults>>

Older(k, l) == \E i, j \in DOMAIN order : i < j /\ order[i] = k /\ order[j] = l

(* update_active reads the oldest active rows, if there are any. *)
UpdateStart ==
    /\ phase = "idle"
    /\ todo' = {k \in Active : Cardinality({l \in Active : Older(l, k)}) < UpdateBatch}
    /\ phase' = IF Active = {} THEN "idle" ELSE "update"
    /\ UNCHANGED <<rows, order, bucket, bucketsSeen, created, forced, metricFaults>>

FirstHit(mfe, mae) ==
    IF mfe >= 1 /\ mfe >= mae THEN "TP_025" ELSE IF mae >= 1 THEN "SL_025" ELSE "none"

(* _build_update: move is the directional return, in steps of 0.25 %. *)
Moved(row, move) ==
    LET bars == row.bars + 1
        mfe == Max({row.mfe, move})
        mae == Max({row.mae, -move})
        hit == IF row.hit = "none" THEN FirstHit(mfe, mae) ELSE row.hit
        last == bars >= MaxBars
    IN  [status |-> IF last THEN "matured" ELSE "active", bars |-> bars, mfe |-> mfe, mae |-> mae,
         hit |-> IF last /\ hit = "none" THEN "TIME" ELSE hit, ended |-> row.ended \/ last]

(* A slip: a bar without a price does not count. *)
UnpricedUncounted(row) == row

(* There is no price for the symbol: the bar counts all the same. *)
Unpriced(row) ==
    IF row.bars + 1 >= MaxBars
    THEN [row EXCEPT !.status = "insufficient_price", !.bars = @ + 1, !.ended = TRUE]
    ELSE [row EXCEPT !.bars = @ + 1]

(* One row, the oldest first: with a price, without one, or with an update that *)
(* raises. *)
UpdateRow ==
    /\ phase = "update"
    /\ \E k \in todo :
        /\ \A l \in todo : ~Older(l, k)
        /\ \/ /\ rows' \in {[rows EXCEPT ![k] = Moved(rows[k], move)] : move \in -1..1}
                        \cup {[rows EXCEPT ![k] = Unpriced(rows[k])]}
              /\ UNCHANGED metricFaults
           \/ MetricFault /\ UNCHANGED rows
        /\ todo' = todo \ {k}
        /\ phase' = IF todo = {k} THEN "idle" ELSE "update"
    /\ UNCHANGED <<order, bucket, bucketsSeen, created, forced>>

NextBucket ==
    /\ bucket < MaxBucket
    /\ bucket' = bucket + 1
    /\ UNCHANGED <<rows, order, bucketsSeen, phase, todo, created, forced, metricFaults>>

(* The process dies and another takes its place. *)
MetricsRestart ==
    /\ MetricFault
    /\ phase' = "idle" /\ todo' = {} /\ created' = 0
    /\ bucketsSeen' = {}
    /\ UNCHANGED <<rows, order, bucket, forced>>

MetricsNext ==
    \/ \E k \in Observed : Register(k) \/ RegisterUnchecked(k)
    \/ ProbeStart \/ ProbeNext \/ ProbeEnd \/ UpdateStart \/ UpdateRow \/ NextBucket \/ MetricsRestart

(* The main loop goes on.  Nothing obliges it to find signals. *)
MetricsFairness ==
    /\ WF_metricVars(ProbeNext) /\ WF_metricVars(ProbeEnd)
    /\ WF_metricVars(UpdateStart) /\ WF_metricVars(UpdateRow)

MetricsSpec == MetricsInit /\ [][MetricsNext]_metricVars /\ MetricsFairness
-----------------------------------------------------------------------------
(* Every variable keeps its type. *)
MetricsTypeOK ==
    /\ rows \in [Key -> [status : {"none", "active"} \cup Ended, bars : 0..MaxBars, mfe : 0..1,
                         mae : 0..1, hit : {"none", "TP_025", "SL_025", "TIME"}, ended : BOOLEAN]]
    /\ order \in Seq(Key) /\ IsInjective(order)
    /\ bucket \in 1..MaxBucket
    /\ bucketsSeen \subseteq 1..MaxBucket
    /\ phase \in {"idle", "probe", "update"}
    /\ todo \subseteq Key
    /\ created \in 0..PerCycle
    /\ forced \subseteq Observed
    /\ metricFaults \in 0..MaxMetricFaults

(* The limit of active metrics is exceeded only by signals whose check raised; *)
(* a probe whose check raises is never let in (mfe_mae_tracker.py:96-105, 183-217). *)
ActiveBounded == Cardinality(Active) <= MaxActive + Cardinality(forced \cap Active)

(* The first barrier of a row is one its path touched, TIME is only said of a *)
(* path that touched none, and only ended rows have an end, also for a row that *)
(* was overwritten (mfe_mae_tracker.py:400-419, database.py:2984-2993). *)
PathConsistent ==
    \A k \in Key : LET row == rows[k] IN
        /\ row.hit = "TP_025" => row.mfe = 1
        /\ row.hit = "SL_025" => row.mae = 1
        /\ row.hit \in {"TIME", "none"} => row.mfe = 0 /\ row.mae = 0
        /\ row.status = "matured" => row.hit # "none"
        /\ row.status \in Ended => row.ended
        /\ row.ended => row.status \in Ended \/ k \in forced

(* A path only grows, and an ended one does not change any more, over updates *)
(* that raise, repeated registrations and restarts; only a signal whose check *)
(* raised may start again (mfe_mae_tracker.py:97-102). *)
GrowsOnly ==
    \A k \in Key : k \in forced'
        \/ /\ rows[k].status \in Ended => rows'[k] = rows[k]
           /\ rows'[k].bars >= rows[k].bars
           /\ rows[k].hit # "none" => rows'[k].hit = rows[k].hit
PathOnlyGrows == [][GrowsOnly]_metricVars

(* Every metric ends, although updates read the oldest rows only, prices may be *)
(* missing and updates may raise (mfe_mae_tracker.py:274-311, database.py:3002). *)
EveryMetricEnds ==
    \A k \in Key : [](rows[k].status = "active" => <>(rows[k].status \in Ended))
=============================================================================
