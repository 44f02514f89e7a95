--------------------------- MODULE ResearchProofs ---------------------------
(***************************************************************************)
(* Proofs about PathMetrics and Labeling, for any numbers of signals, probes *)
(* and observations, any limits and any number of failures, and about       *)
(* MCResearch, where they run beside the collectors.                        *)
(***************************************************************************)
EXTENDS MCResearch, FiniteSetTheorems, WellFoundedInduction, TLAPS

TradesP == INSTANCE TradeCollectorProofs WITH Ttl <- LockTtl, MaxFaults <- MaxLosses, faults <- losses

\* Without fairness, of which safety has no need.
MetricsSteps == MetricsInit /\ [][MetricsNext]_metricVars
LabelSteps == LabelInit /\ [][LabelNext]_labelVars

-----------------------------------------------------------------------------
MetricRow == [status : {"none", "active"} \cup Ended, bars : 0..MaxBars, mfe : 0..1,
              mae : 0..1, hit : {"none", "TP_025", "SL_025", "TIME"}, ended : BOOLEAN]

\* What a row says of its path; whether its signal was let in unchecked matters only
\* to the end of an earlier life.
SoundRow(row, wasForced) ==
    /\ row.hit = "TP_025" => row.mfe = 1
    /\ row.hit = "SL_025" => row.mae = 1
    /\ row.hit \in {"TIME", "none"} => row.mfe = 0 /\ row.mae = 0
    /\ row.status = "matured" => row.hit # "none"
    /\ row.status \in Ended => row.ended
    /\ row.ended => row.status \in Ended \/ wasForced
    /\ row.status = "none" => row = NoRow
    /\ row.status = "active" => row.bars < MaxBars /\ row.hit # "TIME"

\* The keys are ordered once they have a row, and a pass of updates treats active rows.
OrderOK == order \in Seq(Key) /\ IsInjective(order) /\ ToSet(order) = {k \in Key : Exists(k)}
TodoOK == phase = "update" => todo \subseteq Active /\ todo # {}
RowsOK == rows \in [Key -> MetricRow] /\ \A k \in Key : SoundRow(rows[k], k \in forced)
CountOK == IsFiniteSet(Active) /\ ActiveBounded

MetricsInv == MetricsTypeOK /\ OrderOK /\ TodoOK /\ RowsOK /\ CountOK

\* The fields of a row of the table.
LEMMA MetricFields ==
  ASSUME NEW row \in MetricRow
  PROVE  /\ row.status \in {"none", "active", "matured", "insufficient_price"} /\ row.bars \in 0..MaxBars
         /\ row.mfe \in 0..1 /\ row.mae \in 0..1
         /\ row.hit \in {"none", "TP_025", "SL_025", "TIME"} /\ row.ended \in BOOLEAN
BY DEF MetricRow, Ended

\* An update of an active row keeps what the row says of its path, and what it has
\* said already.
LEMMA UpdatedRow ==
  ASSUME NEW row \in MetricRow, NEW k, NEW F, SoundRow(row, k \in F), row.status = "active",
         NEW new, (\E move \in -1..1 : new = Moved(row, move)) \/ new = Unpriced(row)
  PROVE  /\ new \in MetricRow /\ SoundRow(new, k \in F) /\ new.status # "none"
         /\ new.bars >= row.bars /\ (row.hit # "none" => new.hit = row.hit)
<1>0. /\ MaxBars \in Nat /\ row.bars \in 0..MaxBars /\ row.bars < MaxBars /\ row.hit # "TIME"
      /\ row.mfe \in 0..1 /\ row.mae \in 0..1 /\ row.hit \in {"none", "TP_025", "SL_025"}
      /\ row.ended \in BOOLEAN
  BY MetricFields, MetricsAssumption DEF SoundRow
<1>1. ASSUME NEW move \in -1..1, new = Moved(row, move)
      PROVE  /\ new \in MetricRow /\ SoundRow(new, k \in F) /\ new.status # "none"
             /\ new.bars >= row.bars /\ (row.hit # "none" => new.hit = row.hit)
  <2> DEFINE bars == row.bars + 1
             mfe == Max({row.mfe, move})
             mae == Max({row.mae, -move})
             hit == IF row.hit = "none" THEN FirstHit(mfe, mae) ELSE row.hit
             last == bars >= MaxBars
  <2>1. new = [status |-> IF last THEN "matured" ELSE "active", bars |-> bars, mfe |-> mfe, mae |-> mae,
               hit |-> IF last /\ hit = "none" THEN "TIME" ELSE hit, ended |-> row.ended \/ last]
    BY <1>1 DEF Moved
  <2>2. ASSUME NEW a \in 0..1, NEW b \in -1..1 PROVE Max({a, b}) = IF a >= b THEN a ELSE b
    <3>1. \A x \in {a, b} : (\A y \in {a, b} : x >= y) <=> x = (IF a >= b THEN a ELSE b)
      OBVIOUS
    <3> QED
      BY <3>1 DEF Max
  <2>3. mfe \in 0..1 /\ (row.mfe = 1 => mfe = 1)
    BY <1>0, <2>2
  <2>4. mae \in 0..1 /\ (row.mae = 1 => mae = 1)
    <3>1. -move \in -1..1
      OBVIOUS
    <3>2. mae = IF row.mae >= -move THEN row.mae ELSE -move
      BY <1>0, <2>2, <3>1
    <3> QED
      BY <1>0, <3>1, <3>2
  <2>5. bars \in 0..MaxBars /\ bars >= row.bars /\ last \in BOOLEAN /\ (~last => bars < MaxBars)
    BY <1>0
  <2>6. /\ hit \in {"none", "TP_025", "SL_025"}
        /\ hit = "TP_025" => mfe = 1
        /\ hit = "SL_025" => mae = 1
        /\ hit = "none" => mfe = 0 /\ mae = 0
        /\ row.hit # "none" => hit = row.hit
    BY <1>0, <2>3, <2>4 DEF FirstHit, SoundRow
  <2> HIDE DEF bars, mfe, mae, hit, last
  <2>7. /\ new.status = (IF last THEN "matured" ELSE "active") /\ new.bars = bars /\ new.mfe = mfe /\ new.mae = mae
        /\ new.hit = (IF last /\ hit = "none" THEN "TIME" ELSE hit) /\ new.ended = (row.ended \/ last)
    BY <2>1
  <2>8. new \in MetricRow
    BY <1>0, <2>1, <2>3, <2>4, <2>5, <2>6 DEF MetricRow, Ended
  <2>9. SoundRow(new, k \in F)
    BY <1>0, <2>5, <2>6, <2>7 DEF SoundRow, Ended
  <2> QED
    BY <1>0, <2>5, <2>6, <2>7, <2>8, <2>9
<1>2. ASSUME new = Unpriced(row)
      PROVE  /\ new \in MetricRow /\ SoundRow(new, k \in F) /\ new.status # "none"
             /\ new.bars >= row.bars /\ (row.hit # "none" => new.hit = row.hit)
  <2>1. row = [status |-> row.status, bars |-> row.bars, mfe |-> row.mfe, mae |-> row.mae,
               hit |-> row.hit, ended |-> row.ended]
    BY DEF MetricRow
  <2>2. \E status \in {"active", "insufficient_price"}, ended_ \in BOOLEAN :
          /\ new = [status |-> status, bars |-> row.bars + 1, mfe |-> row.mfe, mae |-> row.mae,
                    hit |-> row.hit, ended |-> ended_]
          /\ IF row.bars + 1 >= MaxBars THEN status = "insufficient_price" /\ ended_ = TRUE
             ELSE status = "active" /\ ended_ = row.ended
    BY <1>0, <1>2, <2>1 DEF Unpriced
  <2>3. PICK status \in {"active", "insufficient_price"}, ended_ \in BOOLEAN :
          /\ new = [status |-> status, bars |-> row.bars + 1, mfe |-> row.mfe, mae |-> row.mae,
                    hit |-> row.hit, ended |-> ended_]
          /\ IF row.bars + 1 >= MaxBars THEN status = "insufficient_price" /\ ended_ = TRUE
             ELSE status = "active" /\ ended_ = row.ended
    BY <2>2
  <2>4. row.bars + 1 \in 0..MaxBars /\ row.bars + 1 >= row.bars
    BY <1>0
  <2>5. new \in MetricRow
    BY <1>0, <2>3, <2>4 DEF MetricRow, Ended
  <2>6. /\ new.status = status /\ new.bars = row.bars + 1 /\ new.mfe = row.mfe /\ new.mae = row.mae
        /\ new.hit = row.hit /\ new.ended = ended_
    BY <2>3
  <2>7. SoundRow(new, k \in F)
    BY <1>0, <2>3, <2>4, <2>6 DEF SoundRow, Ended
  <2> QED
    BY <2>3, <2>4, <2>5, <2>6, <2>7
<1> QED
  BY <1>1, <1>2

\* The row of a key that starts.
LEMMA FreshRow ==
  ASSUME NEW e \in BOOLEAN
  PROVE  /\ [NoRow EXCEPT !.status = "active", !.ended = e] =
            [status |-> "active", bars |-> 0, mfe |-> 0, mae |-> 0, hit |-> "none", ended |-> e]
         /\ [NoRow EXCEPT !.status = "active", !.ended = e] \in MetricRow
<1> DEFINE new == [NoRow EXCEPT !.status = "active", !.ended = e]
<1>1. 0 \in 0..MaxBars
  BY MetricsAssumption
<1>2. NoRow \in MetricRow
  BY <1>1 DEF NoRow, MetricRow
<1>3. new \in MetricRow
  BY <1>2 DEF MetricRow
<1>4. new.status = "active" /\ new.ended = e
  BY <1>2 DEF MetricRow
<1>5. new.bars = 0 /\ new.mfe = 0 /\ new.mae = 0 /\ new.hit = "none"
  BY <1>2 DEF NoRow, MetricRow
<1> HIDE DEF new
<1>6. new = [status |-> new.status, bars |-> new.bars, mfe |-> new.mfe, mae |-> new.mae,
             hit |-> new.hit, ended |-> new.ended]
  BY <1>3 DEF MetricRow
<1> QED
  BY <1>3, <1>4, <1>5, <1>6 DEF new

\* A key that gets a row takes its place at the end of the order; its row starts
\* anew, but for the end of an earlier life.
LEMMA UpsertedRow ==
  ASSUME MetricsInv, NEW k \in Key, Upsert(k), forced \subseteq forced', Exists(k) => k \in forced'
  PROVE  /\ RowsOK' /\ OrderOK' /\ Active' = Active \cup {k}
         /\ \A j \in Key \ {k} : rows'[j] = rows[j]
         /\ ~Exists(k) => rows[k] = NoRow
<1>0. /\ rows \in [Key -> MetricRow] /\ OrderOK /\ \A j \in Key : SoundRow(rows[j], j \in forced)
  BY DEF MetricsInv, RowsOK
<1> DEFINE new == [NoRow EXCEPT !.status = "active", !.ended = rows[k].ended]
<1>1. rows' = [rows EXCEPT ![k] = new] /\ order' = IF Exists(k) THEN order ELSE Append(order, k)
  BY DEF Upsert
<1>2. ~Exists(k) => rows[k] = NoRow
  BY <1>0 DEF Exists, SoundRow
<1>3. rows[k] \in MetricRow /\ rows[k].ended \in BOOLEAN
  BY <1>0, MetricFields
<1>4. new = [status |-> "active", bars |-> 0, mfe |-> 0, mae |-> 0, hit |-> "none", ended |-> rows[k].ended]
  BY <1>3, FreshRow
<1>5. 0 \in 0..MaxBars /\ 0 < MaxBars
  BY MetricsAssumption
<1>6. new \in MetricRow
  BY <1>3, FreshRow
<1>7. rows[k].ended => k \in forced'
  <2>1. Exists(k) \/ rows[k].ended = FALSE
    BY <1>2 DEF NoRow
  <2> QED
    BY <2>1
<1>8. /\ new.status = "active" /\ new.bars = 0 /\ new.mfe = 0 /\ new.mae = 0 /\ new.hit = "none"
      /\ new.ended = rows[k].ended
  BY <1>4
<1> HIDE DEF new
<1>9. SoundRow(new, k \in forced')
  BY <1>5, <1>7, <1>8 DEF SoundRow, Ended
<1>10. rows' \in [Key -> MetricRow] /\ rows'[k] = new /\ \A j \in Key \ {k} : rows'[j] = rows[j]
  BY <1>0, <1>1, <1>6
<1>11. ASSUME NEW j \in Key PROVE SoundRow(rows'[j], j \in forced')
  <2>1. CASE j = k
    BY <1>9, <1>10, <2>1
  <2>2. CASE j # k
    <3>1. rows'[j] = rows[j] /\ SoundRow(rows[j], j \in forced) /\ (j \in forced => j \in forced')
      BY <1>0, <1>10, <2>2
    <3> QED
      BY <3>1 DEF SoundRow
  <2> QED
    BY <2>1, <2>2
<1>12. Active' = Active \cup {k}
  BY <1>8, <1>10 DEF Active
<1>13. OrderOK'
  <2>1. {j \in Key : Exists(j)'} = {j \in Key : Exists(j)} \cup {k}
    BY <1>8, <1>10 DEF Exists
  <2>2. CASE Exists(k)
    BY <1>0, <1>1, <2>1, <2>2 DEF OrderOK
  <2>3. CASE ~Exists(k)
    <3>1. /\ order \in Seq(Key) /\ Len(order) \in Nat /\ DOMAIN order = 1..Len(order)
          /\ IsInjective(order) /\ ToSet(order) = {j \in Key : Exists(j)}
      BY <1>0 DEF OrderOK
    <3>2. order' = Append(order, k)
      BY <1>1, <2>3
    <3>3. /\ order' \in Seq(Key) /\ DOMAIN order' = 1..(Len(order) + 1)
          /\ \A i \in 1..Len(order) : order'[i] = order[i]
          /\ order'[Len(order) + 1] = k
      BY <3>1, <3>2
    <3>4. \A i \in 1..(Len(order) + 1) : i \in 1..Len(order) \/ i = Len(order) + 1
      BY <3>1
    <3>5. \A i \in 1..Len(order) : order[i] # k
      BY <2>3, <3>1 DEF ToSet
    <3>6. IsInjective(order')
      BY <3>1, <3>3, <3>4, <3>5 DEF IsInjective
    <3>7. ToSet(order') = ToSet(order) \cup {k}
      <4>1. 1..Len(order) \subseteq 1..(Len(order) + 1) /\ Len(order) + 1 \in 1..(Len(order) + 1)
        BY <3>1
      <4> QED
        BY <3>1, <3>3, <3>4, <4>1 DEF ToSet
    <3> QED
      BY <2>1, <3>1, <3>3, <3>6, <3>7 DEF OrderOK
  <2> QED
    BY <2>2, <2>3
<1>14. RowsOK'
  BY <1>10, <1>11 DEF RowsOK
<1> QED
  BY <1>2, <1>10, <1>12, <1>13, <1>14

\* A metric that is let in by the check, or unchecked, keeps the count.
LEMMA OneMore ==
  ASSUME MetricsInv, NEW k, Active' = Active \cup {k},
         \/ Cardinality(Active) < MaxActive /\ forced' = forced
         \/ forced' = forced \cup {k}
  PROVE  CountOK'
<1> DEFINE S == Active
           F == forced \cap Active
<1>0. IsFiniteSet(S) /\ Cardinality(S) <= MaxActive + Cardinality(F) /\ MaxActive \in Nat
  BY MetricsAssumption DEF MetricsInv, CountOK, ActiveBounded
<1>1. IsFiniteSet(F) /\ Cardinality(S) \in Nat /\ Cardinality(F) \in Nat
  <2>1. F \subseteq S
    OBVIOUS
  <2> QED
    BY <1>0, <2>1, FS_Subset, FS_CardinalityType
<1>2. IsFiniteSet(S \cup {k}) /\ Cardinality(S \cup {k}) = IF k \in S THEN Cardinality(S) ELSE Cardinality(S) + 1
  <2>1. k \in S => S \cup {k} = S
    OBVIOUS
  <2> QED
    BY <1>0, <2>1, FS_AddElement
<1>3. IsFiniteSet(F \cup {k}) /\ Cardinality(F \cup {k}) = IF k \in F THEN Cardinality(F) ELSE Cardinality(F) + 1
  <2>1. k \in F => F \cup {k} = F
    OBVIOUS
  <2> QED
    BY <1>1, <2>1, FS_AddElement
<1>4. Active' = S \cup {k}
  OBVIOUS
<1>5. CASE Cardinality(Active) < MaxActive /\ forced' = forced
  <2>1. forced' \cap Active' \subseteq S \cup {k}
    BY <1>4
  <2>2. Cardinality(forced' \cap Active') \in Nat
    BY <1>2, <2>1, FS_Subset, FS_CardinalityType
  <2>3. Cardinality(S \cup {k}) <= MaxActive
    BY <1>0, <1>1, <1>2, <1>5
  <2> QED
    BY <1>0, <1>1, <1>2, <1>4, <2>2, <2>3 DEF CountOK, ActiveBounded
<1>6. CASE forced' = forced \cup {k}
  <2>1. forced' \cap Active' = F \cup {k}
    BY <1>4, <1>6
  <2>2. k \in F => k \in S
    OBVIOUS
  <2>3. Cardinality(S \cup {k}) <= MaxActive + Cardinality(F \cup {k})
    BY <1>0, <1>1, <1>2, <1>3, <2>2
  <2> QED
    BY <1>2, <1>4, <2>1, <2>3 DEF CountOK, ActiveBounded
<1> QED
  BY <1>5, <1>6

\* A metric that ends keeps it too.
LEMMA OneLess ==
  ASSUME MetricsInv, NEW k \in Active, Active' = Active \/ Active' = Active \ {k}, forced' = forced
  PROVE  CountOK'
<1> DEFINE S == Active
           F == forced \cap Active
<1>0. IsFiniteSet(S) /\ Cardinality(S) <= MaxActive + Cardinality(F) /\ MaxActive \in Nat /\ k \in S
  BY MetricsAssumption DEF MetricsInv, CountOK, ActiveBounded
<1>1. IsFiniteSet(F) /\ Cardinality(S) \in Nat /\ Cardinality(F) \in Nat
  <2>1. F \subseteq S
    OBVIOUS
  <2> QED
    BY <1>0, <2>1, FS_Subset, FS_CardinalityType
<1>2. IsFiniteSet(S \ {k}) /\ Cardinality(S \ {k}) = Cardinality(S) - 1
  BY <1>0, FS_RemoveElement
<1>3. Cardinality(F \ {k}) = IF k \in F THEN Cardinality(F) - 1 ELSE Cardinality(F)
  <2>1. k \notin F => F \ {k} = F
    OBVIOUS
  <2> QED
    BY <1>1, <2>1, FS_RemoveElement
<1>4. CASE Active' = S
  BY <1>0, <1>4 DEF CountOK, ActiveBounded
<1>5. CASE Active' = S \ {k}
  <2>1. forced' \cap Active' = F \ {k}
    BY <1>5
  <2>2. Cardinality(S \ {k}) <= MaxActive + Cardinality(F \ {k})
    BY <1>0, <1>1, <1>2, <1>3
  <2> QED
    BY <1>2, <1>5, <2>1, <2>2 DEF CountOK, ActiveBounded
<1> QED
  BY <1>4, <1>5

\* Numbers have a least one.
LEMMA LeastNumber ==
  ASSUME NEW S \in SUBSET Nat, S # {}
  PROVE  \E m \in S : \A k \in S : m <= k
<1>1. PICK m \in S : \A k \in S : ~(<<k, m>> \in OpToRel(<, Nat))
  BY NatLessThanWellFounded, WFMin
<1>2. \A k \in Nat : k < m => <<k, m>> \in OpToRel(<, Nat)
  BY DEF OpToRel
<1>3. ASSUME NEW k \in S PROVE m <= k
  <2>1. ~(k < m)
    BY <1>1, <1>2
  <2> QED
    BY <2>1
<1> QED
  BY <1>3

\* The oldest of the active metrics is in every pass of updates.
LEMMA OldestIsTreated ==
  ASSUME MetricsInv, Active # {}
  PROVE  {k \in Active : Cardinality({l \in Active : Older(l, k)}) < UpdateBatch} # {}
<1> DEFINE places == {i \in 1..Len(order) : order[i] \in Active}
<1>0. /\ order \in Seq(Key) /\ Len(order) \in Nat /\ DOMAIN order = 1..Len(order)
      /\ IsInjective(order) /\ ToSet(order) = {k \in Key : Exists(k)}
  BY DEF MetricsInv, OrderOK
<1>1. places # {} /\ places \in SUBSET Nat
  <2>1. Active \subseteq ToSet(order)
    BY <1>0 DEF Active, Exists
  <2> QED
    BY <1>0, <2>1 DEF ToSet
<1>2. PICK first \in places : \A i \in places : first <= i
  <2> HIDE DEF places
  <2> QED
    BY <1>1, LeastNumber
<1>3. first \in 1..Len(order) /\ order[first] \in Active
  OBVIOUS
<1>4. ASSUME NEW l \in Active, Older(l, order[first]) PROVE FALSE
  <2>1. PICK i \in 1..Len(order), j \in 1..Len(order) : i < j /\ order[i] = l /\ order[j] = order[first]
    BY <1>0, <1>4 DEF Older
  <2>2. j = first
    BY <1>0, <1>3, <2>1 DEF IsInjective
  <2>3. first <= i
    BY <1>2, <2>1
  <2> QED
    BY <1>3, <2>1, <2>2, <2>3
<1>5. {l \in Active : Older(l, order[first])} = {}
  BY <1>4
<1>6. Cardinality({}) < UpdateBatch
  BY FS_EmptySet, MetricsAssumption
<1> QED
  BY <1>3, <1>5, <1>6

\* The types after a step are those of the rows and of the other variables.
LEMMA TypesOfRows ==
  ASSUME RowsOK', OrderOK', bucket' \in 1..MaxBucket, bucketsSeen' \subseteq 1..MaxBucket,
         phase' \in {"idle", "probe", "update"}, todo' \subseteq Key, created' \in 0..PerCycle,
         forced' \subseteq Observed, metricFaults' \in 0..MaxMetricFaults
  PROVE  MetricsTypeOK'
BY DEF RowsOK, OrderOK, MetricsTypeOK, MetricRow

\* What a step leaves alone keeps its part of the invariant.
LEMMA RowsStay ==
  ASSUME MetricsInv, UNCHANGED <<rows, order, forced>>
  PROVE  RowsOK' /\ OrderOK' /\ CountOK' /\ Active' = Active
<1>1. Active' = Active
  BY DEF Active
<1>2. OrderOK'
  BY DEF MetricsInv, OrderOK, Exists
<1>3. RowsOK'
  BY DEF MetricsInv, RowsOK
<1>4. CountOK'
  BY <1>1 DEF MetricsInv, CountOK, ActiveBounded
<1> QED
  BY <1>1, <1>2, <1>3, <1>4

\* The initial state satisfies the invariant.
LEMMA MetricsStart == MetricsInit => MetricsInv
<1> SUFFICES ASSUME MetricsInit PROVE MetricsInv
  OBVIOUS
<1>1. NoRow \in MetricRow
  <2>1. 0 \in 0..MaxBars
    BY MetricsAssumption
  <2> QED
    BY <2>1 DEF NoRow, MetricRow
<1>2. /\ NoRow.hit = "none" /\ NoRow.mfe = 0 /\ NoRow.mae = 0 /\ NoRow.status = "none"
      /\ NoRow.ended = FALSE
  BY DEF NoRow
<1>3. \A k \in Key : rows[k] = NoRow
  BY DEF MetricsInit
<1>4. RowsOK
  BY <1>1, <1>2 DEF RowsOK, SoundRow, Ended, MetricsInit
<1>5. OrderOK
  BY <1>2, <1>3 DEF MetricsInit, OrderOK, IsInjective, ToSet, Exists
<1>6. Active = {}
  BY <1>2, <1>3 DEF Active
<1>7. CountOK
  BY <1>6, FS_EmptySet, MetricsAssumption DEF CountOK, ActiveBounded
<1>8. 1 \in 1..MaxBucket /\ 0 \in 0..PerCycle /\ 0 \in 0..MaxMetricFaults
  BY MetricsAssumption
<1>9. MetricsTypeOK
  BY <1>4, <1>5, <1>8 DEF MetricsInit, RowsOK, OrderOK, MetricsTypeOK, MetricRow
<1> QED
  BY <1>4, <1>5, <1>7, <1>9 DEF MetricsInv, TodoOK, MetricsInit

\* A signal is tracked, after the check or, when that raised, without it.
LEMMA RegisterPreserves ==
  ASSUME MetricsInv, NEW k \in Observed, Register(k) \/ RegisterUnchecked(k)
  PROVE  MetricsInv'
<1>0. MetricsTypeOK /\ k \in Key /\ Upsert(k)
  BY DEF MetricsInv, Key, Register, RegisterUnchecked
<1>1. UNCHANGED <<bucket, bucketsSeen, phase, todo, created>> /\ phase = "idle"
  BY DEF Register, RegisterUnchecked
<1>2. /\ forced \subseteq forced' /\ forced' \subseteq Observed
      /\ (Exists(k) => k \in forced')
      /\ \/ Cardinality(Active) < MaxActive /\ forced' = forced
         \/ forced' = forced \cup {k}
  BY <1>0 DEF Register, RegisterUnchecked, MayTrack, MetricsTypeOK
<1>3. metricFaults' \in 0..MaxMetricFaults
  BY <1>0, MetricsAssumption DEF Register, RegisterUnchecked, MetricFault, MetricsTypeOK
<1>4. RowsOK' /\ OrderOK' /\ Active' = Active \cup {k}
  BY <1>0, <1>2, UpsertedRow
<1>5. CountOK'
  BY <1>2, <1>4, OneMore
<1>6. MetricsTypeOK'
  BY <1>0, <1>1, <1>2, <1>3, <1>4, TypesOfRows DEF MetricsTypeOK
<1> QED
  BY <1>1, <1>4, <1>5, <1>6 DEF MetricsInv, TodoOK

\* A probe is made, or passed over.
LEMMA ProbePreserves ==
  ASSUME MetricsInv, ProbeNext
  PROVE  MetricsInv'
<1>0. MetricsTypeOK /\ RowsOK /\ OrderOK /\ CountOK
  BY DEF MetricsInv
<1>1. PICK k \in todo :
        /\ todo' = todo \ {k}
        /\ \/ /\ MayTrack(k)
              /\ Upsert(k)
              /\ created' = created + 1
              /\ UNCHANGED metricFaults
           \/ /\ ~MayTrack(k)
              /\ UNCHANGED <<rows, order, created, metricFaults>>
           \/ /\ MetricFault
              /\ UNCHANGED <<rows, order, created>>
  BY DEF ProbeNext
<1>2. k \in Key /\ UNCHANGED <<bucket, bucketsSeen, phase, forced>> /\ phase = "probe" /\ created < PerCycle
  BY <1>0 DEF ProbeNext, MetricsTypeOK
<1>3. created' \in 0..PerCycle /\ metricFaults' \in 0..MaxMetricFaults
  <2>0. created \in 0..PerCycle /\ PerCycle \in Nat /\ metricFaults \in 0..MaxMetricFaults /\ MaxMetricFaults \in Nat
    BY <1>0, MetricsAssumption DEF MetricsTypeOK
  <2>1. created' = created + 1 \/ created' = created
    BY <1>1
  <2>2. created' \in 0..PerCycle
    BY <1>2, <2>0, <2>1
  <2>3. metricFaults' = metricFaults \/ (metricFaults < MaxMetricFaults /\ metricFaults' = metricFaults + 1)
    BY <1>1 DEF MetricFault
  <2>4. metricFaults' \in 0..MaxMetricFaults
    BY <2>0, <2>3
  <2> QED
    BY <2>2, <2>4
<1>4. RowsOK' /\ OrderOK' /\ CountOK'
  <2>1. CASE MayTrack(k) /\ Upsert(k)
    <3>1. RowsOK' /\ OrderOK' /\ Active' = Active \cup {k}
      BY <1>2, <2>1, UpsertedRow DEF MayTrack
    <3> QED
      BY <1>2, <2>1, <3>1, OneMore DEF MayTrack
  <2>2. CASE UNCHANGED <<rows, order>>
    BY <1>2, <2>2, RowsStay
  <2> QED
    BY <1>1, <2>1, <2>2
<1>5. MetricsTypeOK'
  BY <1>0, <1>1, <1>2, <1>3, <1>4, TypesOfRows DEF MetricsTypeOK
<1> QED
  BY <1>2, <1>4, <1>5 DEF MetricsInv, TodoOK

\* The steps that treat no row.
LEMMA OtherStepsPreserve ==
  ASSUME MetricsInv,
         ProbeStart \/ ProbeEnd \/ UpdateStart \/ NextBucket \/ MetricsRestart \/ UNCHANGED metricVars
  PROVE  MetricsInv'
<1>0. MetricsTypeOK /\ TodoOK
  BY DEF MetricsInv
<1>1. RowsOK' /\ OrderOK' /\ CountOK' /\ Active' = Active
  BY RowsStay DEF ProbeStart, ProbeEnd, UpdateStart, NextBucket, MetricsRestart, metricVars
<1>2. /\ bucketsSeen' \subseteq 1..MaxBucket /\ forced' \subseteq Observed
      /\ phase' \in {"idle", "probe", "update"}
  BY <1>0
  DEF MetricsTypeOK, ProbeStart, ProbeEnd, UpdateStart, NextBucket, MetricsRestart, metricVars
<1>3. bucket' \in 1..MaxBucket
  BY <1>0, MetricsAssumption
  DEF MetricsTypeOK, ProbeStart, ProbeEnd, UpdateStart, NextBucket, MetricsRestart, metricVars
<1>4. created' \in 0..PerCycle
  BY <1>0, MetricsAssumption
  DEF MetricsTypeOK, ProbeStart, ProbeEnd, UpdateStart, NextBucket, MetricsRestart, metricVars
<1>5. metricFaults' \in 0..MaxMetricFaults
  BY <1>0, MetricsAssumption
  DEF MetricsTypeOK, ProbeStart, ProbeEnd, UpdateStart, NextBucket, MetricsRestart, MetricFault, metricVars
<1>6. todo' \subseteq Key
  BY <1>0 DEF MetricsTypeOK, ProbeStart, ProbeEnd, UpdateStart, NextBucket, MetricsRestart, metricVars,
     Active, Key
<1>7. MetricsTypeOK'
  BY <1>1, <1>2, <1>3, <1>4, <1>5, <1>6, TypesOfRows
<1>8. TodoOK'
  <2>1. CASE UpdateStart
    <3>1. Active # {} => todo' # {}
      BY <2>1, OldestIsTreated DEF UpdateStart
    <3> QED
      BY <1>1, <2>1, <3>1 DEF UpdateStart, TodoOK
  <2>2. CASE ~UpdateStart
    BY <1>0, <1>1, <2>2 DEF TodoOK, ProbeStart, ProbeEnd, NextBucket, MetricsRestart, metricVars
  <2> QED
    BY <2>1, <2>2
<1> QED
  BY <1>1, <1>7, <1>8 DEF MetricsInv

\* The row of an active metric is updated, or its update raises.
LEMMA UpdatePreserves ==
  ASSUME MetricsInv, UpdateRow
  PROVE  MetricsInv'
<1>0. /\ MetricsTypeOK /\ RowsOK /\ OrderOK /\ CountOK
      /\ todo \subseteq Active /\ phase = "update"
      /\ UNCHANGED <<order, bucket, bucketsSeen, created, forced>>
  BY DEF MetricsInv, TodoOK, UpdateRow
<1>1. PICK k \in todo :
        /\ \/ /\ rows' \in {[rows EXCEPT ![k] = Moved(rows[k], move)] : move \in -1..1}
                        \cup {[rows EXCEPT ![k] = Unpriced(rows[k])]}
              /\ UNCHANGED metricFaults
           \/ MetricFault /\ UNCHANGED rows
        /\ todo' = todo \ {k}
        /\ phase' = IF todo = {k} THEN "idle" ELSE "update"
  BY DEF UpdateRow
<1>2. /\ k \in Key /\ k \in Active /\ rows[k].status = "active"
      /\ rows \in [Key -> MetricRow] /\ rows[k] \in MetricRow /\ SoundRow(rows[k], k \in forced)
  BY <1>0 DEF RowsOK, Active
<1>3. metricFaults' \in 0..MaxMetricFaults
  BY <1>0, <1>1, MetricsAssumption DEF MetricsTypeOK, MetricFault
<1>4. RowsOK' /\ OrderOK' /\ CountOK' /\ Active \ {k} \subseteq Active'
  <2>1. CASE UNCHANGED rows
    BY <1>0, <2>1, RowsStay
  <2>2. CASE ~UNCHANGED rows
    <3>1. PICK new : /\ rows' = [rows EXCEPT ![k] = new]
                     /\ (\E move \in -1..1 : new = Moved(rows[k], move)) \/ new = Unpriced(rows[k])
      BY <1>1, <2>2
    <3>2. /\ new \in MetricRow /\ SoundRow(new, k \in forced) /\ new.status # "none"
      BY <1>2, <3>1, UpdatedRow
    <3>3. /\ rows' \in [Key -> MetricRow] /\ rows'[k] = new
          /\ \A j \in Key \ {k} : rows'[j] = rows[j]
      BY <1>2, <3>1, <3>2
    <3>4. RowsOK'
      <4>1. ASSUME NEW j \in Key PROVE SoundRow(rows'[j], j \in forced')
        BY <1>0, <3>2, <3>3 DEF RowsOK
      <4> QED
        BY <3>3, <4>1 DEF RowsOK
    <3>5. OrderOK'
      <4>1. \A j \in Key : Exists(j)' <=> Exists(j)
        BY <1>2, <3>2, <3>3 DEF Exists
      <4>2. {j \in Key : Exists(j)}' = {j \in Key : Exists(j)}
        BY <4>1
      <4> QED
        BY <1>0, <4>2 DEF OrderOK
    <3>6. Active' = Active \/ Active' = Active \ {k}
      BY <1>2, <3>3 DEF Active
    <3>7. CountOK'
      BY <1>0, <1>2, <3>6, OneLess
    <3> QED
      BY <3>4, <3>5, <3>6, <3>7
  <2> QED
    BY <2>1, <2>2
<1>5. MetricsTypeOK'
  <2>1. todo' \subseteq Key /\ phase' \in {"idle", "probe", "update"}
    BY <1>0, <1>1 DEF MetricsTypeOK
  <2> QED
    BY <1>0, <1>3, <1>4, <2>1, TypesOfRows DEF MetricsTypeOK
<1>6. TodoOK'
  BY <1>0, <1>1, <1>4 DEF TodoOK
<1> QED
  BY <1>4, <1>5, <1>6 DEF MetricsInv

\* The invariant holds from step to step.
LEMMA MetricsPreserved == MetricsInv /\ [MetricsNext]_metricVars => MetricsInv'
BY RegisterPreserves, ProbePreserves, OtherStepsPreserve, UpdatePreserves DEF MetricsNext

\* The invariant of the metrics.
THEOREM MetricsInvariant == MetricsSteps => []MetricsInv
BY MetricsStart, MetricsPreserved, PTL DEF MetricsSteps

\* Every variable of the metrics keeps its type, for any signals, probes and limits.
THEOREM MetricsTypes == MetricsSteps => []MetricsTypeOK
<1>1. MetricsInv => MetricsTypeOK
  BY DEF MetricsInv
<1> QED
  BY <1>1, MetricsInvariant, PTL

\* Only signals whose check raised come on top of the limit of active metrics
\* (mfe_mae_tracker.py:96-105, 183-217).
THEOREM ActiveMetricsBounded == MetricsSteps => []ActiveBounded
<1>1. MetricsInv => ActiveBounded
  BY DEF MetricsInv, CountOK
<1> QED
  BY <1>1, MetricsInvariant, PTL

\* A row says of its path what the path was (mfe_mae_tracker.py:400-419,
\* database.py:2984-2993).
THEOREM PathsConsistent == MetricsSteps => []PathConsistent
<1>1. MetricsInv => PathConsistent
  BY DEF MetricsInv, RowsOK, SoundRow, PathConsistent
<1> QED
  BY <1>1, MetricsInvariant, PTL

\* A path only grows and an ended one stays, but for a signal whose check raised
\* (mfe_mae_tracker.py:97-102).
THEOREM PathsOnlyGrow == MetricsSteps => PathOnlyGrows
<1>1. MetricsInv /\ [MetricsNext]_metricVars => [GrowsOnly]_metricVars
  <2> SUFFICES ASSUME MetricsInv, MetricsNext, NEW k \in Key, k \notin forced'
               PROVE  /\ rows[k].status \in Ended => rows'[k] = rows[k]
                      /\ rows'[k].bars >= rows[k].bars
                      /\ rows[k].hit # "none" => rows'[k].hit = rows[k].hit
    BY DEF GrowsOnly
  <2>0. RowsOK /\ rows[k] \in MetricRow /\ rows[k].bars \in Nat /\ rows[k].bars >= rows[k].bars
    <3>1. RowsOK /\ rows[k] \in MetricRow
      BY DEF MetricsInv, RowsOK
    <3>2. rows[k].bars \in 0..MaxBars /\ MaxBars \in Nat
      BY <3>1, MetricFields, MetricsAssumption
    <3> QED
      BY <3>1, <3>2
  <2>1. CASE rows'[k] = rows[k]
    BY <2>0, <2>1
  <2>2. ASSUME NEW j \in Key, Upsert(j), j \in forced' \/ MayTrack(j), forced \subseteq forced', rows'[k] # rows[k]
        PROVE  /\ rows[k].status \in Ended => rows'[k] = rows[k]
               /\ rows'[k].bars >= rows[k].bars
               /\ rows[k].hit # "none" => rows'[k].hit = rows[k].hit
    <3>1. (Exists(j) => j \in forced') /\ ~(MayTrack(j) /\ Exists(j))
      BY <2>2 DEF MayTrack
    <3>2. j = k /\ ~Exists(k) /\ rows[k] = NoRow /\ rows'[k] \in MetricRow
      BY <2>2, <3>1, UpsertedRow DEF RowsOK
    <3>3. rows'[k].bars \in 0..MaxBars /\ MaxBars \in Nat /\ NoRow.bars = 0 /\ NoRow.hit = "none"
      BY <3>2, MetricFields, MetricsAssumption DEF NoRow
    <3>4. NoRow.status = "none"
      BY DEF NoRow
    <3> QED
      BY <3>2, <3>3, <3>4 DEF Ended
  <2>3. CASE UpdateRow
    <3>1. PICK j \in todo :
            \/ rows' = rows
            \/ \E new : /\ rows' = [rows EXCEPT ![j] = new]
                        /\ (\E move \in -1..1 : new = Moved(rows[j], move)) \/ new = Unpriced(rows[j])
      BY <2>3 DEF UpdateRow
    <3>2. j \in Key /\ rows[j].status = "active"
      BY <2>3 DEF MetricsInv, TodoOK, UpdateRow, Active
    <3>3. CASE rows' = rows \/ j # k
      BY <2>0, <2>1, <3>1, <3>3 DEF RowsOK
    <3>4. CASE rows' # rows /\ j = k
      <4>1. PICK new : /\ rows' = [rows EXCEPT ![k] = new]
                       /\ (\E move \in -1..1 : new = Moved(rows[k], move)) \/ new = Unpriced(rows[k])
        BY <3>1, <3>4
      <4>2. SoundRow(rows[k], k \in forced) /\ rows'[k] = new
        BY <2>0, <4>1 DEF RowsOK
      <4> QED
        BY <2>0, <3>2, <3>4, <4>1, <4>2, UpdatedRow DEF Ended
    <3> QED
      BY <3>3, <3>4
  <2> QED
    BY <2>1, <2>2, <2>3
    DEF MetricsNext, Register, RegisterUnchecked, ProbeStart, ProbeNext, ProbeEnd, UpdateStart, NextBucket,
        MetricsRestart, Key, MetricsInv, MetricsTypeOK
<1> QED
  BY <1>1, MetricsInvariant, PTL DEF MetricsSteps, PathOnlyGrows

-----------------------------------------------------------------------------
Marks == SUBSET {"tp", "sl"}
LabelRow == [hit : {"none", "SL", "TP1", "TIME"}, at : 0..MaxBar, seen : Marks, from : 0..MaxBar]

\* The label for what a candle had touched.
Struck(marks) == IF marks = {} THEN "TIME" ELSE IF "sl" \in marks THEN "SL" ELSE "TP1"

BornOK == \A o \in Obs : born[o] <= bar /\ (born[o] = 0 => label[o] = NoLabel)
PendingOK == pending \subseteq Unlabelled /\ (stage = "label" => pending # {})

\* What the download shows of a waiting observation of one of its symbols is what the market was, but
\* for the newest candle, which may touch more afterwards.
FrameOK(o) ==
    symbol[o] \in frame.of /\ born[o] > 0 /\ frame.bar > born[o] /\ label[o] = NoLabel =>
        LET n == frame.bar - born[o]
            shown == frame.path[o]
        IN  /\ shown \in Seq(Marks) /\ Len(shown) = n
            /\ \A i \in 1..(n - 1) : shown[i] = path[o][i]
            /\ shown[n] \subseteq path[o][n]

\* A label from the first candle on was given for the first candle that touched a
\* barrier, or for the end of the horizon.
LabelOK(o) ==
    LET row == label[o] IN
    row # NoLabel /\ row.from = 1 =>
        /\ row.at \in 1..MaxHold /\ row.at <= Len(path[o])
        /\ \A i \in 1..(row.at - 1) : path[o][i] = {}
        /\ row.seen \subseteq path[o][row.at]
        /\ row.hit = Struck(row.seen)
        /\ row.seen = {} => row.at = MaxHold

LabelInv == LabelTypeOK /\ BornOK /\ PendingOK /\ \A o \in Obs : FrameOK(o) /\ LabelOK(o)

\* The least and the greatest of some numbers.
LEMMA MinMaxIs ==
  ASSUME NEW S \in SUBSET Int, NEW m \in S
  PROVE  /\ (\A x \in S : m <= x) => Min(S) = m
         /\ (\A x \in S : m >= x) => Max(S) = m
<1>1. ASSUME \A x \in S : m <= x PROVE Min(S) = m
  <2>1. ASSUME NEW y \in S, \A x \in S : y <= x PROVE y = m
    <3>1. y \in Int /\ m \in Int /\ y <= m /\ m <= y
      BY <1>1, <2>1
    <3> QED
      BY <3>1
  <2> QED
    BY <1>1, <2>1 DEF Min
<1>2. ASSUME \A x \in S : m >= x PROVE Max(S) = m
  <2>1. ASSUME NEW y \in S, \A x \in S : y >= x PROVE y = m
    <3>1. y \in Int /\ m \in Int /\ y <= m /\ m <= y
      BY <1>2, <2>1
    <3> QED
      BY <3>1
  <2> QED
    BY <1>2, <2>1 DEF Max
<1> QED
  BY <1>1, <1>2

\* Positive numbers have a least one, which Min names.
LEMMA MinIn ==
  ASSUME NEW S \in SUBSET Nat, S # {}
  PROVE  Min(S) \in S /\ \A x \in S : Min(S) <= x
<1>1. PICK m \in S : \A x \in S : m <= x
  BY LeastNumber
<1>2. Min(S) = m
  BY <1>1, MinMaxIs
<1> QED
  BY <1>1, <1>2

\* label_observation finds the first candle that touched a barrier, or the last one.
LEMMA OutcomeIs ==
  ASSUME NEW touched \in Seq(Marks), NEW from \in Nat \ {0}, NEW to \in Nat, from <= to, to <= Len(touched),
         NEW row, row = Outcome(touched, from, to)
  PROVE  /\ row.at \in from..to /\ row.from = from /\ row.seen = touched[row.at] /\ row.seen \in Marks
         /\ \A i \in from..(row.at - 1) : touched[i] = {}
         /\ row.hit = Struck(row.seen)
         /\ row.seen = {} => row.at = to
         /\ row = [hit |-> row.hit, at |-> row.at, seen |-> row.seen, from |-> row.from]
<1> DEFINE struck == {i \in from..to : touched[i] # {}}
           at == IF struck = {} THEN to ELSE Min(struck)
<1>1. row = [hit |-> IF struck = {} THEN "TIME" ELSE IF "sl" \in touched[at] THEN "SL" ELSE "TP1",
             at |-> at, seen |-> touched[at], from |-> from]
  BY DEF Outcome
<1>2. struck # {} => at \in struck /\ \A i \in struck : at <= i
  <2>1. struck \in SUBSET Nat
    OBVIOUS
  <2> HIDE DEF struck
  <2> QED
    BY <2>1, MinIn
<1>3. at \in from..to
  BY <1>2
<1>4. ASSUME NEW i \in from..(at - 1) PROVE touched[i] = {}
  <2>1. i \in from..to /\ ~(at <= i) /\ at \in Nat
    BY <1>3
  <2> QED
    BY <1>2, <2>1
<1>5. touched[at] \in Marks
  BY <1>3
<1>6. IF struck = {} THEN at = to /\ touched[at] = {} ELSE touched[at] # {}
  <2>1. CASE struck = {}
    <3>1. to \in from..to /\ to \notin struck
      BY <2>1
    <3>2. touched[to] = {}
      BY <3>1
    <3> QED
      BY <2>1, <3>2
  <2>2. CASE struck # {}
    BY <1>2, <2>2
  <2> QED
    BY <2>1, <2>2
<1> HIDE DEF struck, at
<1>7. /\ row.at = at /\ row.seen = touched[at] /\ row.from = from
      /\ row.hit = (IF struck = {} THEN "TIME" ELSE IF "sl" \in touched[at] THEN "SL" ELSE "TP1")
      /\ row = [hit |-> row.hit, at |-> row.at, seen |-> row.seen, from |-> row.from]
  BY <1>1
<1>8. row.hit = Struck(row.seen) /\ (row.seen = {} => row.at = to)
  BY <1>6, <1>7 DEF Struck
<1> QED
  BY <1>3, <1>4, <1>5, <1>7, <1>8

\* The constants that are numbers.
LEMMA LabelNumbers ==
  /\ MaxObs \in Nat \ {0} /\ MaxHold \in Nat \ {0} /\ LabelBatch \in Nat \ {0} /\ MaxBar \in Nat \ {0}
  /\ Frame \in Nat /\ MaxLabelFaults \in Nat /\ Obs \subseteq Nat
BY LabelingAssumption DEF Obs

\* What the invariant says of the types of one observation.
LEMMA LabelFields ==
  ASSUME LabelTypeOK, NEW o \in Obs
  PROVE  /\ bar \in Nat /\ bar \in 1..MaxBar /\ born[o] \in Nat /\ born[o] \in 0..MaxBar /\ frame.bar \in Nat
         /\ frame.bar \in 0..bar
         /\ path[o] \in Seq(Marks) /\ Len(path[o]) = IF born[o] = 0 THEN 0 ELSE bar - born[o]
         /\ label[o] \in LabelRow /\ label[o].at \in Nat
BY LabelNumbers DEF LabelTypeOK, Marks, LabelRow

\* The window of a waiting observation gives the label that the invariant asks for.
LEMMA WindowIsSound ==
  ASSUME LabelInv, NEW o \in Unlabelled, Future(o) # {}, NEW row, row = Window(o),
         row.hit # "TIME" \/ TimeIsUp(o)
  PROVE  /\ row \in LabelRow
         /\ row.from = 1 => /\ row.at \in 1..MaxHold /\ row.at <= Len(path[o])
                            /\ \A i \in 1..(row.at - 1) : path[o][i] = {}
                            /\ row.seen \subseteq path[o][row.at]
                            /\ row.hit = Struck(row.seen)
                            /\ row.seen = {} => row.at = MaxHold
<1> DEFINE n == frame.bar - born[o]
           shown == frame.path[o]
           first == Max({1, frame.bar - Frame + 1 - born[o]})
           to == Min({n, first + MaxHold - 1})
<1>0. /\ o \in Obs /\ born[o] > 0 /\ label[o] = NoLabel
      /\ bar \in Nat /\ bar \in 1..MaxBar /\ born[o] \in Nat /\ frame.bar \in Nat /\ frame.bar <= bar
      /\ MaxHold \in Nat \ {0} /\ MaxBar \in Nat \ {0} /\ Frame \in Nat
      /\ Len(path[o]) = bar - born[o]
  BY LabelFields, LabelNumbers DEF LabelInv, Unlabelled
<1>1. symbol[o] \in frame.of /\ frame.bar > born[o] /\ Future(o) = first..n
  <2>1. symbol[o] \in frame.of /\ ~(frame.bar <= born[o]) /\ Future(o) = first..n
    BY DEF Future
  <2> QED
    BY <1>0, <2>1
<1>2. n \in Nat /\ n >= 1 /\ n <= Len(path[o]) /\ n <= MaxBar /\ frame.bar - Frame + 1 - born[o] \in Int
  BY <1>0, <1>1
<1>3. first \in Nat /\ first >= 1
  <2>1. ASSUME NEW x \in Int PROVE Max({1, x}) \in Nat /\ Max({1, x}) >= 1
    <3>1. CASE x >= 1
      <4>1. Max({1, x}) = x
        BY <3>1, MinMaxIs
      <4> QED
        BY <3>1, <4>1
    <3>2. CASE ~(x >= 1)
      <4>1. Max({1, x}) = 1
        BY <3>2, MinMaxIs
      <4> QED
        BY <4>1
    <3> QED
      BY <3>1, <3>2
  <2> QED
    BY <1>2, <2>1
<1> HIDE DEF n, first
<1>4. first <= n
  BY <1>1, <1>2, <1>3
<1>5. Min(Future(o)) = first /\ Max(Future(o)) = n
  <2>1. first..n \in SUBSET Int /\ first \in first..n /\ n \in first..n
    BY <1>2, <1>3, <1>4
  <2>2. (\A x \in first..n : first <= x) /\ (\A x \in first..n : n >= x)
    BY <1>2, <1>3
  <2>3. Min(first..n) = first /\ Max(first..n) = n
    BY <2>1, <2>2, MinMaxIs
  <2> QED
    BY <1>1, <2>3
<1>6. /\ to \in Nat /\ first <= to /\ to <= n /\ to <= first + MaxHold - 1
      /\ to = n \/ to = first + MaxHold - 1
  <2>1. ASSUME NEW x \in Int PROVE Min({n, x}) = IF x <= n THEN x ELSE n
    <3>0. {n, x} \in SUBSET Int /\ n \in {n, x} /\ x \in {n, x}
      BY <1>2
    <3>1. CASE x <= n
      <4>1. \A y \in {n, x} : x <= y
        BY <3>1
      <4>2. Min({n, x}) = x
        BY <3>0, <4>1, MinMaxIs
      <4> QED
        BY <3>1, <4>2
    <3>2. CASE ~(x <= n)
      <4>1. \A y \in {n, x} : n <= y
        BY <1>2, <3>2
      <4>2. Min({n, x}) = n
        BY <3>0, <4>1, MinMaxIs
      <4> QED
        BY <3>2, <4>2
    <3> QED
      BY <3>1, <3>2
  <2>2. first + MaxHold - 1 \in Int
    BY <1>0, <1>3
  <2>3. to = IF first + MaxHold - 1 <= n THEN first + MaxHold - 1 ELSE n
    BY <2>1, <2>2
  <2> QED
    BY <1>0, <1>2, <1>3, <1>4, <2>3
<1>7. /\ shown \in Seq(Marks) /\ Len(shown) = n
      /\ \A i \in 1..(n - 1) : shown[i] = path[o][i]
      /\ shown[n] \subseteq path[o][n]
  BY <1>0, <1>1 DEF LabelInv, FrameOK, n
<1> HIDE DEF to, shown
<1>8. row = Outcome(shown, first, to)
  BY <1>5 DEF Window, to, shown
<1>9. /\ row.at \in first..to /\ row.from = first /\ row.seen = shown[row.at] /\ row.seen \in Marks
      /\ \A i \in first..(row.at - 1) : shown[i] = {}
      /\ row.hit = Struck(row.seen)
      /\ row.seen = {} => row.at = to
      /\ row = [hit |-> row.hit, at |-> row.at, seen |-> row.seen, from |-> row.from]
  BY <1>3, <1>6, <1>7, <1>8, OutcomeIs
<1>10. row \in LabelRow
  <2>1. row.hit \in {"none", "SL", "TP1", "TIME"}
    BY <1>9 DEF Struck
  <2>2. row.at \in 0..MaxBar
    <3>1. row.at \in Nat /\ row.at <= to /\ to <= MaxBar
      BY <1>0, <1>2, <1>3, <1>6, <1>9
    <3> QED
      BY <1>0, <1>6, <3>1
  <2>3. row.from \in 0..MaxBar
    BY <1>0, <1>2, <1>3, <1>4, <1>9
  <2> QED
    BY <1>9, <2>1, <2>2, <2>3 DEF LabelRow
<1>11. ASSUME row.from = 1
       PROVE  /\ row.at \in 1..MaxHold /\ row.at <= Len(path[o])
              /\ \A i \in 1..(row.at - 1) : path[o][i] = {}
              /\ row.seen \subseteq path[o][row.at]
              /\ row.hit = Struck(row.seen)
              /\ row.seen = {} => row.at = MaxHold
  <2>1. first = 1 /\ row.at \in Nat /\ row.at >= 1 /\ row.at <= to
    BY <1>3, <1>6, <1>9, <1>11
  <2>2. row.at \in 1..MaxHold /\ row.at <= Len(path[o]) /\ row.at <= n
    <3>1. to \in Nat /\ to <= n /\ to <= MaxHold /\ n \in Nat /\ n <= Len(path[o])
      BY <1>0, <1>2, <1>6, <2>1
    <3>2. Len(path[o]) \in Int
      BY <1>0
    <3> QED
      BY <1>0, <2>1, <3>1, <3>2
  <2>3. ASSUME NEW i \in 1..(row.at - 1) PROVE path[o][i] = {}
    <3>1. i \in 1..(n - 1)
      BY <1>2, <2>1, <2>2
    <3> QED
      BY <1>7, <1>9, <2>1, <3>1
  <2>4. row.seen \subseteq path[o][row.at]
    <3>1. row.at \in 1..(n - 1) \/ row.at = n
      BY <1>2, <2>1, <2>2
    <3> QED
      BY <1>7, <1>9, <3>1
  <2>5. ASSUME row.seen = {} PROVE row.at = MaxHold
    <3>1. TimeIsUp(o)
      BY <1>9, <2>5 DEF Struck
    <3>2. Cardinality(1..n) = n
      BY <1>2, FS_Interval
    <3>3. n >= MaxHold
      BY <1>1, <2>1, <3>1, <3>2 DEF TimeIsUp
    <3> QED
      BY <1>0, <1>2, <1>6, <1>9, <2>1, <2>5, <3>3
  <2> QED
    BY <1>9, <2>2, <2>3, <2>4, <2>5
<1> QED
  BY <1>10, <1>11

\* What a candle touches afterwards, and candles that come later, leave what is known
\* of the market as it was.
LEMMA LaterMarks ==
  ASSUME LabelInv, NEW o \in Obs, born'[o] = born[o], symbol'[o] = symbol[o], label'[o] = label[o], frame' = frame,
         path'[o] \in Seq(Marks), Len(path[o]) <= Len(path'[o]),
         \A i \in 1..(Len(path[o]) - 1) : path'[o][i] = path[o][i],
         Len(path[o]) > 0 => path[o][Len(path[o])] \subseteq path'[o][Len(path[o])]
  PROVE  FrameOK(o)' /\ LabelOK(o)'
<1>0. /\ bar \in Nat /\ born[o] \in Nat /\ frame.bar \in Nat /\ frame.bar <= bar
      /\ path[o] \in Seq(Marks) /\ Len(path[o]) \in Nat /\ Len(path'[o]) \in Nat
      /\ born[o] > 0 => Len(path[o]) = bar - born[o]
  BY LabelFields DEF LabelInv
<1>1. \A i \in 1..Len(path[o]) : i \in 1..(Len(path[o]) - 1) \/ i = Len(path[o])
  BY <1>0
<1>2. ASSUME NEW i \in 1..Len(path[o]) PROVE path[o][i] \subseteq path'[o][i]
  <2>1. CASE i \in 1..(Len(path[o]) - 1)
    BY <2>1
  <2>2. CASE i = Len(path[o])
    BY <1>0, <2>2
  <2> QED
    BY <1>1, <2>1, <2>2
<1>3. FrameOK(o)'
  <2> SUFFICES ASSUME symbol[o] \in frame.of, born[o] > 0, frame.bar > born[o], label[o] = NoLabel
               PROVE  LET n == frame.bar - born[o]
                          shown == frame.path[o]
                      IN  /\ shown \in Seq(Marks) /\ Len(shown) = n
                          /\ \A i \in 1..(n - 1) : shown[i] = path'[o][i]
                          /\ shown[n] \subseteq path'[o][n]
    BY DEF FrameOK
  <2> DEFINE n == frame.bar - born[o]
             shown == frame.path[o]
  <2>1. /\ shown \in Seq(Marks) /\ Len(shown) = n
        /\ \A i \in 1..(n - 1) : shown[i] = path[o][i]
        /\ shown[n] \subseteq path[o][n]
    BY DEF LabelInv, FrameOK
  <2>2. n \in 1..Len(path[o]) /\ \A i \in 1..(n - 1) : i \in 1..(Len(path[o]) - 1)
    <3>1. n \in Nat /\ n >= 1 /\ n <= Len(path[o])
      BY <1>0
    <3> HIDE DEF n
    <3> QED
      BY <1>0, <3>1
  <2> HIDE DEF n, shown
  <2>3. /\ shown \in Seq(Marks) /\ Len(shown) = n
        /\ \A i \in 1..(n - 1) : shown[i] = path'[o][i]
        /\ shown[n] \subseteq path'[o][n]
    BY <1>2, <2>1, <2>2
  <2> QED
    BY <2>3 DEF n, shown
<1>4. LabelOK(o)'
  <2> DEFINE row == label[o]
  <2> SUFFICES ASSUME row # NoLabel, row.from = 1
               PROVE  /\ row.at \in 1..MaxHold /\ row.at <= Len(path'[o])
                      /\ \A i \in 1..(row.at - 1) : path'[o][i] = {}
                      /\ row.seen \subseteq path'[o][row.at]
                      /\ row.hit = Struck(row.seen)
                      /\ row.seen = {} => row.at = MaxHold
    BY DEF LabelOK
  <2>1. /\ row.at \in 1..MaxHold /\ row.at <= Len(path[o])
        /\ \A i \in 1..(row.at - 1) : path[o][i] = {}
        /\ row.seen \subseteq path[o][row.at]
        /\ row.hit = Struck(row.seen)
        /\ row.seen = {} => row.at = MaxHold
    BY DEF LabelInv, LabelOK
  <2>2. row.at \in 1..Len(path[o]) /\ row.at \in Nat
    BY <1>0, <2>1, LabelNumbers
  <2> HIDE DEF row
  <2>3. \A i \in 1..(row.at - 1) : i \in 1..(Len(path[o]) - 1)
    BY <1>0, <2>2
  <2>4. row.at <= Len(path'[o])
    BY <1>0, <2>2
  <2> QED
    BY <1>2, <2>1, <2>2, <2>3, <2>4
<1> QED
  BY <1>3, <1>4

\* The download goes, or stays, and nothing happens to the observation.
LEMMA NothingHappens ==
  ASSUME LabelInv, NEW o \in Obs, born'[o] = born[o], symbol'[o] = symbol[o], label'[o] = label[o],
         path'[o] = path[o],
         frame' = frame \/ frame' = NoFrame
  PROVE  FrameOK(o)' /\ LabelOK(o)'
<1>0. FrameOK(o) /\ LabelOK(o) /\ born[o] \in Nat
  BY LabelFields DEF LabelInv
<1>1. LabelOK(o)'
  BY <1>0 DEF LabelOK
<1>2. CASE frame' = frame
  BY <1>0, <1>1, <1>2 DEF FrameOK
<1>3. CASE frame' = NoFrame
  <2>1. NoFrame.bar = 0
    BY DEF NoFrame
  <2>2. ~(frame'.bar > born[o])
    BY <1>0, <1>3, <2>1
  <2> QED
    BY <1>1, <2>2 DEF FrameOK
<1> QED
  BY <1>2, <1>3

\* The initial state satisfies the invariant.
LEMMA LabelStart == LabelInit => LabelInv
<1> SUFFICES ASSUME LabelInit PROVE LabelInv
  OBVIOUS
<1>1. /\ bar = 1 /\ stage = "idle" /\ frame = NoFrame /\ pending = {} /\ labelFaults = 0
      /\ dropped = {} /\ symbol = [o \in Obs |-> "none"]
      /\ born = [o \in Obs |-> 0] /\ path = [o \in Obs |-> <<>>] /\ label = [o \in Obs |-> NoLabel]
  BY DEF LabelInit
<1>2. NoLabel \in LabelRow /\ <<>> \in Seq(Marks) /\ Len(<<>>) = 0 /\ NoFrame.bar = 0 /\ NoFrame.of = {}
  <2>1. 0 \in 0..MaxBar
    BY LabelNumbers
  <2>2. NoLabel \in LabelRow
    BY <2>1 DEF NoLabel, LabelRow, Marks
  <2> QED
    BY <2>2 DEF NoFrame
<1>3. LabelTypeOK
  <2>1. 1 \in 1..MaxBar /\ 0 \in 0..MaxBar /\ 0 \in 0..MaxLabelFaults /\ 0 \in 0..1
    BY LabelNumbers
  <2>2. path \in [Obs -> Seq(Marks)] /\ label \in [Obs -> LabelRow] /\ born \in [Obs -> 0..MaxBar]
    BY <1>1, <1>2, <2>1
  <2>3. \A o \in Obs : Len(path[o]) = IF born[o] = 0 THEN 0 ELSE bar - born[o]
    BY <1>1, <1>2
  <2> QED
    BY <1>1, <1>2, <2>1, <2>2, <2>3 DEF LabelTypeOK, Marks, LabelRow
<1>4. BornOK /\ PendingOK
  BY <1>1 DEF BornOK, PendingOK
<1>5. \A o \in Obs : FrameOK(o) /\ LabelOK(o)
  BY <1>1 DEF FrameOK, LabelOK
<1> QED
  BY <1>3, <1>4, <1>5 DEF LabelInv

\* The price touches a barrier.
LEMMA TouchPreserves ==
  ASSUME LabelInv, NEW o \in Obs, NEW barrier \in {"tp", "sl"}, Touch(o, barrier)
  PROVE  LabelInv'
<1>0. /\ LabelTypeOK /\ BornOK /\ PendingOK
      /\ UNCHANGED <<bar, dropped, born, symbol, label, stage, frame, pending, labelFaults>>
  BY DEF LabelInv, Touch
<1> DEFINE last == Len(path[o])
           later == [path[o] EXCEPT ![last] = @ \cup {barrier}]
<1>1. path \in [Obs -> Seq(Marks)] /\ path[o] \in Seq(Marks) /\ path[o] # <<>> /\ path' = [path EXCEPT ![o] = later]
  BY <1>0 DEF LabelTypeOK, Touch, Marks
<1>2. last \in Nat /\ last > 0 /\ path[o][last] \in Marks
  BY <1>1
<1>3. /\ later \in Seq(Marks) /\ Len(later) = last
      /\ \A i \in 1..last : later[i] = IF i = last THEN path[o][last] \cup {barrier} ELSE path[o][i]
  <2>1. path[o][last] \cup {barrier} \in Marks
    BY <1>2 DEF Marks
  <2> QED
    BY <1>1, <1>2, <2>1
<1> HIDE DEF later
<1>4. path' \in [Obs -> Seq(Marks)] /\ path'[o] = later /\ \A p \in Obs \ {o} : path'[p] = path[p]
  BY <1>1, <1>3
<1>5. LabelTypeOK'
  <2>1. \A p \in Obs : Len(path'[p]) = IF born[p] = 0 THEN 0 ELSE bar - born[p]
    BY <1>0, <1>3, <1>4 DEF LabelTypeOK
  <2> QED
    BY <1>0, <1>4, <2>1 DEF LabelTypeOK, Marks
<1>6. BornOK' /\ PendingOK'
  BY <1>0 DEF BornOK, PendingOK, Unlabelled
<1>7. ASSUME NEW p \in Obs PROVE FrameOK(p)' /\ LabelOK(p)'
  <2>1. CASE p = o
    <3>1. \A i \in 1..(last - 1) : i \in 1..last /\ i # last
      BY <1>2
    <3>2. last \in 1..last /\ last <= Len(later)
      BY <1>2, <1>3
    <3>3. \A i \in 1..(last - 1) : later[i] = path[o][i]
      BY <1>3, <3>1
    <3>4. path[o][last] \subseteq later[last]
      BY <1>3, <3>2
    <3> QED
      BY <1>0, <1>3, <1>4, <2>1, <3>2, <3>3, <3>4, LaterMarks
  <2>2. CASE p # o
    BY <1>0, <1>4, <2>2, NothingHappens
  <2> QED
    BY <2>1, <2>2
<1> QED
  BY <1>5, <1>6, <1>7 DEF LabelInv

\* A candle closes and the next one forms.
LEMMA NextBarPreserves ==
  ASSUME LabelInv, NextBar
  PROVE  LabelInv'
<1>0. /\ LabelTypeOK /\ BornOK /\ PendingOK
      /\ UNCHANGED <<dropped, born, symbol, label, stage, frame, pending, labelFaults>>
      /\ bar' = bar + 1 /\ bar < MaxBar /\ bar \in 1..MaxBar /\ MaxBar \in Nat /\ bar \in Nat
      /\ frame.bar \in 0..bar
  BY LabelNumbers DEF LabelInv, NextBar, LabelTypeOK
<1>1. path' = [o \in Obs |-> IF born[o] > 0 THEN Append(path[o], {}) ELSE path[o]]
  BY DEF NextBar
<1>2. ASSUME NEW o \in Obs
      PROVE  /\ path'[o] \in Seq(Marks)
             /\ Len(path'[o]) = IF born[o] = 0 THEN 0 ELSE bar' - born[o]
             /\ Len(path[o]) <= Len(path'[o])
             /\ \A i \in 1..Len(path[o]) : path'[o][i] = path[o][i]
  <2>0. /\ path[o] \in Seq(Marks) /\ Len(path[o]) \in Nat /\ born[o] \in Nat /\ {} \in Marks
        /\ Len(path[o]) = IF born[o] = 0 THEN 0 ELSE bar - born[o]
    BY <1>0, LabelFields DEF Marks
  <2>1. CASE born[o] > 0
    <3>1. path'[o] = Append(path[o], {})
      BY <1>1, <2>1
    <3>2. /\ path'[o] \in Seq(Marks) /\ Len(path'[o]) = Len(path[o]) + 1
          /\ \A i \in 1..Len(path[o]) : path'[o][i] = path[o][i]
      BY <2>0, <3>1
    <3> QED
      BY <1>0, <2>0, <2>1, <3>2
  <2>2. CASE born[o] = 0
    <3>1. path'[o] = path[o]
      BY <1>1, <2>2
    <3> QED
      BY <2>0, <2>2, <3>1
  <2> QED
    BY <2>0, <2>1, <2>2
<1>3. LabelTypeOK'
  <2>1. path' \in [Obs -> Seq(Marks)]
    BY <1>1, <1>2
  <2>2. bar' \in 1..MaxBar /\ frame'.bar \in 0..bar'
    BY <1>0
  <2> QED
    BY <1>0, <1>2, <2>1, <2>2 DEF LabelTypeOK, Marks
<1>4. BornOK' /\ PendingOK'
  <2>1. ASSUME NEW o \in Obs PROVE born[o] <= bar'
    BY <1>0, LabelFields DEF BornOK
  <2> QED
    BY <1>0, <2>1 DEF BornOK, PendingOK, Unlabelled
<1>5. ASSUME NEW o \in Obs PROVE FrameOK(o)' /\ LabelOK(o)'
  <2>1. Len(path[o]) \in Nat
    BY <1>0, LabelFields
  <2>2. /\ \A i \in 1..(Len(path[o]) - 1) : path'[o][i] = path[o][i]
        /\ Len(path[o]) > 0 => path[o][Len(path[o])] \subseteq path'[o][Len(path[o])]
    BY <1>2, <2>1
  <2> QED
    BY <1>0, <1>2, <2>2, LaterMarks
<1> QED
  BY <1>3, <1>4, <1>5 DEF LabelInv

\* A symbol is downloaded no more.
LEMMA DropPreserves ==
  ASSUME LabelInv, NEW s \in Symbol, Drop(s)
  PROVE  LabelInv'
<1>1. LabelTypeOK' /\ BornOK' /\ PendingOK'
  BY DEF LabelInv, Drop, LabelTypeOK, BornOK, PendingOK, Unlabelled
<1>2. \A o \in Obs : FrameOK(o)' /\ LabelOK(o)'
  BY NothingHappens DEF Drop
<1> QED
  BY <1>1, <1>2 DEF LabelInv

\* An observation is made.
LEMMA ObservePreserves ==
  ASSUME LabelInv, NEW o \in Obs, Observe(o)
  PROVE  LabelInv'
<1>0. /\ LabelTypeOK /\ BornOK /\ PendingOK
      /\ UNCHANGED <<bar, dropped, path, label, stage, frame, pending, labelFaults>>
      /\ born[o] = 0 /\ born' = [born EXCEPT ![o] = bar] /\ stage = "cycle"
      /\ bar \in Nat /\ bar \in 1..MaxBar /\ bar \in 0..MaxBar /\ born \in [Obs -> 0..MaxBar]
  BY LabelNumbers DEF LabelInv, Observe, LabelTypeOK
<1>1. /\ born' \in [Obs -> 0..MaxBar] /\ born'[o] = bar
      /\ symbol' \in [Obs -> Symbol \cup {"none"}]
      /\ \A p \in Obs \ {o} : born'[p] = born[p] /\ symbol'[p] = symbol[p]
  <2>1. PICK s \in Symbol : symbol' = [symbol EXCEPT ![o] = s]
    BY <1>0 DEF Observe, LabelTypeOK
  <2> QED
    BY <1>0, <2>1 DEF LabelTypeOK
<1>2. label[o] = NoLabel /\ Len(path[o]) = 0 /\ frame.bar \in Nat /\ frame.bar <= bar
  BY <1>0, LabelFields DEF BornOK
<1>3. LabelTypeOK'
  <2>1. ASSUME NEW p \in Obs PROVE Len(path[p]) = IF born'[p] = 0 THEN 0 ELSE bar - born'[p]
    <3>1. CASE p = o
      BY <1>0, <1>1, <1>2, <3>1
    <3>2. CASE p # o
      BY <1>0, <1>1, <3>2 DEF LabelTypeOK
    <3> QED
      BY <3>1, <3>2
  <2> QED
    BY <1>0, <1>1, <2>1 DEF LabelTypeOK
<1>4. BornOK'
  <2>1. ASSUME NEW p \in Obs PROVE born'[p] <= bar /\ (born'[p] = 0 => label[p] = NoLabel)
    <3>1. CASE p = o
      BY <1>0, <1>1, <3>1
    <3>2. CASE p # o
      BY <1>0, <1>1, <3>2 DEF BornOK
    <3> QED
      BY <3>1, <3>2
  <2> QED
    BY <1>0, <2>1 DEF BornOK
<1>5. PendingOK'
  <2>1. Unlabelled \subseteq Unlabelled'
    BY <1>0, <1>1 DEF Unlabelled
  <2> QED
    BY <1>0, <2>1 DEF PendingOK
<1>6. ASSUME NEW p \in Obs PROVE FrameOK(p)' /\ LabelOK(p)'
  <2>1. CASE p = o
    <3>1. ~(frame'.bar > born'[o]) /\ label'[o] = NoLabel
      BY <1>0, <1>1, <1>2
    <3> QED
      BY <2>1, <3>1 DEF FrameOK, LabelOK
  <2>2. CASE p # o
    BY <1>0, <1>1, <2>2, NothingHappens
  <2> QED
    BY <2>1, <2>2
<1> QED
  BY <1>3, <1>4, <1>5, <1>6 DEF LabelInv

\* A download shows the market as it is.
LEMMA FetchPreserves ==
  ASSUME LabelInv, Fetch
  PROVE  LabelInv'
<1>0. /\ LabelTypeOK /\ BornOK /\ PendingOK /\ UNCHANGED <<bar, dropped, born, symbol, path, label, pending>>
      /\ stage = "idle" /\ bar \in Nat
  BY LabelNumbers DEF LabelInv, Fetch, LabelTypeOK
<1>1. PICK served \in SUBSET Symbol :
        /\ LabelFault \/ UNCHANGED labelFaults
        /\ stage' = IF served = {} THEN "idle" ELSE "cycle"
        /\ frame' = IF served = {} THEN NoFrame
                    ELSE [of |-> served, bar |-> bar,
                          path |-> [o \in Obs |-> IF label[o] = NoLabel /\ symbol[o] \in served
                                                 THEN path[o] ELSE <<>>]]
  BY DEF Fetch
<1>2. \/ frame' = NoFrame
      \/ /\ frame'.of = served /\ frame'.bar = bar
         /\ frame'.path = [o \in Obs |-> IF label[o] = NoLabel /\ symbol[o] \in served
                                         THEN path[o] ELSE <<>>]
  BY <1>1
<1>3. frame'.of \subseteq Symbol /\ frame'.bar \in 0..bar
  <2>1. NoFrame.of = {} /\ NoFrame.bar = 0
    BY DEF NoFrame
  <2> QED
    BY <1>0, <1>2, <2>1
<1>4. labelFaults' \in 0..MaxLabelFaults
  BY <1>0, <1>1, LabelNumbers DEF LabelTypeOK, LabelFault
<1>5. LabelTypeOK' /\ BornOK' /\ PendingOK'
  <2>1. stage' \in {"idle", "cycle"}
    BY <1>1
  <2> QED
    BY <1>0, <1>3, <1>4, <2>1 DEF LabelTypeOK, BornOK, PendingOK, Unlabelled
<1>6. ASSUME NEW o \in Obs PROVE FrameOK(o)' /\ LabelOK(o)'
  <2>1. CASE frame' = NoFrame
    BY <1>0, <2>1, NothingHappens
  <2>2. CASE frame' # NoFrame
    <3>1. LabelOK(o)'
      BY <1>0 DEF LabelInv, LabelOK
    <3>2. ASSUME symbol[o] \in frame'.of, born[o] > 0, label[o] = NoLabel
          PROVE  frame'.path[o] = path[o] /\ Len(path[o]) = frame'.bar - born[o] /\ path[o] \in Seq(Marks)
      BY <1>0, <1>2, <2>2, <3>2, LabelFields
    <3> QED
      BY <1>0, <3>1, <3>2 DEF FrameOK
  <2> QED
    BY <2>1, <2>2
<1> QED
  BY <1>5, <1>6 DEF LabelInv

\* The oldest observations without a label are read, or the read raises, or the
\* process dies.
LEMMA ReadPreserves ==
  ASSUME LabelInv, ReadPending \/ LabelRestart \/ UNCHANGED labelVars
  PROVE  LabelInv'
<1>0. /\ LabelTypeOK /\ BornOK /\ PendingOK /\ UNCHANGED <<bar, dropped, born, symbol, path, label>>
      /\ bar \in Nat
  BY LabelNumbers DEF LabelInv, ReadPending, LabelRestart, labelVars, LabelTypeOK
<1>1. frame' = frame \/ frame' = NoFrame
  BY DEF ReadPending, LabelRestart, labelVars, Leave
<1>2. labelFaults' \in 0..MaxLabelFaults
  BY <1>0, LabelNumbers DEF LabelTypeOK, LabelFault, ReadPending, LabelRestart, labelVars
<1>3. stage' \in {"idle", "cycle", "label"}
  BY <1>0 DEF LabelTypeOK, ReadPending, LabelRestart, labelVars, Leave
<1>4. Unlabelled # {} => {o \in Unlabelled : Cardinality({p \in Unlabelled : p < o}) < LabelBatch} # {}
  <2> SUFFICES ASSUME Unlabelled # {}
               PROVE  \E o \in Unlabelled : Cardinality({p \in Unlabelled : p < o}) < LabelBatch
    OBVIOUS
  <2>1. PICK o \in Unlabelled : \A p \in Unlabelled : o <= p
    BY LeastNumber, LabelNumbers DEF Unlabelled
  <2>2. ASSUME NEW p \in Unlabelled PROVE ~(p < o)
    <3>1. p \in Nat /\ o \in Nat /\ o <= p
      BY <2>1, LabelNumbers DEF Unlabelled
    <3> QED
      BY <3>1
  <2>3. Cardinality({}) < LabelBatch
    BY FS_EmptySet, LabelNumbers
  <2> QED
    BY <2>2, <2>3
<1>5. PendingOK'
  <2>1. CASE ReadPending
    BY <1>0, <1>4, <2>1 DEF PendingOK, ReadPending, Leave, Unlabelled
  <2>2. CASE LabelRestart \/ UNCHANGED labelVars
    BY <1>0, <2>2 DEF PendingOK, LabelRestart, labelVars, Leave, Unlabelled
  <2> QED
    BY <2>1, <2>2
<1>6. frame'.bar \in 0..bar /\ frame'.of \subseteq Symbol
  <2>1. NoFrame.bar = 0 /\ NoFrame.of = {}
    BY DEF NoFrame
  <2> QED
    BY <1>0, <1>1, <2>1 DEF LabelTypeOK
<1>7. LabelTypeOK' /\ BornOK'
  BY <1>0, <1>2, <1>3, <1>5, <1>6 DEF LabelTypeOK, BornOK, PendingOK, Unlabelled
<1>8. \A o \in Obs : FrameOK(o)' /\ LabelOK(o)'
  BY <1>0, <1>1, NothingHappens
<1> QED
  BY <1>5, <1>7, <1>8 DEF LabelInv

\* A waiting observation is labelled, passed over, or its save raises.
LEMMA LabelOnePreserves ==
  ASSUME LabelInv, LabelOne
  PROVE  LabelInv'
<1> DEFINE o == Min(pending)
           settled == Future(o) # {} /\ (Window(o).hit # "TIME" \/ TimeIsUp(o))
<1>0. /\ LabelTypeOK /\ BornOK /\ PendingOK /\ UNCHANGED <<bar, dropped, born, symbol, path>> /\ stage = "label"
      /\ bar \in Nat /\ pending \subseteq Unlabelled /\ pending # {}
      /\ label \in [Obs -> LabelRow]
  BY LabelNumbers DEF LabelInv, LabelOne, LabelTypeOK, PendingOK, LabelRow, Marks
<1>1. o \in pending /\ o \in Unlabelled /\ o \in Obs /\ born[o] > 0 /\ label[o] = NoLabel
  <2>1. o \in pending
    BY <1>0, MinIn, LabelNumbers DEF Unlabelled
  <2> QED
    BY <1>0, <2>1 DEF Unlabelled
<1>2. /\ \/ /\ label' = IF settled THEN [label EXCEPT ![o] = Window(o)] ELSE label
            /\ pending' = pending \ {o}
            /\ UNCHANGED labelFaults
         \/ settled /\ LabelFault /\ pending' = {} /\ UNCHANGED label
      /\ Leave(IF pending' = {} THEN "idle" ELSE "label")
  BY DEF LabelOne
<1>3. settled =>
        /\ Window(o) \in LabelRow
        /\ Window(o).from = 1 =>
             /\ Window(o).at \in 1..MaxHold /\ Window(o).at <= Len(path[o])
             /\ \A i \in 1..(Window(o).at - 1) : path[o][i] = {}
             /\ Window(o).seen \subseteq path[o][Window(o).at]
             /\ Window(o).hit = Struck(Window(o).seen)
             /\ Window(o).seen = {} => Window(o).at = MaxHold
  <2> HIDE DEF o
  <2> QED
    BY <1>1, WindowIsSound DEF settled
<1> HIDE DEF o, settled
<1>4. /\ \A p \in Obs \ {o} : label'[p] = label[p]
      /\ label' \in [Obs -> LabelRow]
      /\ label'[o] = NoLabel \/ (settled /\ label'[o] = Window(o))
      /\ label'[o] # NoLabel => o \notin pending'
  <2>1. CASE label' = label
    BY <1>0, <1>1, <2>1
  <2>2. CASE settled /\ label' = [label EXCEPT ![o] = Window(o)] /\ pending' = pending \ {o}
    BY <1>0, <1>1, <1>3, <2>2
  <2> QED
    BY <1>2, <2>1, <2>2
<1>5. frame' = frame \/ frame' = NoFrame
  BY <1>2 DEF Leave
<1>6. stage' = IF pending' = {} THEN "idle" ELSE "label"
  BY <1>2 DEF Leave
<1>7. LabelTypeOK'
  <2>1. labelFaults' \in 0..MaxLabelFaults
    BY <1>0, <1>2, LabelNumbers DEF LabelTypeOK, LabelFault
  <2>2. frame'.bar \in 0..bar /\ frame'.of \subseteq Symbol
    <3>1. NoFrame.bar = 0 /\ NoFrame.of = {}
      BY DEF NoFrame
    <3> QED
      BY <1>0, <1>5, <3>1 DEF LabelTypeOK
  <2>3. pending' \subseteq Obs /\ stage' \in {"idle", "cycle", "label"}
    BY <1>0, <1>2, <1>6 DEF Unlabelled
  <2> QED
    BY <1>0, <1>4, <2>1, <2>2, <2>3 DEF LabelTypeOK, LabelRow, Marks
<1>8. BornOK'
  <2>1. ASSUME NEW p \in Obs, born[p] = 0 PROVE label'[p] = NoLabel
    BY <1>0, <1>1, <1>4, <2>1 DEF BornOK
  <2> QED
    BY <1>0, <2>1 DEF BornOK
<1>9. PendingOK'
  <2>1. ASSUME NEW p \in pending' PROVE p \in Unlabelled'
    BY <1>0, <1>1, <1>2, <1>4, <2>1 DEF Unlabelled
  <2> QED
    BY <1>6, <2>1 DEF PendingOK
<1>10. ASSUME NEW p \in Obs PROVE FrameOK(p)' /\ LabelOK(p)'
  <2>1. CASE label'[p] = label[p]
    BY <1>0, <1>5, <2>1, NothingHappens
  <2>2. CASE label'[p] # label[p]
    <3>1. p = o /\ label'[o] # NoLabel /\ settled /\ label'[o] = Window(o)
      BY <1>1, <1>4, <2>2
    <3>2. /\ label'[p] \in LabelRow
          /\ label'[p].from = 1 =>
             /\ label'[p].at \in 1..MaxHold /\ label'[p].at <= Len(path[p])
             /\ \A i \in 1..(label'[p].at - 1) : path[p][i] = {}
             /\ label'[p].seen \subseteq path[p][label'[p].at]
             /\ label'[p].hit = Struck(label'[p].seen)
             /\ label'[p].seen = {} => label'[p].at = MaxHold
      BY <1>3, <3>1
    <3>3. LabelOK(p)'
      BY <1>0, <3>2 DEF LabelOK
    <3>4. FrameOK(p)'
      BY <3>1 DEF FrameOK
    <3> QED
      BY <3>3, <3>4
  <2> QED
    BY <2>1, <2>2
<1> QED
  BY <1>7, <1>8, <1>9, <1>10 DEF LabelInv

\* The invariant holds from step to step.
LEMMA LabelPreserved == LabelInv /\ [LabelNext]_labelVars => LabelInv'
BY TouchPreserves, NextBarPreserves, DropPreserves, ObservePreserves, FetchPreserves, ReadPreserves, LabelOnePreserves
DEF LabelNext

\* The invariant of the labels.
THEOREM LabelInvariant == LabelSteps => []LabelInv
BY LabelStart, LabelPreserved, PTL DEF LabelSteps

\* Every variable of the labels keeps its type, for any number of observations, any
\* horizon and any frame.
THEOREM LabelTypes == LabelSteps => []LabelTypeOK
<1>1. LabelInv => LabelTypeOK
  BY DEF LabelInv
<1> QED
  BY <1>1, LabelInvariant, PTL

\* A label that looked from the first candle on, and whose candle touched no more
\* afterwards, is the one the market deserves (labeler.py:67-91, main.py:1350-1356).
THEOREM LabelsDeserved == LabelSteps => []LabelIsDeserved
<1>1. LabelInv => LabelIsDeserved
  <2> SUFFICES ASSUME LabelInv, NEW o \in Obs, label[o] # NoLabel, label[o].from = 1,
                      label[o].seen = path[o][label[o].at]
               PROVE  label[o].hit = Deserved(o) /\ (label[o].hit = "TIME" => label[o].at = MaxHold)
    BY DEF LabelIsDeserved
  <2> DEFINE row == label[o]
             to == Min({Len(path[o]), MaxHold})
             real == Outcome(path[o], 1, to)
  <2>1. /\ row.at \in 1..MaxHold /\ row.at <= Len(path[o])
        /\ \A i \in 1..(row.at - 1) : path[o][i] = {}
        /\ row.seen = path[o][row.at]
        /\ row.hit = Struck(row.seen)
        /\ row.seen = {} => row.at = MaxHold
    BY DEF LabelInv, LabelOK
  <2>2. path[o] \in Seq(Marks) /\ Len(path[o]) \in Nat /\ MaxHold \in Nat /\ MaxHold >= 1
        /\ row.at \in Nat /\ row.at >= 1 /\ row.at <= MaxHold
    BY <2>1, LabelFields, LabelNumbers DEF LabelInv
  <2>3. to \in Nat /\ row.at <= to /\ to <= Len(path[o]) /\ to <= MaxHold
    <3>1. {Len(path[o]), MaxHold} \in SUBSET Nat
      BY <2>2
    <3>2. to \in {Len(path[o]), MaxHold} /\ to <= Len(path[o]) /\ to <= MaxHold
      BY <3>1, MinIn
    <3> HIDE DEF to
    <3> QED
      BY <2>1, <2>2, <3>2
  <2> HIDE DEF row, to
  <2>4. /\ real.at \in 1..to /\ real.seen = path[o][real.at]
        /\ \A i \in 1..(real.at - 1) : path[o][i] = {}
        /\ real.hit = Struck(real.seen)
        /\ real.seen = {} => real.at = to
    <3>1. PICK first \in Nat \ {0} : first = 1
      OBVIOUS
    <3>2. real = Outcome(path[o], first, to) /\ first <= to
      BY <2>2, <2>3, <3>1
    <3> HIDE DEF real
    <3>3. /\ real.at \in first..to /\ real.seen = path[o][real.at]
          /\ \A i \in first..(real.at - 1) : path[o][i] = {}
          /\ real.hit = Struck(real.seen)
          /\ real.seen = {} => real.at = to
      BY <2>2, <2>3, <3>2, OutcomeIs
    <3> QED
      BY <3>1, <3>3
  <2> HIDE DEF real
  <2>5. real.at = row.at
    <3>1. ASSUME real.at < row.at PROVE FALSE
      <4>1. real.at \in 1..(row.at - 1)
        BY <2>2, <2>3, <2>4, <3>1
      <4>2. real.at = to
        BY <2>1, <2>4, <4>1
      <4> QED
        BY <2>2, <2>3, <3>1, <4>2
    <3>2. ASSUME real.at > row.at PROVE FALSE
      <4>1. row.at \in 1..(real.at - 1)
        BY <2>2, <2>3, <2>4, <3>2
      <4>2. row.at = MaxHold
        BY <2>1, <2>4, <4>1
      <4> QED
        BY <2>2, <2>3, <2>4, <3>2, <4>2
    <3> QED
      BY <2>2, <2>3, <2>4, <3>1, <3>2
  <2>6. Deserved(o) = real.hit
    BY DEF Deserved, real, to
  <2>7. row.hit = "TIME" => row.seen = {}
    BY <2>1 DEF Struck
  <2> QED
    BY <2>1, <2>4, <2>5, <2>6, <2>7 DEF row
<1> QED
  BY <1>1, LabelInvariant, PTL

-----------------------------------------------------------------------------
\* The part of the paths is a behaviour of PathMetrics.
LEMMA PathsPart == ResearchSpec => MetricsSteps
<1>1. ResearchInit => MetricsInit
  BY DEF ResearchInit
<1>2. [ResearchNext]_allVars => [MetricsNext]_metricVars
  BY DEF ResearchNext, allVars
<1> QED
  BY <1>1, <1>2, PTL DEF ResearchSpec, MetricsSteps

\* The part of the labels is a behaviour of Labeling.
LEMMA LabelsPart == ResearchSpec => LabelSteps
<1>1. ResearchInit => LabelInit
  BY DEF ResearchInit
<1>2. [ResearchNext]_allVars => [LabelNext]_labelVars
  BY DEF ResearchNext, allVars, Labels
<1> QED
  BY <1>1, <1>2, PTL DEF ResearchSpec, LabelSteps

\* The part of the collectors is a behaviour of TradeCollector.
LEMMA CollectorsPart == ResearchSpec => TradesP!SafetySpec
<1>1. ResearchInit => TradesP!Init
  BY DEF ResearchInit, Trades!Init, TradesP!Init, Trades!NoLock, TradesP!NoLock
<1>2. Trades!Next => TradesP!Next
  BY DEF
     Trades!Next, TradesP!Next, Trades!Step, TradesP!Step, Trades!Crash, TradesP!Crash,
     Trades!Interrupt, TradesP!Interrupt, Trades!Publish, TradesP!Publish, Trades!Tick,
     TradesP!Tick, Trades!AcquireRead, TradesP!AcquireRead, Trades!AcquireWrite,
     TradesP!AcquireWrite, Trades!Seed, TradesP!Seed, Trades!Connect, TradesP!Connect,
     Trades!GiveUp, TradesP!GiveUp, Trades!Deliver, TradesP!Deliver, Trades!FlushDue,
     TradesP!FlushDue, Trades!EndSession, TradesP!EndSession, Trades!AppendRows,
     TradesP!AppendRows, Trades!Refresh, TradesP!Refresh, Trades!ReleaseRead, TradesP!ReleaseRead,
     Trades!Unlink, TradesP!Unlink, Trades!Goto, TradesP!Goto, Trades!ToSet, TradesP!ToSet,
     Trades!Forget, TradesP!Forget, Trades!NoLock, TradesP!NoLock, Trades!Fresh, TradesP!Fresh,
     Trades!Running, TradesP!Running, Trades!Blame, TradesP!Blame, Trades!Tail_, TradesP!Tail_,
     Trades!Stored, TradesP!Stored, Trades!Buffered, TradesP!Buffered, Trades!Max, TradesP!Max
<1>3. [ResearchNext]_allVars => [TradesP!Next]_TradesP!vars
  BY <1>2 DEF ResearchNext, allVars, tradeVars, TradesP!vars
<1> QED
  BY <1>1, <1>3, PTL DEF ResearchSpec, TradesP!SafetySpec

\* Beside one another the collectors, the metrics and the labels keep their types,
\* whatever their sizes are.
THEOREM ResearchTypes == ResearchSpec => []ResearchTypeOK
<1>1. TradesP!CollectorAssumption
  BY ResearchAssumption DEF Trades!CollectorAssumption, TradesP!CollectorAssumption
<1>2. TradesP!TypeOK => Trades!TypeOK
  BY DEF Trades!TypeOK, TradesP!TypeOK
<1>3. MetricsTypeOK /\ LabelTypeOK /\ TradesP!TypeOK => ResearchTypeOK
  BY <1>2 DEF ResearchTypeOK
<1> QED
  BY <1>1, <1>3, CollectorsPart, TradesP!CollectorTypes, PathsPart, MetricsTypes, LabelsPart, LabelTypes, PTL

\* What is proved of the metrics and of the labels holds where they run beside each
\* other (mfe_mae_tracker.py:96-105, 183-217, 400-419, labeler.py:67-91).
THEOREM ResearchKeepsItsPromises ==
  ResearchSpec => [](ActiveBounded /\ PathConsistent /\ LabelIsDeserved) /\ PathOnlyGrows
BY PathsPart, ActiveMetricsBounded, PathsConsistent, PathsOnlyGrow, LabelsPart, LabelsDeserved, PTL
=============================================================================
