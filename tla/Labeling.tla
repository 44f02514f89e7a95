------------------------------ MODULE Labeling ------------------------------
(***************************************************************************)
(* The triple-barrier labels of observations: labeler.py as the main loop   *)
(* runs it.  A cycle downloads the last candles of every symbol, the newest *)
(* still forming, records observations, and then labels the oldest ones     *)
(* without a label, on the candles it has.  The market goes on all the      *)
(* while, and symbols are taken off it.                                     *)
(***************************************************************************)
EXTENDS Naturals, Sequences, FiniteSets, FiniteSetsExt, SequencesExt

CONSTANTS
    Symbol,
    MaxObs,      \* bound of the model: observations, by id
    Frame,       \* candles of a download
    MaxHold,     \* max_holding_bars
    LabelBatch,  \* limit of fetch_unlabeled_signal_observations
    MaxBar,      \* bound of the model: the last candle
    MaxLabelFaults   \* bound of the model: calls that raise, restarts

ASSUME LabelingAssumption ==
    /\ "none" \notin Symbol
    /\ {MaxObs, MaxHold, LabelBatch, MaxBar} \subseteq Nat \ {0}
    /\ Frame \in Nat /\ Frame >= MaxHold
    /\ MaxLabelFaults \in Nat

Obs == 1..MaxObs

VARIABLES
    bar,      \* the candle that is forming
    dropped,  \* symbols that no download brings any more
    born,     \* by observation: the candle it was made in, 0 before
    symbol,   \* by observation: what it was made of
    path,     \* by observation: the barriers each later candle has touched so far
    label,    \* by observation: its row in signal_labels
    stage,
    frame,    \* the download of the cycle: its symbols, the newest candle, and path at that time
    pending,  \* observations still to look at in this cycle
    labelFaults

labelVars == <<bar, dropped, born, symbol, path, label, stage, frame, pending, labelFaults>>

(* What a label was given for: the barrier, the candle that decided and what had *)
(* been touched of it, and the first candle looked at, counted from the birth. *)
NoLabel == [hit |-> "none", at |-> 0, seen |-> {}, from |-> 0]
NoFrame == [of |-> {}, bar |-> 0, path |-> [o \in Obs |-> <<>>]]
Unlabelled == {o \in Obs : born[o] > 0 /\ label[o] = NoLabel}

LabelInit ==
    /\ bar = 1
    /\ dropped = {}
    /\ born = [o \in Obs |-> 0]
    /\ symbol = [o \in Obs |-> "none"]
    /\ path = [o \in Obs |-> <<>>]
    /\ label = [o \in Obs |-> NoLabel]
    /\ stage = "idle"
    /\ frame = NoFrame
    /\ pending = {}
    /\ labelFaults = 0

LabelFault == labelFaults < MaxLabelFaults /\ labelFaults' = labelFaults + 1

(* The download goes with the cycle. *)
Leave(place) ==
    /\ stage' = place
    /\ frame' = IF place = "idle" THEN NoFrame ELSE frame

(* fetch_all, which leaves a symbol out when its download raises; when it brings *)
(* none the cycle is over.  Of observations that are labelled or of other symbols *)
(* nothing is kept: nobody looks at them. *)
Fetch ==
    /\ stage = "idle"
    /\ \E served \in SUBSET (Symbol \ dropped) :
        /\ served # Symbol \ dropped => LabelFault
        /\ served = Symbol \ dropped => UNCHANGED labelFaults
        /\ stage' = IF served = {} THEN "idle" ELSE "cycle"
        /\ frame' = IF served = {} THEN NoFrame
                    ELSE [of |-> served, bar |-> bar,
                          path |-> [o \in Obs |-> IF label[o] = NoLabel /\ symbol[o] \in served
                                                 THEN path[o] ELSE <<>>]]
    /\ UNCHANGED <<bar, dropped, born, symbol, path, label, pending>>

(* An observation with a side, of a symbol of the download; candles that open *)
(* later are its future. *)
Observe(o) ==
    /\ stage = "cycle"
    /\ born[o] = 0 /\ \A p \in 1..(o - 1) : born[p] > 0
    /\ born' = [born EXCEPT ![o] = bar]
    /\ \E s \in frame.of : symbol' = [symbol EXCEPT ![o] = s]
    /\ UNCHANGED <<bar, dropped, path, label, stage, frame, pending, labelFaults>>

(* fetch_unlabeled_signal_observations: the oldest come first. *)
ReadPending ==
    /\ stage = "cycle"
    /\ \/ /\ pending' = {o \in Unlabelled : Cardinality({p \in Unlabelled : p < o}) < LabelBatch}
          /\ Leave(IF Unlabelled = {} THEN "idle" ELSE "label")
          /\ UNCHANGED labelFaults
       \/ LabelFault /\ pending' = {} /\ Leave("idle")
    /\ UNCHANGED <<bar, dropped, born, symbol, path, label>>

(* Positions after the birth of the candles in the frame of its symbol. *)
Future(o) ==
    LET first == Max({1, frame.bar - Frame + 1 - born[o]})
    IN  IF symbol[o] \notin frame.of \/ frame.bar <= born[o] THEN {} ELSE first..(frame.bar - born[o])

(* label_observation on touched, the barriers of the candles from..to: the stop *)
(* wins when a candle touched both. *)
Outcome(touched, from, to) ==
    LET struck == {i \in from..to : touched[i] # {}}
        at == IF struck = {} THEN to ELSE Min(struck)
    IN  [hit |-> IF struck = {} THEN "TIME" ELSE IF "sl" \in touched[at] THEN "SL" ELSE "TP1",
         at |-> at, seen |-> touched[at], from |-> from]

(* A slip: time is up as soon as nothing was touched. *)
TimeIsUpAtOnce(o) == Future(o) # {}

(* A slip: one candle more than the horizon is asked for. *)
TimeIsUpLate(o) == Cardinality(Future(o)) > MaxHold

TimeIsUp(o) == Cardinality(Future(o)) >= MaxHold

Window(o) == Outcome(frame.path[o], Min(Future(o)), Min({Max(Future(o)), Min(Future(o)) + MaxHold - 1}))

(* One pending observation: when its symbol was not downloaded or there are no *)
(* later candles, or with time left and no barrier touched, it is passed over.  A save that raises ends the pass. *)
LabelOne ==
    /\ stage = "label"
    /\ LET o == Min(pending)
           settled == Future(o) # {} /\ (Window(o).hit # "TIME" \/ TimeIsUp(o))
       IN  \/ /\ label' = IF settled THEN [label EXCEPT ![o] = Window(o)] ELSE label
              /\ pending' = pending \ {o}
              /\ UNCHANGED labelFaults
           \/ settled /\ LabelFault /\ pending' = {} /\ UNCHANGED label
    /\ Leave(IF pending' = {} THEN "idle" ELSE "label")
    /\ UNCHANGED <<bar, dropped, born, symbol, path>>

(* The price touches a barrier in the candle that is forming.  Of a labelled *)
(* observation only the candle that decided is followed to its close. *)
Touch(o, barrier) ==
    /\ path[o] # <<>>
    /\ label[o] = NoLabel \/ label[o].at = Len(path[o])
    /\ barrier \notin Last(path[o])
    /\ path' = [path EXCEPT ![o][Len(path[o])] = @ \cup {barrier}]
    /\ UNCHANGED <<bar, dropped, born, symbol, label, stage, frame, pending, labelFaults>>

NextBar ==
    /\ bar < MaxBar
    /\ bar' = bar + 1
    /\ path' = [o \in Obs |-> IF born[o] > 0 THEN Append(path[o], {}) ELSE path[o]]
    /\ UNCHANGED <<dropped, born, symbol, label, stage, frame, pending, labelFaults>>

(* The exchange takes a symbol off, and its downloads raise from now on; or it is *)
(* gone from the list of symbols at the next start. *)
Drop(s) ==
    /\ dropped' = dropped \cup {s}
    /\ UNCHANGED <<bar, born, symbol, path, label, stage, frame, pending, labelFaults>>

LabelRestart ==
    /\ stage # "idle"
    /\ LabelFault
    /\ Leave("idle") /\ pending' = {}
    /\ UNCHANGED <<bar, dropped, born, symbol, path, label>>

LabelNext ==
    \/ Fetch \/ ReadPending \/ LabelOne \/ NextBar \/ LabelRestart
    \/ \E s \in Symbol \ dropped : Drop(s)
    \/ \E o \in Obs : Observe(o) \/ \E barrier \in {"tp", "sl"} : Touch(o, barrier)

(* The main loop and the clock go on. *)
LabelFairness ==
    WF_labelVars(Fetch) /\ WF_labelVars(ReadPending) /\ WF_labelVars(LabelOne) /\ WF_labelVars(NextBar)

LabelSpec == LabelInit /\ [][LabelNext]_labelVars /\ LabelFairness
-----------------------------------------------------------------------------
(* Every variable keeps its type. *)
LabelTypeOK ==
    /\ bar \in 1..MaxBar
    /\ dropped \subseteq Symbol
    /\ born \in [Obs -> 0..MaxBar]
    /\ symbol \in [Obs -> Symbol \cup {"none"}]
    /\ path \in [Obs -> Seq(SUBSET {"tp", "sl"})]
    /\ \A o \in Obs : Len(path[o]) = IF born[o] = 0 THEN 0 ELSE bar - born[o]
    /\ label \in [Obs -> [hit : {"none", "SL", "TP1", "TIME"}, at : 0..MaxBar,
                          seen : SUBSET {"tp", "sl"}, from : 0..MaxBar]]
    /\ stage \in {"idle", "cycle", "label"}
    /\ pending \subseteq Obs
    /\ frame.of \subseteq Symbol /\ frame.bar \in 0..bar
    /\ labelFaults \in 0..MaxLabelFaults

(* The label an observation deserves by the market as it turned out. *)
Deserved(o) == Outcome(path[o], 1, Min({Len(path[o]), MaxHold})).hit

(* A label is what the market says, over late cycles, failed downloads, a batch *)
(* and restarts; but when the candle that decided had not closed and touched more *)
(* afterwards, or when the first candles had left the frame, it need not be *)
(* (labeler.py:67-91, main.py:1350-1356). *)
LabelIsDeserved ==
    \A o \in Obs : LET row == label[o] IN
        row # NoLabel /\ row.from = 1 /\ row.seen = path[o][row.at] =>
            /\ row.hit = Deserved(o)
            /\ row.hit = "TIME" => row.at = MaxHold

Reached(o) == born[o] \in 1..(MaxBar - MaxHold)

(* Observations of symbols that are no longer downloaded stay without a label, *)
(* stay the oldest and so fill the batch. *)
Blocked(o) == Cardinality({p \in Unlabelled : p < o /\ symbol[p] \in dropped}) >= LabelBatch

(* Every observation whose horizon the market reaches is labelled, however many *)
(* wait before it, unless its own symbol is downloaded no more, or as many older *)
(* ones as a batch holds wait for symbols that are downloaded no more, and then *)
(* for ever (main.py:1341-1357, database.py:2778). *)
EveryObservationLabelled ==
    \A o \in Obs : \/ [](Reached(o) => <>(label[o] # NoLabel))
                  \/ <>[](symbol[o] \in dropped \/ Blocked(o))
=============================================================================
