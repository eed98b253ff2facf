------------------------------ MODULE Prediction ------------------------------
(***************************************************************************)
(* The PredictionEngine of one venue: the features of a snapshot, the risk *)
(* score and its level, held back by hysteresis, the trend of the scores,  *)
(* the forecast of the occupancy and the recommendation. The venue and     *)
(* every gate have a level and a history of their own.                     *)
(*                                                                         *)
(* A snapshot is a record: session, status, at, occupancy, entries, net    *)
(* and congestion of the venue, for each gate of `gates' its own entries,  *)
(* net and occupancy, and `alerts', the active alerts of each place. Rates *)
(* are counts per window and percents are whole numbers. The pressure of   *)
(* exits is computed by the code but enters no score; the dwell time, 3 of *)
(* the 100 points, and the texts are left out.                             *)
(***************************************************************************)
EXTENDS Integers, SequencesExt

CONSTANTS
    Scopes,       \* what has a level of its own: the venue and its gates
    Whole,        \* the scope that is the venue
    VenueCapacity,
    Safe,         \* FeatureThresholds: entries and net per window
    EscalationFrames, RecoveryFrames,
    MinTrend, TrendWindow,   \* observations a trend needs, and looks at
    MinForecast,  \* observations a forecast needs
    Horizons,     \* how far ahead it looks
    Steep,        \* slope from which a trend is one, in SlopeUnit
    MaxHistory, MaxAge       \* observations kept, and for how long

ASSUME WholeIsAScope == Whole \in Scopes
ASSUME FramesTyped ==
    {EscalationFrames, RecoveryFrames, MinTrend, TrendWindow, MinForecast, MaxHistory} \subseteq Nat \ {0}
ASSUME ThresholdsTyped == {VenueCapacity, Safe.entries, Safe.net, MaxAge} \subseteq Nat

VARIABLES
    standing,     \* level of each scope, evaluations above it and below it in a row
    history,      \* observations of each scope, oldest first
    lastProcessed,   \* of each session: the timestamp evaluated last, -1 for none
    outcome,      \* what the last call of predict returned
    evidence      \* history: raw levels of each scope since its level changed

predictionVars == <<standing, history, lastProcessed, outcome, evidence>>

Levels == 0..4    \* LOW, GUARDED, ELEVATED, HIGH, CRITICAL
Actions == {"NO_ACTION", "MONITOR", "INCREASE_MONITORING", "CONTROL_ENTRY", "REDUCE_GATE_INFLOW",
            "REDIRECT_FLOW", "ESCALATE_OPERATOR", "EMERGENCY_REVIEW"}
Directions == {"INCREASING", "DECREASING", "STABLE", "INSUFFICIENT_DATA"}
Observation == [at : Int, score : 0..100, occupancy : Nat]
Advice == [score : 0..100, level : Levels, trend : Directions, action : Actions]
Nothing == [status |-> "none", advice |-> <<>>]

PredictionTypeOK(sessions) ==
    /\ standing \in [Scopes -> [level : Levels, up : Nat, down : Nat]]
    /\ history \in [Scopes -> Seq(Observation)]
    /\ lastProcessed \in [sessions -> Int]
    /\ evidence \in [Scopes -> Seq(Levels)]
    /\ outcome.status = "ok" => \A s \in DOMAIN outcome.advice : outcome.advice[s] \in Advice

PredictionInit(sessions) ==
    /\ standing = [s \in Scopes |-> [level |-> 0, up |-> 0, down |-> 0]]
    /\ history = [s \in Scopes |-> <<>>]
    /\ lastProcessed = [s \in sessions |-> -1]
    /\ outcome = Nothing
    /\ evidence = [s \in Scopes |-> <<>>]

-----------------------------------------------------------------------------
(* FeatureExtractor and RiskScorer.                                        *)

Least(a, b) == IF a < b THEN a ELSE b
Most(a, b) == IF a < b THEN b ELSE a

\* How far the busiest gate is over the average, in percent of it.
Imbalance(rates) ==
    LET n == Cardinality(DOMAIN rates)
        total == FoldFunction(+, 0, rates)
        top == Max({rates[g] : g \in DOMAIN rates})
    IN  IF n < 2 \/ total = 0 THEN 0 ELSE (100 * (n * top - total)) \div total

\* str() of a severity is none of the names that have a weight, so that every
\* alert weighs as a medium one: half a point of five.
AnomalyPressure(alerts) == Least(100, 10 * alerts)

\* safe_ratio, in percent.
Ratio(count, safe) == IF safe = 0 THEN 0 ELSE (100 * count) \div safe

\* Percents, not bounded yet; net keeps its sign.
Features(snapshot) ==
    [occupancy |-> Ratio(snapshot.occupancy, VenueCapacity),
     entry |-> Ratio(snapshot.entries, Safe.entries),
     net |-> Ratio(snapshot.net, Safe.net),
     congestion |-> <<0, 33, 67, 100>>[snapshot.congestion + 1],
     anomaly |-> AnomalyPressure(FoldFunction(+, 0, snapshot.alerts)),
     imbalance |-> Imbalance([g \in DOMAIN snapshot.gates |-> snapshot.gates[g].entries])]

Weight == [occupancy |-> 30, entry |-> 15, net |-> 15, congestion |-> 20, anomaly |-> 12, imbalance |-> 5]

Clamped(percent) == Least(100, Most(0, percent))

Score(features) ==
    FoldFunction(+, 0, [f \in DOMAIN Weight |-> Weight[f] * Clamped(features[f])]) \div 100

RiskLevel(score) == Cardinality({least \in {20, 40, 60, 80} : score >= least})

\* The snapshot a gate is judged by: its own rates, occupancy and alerts, the
\* congestion of the venue.
GateSnapshot(snapshot, g) ==
    [snapshot EXCEPT !.occupancy = snapshot.gates[g].occupancy,
                     !.entries = snapshot.gates[g].entries,
                     !.net = snapshot.gates[g].net,
                     !.gates = [x \in {g} |-> snapshot.gates[g]],
                     !.alerts = [x \in {g} |-> snapshot.alerts[g]]]

\* Mutant: the gates are judged by the snapshot of the venue.
ScopeSnapshotOfVenue(snapshot, scope) == snapshot

ScopeSnapshot(snapshot, scope) ==
    IF scope = Whole THEN snapshot ELSE GateSnapshot(snapshot, scope)

Judged(snapshot) == {Whole} \cup DOMAIN snapshot.gates

-----------------------------------------------------------------------------
(* Hysteresis.                                                             *)

\* Mutant: an evaluation at the level leaves the counters alone.
StabilizedOnTheWhole(state, new) ==
    LET up == state.up + 1
        down == state.down + 1
    IN  CASE new > state.level ->
                IF up >= EscalationFrames THEN [level |-> new, up |-> 0, down |-> 0]
                ELSE [level |-> state.level, up |-> up, down |-> 0]
          [] new < state.level ->
                IF down >= RecoveryFrames THEN [level |-> new, up |-> 0, down |-> 0]
                ELSE [level |-> state.level, up |-> 0, down |-> down]
          [] OTHER -> state

\* A level goes where the last of enough evaluations in a row on one side of it is.
Stabilized(state, new) ==
    LET up == state.up + 1
        down == state.down + 1
    IN  CASE new > state.level ->
                IF up >= EscalationFrames THEN [level |-> new, up |-> 0, down |-> 0]
                ELSE [level |-> state.level, up |-> up, down |-> 0]
          [] new < state.level ->
                IF down >= RecoveryFrames THEN [level |-> new, up |-> 0, down |-> 0]
                ELSE [level |-> state.level, up |-> 0, down |-> down]
          [] OTHER -> [level |-> state.level, up |-> 0, down |-> 0]

-----------------------------------------------------------------------------
(* The histories, Theil-Sen slopes, trend and forecast.                    *)

LastFew(s, n) == SubSeq(s, Most(1, Len(s) - n + 1), Len(s))

Observed(past, observation) ==
    LET all == Append(past, observation)
        young == {i \in DOMAIN all : all[i].at >= observation.at - MaxAge}
        first == CHOOSE i \in young : \A j \in young : i <= j
    IN  LastFew(SubSeq(all, first, Len(all)), MaxHistory)

\* One observation for each time, the last one.
Latest(past) ==
    LET last == {i \in DOMAIN past : \A j \in DOMAIN past : j > i => past[j].at # past[i].at}
    IN  {past[i] : i \in last}

\* In the order of their times.
Points(past) == SetToSortSeq(Latest(past), LAMBDA a, b : a.at < b.at)

SlopeUnit == 60     \* slopes are in sixtieths, exact for distances up to 6

\* Twice the median of the slopes between two points, pairs of a time and a
\* value, in SlopeUnit.
TwiceMedianSlope(points) ==
    LET pairs == SetToSeq({p \in (DOMAIN points) \X (DOMAIN points) : p[1] < p[2]})
        slope(p) == (SlopeUnit * (points[p[2]][2] - points[p[1]][2]))
                        \div (points[p[2]][1] - points[p[1]][1])
        sorted == SortSeq([i \in DOMAIN pairs |-> slope(pairs[i])], <)
        n == Len(sorted)
    IN  IF n = 0 THEN 0 ELSE sorted[(n + 1) \div 2] + sorted[(n + 2) \div 2]

Trend(past) ==
    LET recent == LastFew(past, TrendWindow)
        points == Points(recent)
        twice == TwiceMedianSlope([i \in DOMAIN points |-> <<points[i].at, points[i].score>>])
    IN  IF Len(recent) < MinTrend \/ Len(points) < 2 THEN "INSUFFICIENT_DATA"
        ELSE IF twice >= 2 * Steep THEN "INCREASING"
        ELSE IF twice <= -2 * Steep THEN "DECREASING"
        ELSE "STABLE"

\* CAPACITY_EXCEEDED_RISK at some horizon: occupancy + slope * h is over the
\* capacity. Nothing is projected from too few points. The code looks at the last 30
\* observations, more than MaxHistory keeps.
Exceeds(past, occupancy) ==
    LET points == Points(past)
    IN  /\ VenueCapacity > 0 /\ Cardinality(Latest(past)) >= MinForecast
        /\ \E h \in Horizons :
            2 * SlopeUnit * (occupancy - VenueCapacity)
                + h * TwiceMedianSlope([i \in DOMAIN points |-> <<points[i].at, points[i].occupancy>>]) > 0

-----------------------------------------------------------------------------
(* DECISION_RULES: the matching rule of the highest priority wins.         *)

Rules(level, trend, features, exceeds) ==
    {<<90, "EMERGENCY_REVIEW", level = 4 /\ trend = "INCREASING" /\ exceeds>>,
     <<80, "ESCALATE_OPERATOR", level = 4>>,
     <<70, "REDIRECT_FLOW", level = 3 /\ features.imbalance >= 200>>,
     <<65, "REDUCE_GATE_INFLOW", level = 3 /\ trend = "INCREASING" /\ features.entry >= 150>>,
     <<60, "CONTROL_ENTRY", level = 3 /\ trend \in {"STABLE", "INCREASING"} /\ features.net > 0>>,
     <<50, "INCREASE_MONITORING", level = 3 /\ trend = "DECREASING">>,
     <<45, "INCREASE_MONITORING", level = 2 /\ trend = "INCREASING">>,
     <<40, "MONITOR", level = 2 /\ trend \in {"STABLE", "DECREASING"}>>,
     <<35, "MONITOR", level = 1>>,
     <<20, "NO_ACTION", level = 0 /\ trend # "INCREASING">>,
     <<0, "MONITOR", TRUE>>}

Decision(level, trend, features, exceeds) ==
    LET matching == {r \in Rules(level, trend, features, exceeds) : r[3]}
    IN  (CHOOSE r \in matching : \A q \in matching : q[1] <= r[1])[2]

-----------------------------------------------------------------------------
(* PredictionEngine.predict.                                               *)

\* Mutant: no timestamp is a duplicate.
NeverSeen(snapshot) == FALSE

Duplicate(snapshot) == lastProcessed[snapshot.session] = snapshot.at

\* A call that evaluates nothing leaves the engine alone.
Suspended(snapshot) ==
    /\ \/ snapshot.status \in {"PAUSED", "STOPPED", "EXPIRED"}
       \/ Duplicate(snapshot)
    /\ outcome' = [status |-> IF snapshot.status = "PAUSED" THEN "paused"
                             ELSE IF snapshot.status \in {"STOPPED", "EXPIRED"} THEN "skipped"
                             ELSE "duplicate", advice |-> <<>>]
    /\ UNCHANGED <<standing, history, lastProcessed, evidence>>

\* Venue and gates are evaluated one after the other, each on its own state.
Evaluates(snapshot) ==
    LET features == [s \in Judged(snapshot) |-> Features(ScopeSnapshot(snapshot, s))]
        raw == [s \in Judged(snapshot) |-> RiskLevel(Score(features[s]))]
        past == [s \in Judged(snapshot) |->
                    Observed(history[s], [at |-> snapshot.at, score |-> Score(features[s]),
                                          occupancy |-> ScopeSnapshot(snapshot, s).occupancy])]
    IN  /\ snapshot.status \in {"CREATED", "ACTIVE"}
        /\ ~Duplicate(snapshot)
        /\ lastProcessed' = [lastProcessed EXCEPT ![snapshot.session] = snapshot.at]
        /\ standing' = [s \in Scopes |->
                IF s \in Judged(snapshot) THEN Stabilized(standing[s], raw[s]) ELSE standing[s]]
        /\ history' = [s \in Scopes |-> IF s \in Judged(snapshot) THEN past[s] ELSE history[s]]
        /\ evidence' = [s \in Scopes |->
                IF s \notin Judged(snapshot) THEN evidence[s]
                ELSE IF standing'[s].level # standing[s].level THEN <<>>
                ELSE LastFew(Append(evidence[s], raw[s]), Most(EscalationFrames, RecoveryFrames))]
        /\ outcome' = [status |-> "ok", advice |-> [s \in Judged(snapshot) |->
                LET level == standing'[s].level
                    trend == Trend(past[s])
                IN  [score |-> Score(features[s]), level |-> level, trend |-> trend,
                     action |-> Decision(level, trend, features[s],
                                         s = Whole /\ Exceeds(past[s], snapshot.occupancy))]]]

Predict(snapshot) == Suspended(snapshot) \/ Evaluates(snapshot)
=============================================================================
