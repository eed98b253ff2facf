-------------------------------- MODULE Insight --------------------------------
(***************************************************************************)
(* One venue from the events to the dashboard: EventIntelligenceEngine and *)
(* PredictionEngine, the snapshot that is built from the one for the other,*)
(* and the requests that make it: the dashboard, which evaluates a         *)
(* prediction of its own, and PredictionService.get_prediction, which      *)
(* stores and publishes it, one await after the other.                     *)
(***************************************************************************)
EXTENDS VenueIntelligence, Prediction

CONSTANTS
    MaxPolls,     \* bound: evaluations asked for
    MaxRequests   \* bound: those asked for with get_prediction

ASSUME ScopesArePlaces == Scopes = Places /\ Whole = Venue
ASSUME PollsBounded == MaxPolls \in Nat /\ MaxRequests \in Nat

VARIABLES
    reports,      \* requests of get_prediction that wait for a write or a publish
    stored,       \* the predictions collection
    published,    \* the last PREDICTION_UPDATE
    polls,        \* history: evaluations asked for
    requests      \* history: calls of get_prediction

serviceVars == <<reports, stored, published, polls, requests>>
vars == <<intelligenceVars, predictionVars, serviceVars>>

\* What is published in place of a risk that was not evaluated.
DefaultRisk == [level |-> 0, action |-> "MONITOR"]
Risk == [level : Levels, action : Actions]
Report == [no : 1..MaxRequests, session : SessionIds, at : 0..MaxNow,
           status : {"ok", "paused", "duplicate"}, saved : BOOLEAN, risk : Risk]

TypeOK ==
    /\ IntelligenceTypeOK /\ PredictionTypeOK(1..MaxSessions)
    /\ published \in Risk /\ reports \subseteq Report
    /\ polls \in 0..MaxPolls /\ requests \in 0..MaxRequests

Init ==
    /\ IntelligenceInit /\ PredictionInit(1..MaxSessions)
    /\ reports = {} /\ stored = {} /\ published = DefaultRisk
    /\ polls = 0 /\ requests = 0

\* build_snapshot, from the state as the reading leaves it.
Snapshot(wins, level) ==
    LET Entries(p) == Len(wins["ENTRY"][p][RateWidth])
        Net(p) == Entries(p) - Len(wins["EXIT"][p][RateWidth])
        Alerts(p) == Cardinality({a \in DOMAIN active : active[a] > 0 /\ a[2][2] = p})
    IN  [session |-> session.no, status |-> session.status, at |-> now,
         occupancy |-> occ.current, entries |-> Entries(Venue), net |-> Net(Venue),
         congestion |-> level,
         gates |-> [g \in Known(totals) |->
                        [entries |-> Entries(g), net |-> Net(g), occupancy |-> occ.gate[g]]],
         alerts |-> [p \in Places |-> Alerts(p)]]

Asked ==
    /\ session.status # "NONE"
    /\ polls < MaxPolls /\ polls' = polls + 1
    /\ Reading
    /\ Predict(Snapshot(windows', congestion'))
    /\ UNCHANGED <<now, tracker, session, crossings, log, held, stored, published>>

\* DashboardService: the prediction is part of the answer and goes nowhere else.
AskDashboard == Asked /\ UNCHANGED <<reports, requests>>

\* PredictionService.get_prediction up to its first await.
AskPrediction ==
    /\ requests < MaxRequests /\ requests' = requests + 1
    /\ Asked
    /\ reports' = reports \cup
        {[no |-> requests', session |-> session.no, at |-> now, status |-> outcome'.status,
          saved |-> outcome'.status # "ok",
          risk |-> IF outcome'.status = "ok"
                   THEN [level |-> outcome'.advice[Venue].level, action |-> outcome'.advice[Venue].action]
                   ELSE DefaultRisk]}

\* What was evaluated is stored; a write that fails is logged.
Save(r) ==
    /\ ~r.saved
    /\ reports' = (reports \ {r}) \cup {[r EXCEPT !.saved = TRUE]}
    /\ stored' \in {stored, stored \cup {[no |-> r.no, session |-> r.session, at |-> r.at, risk |-> r.risk]}}
    /\ UNCHANGED <<intelligenceVars, predictionVars, published, polls, requests>>

\* Whatever came of it is published.
Publish(r) ==
    /\ r.saved
    /\ published' = r.risk
    /\ reports' = reports \ {r}
    /\ UNCHANGED <<intelligenceVars, predictionVars, stored, polls, requests>>

\* Pausing concerns the predictions only.
SessionPauses ==
    /\ session.status \in {"ACTIVE", "PAUSED"}
    /\ session' = [session EXCEPT !.status = IF @ = "ACTIVE" THEN "PAUSED" ELSE "ACTIVE"]
    /\ UNCHANGED <<now, engine, tracker, crossings, log, held, predictionVars, serviceVars>>

Next ==
    \/ SessionPauses
    \/ IntelligenceNext /\ UNCHANGED <<predictionVars, serviceVars>>
    \/ AskDashboard
    \/ AskPrediction
    \/ \E r \in reports : Save(r) \/ Publish(r)

Spec == Init /\ [][Next]_vars

-----------------------------------------------------------------------------
(* Properties.                                                             *)

Evaluation == lastProcessed' # lastProcessed

\* The level of the venue and of a gate changes exactly when enough evaluations
\* in a row were on one side of it, each scope by its own evaluations, and with
\* nothing else: not by a suspended call, an event or a session that comes or goes.
LevelFollowsEvidence ==
    [][\A s \in Scopes :
        LET raws == Append(evidence[s], RiskLevel(outcome'.advice[s].score))
            LastOnes(n, Side(_)) == /\ Len(raws) >= n
                                    /\ \A i \in Len(raws) - n + 1 .. Len(raws) : Side(raws[i])
            Above(raw) == raw > standing[s].level
            Below(raw) == raw < standing[s].level
        IN  IF Evaluation /\ s \in DOMAIN outcome'.advice
            THEN /\ (standing'[s].level # standing[s].level) <=>
                        (LastOnes(EscalationFrames, Above) \/ LastOnes(RecoveryFrames, Below))
                 /\ standing'[s].level \in {standing[s].level, RiskLevel(outcome'.advice[s].score)}
            ELSE standing'[s].level = standing[s].level]_vars

\* The strongest recommendation is given for the venue only, after enough
\* evaluations and observations at enough times; and a gate where nobody came
\* in and nobody is owes its score to the venue's congestion and its alerts.
AdviceHasGrounds ==
    [][Evaluation => \A s \in DOMAIN outcome'.advice :
        LET advice == outcome'.advice[s]
            times == {history'[s][i].at : i \in DOMAIN history'[s]}
        IN  /\ advice.action = "EMERGENCY_REVIEW" =>
                    s = Venue /\ Cardinality(times) >= Most(MinForecast, EscalationFrames)
            /\ s \in Gates /\ occ.gate[s] = 0 /\ totals["ENTRY"][s] = 0 =>
                    advice.score <= Weight.congestion + Weight.anomaly]_vars

\* However many ask at the same time, one prediction at most is stored of a
\* session for each timestamp, and none the engine has not come to yet.
StoredOnce ==
    /\ \A p, q \in stored : p.session = q.session /\ p.at = q.at => p = q
    /\ \A p \in stored : p.at <= lastProcessed[p.session]

\* PredictionEngine says of a paused session that its prediction is suspended;
\* what is published is then what was evaluated last.
OnlyEvaluationsArePublished ==
    [][published' # published => \E r \in reports : r.status = "ok" /\ published' = r.risk]_vars
=============================================================================
