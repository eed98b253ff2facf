--------------------------- MODULE VisitorAnalytics ----------------------------
(***************************************************************************)
(* The reports over the visitors' collections: the aggregation pipelines   *)
(* of VisitorAnalyticsRepository as operators on what is stored, the       *)
(* answers VisitorAnalyticsService and VisitorHistoryService build from    *)
(* them, and the duration report, which counts open and completed visits   *)
(* in two calls while visits open and close.                               *)
(*                                                                         *)
(* Times are whole and a day lasts DayLength of them. Averages and         *)
(* percentages are quotients of what is here; a median is kept doubled.    *)
(***************************************************************************)
EXTENDS VisitorHistory, FiniteSetsExt, SequencesExt

CONSTANTS
    DayLength,    \* time units of a UTC day
    Ranges        \* the ranges asked for: pairs of a start and an end

ASSUME DayIsNat == DayLength \in Nat \ {0}
ASSUME RangesArePairs == Ranges \subseteq (0..Horizon) \X (0..Horizon)

VARIABLE report   \* the duration report between its two calls

allVars == <<vars, report>>

------------------------------------------------------------------------------
(* What the pipelines match and group. *)

DayOf(t) == t \div DayLength

EventsIn(r) == {e \in events : r[1] <= e.at /\ e.at <= r[2]}
VisitsIn(r) == {v \in visits : r[1] <= v.at /\ v.at <= r[2]}

Of(p, S) == {x \in S : x.who = p}
Kind(kind, S) == {e \in S : e.kind = kind}
Status(s, S) == {v \in S : v.status = s}
Count(S) == Cardinality(S)
TotalDuration(S) == MapThenSumSet(LAMBDA v : v.duration, S)

------------------------------------------------------------------------------
(* Reports about visits and events. *)

\* Documents in ascending order of a key; equal ones come in some fixed order.
SortedBy(key) ==
    CHOOSE s \in SetToSeqs(DOMAIN key) : \A i, j \in DOMAIN s : i < j => key[s[i]] <= key[s[j]]

\* get_visit_duration_stats: open visits are counted and left out of the rest.
DurationStats(S) ==
    LET done == Status("COMPLETED", S)
        d == SortedBy([v \in done |-> v.duration])
        n == Len(d) IN
    [completed |-> n, open |-> Count(Status("OPEN", S)), total |-> TotalDuration(done),
     minimum |-> IF n = 0 THEN 0 ELSE d[1].duration,
     maximum |-> IF n = 0 THEN 0 ELSE d[n].duration,
     median2 |-> IF n = 0 THEN 0
                 ELSE d[(n + 1) \div 2].duration + d[(n + 2) \div 2].duration]

\* get_visitor_visit_days_and_bounds.
VisitBounds(p) ==
    LET S == Of(p, visits) IN
    [days |-> Count({DayOf(v.at) : v \in S}),
     first |-> IF S = {} THEN NoTime ELSE Min({v.at : v \in S}),
     last |-> IF S = {} THEN NoTime ELSE Max({v.at : v \in S}),
     completed |-> Count(Status("COMPLETED", S)), open |-> Count(Status("OPEN", S))]

\* get_gate_usage_stats: by count, and by gate where counts are equal.
GateUse(S) == [g \in Gates |-> Count({e \in S : e.gate = g})]

MostUsedGate(S) ==
    IF S = {} THEN 0
    ELSE CHOOSE g \in Gates : \A h \in Gates :
           GateUse(S)[h] < GateUse(S)[g] \/ (GateUse(S)[h] = GateUse(S)[g] /\ g <= h)

GateStats(E) ==
    [entries |-> GateUse(Kind("ENTRY", E)), exits |-> GateUse(Kind("EXIT", E)),
     entryGate |-> MostUsedGate(Kind("ENTRY", E)), exitGate |-> MostUsedGate(Kind("EXIT", E))]

\* get_visitor_daily_breakdown: a day is there for an event or for a visit of it.
Daily(E, V) ==
    [day \in {DayOf(x.at) : x \in E} \cup {DayOf(x.at) : x \in V} |->
       LET On(S) == {x \in S : DayOf(x.at) = day} IN
       [entries |-> Count(Kind("ENTRY", On(E))), exits |-> Count(Kind("EXIT", On(E))),
        started |-> Count(On(V)), completed |-> Count(Status("COMPLETED", On(V))),
        open |-> Count(Status("OPEN", On(V))), duration |-> TotalDuration(On(V))]]

VisitorDaily(p, r) == Daily(Of(p, EventsIn(r)), Of(p, VisitsIn(r)))

\* get_visitor_timeline walks through the documents: a day begins with its first
\* event, or with a visit where it has none.
VisitorTimeline(p, r) ==
    LET E == Of(p, EventsIn(r))
        V == Of(p, VisitsIn(r)) IN
    [day \in {DayOf(x.at) : x \in E \cup V} |->
       LET On(S) == {x \in S : DayOf(x.at) = day}
           seen == IF On(E) # {} THEN {e.at : e \in On(E)} ELSE {Min({v.at : v \in On(V)})} IN
       [entries |-> Count(Kind("ENTRY", On(E))), exits |-> Count(Kind("EXIT", On(E))),
        visits |-> On(V), duration |-> TotalDuration(Status("COMPLETED", On(V))),
        first |-> Min(seen), last |-> Max(seen)]]

\* Mutant: $lt for $lte in the filter on entry_time.
VenueTrendsBefore(r) == Daily(EventsIn(r), {v \in visits : r[1] <= v.at /\ v.at < r[2]})

\* get_venue_daily_trends: the same days for all visitors together.
VenueTrends(r) == Daily(EventsIn(r), VisitsIn(r))
VisitorsOn(r, day) == {e.who : e \in {x \in EventsIn(r) : DayOf(x.at) = day}}

\* get_venue_visitor_analytics: who is active is read from the events, who is new
\* from the profiles.
Active(r) == {e.who : e \in EventsIn(r)}
Known(r) == {p \in Active(r) : profile[p] # NoProfile}
Returning(r) == {p \in Known(r) : profile[p].first < r[1]}

VenueOverview(r) ==
    [unique |-> Count(Active(r)), new |-> Count(Known(r) \ Returning(r)),
     returning |-> Count(Returning(r)),
     entries |-> Count(Kind("ENTRY", EventsIn(r))), exits |-> Count(Kind("EXIT", EventsIn(r))),
     visits |-> Count(VisitsIn(r)), completed |-> Count(Status("COMPLETED", VisitsIn(r))),
     open |-> Count(Status("OPEN", VisitsIn(r))), duration |-> TotalDuration(VisitsIn(r))]

------------------------------------------------------------------------------
(* Requests. *)

\* A request about a visitor without a profile, or with an inverted range, is
\* refused; a bound that is not given is 0 or Horizon.
Answered(p, r, answer) == IF r[1] <= r[2] /\ profile[p] # NoProfile THEN <<answer>> ELSE <<>>

DailyAnswer(p, r) == Answered(p, r, VisitorDaily(p, r))
GateAnswer(p, r) == Answered(p, r, GateStats(Of(p, EventsIn(r))))
DurationAnswer(p, r) == Answered(p, r, DurationStats(Of(p, VisitsIn(r))))
TimelineAnswer(p, r) == Answered(p, r, VisitorTimeline(p, r))

AllTime == <<0, Horizon>>

\* get_visitor_summary: total_visits is the counter of the profile, the rest is
\* counted from the visits.
SummaryAnswer(p) ==
    Answered(p, AllTime,
        [visits |-> profile[p].visits, returning |-> profile[p].visits > 1,
         entries |-> profile[p].entries, exits |-> profile[p].exits,
         stats |-> DurationStats(Of(p, visits)), bounds |-> VisitBounds(p)])

\* get_visitor_frequency, asked at a time: the visits of the profile over the days
\* since first_seen, both ends counted, and over the days with a visit.
FrequencyAnswer(p, now) ==
    Answered(p, AllTime,
        [visits |-> profile[p].visits, active |-> VisitBounds(p).days,
         span |-> Max({1, DayOf(now) - DayOf(profile[p].first) + 1})])

\* get_venue_analytics_summary puts four reports together.
VenueSummary(r) ==
    [overview |-> VenueOverview(r), gates |-> GateStats(EventsIn(r)),
     durations |-> DurationStats(VisitsIn(r)), trends |-> VenueTrends(r)]

\* get_visitor_events and get_visitor_visits: a page of the documents in the
\* order of their times, limit and skip brought into range.
Ordered(S) == SortedBy([x \in S |-> x.at])

Page(s, limit, skip) ==
    LET n == IF limit < 1 THEN 1 ELSE IF limit > 200 THEN 200 ELSE limit
        from == IF skip < 0 THEN 0 ELSE skip IN
    SubSeq(s, from + 1, IF from + n > Len(s) THEN Len(s) ELSE from + n)

\* get_visitor_history: the visits from the last one back, but the events from the
\* first one on.
HistoryAnswer(p, limit) ==
    Answered(p, AllTime,
        [visits |-> Page(Reverse(Ordered(Of(p, visits))), limit, 0),
         events |-> Page(Ordered(Of(p, events)), limit, 0)])

------------------------------------------------------------------------------
(* get_visit_duration_stats as a request: count_documents, then aggregate. *)

\* Mutant: the completed visits are aggregated before the open ones are counted.
CompletedFirst == "COMPLETED"

FirstCounted == "OPEN"
CountedNext == CHOOSE s \in {"OPEN", "COMPLETED"} : s # FirstCounted

\* there: visits stored at the first call; spoilt: retention has run since.
NoReport == [half |-> FALSE, counted |-> 0, there |-> 0, spoilt |-> FALSE]

AsksDurations ==
    /\ ~report.half
    /\ report' = [half |-> TRUE, counted |-> Count(Status(FirstCounted, visits)),
                   there |-> Count(visits), spoilt |-> FALSE]
    /\ UNCHANGED vars

VisitsAnswered == report.counted + Count(Status(CountedNext, visits))

AnswersDurations ==
    /\ report.half
    /\ report' = NoReport
    /\ UNCHANGED vars

Init == HistoryInit /\ report = NoReport

Next ==
    \/ HistoryNext /\ report' = [report EXCEPT !.spoilt = report.half /\ (@ \/ purge' # purge)]
    \/ AsksDurations
    \/ AnswersDurations

Spec == Init /\ [][Next]_allVars

------------------------------------------------------------------------------
(* Properties. *)

Quiet == disturbed = {} /\ \A k \in Calls : call[k].phase = "idle"

SumOver(f) == MapThenSumSet(LAMBDA day : f[day], DOMAIN f)

\* The overview of the venue agrees with the sums of its daily trends, with the
\* gates and with the durations. Every active visitor is new or returning once
\* the calls for the venue are over, unless one of them failed.
VenueReportsAgree(r) ==
    LET all == VenueSummary(r)
        o == all.overview
        t == all.trends
        d == all.durations IN
    /\ o.entries = SumOver([day \in DOMAIN t |-> t[day].entries])
    /\ o.visits = SumOver([day \in DOMAIN t |-> t[day].started])
    /\ o.duration = SumOver([day \in DOMAIN t |-> t[day].duration])
    /\ <<o.completed, o.open, o.duration>> = <<d.completed, d.open, d.total>>
    /\ o.visits = o.completed + o.open
    /\ <<o.entries, o.exits>> = <<SumOver(all.gates.entries), SumOver(all.gates.exits)>>
    /\ o.entries > 0 => o.entries <= Count(Gates) * all.gates.entries[all.gates.entryGate]
    /\ o.unique <= SumOver([day \in DOMAIN t |-> Count(VisitorsOn(r, day))])
    /\ o.new + o.returning <= o.unique
    /\ Quiet => o.new + o.returning = o.unique

\* A visitor's daily breakdown agrees with the timeline, day by day, and both
\* with the durations and the gates of the visitor.
VisitorReportsAgree(p, r) ==
    \A daily \in Range(DailyAnswer(p, r)), line \in Range(TimelineAnswer(p, r)),
       d \in Range(DurationAnswer(p, r)), g \in Range(GateAnswer(p, r)) :
        /\ DOMAIN daily = DOMAIN line
        /\ \A day \in DOMAIN daily :
             /\ daily[day].started = Count(line[day].visits)
             /\ daily[day].duration = line[day].duration
             /\ line[day].first <= line[day].last
        /\ d.total = SumOver([day \in DOMAIN line |-> line[day].duration])
        /\ SumOver(g.exits) = SumOver([day \in DOMAIN daily |-> daily[day].exits])

\* The two aggregations of a visitor's summary count the same visits; the days
\* with a visit fit in the days the frequency divides by; pages of the history that
\* follow each other are one, with no event twice or left out; and once everything
\* is quiet no visitor with an event is unknown.
SummaryAgrees(p) ==
    LET line == Ordered(Of(p, events)) IN
    /\ \A s \in Range(SummaryAnswer(p)), f \in Range(FrequencyAnswer(p, Horizon)),
          h \in Range(HistoryAnswer(p, 2)) :
        /\ <<s.bounds.completed, s.bounds.open>> = <<s.stats.completed, s.stats.open>>
        /\ (Quiet /\ p \notin crowded) =>
             f.active <= f.span /\ (s.returning <=> Count(Of(p, visits)) > 1)
        /\ h.events \o Page(line, 2, 2) = Page(line, 4, 0)
        /\ h.visits # <<>> => h.visits[1].at = s.bounds.last
    /\ Quiet => (line # <<>> => SummaryAnswer(p) # <<>>)

\* What different reports say of the same documents agrees, for every visitor and
\* every range.
ReportsAgree ==
    /\ \A r \in Ranges : VenueReportsAgree(r) /\ \A p \in Visitors : VisitorReportsAgree(p, r)
    /\ \A p \in Visitors : SummaryAgrees(p)

\* The duration report leaves out no visit that was there when it was asked for,
\* although visits close between its two calls: one that does is counted twice.
NoVisitMissed ==
    [][AnswersDurations => report.spoilt \/ VisitsAnswered >= report.there]_allVars
=============================================================================
