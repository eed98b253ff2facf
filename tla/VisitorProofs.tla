----------------------------- MODULE VisitorProofs -----------------------------
(***************************************************************************)
(* Proofs about the visitors' collections: the visits refine               *)
(* VisitorPresence, the profile counts what is stored, the duration report *)
(* misses no visit although it makes two queries, and the reports agree    *)
(* with each other.                                                        *)
(***************************************************************************)
EXTENDS VisitorAnalytics, FiniteSetTheorems, SequenceTheorems, WellFoundedInduction, TLAPS

------------------------------------------------------------------------------
(* Types. *)

\* An event and its fields.
LEMMA EventTyped ==
    ASSUME NEW e \in Feed
    PROVE  /\ e.id \in Nat /\ e.who \in Visitors /\ e.kind \in {"ENTRY", "EXIT"}
           /\ e.at \in Times /\ e.at \in Nat /\ e.at > 0 /\ e.dwell \in Nat
  BY FeedTyped, HistoryBounds DEF EventType, Times

\* A call at work is of an event of the feed.
LEMMA CallTyped ==
    ASSUME TypeOK, NEW k \in Calls
    PROVE  /\ call[k] \in CallType /\ Event(k) \in Feed /\ Who(k) \in Visitors
           /\ call[k].target \in Nat /\ call[k].from \in Nat /\ call[k].fresh \in BOOLEAN
           /\ call[k].seen \in ProfileType /\ call[k].phase \in Phases
  BY EventTyped DEF TypeOK, CallType, Event, Who

LEMMA ProfileTyped ==
    ASSUME NEW now \in ProfileType, NEW seen \in ProfileType, NEW e \in Feed, NEW fresh \in BOOLEAN
    PROVE  /\ NewProfile(e, fresh) \in ProfileType
           /\ Bumped(now, seen, e, fresh) \in ProfileType
<1>1. \A b \in BOOLEAN : One(b) \in Nat
  BY DEF One
<1>2. One(e.kind = "ENTRY") \in Nat /\ One(e.kind = "EXIT") \in Nat /\ One(fresh) \in Nat
  BY <1>1
<1>3. /\ now.entries \in Nat /\ now.exits \in Nat /\ now.visits \in Nat
      /\ seen.first \in Nat /\ seen.last \in Nat /\ e.at \in Nat
  BY EventTyped DEF ProfileType
<1> QED
  BY <1>2, <1>3 DEF NewProfile, Bumped, ProfileType

\* A closed visit is one.
LEMMA ClosedTyped ==
    ASSUME NEW v \in VisitType, NEW e \in Feed, NEW from \in Nat
    PROVE  /\ ClosedBy(v, e, from) \in VisitType
           /\ ClosedBy(v, e, from).no = v.no /\ ClosedBy(v, e, from).who = v.who
           /\ ClosedBy(v, e, from).status = "COMPLETED"
<1>1. Duration(e, from) \in Nat
  BY EventTyped DEF Duration
<1> QED
  BY <1>1, EventTyped DEF ClosedBy, VisitType

LEMMA CallStepTyped ==
    ASSUME TypeOK, NEW k \in Calls
    PROVE  /\ \A phase \in Phases : Step(k, phase) => call' \in [Calls -> CallType]
           /\ Over(k) => call' \in [Calls -> CallType]
<1>1. call \in [Calls -> CallType] /\ call[k] \in CallType
  BY DEF TypeOK
<1>2. NoCall \in CallType
  <2>1. AnyEvent \in Feed
    BY FeedTyped DEF AnyEvent
  <2> QED
    BY <2>1 DEF NoCall, CallType, Phases, NoProfile, ProfileType, NoTime
<1> QED
  BY <1>1, <1>2 DEF Step, Over, CallType

LEMMA PhasesKnown ==
    /\ "idle" \in Phases /\ "look" \in Phases /\ "open" \in Phases /\ "close" \in Phases
    /\ "save" \in Phases /\ "find" \in Phases /\ "put" \in Phases /\ "refind" \in Phases
  BY DEF Phases

LEMMA FaultTyped ==
    ASSUME TypeOK, NEW p \in Visitors, Fault(p)
    PROVE  /\ calls' \in 0..MaxCalls /\ faults' \in 0..MaxFaults /\ opened' \in [Visitors -> Nat]
           /\ crowded' \subseteq Visitors /\ disturbed' \subseteq Visitors
  BY HistoryBounds DEF Fault, TypeOK

LEMMA TypeInit == HistoryInit => TypeOK
<1> SUFFICES ASSUME HistoryInit PROVE TypeOK
  OBVIOUS
<1>1. NoCall \in CallType
  <2>1. AnyEvent \in Feed
    BY FeedTyped DEF AnyEvent
  <2> QED
    BY <2>1 DEF NoCall, CallType, Phases, NoProfile, ProfileType, NoTime
<1>2. NoProfile \in ProfileType
  BY DEF NoProfile, ProfileType, NoTime
<1> QED
  BY <1>1, <1>2, HistoryBounds DEF HistoryInit, TypeOK, NotPurging

LEMMA TypeNext == TypeOK /\ [HistoryNext]_vars => TypeOK'
<1> SUFFICES ASSUME TypeOK, [HistoryNext]_vars PROVE TypeOK'
  OBVIOUS
<1>1. ASSUME NEW k \in Calls, NEW e \in Feed, Delivered(k, e) PROVE TypeOK'
  <2>1. e.who \in Visitors /\ NoCall \in CallType /\ call \in [Calls -> CallType]
    <3>1. AnyEvent \in Feed
      BY FeedTyped DEF AnyEvent
    <3> QED
      BY <3>1, EventTyped DEF TypeOK, NoCall, CallType, Phases, NoProfile, ProfileType, NoTime
  <2>2. [NoCall EXCEPT !.phase = "look", !.event = e] \in CallType
    BY <2>1 DEF CallType, Phases
  <2>3. call' \in [Calls -> CallType]
    BY <1>1, <2>1, <2>2 DEF Delivered
  <2>4. calls' \in 0..MaxCalls /\ faults' \in 0..MaxFaults /\ crowded' \subseteq Visitors /\ disturbed' \subseteq Visitors
    BY <1>1, <2>1, HistoryBounds DEF Delivered, TypeOK
  <2> QED
    BY <1>1, <2>3, <2>4 DEF Delivered, TypeOK, collections
<1>2. ASSUME NEW k \in Calls, LooksForVisit(k) PROVE TypeOK'
  <2>1. call' \in [Calls -> CallType]
    <3>1. CASE OpenVisits(Who(k)) = {}
      <4>1. Step(k, "open") \/ Step(k, "save")
        BY <1>2, <3>1 DEF LooksForVisit
      <4> QED
        BY <4>1, CallStepTyped, PhasesKnown
    <3>2. CASE OpenVisits(Who(k)) # {}
      <4> DEFINE v == CHOOSE v \in OpenVisits(Who(k)) : TRUE
      <4>1. v \in visits /\ v.no \in Nat /\ v.at \in Nat
        BY <3>2, HistoryBounds DEF OpenVisits, TypeOK, VisitType, Times
      <4>2. call' = [call EXCEPT ![k].phase = IF Event(k).kind = "EXIT" THEN "close" ELSE "save",
                                 ![k].target = v.no, ![k].from = v.at]
        BY <1>2, <3>2 DEF LooksForVisit
      <4> HIDE DEF v
      <4>3. call \in [Calls -> CallType] /\ call[k] \in CallType
        BY DEF TypeOK
      <4> QED
        BY <4>1, <4>2, <4>3, PhasesKnown DEF CallType
    <3> QED
      BY <3>1, <3>2
  <2> QED
    BY <1>2, <2>1 DEF LooksForVisit, collections, history, TypeOK
<1>3. ASSUME NEW k \in Calls, Opens(k) PROVE TypeOK'
  <2>1. call' \in [Calls -> CallType]
    <3>1. call' = [call EXCEPT ![k].phase = "save", ![k].fresh = TRUE]
      BY <1>3 DEF Opens
    <3>2. call \in [Calls -> CallType] /\ call[k] \in CallType
      BY DEF TypeOK
    <3> QED
      BY <3>1, <3>2, PhasesKnown DEF CallType
  <2>2. visits' \subseteq VisitType /\ opened' \in [Visitors -> Nat]
    <3>1. Event(k) \in Feed /\ Event(k).who \in Visitors /\ Event(k).at \in Times
      BY CallTyped, EventTyped
    <3>2. visits \subseteq VisitType /\ opened \in [Visitors -> Nat]
      BY DEF TypeOK
    <3>3. CASE MayOpen(Event(k).who)
      <4>1. [no |-> opened[Event(k).who] + 1, who |-> Event(k).who, at |-> Event(k).at,
             status |-> "OPEN", till |-> NoTime, duration |-> 0] \in VisitType
        BY <3>1, <3>2 DEF VisitType
      <4> QED
        BY <1>3, <3>1, <3>2, <3>3, <4>1 DEF Opens
    <3>4. CASE ~MayOpen(Event(k).who)
      BY <1>3, <3>2, <3>4 DEF Opens
    <3> QED
      BY <3>3, <3>4
  <2> QED
    BY <1>3, <2>1, <2>2 DEF Opens, TypeOK
<1>4. ASSUME NEW k \in Calls, Closes(k) PROVE TypeOK'
  <2>1. call' \in [Calls -> CallType]
    BY <1>4, CallStepTyped, PhasesKnown DEF Closes
  <2>2. visits' \subseteq VisitType
    <3>1. \A v \in visits : ClosedBy(v, Event(k), call[k].from) \in VisitType
      BY CallTyped, ClosedTyped DEF TypeOK
    <3> QED
      BY <1>4, <3>1 DEF Closes, Closing, TypeOK
  <2> QED
    BY <1>4, <2>1, <2>2 DEF Closes, history, TypeOK
<1>5. ASSUME NEW k \in Calls, Saves(k) PROVE TypeOK'
  <2>1. call' \in [Calls -> CallType]
    BY <1>5, CallStepTyped, PhasesKnown DEF Saves
  <2> QED
    BY <1>5, <2>1, CallTyped DEF Saves, history, TypeOK
<1>6. ASSUME NEW k \in Calls, FindsProfile(k) PROVE TypeOK'
  <2>1. call' \in [Calls -> CallType]
    <3>1. CASE Over(k)
      BY <3>1, CallStepTyped
    <3>2. CASE call' = [call EXCEPT ![k].phase = "put", ![k].seen = profile[Who(k)]]
      <4>1. profile[Who(k)] \in ProfileType
        BY CallTyped DEF TypeOK
      <4>2. call \in [Calls -> CallType] /\ call[k] \in CallType
        BY DEF TypeOK
      <4> QED
        BY <3>2, <4>1, <4>2, PhasesKnown DEF CallType
    <3> QED
      BY <1>6, <3>1, <3>2 DEF FindsProfile
  <2> QED
    BY <1>6, <2>1 DEF FindsProfile, collections, history, TypeOK
<1>7. ASSUME NEW k \in Calls, InsertsProfile(k) PROVE TypeOK'
  <2>1. call' \in [Calls -> CallType]
    <3>1. Over(k) \/ Step(k, "refind")
      BY <1>7 DEF InsertsProfile
    <3> QED
      BY <3>1, CallStepTyped, PhasesKnown
  <2>2. NewProfile(Event(k), call[k].fresh) \in ProfileType
    BY CallTyped, ProfileTyped
  <2>3. profile' \in [Visitors -> ProfileType]
    BY <1>7, <2>2 DEF InsertsProfile, TypeOK
  <2> QED
    BY <1>7, <2>1, <2>3 DEF InsertsProfile, history, TypeOK
<1>8. ASSUME NEW k \in Calls, UpdatesProfile(k) PROVE TypeOK'
  <2>1. call' \in [Calls -> CallType]
    BY <1>8, CallStepTyped DEF UpdatesProfile
  <2>2. \A now \in ProfileType : Bumped(now, call[k].seen, Event(k), call[k].fresh) \in ProfileType
    BY CallTyped, ProfileTyped
  <2>3. profile' \in [Visitors -> ProfileType]
    BY <1>8, <2>2, CallTyped DEF UpdatesProfile, TypeOK
  <2> QED
    BY <1>8, <2>1, <2>3 DEF UpdatesProfile, history, TypeOK
<1>9. ASSUME NEW k \in Calls, WritePassedOver(k) PROVE TypeOK'
  <2>1. call' \in [Calls -> CallType]
    <3>1. call \in [Calls -> CallType] /\ call[k] \in CallType
      BY DEF TypeOK
    <3> QED
      BY <1>9, <3>1, PhasesKnown DEF WritePassedOver, CallType
  <2> QED
    BY <1>9, <2>1, FaultTyped, CallTyped DEF WritePassedOver, collections, TypeOK
<1>10. ASSUME NEW k \in Calls, ReadPassedOver(k) PROVE TypeOK'
  <2>1. call' \in [Calls -> CallType]
    <3>1. Step(k, "open") \/ Step(k, "save") \/ Step(k, "put") \/ Over(k)
      BY <1>10 DEF ReadPassedOver
    <3> QED
      BY <3>1, CallStepTyped, PhasesKnown
  <2> QED
    BY <1>10, <2>1, FaultTyped, CallTyped DEF ReadPassedOver, collections, TypeOK
<1>11. ASSUME NEW k \in Calls, CallLost(k) PROVE TypeOK'
  <2>1. call' \in [Calls -> CallType]
    BY <1>11, CallStepTyped DEF CallLost
  <2> QED
    BY <1>11, <2>1, FaultTyped, CallTyped DEF CallLost, collections, TypeOK
<1>12. ASSUME NEW cutoff \in Cutoffs, PurgesEvents(cutoff) PROVE TypeOK'
  BY <1>12, CutoffsAreTimes, HistoryBounds DEF PurgesEvents, TypeOK
<1>13. CASE PurgesVisits
  BY <1>13 DEF PurgesVisits, TypeOK, history
<1>14. CASE PurgesProfiles
  <2>1. NoProfile \in ProfileType
    BY DEF NoProfile, ProfileType, NoTime
  <2> QED
    BY <1>14, <2>1 DEF PurgesProfiles, TypeOK, history, NotPurging
<1>15. CASE UNCHANGED vars
  BY <1>15 DEF vars, TypeOK
<1> QED
  BY <1>1, <1>2, <1>3, <1>4, <1>5, <1>6, <1>7, <1>8, <1>9, <1>10, <1>11, <1>12, <1>13, <1>14, <1>15
     DEF HistoryNext

\* The reports leave the collections alone.
LEMMA ReportsRead == [Next]_allVars => [HistoryNext]_vars
  BY DEF Next, AsksDurations, AnswersDurations, allVars

\* The documents of the collections, and the calls on them, keep their shape.
THEOREM TypeCorrect == Spec => []TypeOK
  BY TypeInit, TypeNext, ReportsRead, PTL DEF Spec, Init

------------------------------------------------------------------------------
(* Refinement. *)

\* The numbers of a visitor's visits tell them apart, none is above the last one given,
\* and at most one is open.
Numbered ==
    /\ \A v \in visits : v.no <= opened[v.who]
    /\ \A v, w \in visits : v.who = w.who /\ v.no = w.no => v = w

OneOpen == \A v, w \in visits : v.who = w.who /\ v.status = "OPEN" /\ w.status = "OPEN" => v = w

VisitInv == TypeOK /\ IsFiniteSet(visits) /\ Numbered /\ OneOpen

Ended(V, p) == {v \in V : v.who = p /\ v.status = "COMPLETED"}

LEMMA InsideIs ==
    /\ Inside = {p \in Visitors : \E v \in visits : v.who = p /\ v.status = "OPEN"}
    /\ Inside' = {p \in Visitors : \E v \in visits' : v.who = p /\ v.status = "OPEN"}
  BY DEF Inside, OpenVisits

LEMMA StaysIs ==
    /\ Stays = [p \in Visitors |-> Cardinality(Ended(visits, p))]
    /\ Stays' = [p \in Visitors |-> Cardinality(Ended(visits', p))]
  BY DEF Stays, Ended

\* A visit is created.
LEMMA VisitOpened ==
    ASSUME VisitInv, TypeOK', NEW k \in Calls, Opens(k), MayOpen(Who(k))
    PROVE  VisitInv' /\ Presence!Enter(Who(k))
<1> DEFINE p == Who(k)
           new == [no |-> opened[p] + 1, who |-> p, at |-> Event(k).at,
                   status |-> "OPEN", till |-> NoTime, duration |-> 0]
<1>1. /\ p \in Visitors /\ opened[p] \in Nat /\ opened \in [Visitors -> Nat]
      /\ visits \subseteq VisitType
  BY CallTyped DEF VisitInv, TypeOK
<1>2. visits' = visits \cup {new} /\ opened' = [opened EXCEPT ![p] = @ + 1]
  BY DEF Opens, Who, Event
<1>3. new.who = p /\ new.no = opened[p] + 1 /\ new.status = "OPEN"
  OBVIOUS
<1> HIDE DEF new, p
<1>4. \A v \in visits : v.who \in Visitors /\ v.no \in Nat /\ v.no <= opened[v.who] /\ opened[v.who] \in Nat
  BY <1>1 DEF VisitInv, Numbered, VisitType
<1>5. \A v \in visits : v.who = p => v.status # "OPEN" /\ v.no # new.no
  BY <1>1, <1>3, <1>4 DEF MayOpen, OpenVisits, p
<1>6. Numbered'
  <2>1. \A v \in visits' : v.no <= opened'[v.who]
    BY <1>1, <1>2, <1>3, <1>4
  <2>2. \A v, w \in visits' : v.who = w.who /\ v.no = w.no => v = w
    BY <1>2, <1>3, <1>5 DEF VisitInv, Numbered
  <2> QED
    BY <2>1, <2>2 DEF Numbered
<1>7. OneOpen'
  BY <1>2, <1>3, <1>5 DEF VisitInv, OneOpen
<1>8. IsFiniteSet(visits')
  BY <1>2, FS_AddElement DEF VisitInv
<1>9. p \notin Inside /\ Inside' = Inside \cup {p}
  BY <1>1, <1>2, <1>3, <1>5, InsideIs
<1>10. Stays' = Stays
  <2>1. \A q : Ended(visits', q) = Ended(visits, q)
    BY <1>2, <1>3 DEF Ended
  <2> QED
    BY <2>1, StaysIs
<1> QED
  BY <1>6, <1>7, <1>8, <1>9, <1>10 DEF VisitInv, Presence!Enter, p

\* The write of a completion meets the open visit, or none.
LEMMA VisitClosed ==
    ASSUME VisitInv, TypeOK', NEW k \in Calls, Closes(k)
    PROVE  VisitInv' /\ (visits' = visits \/ Presence!Leave(Who(k)))
<1> DEFINE p == Who(k)
           Hit(v) == v.who = p /\ v.no = call[k].target /\ v.status = "OPEN"
           new(v) == ClosedBy(v, Event(k), call[k].from)
<1>1. p \in Visitors /\ visits \subseteq VisitType /\ opened' = opened
  BY CallTyped DEF VisitInv, TypeOK, Closes, history
<1>2. visits' = {IF Hit(v) THEN new(v) ELSE v : v \in visits}
  BY DEF Closes, Closing, Who, Event
<1>3. \A v \in visits : new(v).no = v.no /\ new(v).who = v.who /\ new(v).status = "COMPLETED"
  BY <1>1, CallTyped, ClosedTyped DEF VisitInv
<1> HIDE DEF new, p
<1>4. CASE \A v \in visits : ~Hit(v)
  <2>1. visits' = visits
    BY <1>2, <1>4
  <2> QED
    BY <1>1, <2>1 DEF VisitInv, Numbered, OneOpen
<1>5. CASE \E v \in visits : Hit(v)
  <2>1. PICK v \in visits : Hit(v)
    BY <1>5
  <2>2. \A w \in visits : Hit(w) => w = v
    BY <2>1 DEF VisitInv, Numbered
  <2>3. visits' = (visits \ {v}) \cup {new(v)}
    BY <1>2, <2>1, <2>2
  <2>4. new(v).no = v.no /\ new(v).who = p /\ new(v).status = "COMPLETED" /\ v.who = p /\ v.status = "OPEN"
    BY <1>3, <2>1
  <2>5. Numbered'
    BY <1>1, <2>3, <2>4 DEF VisitInv, Numbered
  <2>6. OneOpen'
    BY <2>3, <2>4 DEF VisitInv, OneOpen
  <2>7. IsFiniteSet(visits')
    BY <2>3, FS_AddElement, FS_RemoveElement DEF VisitInv
  <2>8. p \in Inside /\ Inside' = Inside \ {p}
    <3>1. \A w \in visits : w.who = p /\ w.status = "OPEN" => w = v
      BY <2>4 DEF VisitInv, OneOpen
    <3> QED
      BY <1>1, <2>3, <2>4, <3>1, InsideIs
  <2>9. Stays' = [Stays EXCEPT ![p] = @ + 1]
    <3>1. Ended(visits', p) = Ended(visits, p) \cup {new(v)}
      BY <2>3, <2>4 DEF Ended
    <3>2. new(v) \notin Ended(visits, p)
      BY <2>1, <2>4 DEF VisitInv, Numbered, Ended
    <3>3. IsFiniteSet(Ended(visits, p))
      BY FS_Subset DEF VisitInv, Ended
    <3>4. Cardinality(Ended(visits', p)) = Cardinality(Ended(visits, p)) + 1
      BY <3>1, <3>2, <3>3, FS_AddElement
    <3>5. \A q \in Visitors \ {p} : Ended(visits', q) = Ended(visits, q)
      BY <2>3, <2>4 DEF Ended
    <3> QED
      BY <1>1, <3>4, <3>5, StaysIs
  <2> QED
    BY <2>5, <2>6, <2>7, <2>8, <2>9 DEF VisitInv, Presence!Leave, p
<1> QED
  BY <1>4, <1>5

\* Retention only removes.
LEMMA VisitsPurged ==
    ASSUME VisitInv, TypeOK', PurgesVisits
    PROVE  VisitInv' /\ Presence!Forget
<1>1. visits' \subseteq visits /\ opened' = opened
  BY DEF PurgesVisits, history
<1>2. Numbered' /\ OneOpen' /\ IsFiniteSet(visits')
  BY <1>1, FS_Subset DEF VisitInv, Numbered, OneOpen
<1>3. Inside' \subseteq Inside
  BY <1>1, InsideIs
<1>4. \A p \in Visitors : /\ Cardinality(Ended(visits', p)) \in Nat
                          /\ Cardinality(Ended(visits', p)) <= Cardinality(Ended(visits, p))
  <2> SUFFICES ASSUME NEW p \in Visitors
               PROVE  /\ Cardinality(Ended(visits', p)) \in Nat
                      /\ Cardinality(Ended(visits', p)) <= Cardinality(Ended(visits, p))
    OBVIOUS
  <2>1. IsFiniteSet(Ended(visits, p))
    BY FS_Subset DEF VisitInv, Ended
  <2>2. Ended(visits', p) \subseteq Ended(visits, p)
    BY <1>1 DEF Ended
  <2> QED
    BY <2>1, <2>2, FS_Subset, FS_CardinalityType
<1> QED
  BY <1>2, <1>3, <1>4, StaysIs DEF VisitInv, Presence!Forget

LEMMA VisitNext ==
    ASSUME VisitInv, [HistoryNext]_vars
    PROVE  VisitInv' /\ [Presence!PresenceNext]_<<Inside, Stays>>
<1>1. TypeOK'
  BY TypeNext DEF VisitInv
<1>2. ASSUME visits' = visits, opened' = opened
      PROVE  VisitInv' /\ Inside' = Inside /\ Stays' = Stays
  BY <1>1, <1>2, InsideIs, StaysIs DEF VisitInv, Numbered, OneOpen
<1>3. ASSUME NEW k \in Calls, Opens(k) PROVE VisitInv' /\ [Presence!PresenceNext]_<<Inside, Stays>>
  <2>1. CASE MayOpen(Who(k))
    BY <1>1, <1>3, <2>1, VisitOpened, CallTyped DEF VisitInv, Presence!PresenceNext
  <2>2. CASE ~MayOpen(Who(k))
    BY <1>2, <1>3, <2>2 DEF Opens, Who, Event
  <2> QED
    BY <2>1, <2>2
<1>4. ASSUME NEW k \in Calls, Closes(k) PROVE VisitInv' /\ [Presence!PresenceNext]_<<Inside, Stays>>
  <2>1. CASE visits' = visits
    BY <1>2, <1>4, <2>1 DEF Closes, history
  <2>2. CASE visits' # visits
    BY <1>1, <1>4, <2>2, VisitClosed, CallTyped DEF VisitInv, Presence!PresenceNext
  <2> QED
    BY <2>1, <2>2
<1>5. CASE PurgesVisits
  BY <1>1, <1>5, VisitsPurged DEF Presence!PresenceNext
<1>6. ASSUME NEW k \in Calls, NEW e \in Feed, Delivered(k, e) PROVE visits' = visits /\ opened' = opened
  BY <1>6 DEF Delivered, collections
<1>7. ASSUME NEW k \in Calls,
             \/ LooksForVisit(k) \/ Saves(k) \/ FindsProfile(k) \/ InsertsProfile(k) \/ UpdatesProfile(k)
             \/ WritePassedOver(k) \/ ReadPassedOver(k) \/ CallLost(k)
      PROVE  visits' = visits /\ opened' = opened
  BY <1>7 DEF LooksForVisit, Saves, FindsProfile, InsertsProfile, UpdatesProfile, WritePassedOver,
     ReadPassedOver, CallLost, Fault, collections, history
<1>8. ASSUME NEW cutoff \in Cutoffs, PurgesEvents(cutoff) PROVE visits' = visits /\ opened' = opened
  BY <1>8 DEF PurgesEvents
<1>9. PurgesProfiles \/ UNCHANGED vars => visits' = visits /\ opened' = opened
  BY DEF PurgesProfiles, history, vars
<1> QED
  BY <1>2, <1>3, <1>4, <1>5, <1>6, <1>7, <1>8, <1>9 DEF HistoryNext

\* A visitor has at most one open visit, a visit ends once, an EXIT without an open visit
\* ends none: each write to the visits is one that VisitorPresence allows.
THEOREM Refinement == Spec => ImplementsPresence
<1>1. Init => VisitInv
  <2> SUFFICES ASSUME Init PROVE VisitInv
    OBVIOUS
  <2>1. visits = {}
    BY DEF Init, HistoryInit
  <2> QED
    BY <2>1, TypeInit, FS_EmptySet DEF Init, VisitInv, Numbered, OneOpen
<1>2. Init => Presence!PresenceInit
  <2> SUFFICES ASSUME Init PROVE Presence!PresenceInit
    OBVIOUS
  <2>1. visits = {}
    BY DEF Init, HistoryInit
  <2>2. Inside = {} /\ \A p : Ended(visits, p) = {}
    BY <2>1, InsideIs DEF Ended
  <2> QED
    BY <2>2, StaysIs, FS_EmptySet DEF Presence!PresenceInit
<1>3. VisitInv /\ [HistoryNext]_vars => VisitInv' /\ [Presence!PresenceNext]_<<Inside, Stays>>
  BY VisitNext
<1> QED
  BY <1>1, <1>2, <1>3, ReportsRead, PTL DEF Spec, ImplementsPresence, Presence!PresenceSpec

------------------------------------------------------------------------------
(* The counters of the profile. *)

\* A call that has saved its event has not counted it yet.
Late == {"find", "put", "refind"}
Pending == {Event(k) : k \in {l \in Calls : call[l].phase \in Late}}

Counted(p, kind) == {e \in events : e.who = p /\ e.kind = kind /\ e \notin Pending}

\* Events whose visit is still to be counted.
Fresh(p) ==
    {e \in Feed : e.who = p /\
        \E k \in Calls : call[k].phase \in Late \cup {"save"} /\ call[k].fresh /\ Event(k) = e}

Sound ==
    /\ \A k \in Calls : /\ call[k].seen # NoProfile => call[k].seen.first > 0
                        /\ call[k].phase \in {"idle", "look", "open", "close"} => ~call[k].fresh
    /\ \A p \in Visitors : profile[p] # NoProfile => profile[p].first > 0
    /\ purge.left # {} => disturbed = Visitors

\* Of a visitor without a fault: the calls at work are of different events, saved by them
\* alone, and the counters lack what is still to be counted.
Tally(p) ==
    /\ \A k, l \in InFlight(p) : Event(k) = Event(l) => k = l
    /\ \A k \in InFlight(p) : Event(k) \in events <=> call[k].phase \in Late
    /\ \A k \in InFlight(p) :
          call[k].phase = "refind" \/ (call[k].phase = "put" /\ call[k].seen # NoProfile)
              => profile[p] # NoProfile
    /\ profile[p].entries = Cardinality(Counted(p, "ENTRY"))
    /\ profile[p].exits = Cardinality(Counted(p, "EXIT"))
    /\ profile[p].visits + Cardinality(Fresh(p)) >= opened[p]

\* And if no two calls overlapped, what a call has read is still so.
Alone(p) ==
    /\ \A k, l \in InFlight(p) : k = l
    /\ \A k \in InFlight(p) : /\ call[k].phase = "open" => OpenVisits(p) = {}
                              /\ call[k].phase = "put" => call[k].seen = profile[p]
                              /\ call[k].phase # "refind"
    /\ profile[p].visits + Cardinality(Fresh(p)) = opened[p]
    /\ \A e \in events :
          e.who = p => e \in Pending \/ (profile[p].first <= e.at /\ e.at <= profile[p].last)

ProfileInv ==
    /\ TypeOK /\ Sound
    /\ \A p \in Visitors \ disturbed : Tally(p) /\ (p \in crowded \/ Alone(p))

LEMMA FiniteParts ==
    ASSUME TypeOK, NEW p \in Visitors
    PROVE  /\ IsFiniteSet(events) /\ IsFiniteSet(Fresh(p)) /\ Cardinality(Fresh(p)) \in Nat
           /\ \A kind : IsFiniteSet(Counted(p, kind)) /\ Cardinality(Counted(p, kind)) \in Nat
<1>1. events \in SUBSET Feed /\ Fresh(p) \in SUBSET Feed
  BY DEF TypeOK, Fresh
<1>2. IsFiniteSet(events) /\ IsFiniteSet(Fresh(p))
  BY <1>1, FS_Subset, FeedTyped
<1>3. \A kind : Counted(p, kind) \in SUBSET events
  BY DEF Counted
<1>4. \A kind : IsFiniteSet(Counted(p, kind))
  BY <1>2, <1>3, FS_Subset
<1> QED
  BY <1>2, <1>4, FS_CardinalityType

LEMMA CountersTyped ==
    ASSUME TypeOK, NEW p \in Visitors
    PROVE  /\ profile[p].entries \in Nat /\ profile[p].exits \in Nat /\ profile[p].visits \in Nat
           /\ profile[p].first \in Nat /\ profile[p].last \in Nat /\ opened[p] \in Nat
  BY DEF TypeOK, ProfileType

\* Nothing of q changes.
Same(q) ==
    /\ \A k \in Calls : \/ call'[k] = call[k]
                        \/ /\ call[k].phase = "idle" \/ call[k].event.who # q
                           /\ call'[k].phase = "idle" \/ call'[k].event.who # q
    /\ \A e \in Feed : e.who = q => (e \in events' <=> e \in events)
    /\ profile'[q] = profile[q] /\ opened'[q] = opened[q] /\ OpenVisits(q)' = OpenVisits(q)

LEMMA Untouched ==
    ASSUME TypeOK, TypeOK', NEW q \in Visitors, Same(q), Tally(q)
    PROVE  Tally(q)' /\ (Alone(q) => Alone(q)')
<1>1. /\ InFlight(q)' = InFlight(q)
      /\ \A k \in InFlight(q) : k \in Calls /\ call'[k] = call[k]
  BY DEF InFlight, Same, Who
<1>2. \A k \in InFlight(q) : Event(k)' = Event(k) /\ Event(k) \in Feed /\ Event(k).who = q
  BY <1>1, CallTyped DEF Event, InFlight, Who
<1>3. \A e \in Feed : e.who = q => (e \in Pending' <=> e \in Pending)
  <2>1. \A k \in Calls : call[k].phase \in Late => call[k].phase # "idle"
    BY DEF Late
  <2>2. \A k \in Calls : call'[k].phase \in Late => call'[k].phase # "idle"
    BY DEF Late
  <2> QED
    BY <2>1, <2>2 DEF Same, Pending, Event
<1>4. \A kind : Counted(q, kind)' = Counted(q, kind)
  BY <1>3 DEF Counted, Same, TypeOK
<1>5. Fresh(q)' = Fresh(q)
  <2>1. \A k \in Calls : call[k].phase \in Late \cup {"save"} => call[k].phase # "idle"
    BY DEF Late
  <2>2. \A k \in Calls : call'[k].phase \in Late \cup {"save"} => call'[k].phase # "idle"
    BY DEF Late
  <2> QED
    BY <2>1, <2>2 DEF Same, Fresh, Event
<1>6. profile'[q] = profile[q] /\ opened'[q] = opened[q] /\ OpenVisits(q)' = OpenVisits(q)
  BY DEF Same
<1>7. \A e \in Feed : e.who = q => (e \in events' <=> e \in events)
  BY DEF Same
<1>8. events \subseteq Feed /\ events' \subseteq Feed
  BY DEF TypeOK
<1>9. Tally(q)'
  BY <1>1, <1>2, <1>4, <1>5, <1>6, <1>7 DEF Tally
<1>10. ASSUME Alone(q) PROVE Alone(q)'
  BY <1>1, <1>3, <1>5, <1>6, <1>7, <1>8, <1>10 DEF Alone
<1> QED
  BY <1>9, <1>10

\* The steps of a call.
Acts(k) ==
    \/ LooksForVisit(k) \/ Opens(k) \/ Closes(k) \/ Saves(k)
    \/ FindsProfile(k) \/ InsertsProfile(k) \/ UpdatesProfile(k)
    \/ WritePassedOver(k) \/ ReadPassedOver(k) \/ CallLost(k)

\* A step of a call is about its visitor only.
LEMMA OthersSame ==
    ASSUME TypeOK, NEW k \in Calls, Acts(k), NEW q \in Visitors, q # Who(k)
    PROVE  Same(q)
<1>1. /\ Event(k) \in Feed /\ Who(k) \in Visitors /\ Event(k) = call[k].event /\ Who(k) = call[k].event.who
      /\ call \in [Calls -> CallType] /\ call[k] \in CallType
  BY CallTyped DEF TypeOK, Event, Who
<1>2. /\ \A l \in Calls \ {k} : call'[l] = call[l]
      /\ call'[k].phase = "idle" \/ call'[k].event = call[k].event
  <2>1. ASSUME Over(k) PROVE <1>2!1 /\ <1>2!2
    BY <1>1, <2>1 DEF Over, NoCall
  <2>2. ASSUME NEW phase, Step(k, phase) PROVE <1>2!1 /\ <1>2!2
    BY <1>1, <2>2 DEF Step, CallType
  <2>3. CASE LooksForVisit(k)
    <3>1. CASE OpenVisits(Who(k)) = {}
      BY <2>2, <2>3, <3>1 DEF LooksForVisit
    <3>2. CASE OpenVisits(Who(k)) # {}
      <4> DEFINE v == CHOOSE v \in OpenVisits(Who(k)) : TRUE
      <4>1. call' = [call EXCEPT ![k].phase = IF Event(k).kind = "EXIT" THEN "close" ELSE "save",
                                 ![k].target = v.no, ![k].from = v.at]
        BY <2>3, <3>2 DEF LooksForVisit
      <4> HIDE DEF v
      <4> QED
        BY <1>1, <4>1 DEF CallType
    <3> QED
      BY <3>1, <3>2
  <2>4. CASE Opens(k) \/ WritePassedOver(k)
    BY <1>1, <2>4 DEF Opens, WritePassedOver, CallType
  <2>5. CASE FindsProfile(k)
    BY <1>1, <2>1, <2>5 DEF FindsProfile, CallType
  <2>6. CASE Closes(k) \/ Saves(k) \/ InsertsProfile(k) \/ UpdatesProfile(k) \/ ReadPassedOver(k) \/ CallLost(k)
    <3>1. Over(k) \/ \E phase : Step(k, phase)
      BY <2>6 DEF Closes, Saves, InsertsProfile, UpdatesProfile, ReadPassedOver, CallLost
    <3> QED
      BY <2>1, <2>2, <3>1
  <2> QED
    BY <2>3, <2>4, <2>5, <2>6 DEF Acts
<1>3. \A e \in Feed : e.who = q => (e \in events' <=> e \in events)
  BY <1>1 DEF Acts, LooksForVisit, Opens, Closes, Saves, FindsProfile, InsertsProfile,
     UpdatesProfile, WritePassedOver, ReadPassedOver, CallLost, collections
<1>4. profile'[q] = profile[q]
  <2>1. profile' = profile \/ \E new : profile' = [profile EXCEPT ![Who(k)] = new]
    BY DEF Acts, LooksForVisit, Opens, Closes, Saves, FindsProfile, InsertsProfile,
       UpdatesProfile, WritePassedOver, ReadPassedOver, CallLost, collections
  <2> QED
    BY <2>1 DEF TypeOK
<1>5. opened'[q] = opened[q]
  <2>1. CASE Opens(k)
    BY <1>1, <2>1 DEF Opens, TypeOK
  <2>2. CASE ~Opens(k)
    BY <2>2 DEF Acts, LooksForVisit, Closes, Saves, FindsProfile, InsertsProfile, UpdatesProfile,
       WritePassedOver, ReadPassedOver, CallLost, Fault, history
  <2> QED
    BY <2>1, <2>2
<1>6. OpenVisits(q)' = OpenVisits(q)
  <2>1. CASE Opens(k)
    BY <1>1, <2>1 DEF Opens, OpenVisits
  <2>2. CASE Closes(k)
    <3>1. \A v \in visits : ClosedBy(v, Event(k), call[k].from).who = v.who
      <4>1. visits \subseteq VisitType /\ call[k].from \in Nat
        BY CallTyped DEF TypeOK
      <4> QED
        BY <1>1, <4>1, ClosedTyped
    <3> QED
      BY <1>1, <2>2, <3>1 DEF Closes, Closing, OpenVisits
  <2>3. CASE ~Opens(k) /\ ~Closes(k)
    <3>1. visits' = visits
      BY <2>3 DEF Acts, LooksForVisit, Saves, FindsProfile, InsertsProfile,
         UpdatesProfile, WritePassedOver, ReadPassedOver, CallLost, collections
    <3> QED
      BY <3>1 DEF OpenVisits
  <2> QED
    BY <2>1, <2>2, <2>3
<1> QED
  BY <1>1, <1>2, <1>3, <1>4, <1>5, <1>6 DEF Same

LEMMA SoundNext ==
    ASSUME TypeOK, Sound, [HistoryNext]_vars
    PROVE  Sound'
<1> DEFINE Good(c) == /\ c.seen # NoProfile => c.seen.first > 0
                      /\ c.phase \in {"idle", "look", "open", "close"} => ~c.fresh
           Calls_ == \A k \in Calls : Good(call'[k])
           Profiles_ == \A p \in Visitors : profile'[p] # NoProfile => profile'[p].first > 0
           Purge_ == purge'.left # {} => disturbed' = Visitors
<1>1. /\ call \in [Calls -> CallType] /\ disturbed \subseteq Visitors
      /\ \A k \in Calls : Good(call[k])
  BY DEF TypeOK, Sound
<1>2. Good(NoCall)
  BY DEF NoCall
<1>3. SUFFICES Calls_ /\ Profiles_ /\ Purge_
  BY DEF Sound
<1>4. ASSUME NEW k \in Calls, Over(k) PROVE Calls_
  BY <1>1, <1>2, <1>4 DEF Over
<1>5. ASSUME NEW k \in Calls, NEW phase \in {"save", "find", "put", "refind"}, Step(k, phase) PROVE Calls_
  BY <1>1, <1>5 DEF Step, CallType
<1>6. ASSUME NEW k \in Calls, call[k].phase = "look", Step(k, "open") PROVE Calls_
  BY <1>1, <1>6 DEF Step, CallType
<1>7. ASSUME profile' = profile PROVE Profiles_
  BY <1>7 DEF Sound
<1>8. ASSUME purge' = purge, disturbed' = disturbed \/ \E p \in Visitors : disturbed' = disturbed \cup {p} PROVE Purge_
  BY <1>1, <1>8 DEF Sound
<1>9. ASSUME NEW k \in Calls, NEW e \in Feed, Delivered(k, e) PROVE Calls_ /\ Profiles_ /\ Purge_
  <2>1. /\ call' = [call EXCEPT ![k] = [NoCall EXCEPT !.phase = "look", !.event = e]]
        /\ profile' = profile /\ purge' = purge
        /\ disturbed' = disturbed \/ disturbed' = disturbed \cup {e.who}
    BY <1>9 DEF Delivered, collections
  <2>2. Good([NoCall EXCEPT !.phase = "look", !.event = e])
    BY DEF NoCall
  <2> HIDE DEF Good
  <2> QED
    BY <1>1, <1>7, <1>8, <2>1, <2>2, EventTyped
<1>10. ASSUME NEW k \in Calls, LooksForVisit(k) PROVE Calls_ /\ Profiles_ /\ Purge_
  <2>1. Calls_
    <3>1. CASE OpenVisits(Who(k)) = {}
      BY <1>5, <1>6, <1>10, <3>1 DEF LooksForVisit
    <3>2. CASE OpenVisits(Who(k)) # {}
      <4> DEFINE v == CHOOSE v \in OpenVisits(Who(k)) : TRUE
      <4>1. call[k].phase = "look" /\
            call' = [call EXCEPT ![k].phase = IF Event(k).kind = "EXIT" THEN "close" ELSE "save",
                                 ![k].target = v.no, ![k].from = v.at]
        BY <1>10, <3>2 DEF LooksForVisit
      <4> HIDE DEF v
      <4> QED
        BY <1>1, <4>1 DEF CallType
    <3> QED
      BY <3>1, <3>2
  <2> QED
    BY <1>7, <1>8, <1>10, <2>1 DEF LooksForVisit, collections, history
<1>11. ASSUME NEW k \in Calls, Opens(k) \/ WritePassedOver(k) PROVE Calls_ /\ Profiles_ /\ Purge_
  <2>1. Calls_
    BY <1>1, <1>11 DEF Opens, WritePassedOver, CallType
  <2>2. profile' = profile /\ purge' = purge /\ (disturbed' = disturbed \/ disturbed' = disturbed \cup {Who(k)})
    BY <1>11 DEF Opens, WritePassedOver, Fault, collections
  <2> QED
    BY <1>7, <1>8, <2>1, <2>2, CallTyped
<1>12. ASSUME NEW k \in Calls, Closes(k) \/ Saves(k) PROVE Calls_ /\ Profiles_ /\ Purge_
  <2>1. Calls_
    BY <1>5, <1>12 DEF Closes, Saves
  <2>2. profile' = profile /\ purge' = purge /\ disturbed' = disturbed
    BY <1>12 DEF Closes, Saves, history
  <2> QED
    BY <1>7, <1>8, <2>1, <2>2
<1>13. ASSUME NEW k \in Calls, FindsProfile(k) PROVE Calls_ /\ Profiles_ /\ Purge_
  <2>1. CASE Over(k)
    BY <1>4, <1>7, <1>8, <1>13, <2>1 DEF FindsProfile, collections, history
  <2>2. CASE call' = [call EXCEPT ![k].phase = "put", ![k].seen = profile[Who(k)]]
    <3>1. profile[Who(k)] # NoProfile => profile[Who(k)].first > 0
      BY CallTyped DEF Sound
    <3>2. Calls_
      BY <1>1, <2>2, <3>1 DEF CallType
    <3> QED
      BY <1>7, <1>8, <1>13, <3>2 DEF FindsProfile, collections, history
  <2> QED
    BY <1>13, <2>1, <2>2 DEF FindsProfile
<1>14. ASSUME NEW k \in Calls, InsertsProfile(k) \/ UpdatesProfile(k) PROVE Calls_ /\ Profiles_ /\ Purge_
  <2>1. Calls_
    BY <1>4, <1>5, <1>14 DEF InsertsProfile, UpdatesProfile
  <2>2. NewProfile(Event(k), call[k].fresh).first > 0
    BY CallTyped, EventTyped DEF NewProfile
  <2>3. call[k].seen # NoProfile => Bumped(profile[Who(k)], call[k].seen, Event(k), call[k].fresh).first > 0
    BY <1>1, CallTyped, EventTyped DEF Bumped
  <2>4. Profiles_
    <3>1. \/ profile' = profile
          \/ profile' = [profile EXCEPT ![Who(k)] = NewProfile(Event(k), call[k].fresh)]
          \/ /\ call[k].seen # NoProfile
             /\ profile' = [profile EXCEPT ![Who(k)] = Bumped(@, call[k].seen, Event(k), call[k].fresh)]
      BY <1>14 DEF InsertsProfile, UpdatesProfile
    <3>2. profile \in [Visitors -> ProfileType] /\ Who(k) \in Visitors
      BY CallTyped DEF TypeOK
    <3>3. \A p \in Visitors : profile[p] # NoProfile => profile[p].first > 0
      BY DEF Sound
    <3> QED
      BY <2>2, <2>3, <3>1, <3>2, <3>3
  <2>5. purge' = purge /\ disturbed' = disturbed
    BY <1>14 DEF InsertsProfile, UpdatesProfile, history
  <2> QED
    BY <1>8, <2>1, <2>4, <2>5
<1>15. ASSUME NEW k \in Calls, ReadPassedOver(k) \/ CallLost(k) PROVE Calls_ /\ Profiles_ /\ Purge_
  <2>1. /\ profile' = profile /\ purge' = purge
        /\ disturbed' = disturbed \cup {Who(k)}
        /\ Over(k) \/ Step(k, "save") \/ Step(k, "put") \/ (call[k].phase = "look" /\ Step(k, "open"))
    BY <1>15 DEF ReadPassedOver, CallLost, Fault, collections
  <2> HIDE DEF Calls_, Profiles_, Purge_
  <2> QED
    BY <1>4, <1>5, <1>6, <1>7, <1>8, <2>1, CallTyped
<1>16. ASSUME NEW cutoff \in Cutoffs, PurgesEvents(cutoff) PROVE Calls_ /\ Profiles_ /\ Purge_
  BY <1>1, <1>7, <1>16 DEF PurgesEvents
<1>17. CASE PurgesVisits
  BY <1>1, <1>7, <1>17 DEF PurgesVisits, history, Sound
<1>18. CASE PurgesProfiles
  <2>1. Profiles_
    BY <1>18 DEF PurgesProfiles, Sound
  <2> QED
    BY <1>1, <1>18, <2>1 DEF PurgesProfiles, history, NotPurging
<1>19. CASE UNCHANGED vars
  BY <1>1, <1>7, <1>19 DEF vars, Sound
<1> QED
  BY <1>9, <1>10, <1>11, <1>12, <1>13, <1>14, <1>15, <1>16, <1>17, <1>18, <1>19 DEF HistoryNext

\* A call that goes on stays a call of its event.
GoesOn(k) ==
    /\ call[k].phase # "idle" /\ call'[k].phase # "idle"
    /\ call'[k].event = call[k].event
    /\ \A l \in Calls \ {k} : call'[l] = call[l]

Owed(k) == call[k].phase \in Late \cup {"save"} /\ call[k].fresh

LEMMA CallsGoOn ==
    ASSUME TypeOK, TypeOK', NEW k \in Calls, GoesOn(k)
    PROVE  /\ \A p : InFlight(p)' = InFlight(p)
           /\ \A l \in Calls : Event(l)' = Event(l)
           /\ (call[k].phase \in Late <=> call'[k].phase \in Late) => Pending' = Pending
           /\ (Owed(k) <=> Owed(k)') => \A p : Fresh(p)' = Fresh(p)
<1>1. \A l \in Calls : /\ call'[l].event = call[l].event
                       /\ call'[l].phase = "idle" <=> call[l].phase = "idle"
  BY DEF GoesOn
<1>2. \A p : InFlight(p)' = InFlight(p)
  BY <1>1 DEF InFlight, Who
<1>3. \A l \in Calls : Event(l)' = Event(l)
  BY <1>1 DEF Event
<1>4. ASSUME call[k].phase \in Late <=> call'[k].phase \in Late PROVE Pending' = Pending
  <2>1. \A l \in Calls : call[l].phase \in Late <=> call'[l].phase \in Late
    BY <1>4 DEF GoesOn
  <2> QED
    BY <1>3, <2>1 DEF Pending
<1>5. ASSUME Owed(k) <=> Owed(k)' PROVE \A p : Fresh(p)' = Fresh(p)
  <2>1. \A l \in Calls : Owed(l) <=> Owed(l)'
    BY <1>5 DEF GoesOn, Owed
  <2>2. \A p : /\ Fresh(p) = {e \in Feed : e.who = p /\ \E l \in Calls : Owed(l) /\ Event(l) = e}
               /\ Fresh(p)' = {e \in Feed : e.who = p /\ \E l \in Calls : Owed(l)' /\ Event(l)' = e}
    BY DEF Fresh, Owed
  <2> QED
    BY <1>3, <2>1, <2>2
<1> QED
  BY <1>2, <1>3, <1>4, <1>5

\* A step that saves and counts nothing.
LEMMA NothingCounted ==
    ASSUME TypeOK, TypeOK', NEW k \in Calls, GoesOn(k), Tally(Who(k)),
           call[k].phase \in Late <=> call'[k].phase \in Late,
           Owed(k) <=> Owed(k)',
           events' = events, profile' = profile, opened' = opened,
           call'[k].phase = "refind" \/ (call'[k].phase = "put" /\ call'[k].seen # NoProfile)
               => profile[Who(k)] # NoProfile
    PROVE  /\ Tally(Who(k))'
           /\ /\ Alone(Who(k))
              /\ call'[k].phase = "open" => OpenVisits(Who(k))' = {}
              /\ call'[k].phase = "put" => call'[k].seen = profile[Who(k)]
              /\ call'[k].phase # "refind"
              => Alone(Who(k))'
<1> DEFINE p == Who(k)
<1>1. p' = p /\ k \in InFlight(p) /\ InFlight(p) \subseteq Calls
  BY DEF GoesOn, Who, InFlight
<1> HIDE DEF p
<1>2. /\ InFlight(p)' = InFlight(p) /\ \A l \in Calls : Event(l)' = Event(l)
      /\ Pending' = Pending
      /\ Fresh(p)' = Fresh(p)
  BY <1>1, CallsGoOn
<1>3. \A kind : Counted(p, kind)' = Counted(p, kind)
  BY <1>1, <1>2 DEF Counted
<1>4. \A l \in Calls \ {k} : call'[l] = call[l]
  BY DEF GoesOn
<1>5. Tally(p)'
  BY <1>1, <1>2, <1>3, <1>4 DEF Tally, p
<1>6. ASSUME Alone(p), call'[k].phase = "open" => OpenVisits(p)' = {},
             call'[k].phase = "put" => call'[k].seen = profile[p], call'[k].phase # "refind"
      PROVE  Alone(p)'
  <2>1. InFlight(p) = {k}
    BY <1>1, <1>6 DEF Alone
  <2> QED
    BY <1>1, <1>2, <1>6, <2>1 DEF Alone
<1> QED
  BY <1>1, <1>5, <1>6 DEF p

LEMMA OpensKeeps ==
    ASSUME TypeOK, TypeOK', Sound, NEW k \in Calls, Opens(k), Tally(Who(k))
    PROVE  Tally(Who(k))' /\ (Alone(Who(k)) => Alone(Who(k))')
<1> DEFINE p == Who(k)
           e == Event(k)
<1>1. /\ p \in Visitors /\ e \in Feed /\ e.who = p
      /\ call[k].phase = "open" /\ call'[k].phase = "save" /\ call'[k].fresh
      /\ events' = events /\ profile' = profile
      /\ GoesOn(k)
  BY CallTyped DEF Opens, GoesOn, TypeOK, CallType, Who, Event
<1>2. p' = p /\ e' = e /\ k \in InFlight(p) /\ InFlight(p) \subseteq Calls
  BY <1>1 DEF GoesOn, Who, InFlight, Event
<1>3. opened'[p] = IF MayOpen(p) THEN opened[p] + 1 ELSE opened[p]
  BY <1>1 DEF Opens, TypeOK, Event, Who
<1> HIDE DEF p, e
<1>4. /\ InFlight(p)' = InFlight(p) /\ \A l \in Calls : Event(l)' = Event(l)
      /\ Pending' = Pending
  <2>1. call[k].phase \in Late <=> call'[k].phase \in Late
    BY <1>1 DEF Late
  <2> QED
    BY <1>1, <1>2, <2>1, CallsGoOn
<1>5. \A kind : Counted(p, kind)' = Counted(p, kind)
  BY <1>1, <1>2, <1>4 DEF Counted
<1>6. \A l \in Calls \ {k} : call'[l] = call[l]
  BY <1>1 DEF GoesOn
<1>7. Fresh(p)' = Fresh(p) \cup {e}
  <2>1. ~Owed(k) /\ Owed(k)' /\ \A l \in Calls \ {k} : Owed(l)' <=> Owed(l)
    BY <1>1, <1>6 DEF Owed, Late
  <2>2. /\ Fresh(p) = {o \in Feed : o.who = p /\ \E l \in Calls : Owed(l) /\ Event(l) = o}
        /\ Fresh(p)' = {o \in Feed : o.who = p /\ \E l \in Calls : Owed(l)' /\ Event(l)' = o}
    BY <1>2 DEF Fresh, Owed
  <2> QED
    BY <1>1, <1>4, <2>1, <2>2 DEF e
<1>8. e \notin Fresh(p)
  <2> SUFFICES ASSUME e \in Fresh(p) PROVE FALSE
    OBVIOUS
  <2>1. PICK l \in Calls : call[l].phase \in Late \cup {"save"} /\ Event(l) = e
    BY DEF Fresh
  <2>2. l \in InFlight(p)
    BY <1>1, <2>1 DEF InFlight, Who, Event, Late
  <2>3. l = k
    BY <1>2, <2>1, <2>2 DEF Tally, p, e
  <2> QED
    BY <1>1, <2>1, <2>3 DEF Late
<1>9. Cardinality(Fresh(p)') = Cardinality(Fresh(p)) + 1 /\ Cardinality(Fresh(p)) \in Nat
  <2>1. IsFiniteSet(Fresh(p)) /\ Cardinality(Fresh(p)) \in Nat
    BY <1>1, FiniteParts
  <2> QED
    BY <1>7, <1>8, <2>1, FS_AddElement
<1>10. profile[p].visits \in Nat /\ opened[p] \in Nat
  BY <1>1, CountersTyped
<1>11. Tally(p)'
  <2>1. profile[p].visits + Cardinality(Fresh(p)') >= opened'[p]
    BY <1>3, <1>9, <1>10 DEF Tally, p
  <2>2. \A l \in InFlight(p) : Event(l) \in events <=> call'[l].phase \in Late
    BY <1>1, <1>2, <1>6 DEF Tally, p, Late
  <2>3. \A l \in InFlight(p) : call'[l].phase = "refind" \/ (call'[l].phase = "put" /\ call'[l].seen # NoProfile)
                                 => profile[p] # NoProfile
    BY <1>1, <1>2, <1>6 DEF Tally, p
  <2>4. \A l, m \in InFlight(p) : Event(l) = Event(m) => l = m
    BY DEF Tally, p
  <2>5. profile[p].entries = Cardinality(Counted(p, "ENTRY")) /\ profile[p].exits = Cardinality(Counted(p, "EXIT"))
    BY DEF Tally, p
  <2> QED
    BY <1>1, <1>2, <1>4, <1>5, <2>1, <2>2, <2>3, <2>4, <2>5 DEF Tally
<1>12. ASSUME Alone(p) PROVE Alone(p)'
  <2>1. InFlight(p) = {k}
    BY <1>2, <1>12 DEF Alone
  <2>2. MayOpen(p)
    BY <1>1, <1>2, <1>12 DEF Alone, MayOpen
  <2>3. profile[p].visits + Cardinality(Fresh(p)') = opened'[p]
    BY <1>3, <1>9, <1>10, <1>12, <2>2 DEF Alone
  <2>4. \A o \in events : o.who = p => o \in Pending' \/ (profile[p].first <= o.at /\ o.at <= profile[p].last)
    BY <1>4, <1>12 DEF Alone
  <2> QED
    BY <1>1, <1>2, <1>4, <2>1, <2>3, <2>4 DEF Alone
<1> QED
  BY <1>2, <1>11, <1>12 DEF p

LEMMA SavesKeeps ==
    ASSUME TypeOK, TypeOK', NEW k \in Calls, Saves(k), Tally(Who(k))
    PROVE  Tally(Who(k))' /\ (Alone(Who(k)) => Alone(Who(k))')
<1> DEFINE p == Who(k)
           e == Event(k)
<1>1. /\ p \in Visitors /\ e \in Feed /\ e.who = p
      /\ call[k].phase = "save" /\ call'[k].phase = "find" /\ call'[k].fresh = call[k].fresh
      /\ events' = events \cup {e} /\ profile' = profile /\ opened' = opened
      /\ GoesOn(k)
  BY CallTyped DEF Saves, Step, GoesOn, TypeOK, CallType, Who, Event, history
<1>2. p' = p /\ e' = e /\ k \in InFlight(p) /\ InFlight(p) \subseteq Calls
  BY <1>1 DEF GoesOn, Who, InFlight, Event
<1>3. \A l \in Calls \ {k} : call'[l] = call[l]
  BY <1>1 DEF GoesOn
<1> HIDE DEF p, e
<1>4. Owed(k) <=> Owed(k)'
  BY <1>1 DEF Owed, Late
<1>5. /\ InFlight(p)' = InFlight(p) /\ \A l \in Calls : Event(l)' = Event(l)
      /\ Fresh(p)' = Fresh(p)
  BY <1>1, <1>2, <1>4, CallsGoOn
<1>6. Pending' = Pending \cup {e}
  <2>1. Event(k) = e /\ call[k].phase \notin Late /\ call'[k].phase \in Late
    BY <1>1 DEF e, Late
  <2>3. \A l \in Calls \ {k} : call'[l].phase \in Late <=> call[l].phase \in Late
    BY <1>3
  <2> QED
    BY <1>5, <2>1, <2>3 DEF Pending
<1>7. e \notin events
  BY <1>1, <1>2 DEF Tally, p, e, Late
<1>8. \A kind : Counted(p, kind)' = Counted(p, kind)
  BY <1>1, <1>2, <1>6, <1>7 DEF Counted
<1>9. Tally(p)'
  <2>1. \A l \in InFlight(p) : Event(l) \in events' <=> call'[l].phase \in Late
    <3>1. \A l \in InFlight(p) : l # k => Event(l) # e
      BY <1>2 DEF Tally, p, e
    <3> QED
      BY <1>1, <1>2, <1>3, <3>1 DEF Tally, p, e, Late
  <2>2. \A l \in InFlight(p) : call'[l].phase = "refind" \/ (call'[l].phase = "put" /\ call'[l].seen # NoProfile)
                                 => profile[p] # NoProfile
    BY <1>1, <1>2, <1>3 DEF Tally, p
  <2>3. \A l, m \in InFlight(p) : Event(l) = Event(m) => l = m
    BY DEF Tally, p
  <2>4. /\ profile[p].entries = Cardinality(Counted(p, "ENTRY")) /\ profile[p].exits = Cardinality(Counted(p, "EXIT"))
        /\ profile[p].visits + Cardinality(Fresh(p)) >= opened[p]
    BY DEF Tally, p
  <2> QED
    BY <1>1, <1>2, <1>5, <1>8, <2>1, <2>2, <2>3, <2>4 DEF Tally
<1>10. ASSUME Alone(p) PROVE Alone(p)'
  <2>1. InFlight(p) = {k}
    BY <1>2, <1>10 DEF Alone
  <2>2. \A o \in events' : o.who = p => o \in Pending' \/ (profile[p].first <= o.at /\ o.at <= profile[p].last)
    <3>1. \A o \in events : o.who = p => o \in Pending \/ (profile[p].first <= o.at /\ o.at <= profile[p].last)
      BY <1>10 DEF Alone
    <3> QED
      BY <1>1, <1>6, <3>1
  <2> QED
    BY <1>1, <1>2, <1>5, <1>10, <2>1, <2>2 DEF Alone
<1> QED
  BY <1>2, <1>9, <1>10 DEF p

\* The end of a call: its event is counted once.
LEMMA CountsKeeps ==
    ASSUME TypeOK, TypeOK', NEW k \in Calls, NEW p \in Visitors, p = Who(k), Tally(p),
           call[k].phase = "put", Over(k), events' = events, opened' = opened,
           profile'[p] # NoProfile,
           profile'[p].entries = profile[p].entries + One(Event(k).kind = "ENTRY"),
           profile'[p].exits = profile[p].exits + One(Event(k).kind = "EXIT"),
           profile'[p].visits = profile[p].visits + One(call[k].fresh)
    PROVE  /\ Tally(p)'
           /\ /\ Alone(p)
              /\ \A o \in events : o.who = p /\ (o = Event(k) \/ o \notin Pending) =>
                    profile'[p].first <= o.at /\ o.at <= profile'[p].last
              => Alone(p)'
<1>1. PICK e \in Feed : e = Event(k) /\ e = call[k].event
  BY CallTyped DEF Event
<1>2. e.who = p /\ k \in InFlight(p) /\ InFlight(p) \subseteq Calls
  BY <1>1 DEF Who, InFlight
<1>3. /\ \A l \in Calls \ {k} : call'[l] = call[l] /\ Event(l)' = Event(l)
      /\ call'[k].phase = "idle"
  BY DEF Over, NoCall, TypeOK, Event
<1>4. InFlight(p)' = InFlight(p) \ {k}
  BY <1>2, <1>3 DEF InFlight, Who
<1>5. e \in events /\ e \in Pending
  BY <1>1, <1>2 DEF Tally, Pending, Late
<1>6. \A l \in Calls \ {k} : call[l].phase \in Late \cup {"save"} => Event(l) # e
  <2> SUFFICES ASSUME NEW l \in Calls \ {k}, call[l].phase \in Late \cup {"save"}, Event(l) = e PROVE FALSE
    OBVIOUS
  <2>1. l \in InFlight(p)
    BY <1>2 DEF InFlight, Who, Event, Late
  <2> QED
    BY <1>1, <1>2, <2>1 DEF Tally
<1>7. Pending' = Pending \ {e}
  <2>1. call'[k].phase \notin Late /\ call[k].phase \in Late
    BY <1>3 DEF Late
  <2>2. Pending' = {Event(l) : l \in {m \in Calls \ {k} : call[m].phase \in Late}}
    BY <1>3, <2>1 DEF Pending
  <2>3. Pending = {Event(l) : l \in {m \in Calls \ {k} : call[m].phase \in Late}} \cup {e}
    BY <1>1, <2>1 DEF Pending
  <2>4. e \notin {Event(l) : l \in {m \in Calls \ {k} : call[m].phase \in Late}}
    BY <1>6
  <2> QED
    BY <2>2, <2>3, <2>4
<1>8. \A kind : Counted(p, kind)' = IF e.kind = kind THEN Counted(p, kind) \cup {e} ELSE Counted(p, kind)
  BY <1>2, <1>5, <1>7 DEF Counted
<1>9. \A kind : e \notin Counted(p, kind)
  BY <1>5 DEF Counted
<1>10. Fresh(p)' = IF call[k].fresh THEN Fresh(p) \ {e} ELSE Fresh(p)
  <2>1. /\ Fresh(p) = {o \in Feed : o.who = p /\ \E l \in Calls : Owed(l) /\ Event(l) = o}
        /\ Fresh(p)' = {o \in Feed : o.who = p /\ \E l \in Calls : Owed(l)' /\ Event(l)' = o}
    BY DEF Fresh, Owed
  <2>2. ~Owed(k)' /\ (Owed(k) <=> call[k].fresh)
    BY <1>3, CallTyped DEF Owed, Late
  <2> DEFINE others == {o \in Feed : o.who = p /\ \E l \in Calls \ {k} : Owed(l) /\ Event(l) = o}
  <2>3. \A l \in Calls \ {k} : /\ Owed(l)' <=> Owed(l)
                               /\ Owed(l) => Event(l) # e
    BY <1>3, <1>6 DEF Owed
  <2>4. Fresh(p)' = others
    BY <1>3, <2>1, <2>2, <2>3
  <2>5. e \notin others
    BY <2>3
  <2>6. Fresh(p) = IF call[k].fresh THEN others \cup {e} ELSE others
    <3>1. \A o \in Feed : (\E l \in Calls : Owed(l) /\ Event(l) = o) <=>
                              (call[k].fresh /\ o = e) \/ \E l \in Calls \ {k} : Owed(l) /\ Event(l) = o
      BY <1>1, <2>2
    <3> QED
      BY <1>2, <2>1, <3>1
  <2> HIDE DEF others
  <2> QED
    BY <2>4, <2>5, <2>6
<1>11. call[k].fresh => e \in Fresh(p)
  BY <1>1, <1>2 DEF Fresh, Late
<1>12. profile[p].visits \in Nat /\ profile[p].entries \in Nat /\ profile[p].exits \in Nat /\ opened[p] \in Nat
  BY CountersTyped
<1>13. /\ profile'[p].entries = Cardinality(Counted(p, "ENTRY")')
       /\ profile'[p].exits = Cardinality(Counted(p, "EXIT")')
  <2>1. \A kind : /\ IsFiniteSet(Counted(p, kind)) /\ Cardinality(Counted(p, kind)) \in Nat
                  /\ Cardinality(Counted(p, kind) \cup {e}) = Cardinality(Counted(p, kind)) + 1
    BY <1>9, FiniteParts, FS_AddElement
  <2>2. profile[p].entries = Cardinality(Counted(p, "ENTRY")) /\ profile[p].exits = Cardinality(Counted(p, "EXIT"))
    BY DEF Tally
  <2> QED
    BY <1>1, <1>8, <1>12, <2>1, <2>2 DEF One
<1>14. profile'[p].visits + Cardinality(Fresh(p)') = profile[p].visits + Cardinality(Fresh(p))
  <2>1. IsFiniteSet(Fresh(p)) /\ Cardinality(Fresh(p)) \in Nat
    BY FiniteParts
  <2>2. CASE call[k].fresh
    <3>1. Cardinality(Fresh(p) \ {e}) = Cardinality(Fresh(p)) - 1
      BY <1>11, <2>1, <2>2, FS_RemoveElement
    <3> QED
      BY <1>10, <1>12, <2>1, <2>2, <3>1 DEF One
  <2>3. CASE ~call[k].fresh
    BY <1>10, <1>12, <2>1, <2>3 DEF One
  <2> QED
    BY <2>2, <2>3
<1>15. Tally(p)'
  <2>1. \A l \in InFlight(p) \ {k} : Event(l)' = Event(l) /\ call'[l] = call[l] /\ l \in Calls
    BY <1>2, <1>3
  <2>2. \A l, m \in InFlight(p) : Event(l) = Event(m) => l = m
    BY DEF Tally
  <2>3. \A l \in InFlight(p) : Event(l) \in events <=> call[l].phase \in Late
    BY DEF Tally
  <2>4. profile[p].visits + Cardinality(Fresh(p)) >= opened[p]
    BY DEF Tally
  <2> QED
    BY <1>4, <1>13, <1>14, <2>1, <2>2, <2>3, <2>4 DEF Tally
<1>16. ASSUME Alone(p),
              \A o \in events : o.who = p /\ (o = e \/ o \notin Pending) =>
                  profile'[p].first <= o.at /\ o.at <= profile'[p].last
       PROVE  Alone(p)'
  <2>1. InFlight(p)' = {}
    BY <1>2, <1>4, <1>16 DEF Alone
  <2>2. profile'[p].visits + Cardinality(Fresh(p)') = opened'[p]
    BY <1>14, <1>16 DEF Alone
  <2>3. \A o \in events' : o.who = p => o \in Pending' \/ (profile'[p].first <= o.at /\ o.at <= profile'[p].last)
    BY <1>7, <1>16
  <2> QED
    BY <2>1, <2>2, <2>3 DEF Alone
<1> QED
  BY <1>1, <1>15, <1>16

\* The writes of the profile.
LEMMA ProfileWritten ==
    ASSUME TypeOK, TypeOK', Sound, NEW k \in Calls, InsertsProfile(k) \/ UpdatesProfile(k),
           NEW p \in Visitors, p = Who(k), Tally(p)
    PROVE  Tally(p)' /\ (Alone(p) => Alone(p)')
<1>1. /\ k \in InFlight(p) /\ call[k].phase = "put" /\ Event(k) \in Feed /\ events' = events /\ opened' = opened
      /\ profile \in [Visitors -> ProfileType] /\ Event(k).at \in Nat /\ Event(k).at > 0
      /\ call[k].seen \in ProfileType /\ Event(k).who = p
  BY CallTyped, EventTyped DEF InsertsProfile, UpdatesProfile, InFlight, history, TypeOK, Who, Event
<1>2. CASE InsertsProfile(k) /\ profile[p] = NoProfile
  <2>1. profile'[p] = NewProfile(Event(k), call[k].fresh) /\ Over(k)
    BY <1>1, <1>2 DEF InsertsProfile
  <2>2. /\ profile'[p] # NoProfile
        /\ profile'[p].entries = profile[p].entries + One(Event(k).kind = "ENTRY")
        /\ profile'[p].exits = profile[p].exits + One(Event(k).kind = "EXIT")
        /\ profile'[p].visits = profile[p].visits + One(call[k].fresh)
        /\ profile'[p].first = Event(k).at /\ profile'[p].last = Event(k).at
    BY <1>1, <1>2, <2>1 DEF NewProfile, NoProfile, NoTime, One
  <2>3. ASSUME Alone(p), NEW o \in events, o.who = p, o = Event(k) \/ o \notin Pending
        PROVE  o = Event(k)
    <3>1. profile[p].first = 0 /\ profile[p].last = 0 /\ o \in Feed
      BY <1>2 DEF NoProfile, NoTime, TypeOK
    <3>2. o.at \in Nat /\ o.at > 0
      BY <3>1, EventTyped
    <3> QED
      BY <2>3, <3>1, <3>2 DEF Alone
  <2> QED
    BY <1>1, <2>1, <2>2, <2>3, CountsKeeps
<1>3. CASE InsertsProfile(k) /\ profile[p] # NoProfile
  <2>1. Step(k, "refind") /\ profile' = profile /\ call[k].seen = NoProfile
    BY <1>1, <1>3 DEF InsertsProfile
  <2>2. call'[k].phase = "refind" /\ call'[k].fresh = call[k].fresh /\ GoesOn(k)
    BY <1>1, <2>1 DEF Step, GoesOn, TypeOK, CallType
  <2>3. (call[k].phase \in Late <=> call'[k].phase \in Late) /\ (Owed(k) <=> Owed(k)')
    BY <1>1, <2>2 DEF Late, Owed
  <2>4. ~Alone(p)
    BY <1>1, <1>3, <2>1 DEF Alone
  <2>5. Who(k)' = p
    BY <2>2 DEF GoesOn, Who
  <2> QED
    BY <1>1, <1>3, <2>1, <2>2, <2>3, <2>4, <2>5, NothingCounted
<1>4. CASE UpdatesProfile(k)
  <2>1. call[k].seen # NoProfile /\ profile[p] # NoProfile
    BY <1>1, <1>4 DEF UpdatesProfile, Tally
  <2>2. profile'[p] = Bumped(profile[p], call[k].seen, Event(k), call[k].fresh) /\ Over(k)
    BY <1>1, <1>4, <2>1 DEF UpdatesProfile
  <2>3. /\ call[k].seen.first \in Nat /\ call[k].seen.last \in Nat /\ call[k].seen.first > 0
    BY <1>1, <2>1 DEF Sound, ProfileType
  <2>4. /\ profile'[p].first = IF Event(k).at < call[k].seen.first THEN Event(k).at ELSE call[k].seen.first
        /\ profile'[p].last = IF Event(k).at > call[k].seen.last THEN Event(k).at ELSE call[k].seen.last
        /\ profile'[p].entries = profile[p].entries + One(Event(k).kind = "ENTRY")
        /\ profile'[p].exits = profile[p].exits + One(Event(k).kind = "EXIT")
        /\ profile'[p].visits = profile[p].visits + One(call[k].fresh)
    BY <2>2 DEF Bumped
  <2>5. profile'[p] # NoProfile
    BY <1>1, <2>3, <2>4 DEF NoProfile, NoTime
  <2>6. ASSUME Alone(p), NEW o \in events, o.who = p, o = Event(k) \/ o \notin Pending
        PROVE  profile'[p].first <= o.at /\ o.at <= profile'[p].last
    <3>1. call[k].seen = profile[p] /\ o.at \in Nat
      BY <1>1, <2>6, EventTyped DEF Alone, TypeOK
    <3>2. o = Event(k) \/ (profile[p].first <= o.at /\ o.at <= profile[p].last)
      BY <2>6 DEF Alone
    <3> QED
      BY <1>1, <2>3, <2>4, <3>1, <3>2
  <2> QED
    BY <1>1, <2>2, <2>4, <2>5, <2>6, CountsKeeps
<1> QED
  BY <1>2, <1>3, <1>4

\* The reads of a call, and the close of its visit.
LEMMA ReadsKeep ==
    ASSUME TypeOK, TypeOK', Sound, NEW k \in Calls, LooksForVisit(k) \/ Closes(k) \/ FindsProfile(k),
           Tally(Who(k))
    PROVE  Tally(Who(k))' /\ (Alone(Who(k)) => Alone(Who(k))')
<1>1. call \in [Calls -> CallType] /\ call[k] \in CallType /\ Who(k) \in Visitors
  BY CallTyped DEF TypeOK
<1>2. CASE LooksForVisit(k)
  <2>1. /\ events' = events /\ profile' = profile /\ opened' = opened /\ visits' = visits
        /\ call[k].phase = "look"
    BY <1>2 DEF LooksForVisit, collections, history
  <2>2. /\ call'[k].phase \in {"open", "close", "save"} /\ call'[k].fresh = call[k].fresh /\ GoesOn(k)
        /\ call'[k].phase = "open" => OpenVisits(Who(k)) = {}
    <3>1. CASE OpenVisits(Who(k)) = {}
      BY <1>1, <1>2, <2>1, <3>1 DEF LooksForVisit, Step, GoesOn, CallType
    <3>2. CASE OpenVisits(Who(k)) # {}
      <4> DEFINE v == CHOOSE v \in OpenVisits(Who(k)) : TRUE
      <4>1. call' = [call EXCEPT ![k].phase = IF Event(k).kind = "EXIT" THEN "close" ELSE "save",
                                 ![k].target = v.no, ![k].from = v.at]
        BY <1>2, <3>2 DEF LooksForVisit
      <4> HIDE DEF v
      <4> QED
        BY <1>1, <2>1, <4>1 DEF CallType, GoesOn
    <3> QED
      BY <3>1, <3>2
  <2>3. ~call[k].fresh
    BY <2>1 DEF Sound
  <2>4. (call[k].phase \in Late <=> call'[k].phase \in Late) /\ (Owed(k) <=> Owed(k)')
    BY <2>1, <2>2, <2>3 DEF Late, Owed
  <2>5. OpenVisits(Who(k))' = OpenVisits(Who(k))
    BY <2>1, <2>2 DEF OpenVisits, GoesOn, Who
  <2> QED
    BY <2>1, <2>2, <2>4, <2>5, NothingCounted
<1>3. CASE Closes(k)
  <2>1. /\ events' = events /\ profile' = profile /\ opened' = opened
        /\ call[k].phase = "close" /\ call'[k].phase = "save" /\ call'[k].fresh = call[k].fresh /\ GoesOn(k)
    BY <1>1, <1>3 DEF Closes, Step, GoesOn, CallType, history
  <2>2. ~call[k].fresh
    BY <2>1 DEF Sound
  <2>3. (call[k].phase \in Late <=> call'[k].phase \in Late) /\ (Owed(k) <=> Owed(k)')
    BY <2>1, <2>2 DEF Late, Owed
  <2> QED
    BY <2>1, <2>3, NothingCounted
<1>4. CASE FindsProfile(k)
  <2>1. /\ events' = events /\ profile' = profile /\ opened' = opened
        /\ call[k].phase \in {"find", "refind"}
    BY <1>4 DEF FindsProfile, collections, history
  <2>2. k \in InFlight(Who(k))
    BY <2>1 DEF InFlight
  <2>3. call' = [call EXCEPT ![k].phase = "put", ![k].seen = profile[Who(k)]]
    BY <1>4, <2>2 DEF FindsProfile, Tally
  <2>4. /\ call'[k].phase = "put" /\ call'[k].seen = profile[Who(k)] /\ call'[k].fresh = call[k].fresh
        /\ GoesOn(k)
    BY <1>1, <2>1, <2>3 DEF GoesOn, CallType
  <2>5. (call[k].phase \in Late <=> call'[k].phase \in Late) /\ (Owed(k) <=> Owed(k)')
    BY <2>1, <2>4 DEF Late, Owed
  <2> QED
    BY <2>1, <2>4, <2>5, NothingCounted
<1> QED
  BY <1>2, <1>3, <1>4

\* An event is delivered to a call that was idle.
LEMMA DeliveredKeeps ==
    ASSUME TypeOK, TypeOK', Sound, NEW k \in Calls, NEW e \in Feed, Delivered(k, e),
           NEW p \in Visitors, p \notin disturbed', Tally(p), p \in crowded \/ Alone(p)
    PROVE  Tally(p)' /\ (p \in crowded' \/ Alone(p)')
<1>1. /\ call[k].phase = "idle" /\ call'[k] = [NoCall EXCEPT !.phase = "look", !.event = e]
      /\ \A l \in Calls \ {k} : call'[l] = call[l]
      /\ events' = events /\ visits' = visits /\ profile' = profile /\ opened' = opened
      /\ e.who \in Visitors
  BY EventTyped DEF Delivered, TypeOK, collections
<1>2. call'[k].phase = "look" /\ call'[k].event = e /\ ~call'[k].fresh
  BY <1>1 DEF NoCall
<1>3. CASE p # e.who
  <2>1. Same(p)
    BY <1>1, <1>2, <1>3 DEF Same, OpenVisits
  <2>2. crowded' = crowded \/ crowded' = crowded \cup {e.who}
    BY DEF Delivered
  <2> QED
    BY <1>3, <2>1, <2>2, Untouched
<1>4. CASE p = e.who
  <2>1. e \notin events /\ \A l \in InFlight(p) : Event(l) # e
    BY <1>4 DEF Delivered
  <2>2. /\ \A l \in Calls \ {k} : Event(l)' = Event(l)
        /\ Event(k)' = e /\ k \notin InFlight(p) /\ InFlight(p) \subseteq Calls
    BY <1>1, <1>2 DEF Event, InFlight
  <2>3. InFlight(p)' = InFlight(p) \cup {k}
    BY <1>1, <1>2, <1>4 DEF InFlight, Who
  <2>4. \A l \in Calls : call'[l].phase \in Late <=> call[l].phase \in Late
    BY <1>1, <1>2 DEF Late
  <2>5. Pending' = Pending
    <3>1. call[k].phase \notin Late
      BY <1>1 DEF Late
    <3> QED
      BY <2>2, <2>4, <3>1 DEF Pending
  <2>6. \A kind : Counted(p, kind)' = Counted(p, kind)
    BY <1>1, <2>5 DEF Counted
  <2>7. Fresh(p)' = Fresh(p)
    <3>1. ~Owed(k) /\ ~Owed(k)' /\ \A l \in Calls \ {k} : Owed(l)' <=> Owed(l)
      BY <1>1, <1>2 DEF Owed, Late
    <3>2. /\ Fresh(p) = {o \in Feed : o.who = p /\ \E l \in Calls : Owed(l) /\ Event(l) = o}
          /\ Fresh(p)' = {o \in Feed : o.who = p /\ \E l \in Calls : Owed(l)' /\ Event(l)' = o}
      BY DEF Fresh, Owed
    <3> QED
      BY <2>2, <3>1, <3>2
  <2>8. Tally(p)'
    <3>1. \A l, m \in InFlight(p)' : Event(l)' = Event(m)' => l = m
      BY <2>1, <2>2, <2>3 DEF Tally
    <3>2. \A l \in InFlight(p)' : Event(l)' \in events' <=> call'[l].phase \in Late
      <4>1. \A l \in InFlight(p) : Event(l) \in events <=> call[l].phase \in Late
        BY DEF Tally
      <4>2. call'[k].phase \notin Late
        BY <1>2 DEF Late
      <4>3. \A l \in InFlight(p) : call'[l] = call[l] /\ Event(l)' = Event(l)
        BY <1>1, <2>2
      <4>4. Event(k)' \notin events'
        BY <1>1, <2>1, <2>2
      <4> QED
        BY <1>1, <2>3, <4>1, <4>2, <4>3, <4>4
    <3>3. \A l \in InFlight(p)' :
              call'[l].phase = "refind" \/ (call'[l].phase = "put" /\ call'[l].seen # NoProfile)
                  => profile'[p] # NoProfile
      <4>1. \A l \in InFlight(p) : l \in Calls \ {k} /\ call'[l] = call[l]
        BY <1>1, <2>2
      <4>2. \A l \in InFlight(p) :
                call[l].phase = "refind" \/ (call[l].phase = "put" /\ call[l].seen # NoProfile)
                    => profile[p] # NoProfile
        BY DEF Tally
      <4> QED
        BY <1>1, <1>2, <2>3, <4>1, <4>2
    <3>4. /\ profile[p].entries = Cardinality(Counted(p, "ENTRY")) /\ profile[p].exits = Cardinality(Counted(p, "EXIT"))
          /\ profile[p].visits + Cardinality(Fresh(p)) >= opened[p]
      BY DEF Tally
    <3> QED
      BY <1>1, <2>6, <2>7, <3>1, <3>2, <3>3, <3>4 DEF Tally
  <2>9. ASSUME p \notin crowded' PROVE Alone(p)'
    <3>1. InFlight(p) = {} /\ p \notin crowded
      BY <1>4, <2>9 DEF Delivered
    <3>2. Alone(p) /\ InFlight(p)' = {k}
      BY <2>3, <3>1
    <3>3. /\ profile[p].visits + Cardinality(Fresh(p)) = opened[p]
          /\ \A o \in events : o.who = p => o \in Pending \/ (profile[p].first <= o.at /\ o.at <= profile[p].last)
      BY <3>2 DEF Alone
    <3> QED
      BY <1>1, <1>2, <2>5, <2>7, <3>2, <3>3 DEF Alone
  <2> QED
    BY <2>8, <2>9
<1> QED
  BY <1>3, <1>4

LEMMA ProfileNext == ProfileInv /\ [HistoryNext]_vars => ProfileInv'
<1> SUFFICES ASSUME ProfileInv, [HistoryNext]_vars PROVE ProfileInv'
  OBVIOUS
<1>1. TypeOK /\ TypeOK' /\ Sound /\ Sound'
  BY TypeNext, SoundNext DEF ProfileInv
<1> SUFFICES ASSUME NEW p \in Visitors, p \notin disturbed' PROVE Tally(p)' /\ (p \in crowded' \/ Alone(p)')
  BY <1>1 DEF ProfileInv
<1>2. ASSUME p \notin disturbed PROVE Tally(p) /\ (p \in crowded \/ Alone(p))
  BY <1>2 DEF ProfileInv
<1>3. ASSUME NEW k \in Calls, NEW e \in Feed, Delivered(k, e) PROVE Tally(p)' /\ (p \in crowded' \/ Alone(p)')
  <2>1. p \notin disturbed
    BY <1>3 DEF Delivered
  <2> QED
    BY <1>1, <1>2, <1>3, <2>1, DeliveredKeeps
<1>4. ASSUME NEW k \in Calls, Acts(k) PROVE Tally(p)' /\ (p \in crowded' \/ Alone(p)')
  <2>1. p \notin disturbed /\ crowded' = crowded
    BY <1>4 DEF Acts, LooksForVisit, Opens, Closes, Saves, FindsProfile, InsertsProfile,
       UpdatesProfile, WritePassedOver, ReadPassedOver, CallLost, Fault, history
  <2>2. CASE p # Who(k)
    <3>1. Same(p)
      BY <1>1, <1>4, <2>2, OthersSame
    <3> QED
      BY <1>1, <1>2, <2>1, <3>1, Untouched
  <2>3. CASE p = Who(k)
    <3>1. ~WritePassedOver(k) /\ ~ReadPassedOver(k) /\ ~CallLost(k)
      BY <2>3 DEF WritePassedOver, ReadPassedOver, CallLost, Fault
    <3>2. CASE InsertsProfile(k) \/ UpdatesProfile(k)
      BY <1>1, <1>2, <2>1, <2>3, <3>2, ProfileWritten
    <3>3. CASE LooksForVisit(k) \/ Opens(k) \/ Closes(k) \/ Saves(k) \/ FindsProfile(k)
      <4>1. Tally(Who(k))' /\ (Alone(Who(k)) => Alone(Who(k))')
        BY <1>1, <1>2, <2>1, <2>3, <3>3, ReadsKeep, OpensKeeps, SavesKeeps
      <4>2. Who(k)' = p
        <5>1. call \in [Calls -> CallType] /\ call[k] \in CallType
          BY <1>1 DEF TypeOK
        <5>2. CASE LooksForVisit(k)
          <6> DEFINE v == CHOOSE v \in OpenVisits(Who(k)) : TRUE
          <6>1. \/ Step(k, "open") \/ Step(k, "save")
                \/ call' = [call EXCEPT ![k].phase = IF Event(k).kind = "EXIT" THEN "close" ELSE "save",
                                        ![k].target = v.no, ![k].from = v.at]
            BY <5>2 DEF LooksForVisit
          <6> HIDE DEF v
          <6> QED
            BY <2>3, <5>1, <6>1 DEF Who, Step, CallType
        <5>3. CASE FindsProfile(k)
          <6>1. k \in InFlight(p)
            BY <2>3, <5>3 DEF FindsProfile, InFlight
          <6>2. call' = [call EXCEPT ![k].phase = "put", ![k].seen = profile[Who(k)]]
            BY <1>2, <2>1, <2>3, <5>3, <6>1 DEF FindsProfile, Tally
          <6> QED
            BY <2>3, <5>1, <6>2 DEF Who, CallType
        <5>4. CASE Opens(k) \/ Closes(k) \/ Saves(k)
          BY <2>3, <5>1, <5>4 DEF Opens, Closes, Saves, Step, Who, CallType
        <5> QED
          BY <3>3, <5>2, <5>3, <5>4
      <4> QED
        BY <1>2, <2>1, <2>3, <4>1, <4>2
    <3> QED
      BY <1>4, <3>1, <3>2, <3>3 DEF Acts
  <2> QED
    BY <2>2, <2>3
<1>5. CASE (\E cutoff \in Cutoffs : PurgesEvents(cutoff)) \/ PurgesVisits \/ PurgesProfiles
  <2>1. disturbed' = Visitors
    BY <1>1, <1>5 DEF PurgesEvents, PurgesVisits, PurgesProfiles, history, Sound
  <2> QED
    BY <2>1
<1>6. CASE UNCHANGED vars
  <2>1. Same(p) /\ p \notin disturbed /\ crowded' = crowded
    BY <1>6 DEF vars, Same, OpenVisits
  <2> QED
    BY <1>1, <1>2, <2>1, Untouched
<1> QED
  BY <1>3, <1>4, <1>5, <1>6 DEF HistoryNext, Acts

LEMMA ProfileInit == HistoryInit => ProfileInv
<1> SUFFICES ASSUME HistoryInit PROVE ProfileInv
  OBVIOUS
<1>1. TypeOK
  BY TypeInit
<1>2. Sound
  BY DEF HistoryInit, Sound, NoCall, NotPurging
<1>3. \A p \in Visitors : InFlight(p) = {} /\ Fresh(p) = {} /\ \A kind : Counted(p, kind) = {}
  BY DEF HistoryInit, InFlight, Fresh, Counted, NoCall, Late
<1>4. ASSUME NEW p \in Visitors PROVE Tally(p) /\ Alone(p)
  <2>1. /\ profile[p].entries = 0 /\ profile[p].exits = 0 /\ profile[p].visits = 0 /\ opened[p] = 0
        /\ events = {}
    BY DEF HistoryInit, NoProfile
  <2>2. /\ Cardinality(Fresh(p)) = 0 /\ Cardinality(Counted(p, "ENTRY")) = 0
        /\ Cardinality(Counted(p, "EXIT")) = 0
    BY <1>3, FS_EmptySet
  <2> QED
    BY <1>3, <2>1, <2>2 DEF Tally, Alone
<1> QED
  BY <1>1, <1>2, <1>4 DEF ProfileInv

\* Between calls the profile counts what is saved, each event once, whatever overlapped;
\* total_visits and the bounds are exact if nothing did.
THEOREM Accounts == Spec => []ProfileAgrees
<1>1. ProfileInv => ProfileAgrees
  <2> SUFFICES ASSUME ProfileInv, NEW p \in Visitors, p \notin disturbed, InFlight(p) = {}
               PROVE  /\ profile[p].entries = SavedOf(p, "ENTRY")
                      /\ profile[p].exits = SavedOf(p, "EXIT")
                      /\ profile[p].visits >= opened[p]
                      /\ p \in crowded \/
                           /\ profile[p].visits = opened[p]
                           /\ \A e \in events : e.who = p => profile[p].first <= e.at /\ e.at <= profile[p].last
    BY DEF ProfileAgrees
  <2>1. Tally(p) /\ (p \in crowded \/ Alone(p)) /\ TypeOK
    BY DEF ProfileInv
  <2>2. \A e \in events : e.who = p => e \notin Pending
    BY DEF Pending, InFlight, Event, Who, Late
  <2>3. Fresh(p) = {}
    BY DEF Fresh, InFlight, Event, Who, Late
  <2>4. \A kind : Cardinality(Counted(p, kind)) = SavedOf(p, kind)
    <3>1. \A kind : Counted(p, kind) = {e \in events : e.who = p /\ e.kind = kind}
      BY <2>2 DEF Counted
    <3> QED
      BY <3>1 DEF SavedOf
  <2>5. Cardinality(Fresh(p)) = 0 /\ profile[p].visits \in Nat /\ opened[p] \in Nat
    BY <2>1, <2>3, FS_EmptySet, CountersTyped
  <2>6. /\ profile[p].entries = SavedOf(p, "ENTRY") /\ profile[p].exits = SavedOf(p, "EXIT")
        /\ profile[p].visits >= opened[p]
    BY <2>1, <2>4, <2>5 DEF Tally
  <2>7. Alone(p) => /\ profile[p].visits = opened[p]
                    /\ \A e \in events : e.who = p => profile[p].first <= e.at /\ e.at <= profile[p].last
    BY <2>2, <2>5 DEF Alone
  <2> QED
    BY <2>1, <2>6, <2>7
<1> QED
  BY <1>1, ProfileInit, ProfileNext, ReportsRead, PTL DEF Spec, Init

------------------------------------------------------------------------------
(* The duration report. *)

ReportType == [half : BOOLEAN, counted : Nat, there : Nat, spoilt : BOOLEAN]

Completed == Status("COMPLETED", visits)

\* Between the two calls, what was open at the first one and what is completed now
\* is no less than all that was there, unless retention has run.
ReportInv ==
    /\ report \in ReportType
    /\ report.half /\ ~report.spoilt => report.counted + Count(Completed) >= report.there

\* What the two calls count, of a finite set of visits.
LEMMA VisitsCounted ==
    ASSUME VisitInv
    PROVE  /\ Count(Status("OPEN", visits)) \in Nat /\ Count(Completed) \in Nat
           /\ Count(Status("OPEN", visits)) + Count(Completed) = Count(visits)
  <1> DEFINE open == Status("OPEN", visits)
  <1>1. /\ open \subseteq visits /\ Completed \subseteq visits
        /\ open \cup Completed = visits /\ open \cap Completed = {}
    BY DEF VisitInv, TypeOK, VisitType, Status, Completed
  <1>2. IsFiniteSet(visits) /\ IsFiniteSet(open) /\ IsFiniteSet(Completed)
    BY <1>1, FS_Subset DEF VisitInv
  <1> HIDE DEF open
  <1>3. Cardinality(open) \in Nat /\ Cardinality(Completed) \in Nat
    BY <1>2, FS_CardinalityType
  <1>4. Cardinality(visits) = Cardinality(open) + Cardinality(Completed) - Cardinality({})
    BY <1>1, <1>2, FS_Union
  <1> QED BY <1>3, <1>4, FS_EmptySet DEF Count, open

\* Nothing takes a completed visit away but retention.
LEMMA CompletedStays ==
    ASSUME TypeOK, [HistoryNext]_vars, purge' = purge
    PROVE  Completed \subseteq Completed'
  <1>1. SUFFICES ASSUME NEW v \in visits, v.status = "COMPLETED" PROVE v \in visits'
    BY DEF Completed, Status
  <1>2. ASSUME NEW k \in Calls, Opens(k) PROVE v \in visits'
    BY <1>2 DEF Opens
  <1>3. ASSUME NEW k \in Calls, Closes(k) PROVE v \in visits'
    BY <1>1, <1>3 DEF Closes, Closing
  <1>4. CASE PurgesVisits
    <2>1. purge \in [cutoff : Nat, left : {{}, {"visits", "visitors"}, {"visitors"}}]
      BY DEF TypeOK
    <2>2. purge'.left = purge.left \ {"visits"} /\ "visits" \in purge.left
      BY <1>4, <2>1 DEF PurgesVisits
    <2> QED BY <2>2
  <1>5. ASSUME NEW k \in Calls, NEW e \in Feed, Delivered(k, e) PROVE visits' = visits
    BY <1>5 DEF Delivered, collections
  <1>6. ASSUME NEW k \in Calls,
               \/ LooksForVisit(k) \/ Saves(k) \/ FindsProfile(k) \/ InsertsProfile(k) \/ UpdatesProfile(k)
               \/ WritePassedOver(k) \/ ReadPassedOver(k) \/ CallLost(k)
        PROVE  visits' = visits
    BY <1>6 DEF LooksForVisit, Saves, FindsProfile, InsertsProfile, UpdatesProfile,
       WritePassedOver, ReadPassedOver, CallLost, collections
  <1>7. ASSUME NEW cutoff \in Cutoffs, PurgesEvents(cutoff) PROVE visits' = visits
    BY <1>7 DEF PurgesEvents
  <1>8. PurgesProfiles \/ UNCHANGED vars => visits' = visits
    BY DEF PurgesProfiles, vars
  <1> QED BY <1>2, <1>3, <1>4, <1>5, <1>6, <1>7, <1>8 DEF HistoryNext

\* The open visits are counted in the first call, the completed ones in the second.
LEMMA CountedFirstAndNext == FirstCounted = "OPEN" /\ CountedNext = "COMPLETED"
  BY DEF FirstCounted, CountedNext

\* A step keeps what is between the two calls.
LEMMA ReportNext == VisitInv /\ ReportInv /\ [Next]_allVars => VisitInv' /\ ReportInv'
  <1> SUFFICES ASSUME VisitInv, ReportInv, [Next]_allVars PROVE VisitInv' /\ ReportInv'
    OBVIOUS
  <1>1. VisitInv'
    BY VisitNext, ReportsRead
  <1>2. /\ Count(Completed) \in Nat /\ Count(Completed)' \in Nat
        /\ IsFiniteSet(visits') /\ report \in ReportType
    <2>1. IsFiniteSet(visits') /\ Completed' \subseteq visits'
      BY <1>1 DEF VisitInv, Completed, Status
    <2>2. Count(Completed)' \in Nat
      BY <2>1, FS_Subset, FS_CardinalityType DEF Count
    <2> QED BY <2>1, <2>2, VisitsCounted DEF ReportInv
  <1>3. CASE HistoryNext /\ report' = [report EXCEPT !.spoilt = report.half /\ (@ \/ purge' # purge)]
    <2>1. report' \in ReportType
      BY <1>2, <1>3 DEF ReportType
    <2>2. ASSUME report'.half, ~report'.spoilt
          PROVE  report'.counted + Count(Completed)' >= report'.there
      <3>1. /\ report.half /\ ~report.spoilt /\ purge' = purge
            /\ report'.counted = report.counted /\ report'.there = report.there
        BY <1>2, <1>3, <2>2 DEF ReportType
      <3>2. Completed \subseteq Completed'
        BY <1>3, <3>1, CompletedStays DEF VisitInv
      <3>3. Completed' \subseteq visits'
        BY DEF Completed, Status
      <3>4. Count(Completed) <= Count(Completed)'
        BY <1>2, <3>2, <3>3, FS_Subset DEF Count
      <3>5. report.counted + Count(Completed) >= report.there
        BY <3>1 DEF ReportInv
      <3>6. report.counted \in Nat /\ report.there \in Nat
        BY <1>2 DEF ReportType
      <3> QED BY <1>2, <3>1, <3>4, <3>5, <3>6
    <2> QED BY <1>1, <2>1, <2>2 DEF ReportInv
  <1>4. CASE AsksDurations
    <2>1. report' = [half |-> TRUE, counted |-> Count(Status("OPEN", visits)),
                     there |-> Count(visits), spoilt |-> FALSE]
      BY <1>4, CountedFirstAndNext DEF AsksDurations
    <2>2. visits' = visits
      BY <1>4 DEF AsksDurations, vars
    <2>3. Count(Status("OPEN", visits)) + Count(Completed) = Count(visits)
      BY VisitsCounted
    <2>4. Count(Status("OPEN", visits)) \in Nat /\ Count(visits) \in Nat
      BY <1>2, <2>3, VisitsCounted
    <2>5. Count(Completed)' = Count(Completed)
      BY <2>2 DEF Completed
    <2> QED BY <1>1, <1>2, <2>1, <2>3, <2>4, <2>5 DEF ReportInv, ReportType
  <1>5. CASE AnswersDurations
    BY <1>1, <1>5 DEF AnswersDurations, NoReport, ReportInv, ReportType
  <1>6. CASE UNCHANGED allVars
    <2>1. visits' = visits /\ report' = report
      BY <1>6 DEF allVars, vars
    <2> QED BY <1>1, <2>1 DEF ReportInv, Completed
  <1> QED BY <1>3, <1>4, <1>5, <1>6 DEF Next

\* The duration report misses no visit that was there when it was asked for: a visit
\* that closes between count_documents and aggregate is counted twice, never left out.
THEOREM ReportIsComplete == Spec => NoVisitMissed
  <1>1. Init => VisitInv /\ ReportInv
    <2> SUFFICES ASSUME Init PROVE VisitInv /\ ReportInv
      OBVIOUS
    <2>1. visits = {}
      BY DEF Init, HistoryInit
    <2>2. VisitInv
      BY <2>1, TypeInit, FS_EmptySet DEF Init, VisitInv, Numbered, OneOpen
    <2> QED BY <2>2 DEF Init, NoReport, ReportInv, ReportType
  <1>2. ReportInv /\ [Next]_allVars =>
            [AnswersDurations => report.spoilt \/ VisitsAnswered >= report.there]_allVars
    BY CountedFirstAndNext DEF ReportInv, AnswersDurations, VisitsAnswered, Completed
  <1> QED BY <1>1, <1>2, ReportNext, PTL DEF Spec, NoVisitMissed

------------------------------------------------------------------------------
(* Sums. *)

\* Induction over the numbers: what has no least counterexample has none.
LEMMA NumbersInduct ==
    ASSUME NEW F \in SUBSET Nat, 0 \in F, \A n \in F : n + 1 \in F
    PROVE  F = Nat
  <1>1. PICK R : IsWellFoundedOn(R, Nat) /\ R = OpToRel(<, Nat)
    BY NatLessThanWellFounded
  <1>2. SUFFICES ASSUME Nat \ F # {} PROVE FALSE
    OBVIOUS
  <1>3. PICK n \in Nat \ F : \A m \in Nat \ F : ~(<<m, n>> \in R)
    BY <1>1, <1>2, WFMin
  <1>4. n # 0 /\ n - 1 \in Nat /\ <<n - 1, n>> \in R
    BY <1>1, <1>3 DEF OpToRel
  <1>5. n - 1 \in F
    BY <1>3, <1>4
  <1>6. (n - 1) + 1 = n
    BY <1>3
  <1> QED BY <1>3, <1>5, <1>6

\* Induction over the subsets of a finite set.
LEMMA SubsetsInduct ==
    ASSUME NEW S, IsFiniteSet(S), NEW F \in SUBSET SUBSET S, {} \in F,
           \A T \in SUBSET S : T # {} /\ (\A x \in T : T \ {x} \in F) => T \in F
    PROVE  F = SUBSET S
  <1> DEFINE N == {n \in Nat : \A T \in SUBSET S : Cardinality(T) = n => T \in F}
  <1>1. \A T \in SUBSET S : IsFiniteSet(T) /\ Cardinality(T) \in Nat
    BY FS_Subset, FS_CardinalityType
  <1>2. 0 \in N
    BY <1>1, FS_EmptySet
  <1>3. ASSUME NEW n \in N PROVE n + 1 \in N
    <2>0. n \in Nat /\ n + 1 # 0
      BY <1>3
    <2>1. ASSUME NEW T \in SUBSET S, Cardinality(T) = n + 1 PROVE T \in F
      <3>1. T # {}
        BY <2>0, <2>1, FS_EmptySet
      <3>2. ASSUME NEW x \in T PROVE T \ {x} \in F
        <4>1. IsFiniteSet(T) /\ T \ {x} \in SUBSET S
          BY <1>1
        <4>2. Cardinality(T \ {x}) = Cardinality(T) - 1
          BY <4>1, FS_RemoveElement
        <4>3. Cardinality(T \ {x}) = n
          BY <2>0, <2>1, <4>2
        <4> QED BY <1>3, <4>1, <4>3
      <3> QED BY <3>1, <3>2
    <2> QED BY <2>0, <2>1
  <1>4. N \in SUBSET Nat
    OBVIOUS
  <1> HIDE DEF N
  <1>5. N = Nat
    BY <1>2, <1>3, <1>4, NumbersInduct
  <1> QED BY <1>1, <1>5 DEF N

Pick(s) == CHOOSE x \in s : TRUE

\* The recursion by which FoldFunction adds, one element after the other, on the sets D.
Adding(f, D, it) == [s \in D |-> IF s = {} THEN 0 ELSE f[Pick(s)] + it[s \ {Pick(s)}]]

Sums(f) == CHOOSE it : it = Adding(f, SUBSET DOMAIN f, it)

\* The subsets of S with n elements at most.
UpTo(S, n) == {s \in SUBSET S : Cardinality(s) <= n}

\* There is such a function: sets of n elements are summed up by means of smaller ones.
LEMMA SumsExist ==
    ASSUME NEW S, IsFiniteSet(S), NEW f \in [S -> Nat]
    PROVE  Sums(f) = Adding(f, SUBSET S, Sums(f))
  <1> DEFINE N == {n \in Nat : \E it : it = Adding(f, UpTo(S, n), it)}
  <1>1. \A s \in SUBSET S : /\ IsFiniteSet(s) /\ Cardinality(s) \in Nat
                            /\ Cardinality(s) <= Cardinality(S)
                            /\ Cardinality(s) = 0 => s = {}
    BY FS_Subset, FS_CardinalityType, FS_EmptySet
  <1>2. \A s \in SUBSET S : s # {} => /\ Pick(s) \in s /\ s \ {Pick(s)} \in SUBSET S
                                      /\ Cardinality(s \ {Pick(s)}) = Cardinality(s) - 1
    BY <1>1, FS_RemoveElement DEF Pick
  <1>3. 0 \in N
    <2> DEFINE it == [s \in UpTo(S, 0) |-> 0]
    <2>1. \A s \in UpTo(S, 0) : s = {}
      BY <1>1 DEF UpTo
    <2>2. it = Adding(f, UpTo(S, 0), it)
      BY <2>1 DEF Adding
    <2> QED BY <2>2
  <1>4. ASSUME NEW n \in N PROVE n + 1 \in N
    <2>1. PICK it : it = Adding(f, UpTo(S, n), it)
      OBVIOUS
    <2>2. n \in Nat
      OBVIOUS
    <2> DEFINE new == Adding(f, UpTo(S, n + 1), it)
    <2>3. \A s \in UpTo(S, n) : s \in UpTo(S, n + 1)
      BY <1>1, <2>2 DEF UpTo
    <2>4. \A s \in UpTo(S, n) : new[s] = it[s]
      BY <2>1, <2>3 DEF Adding
    <2>5. \A s \in UpTo(S, n + 1) : s # {} => s \ {Pick(s)} \in UpTo(S, n)
      BY <1>1, <1>2, <2>2 DEF UpTo
    <2>6. new = Adding(f, UpTo(S, n + 1), new)
      BY <2>4, <2>5 DEF Adding
    <2> QED BY <2>2, <2>6
  <1>5. N \in SUBSET Nat
    OBVIOUS
  <1>6. N = Nat
    <2> HIDE DEF N
    <2> QED BY <1>3, <1>4, <1>5, NumbersInduct
  <1>7. PICK it : it = Adding(f, UpTo(S, Cardinality(S)), it)
    BY <1>1, <1>6, FS_CardinalityType
  <1>8. UpTo(S, Cardinality(S)) = SUBSET S
    BY <1>1 DEF UpTo
  <1>9. it = Adding(f, SUBSET DOMAIN f, it)
    BY <1>7, <1>8
  <1> QED BY <1>9 DEF Sums

\* Each set is summed up by one of its elements and the rest.
LEMMA SumsFacts ==
    ASSUME NEW S, IsFiniteSet(S), NEW f \in [S -> Nat]
    PROVE  /\ Sums(f)[{}] = 0
           /\ \A s \in SUBSET S : s # {} => Pick(s) \in s /\ Sums(f)[s] = f[Pick(s)] + Sums(f)[s \ {Pick(s)}]
           /\ \A s \in SUBSET S : Sums(f)[s] \in Nat
  <1>1. Sums(f) = Adding(f, SUBSET S, Sums(f))
    BY SumsExist
  <1>2. /\ Sums(f)[{}] = 0
        /\ \A s \in SUBSET S : s # {} => Pick(s) \in s /\ Sums(f)[s] = f[Pick(s)] + Sums(f)[s \ {Pick(s)}]
    BY <1>1 DEF Adding, Pick
  <1> DEFINE F == {s \in SUBSET S : Sums(f)[s] \in Nat}
  <1>3. {} \in F
    BY <1>2
  <1>4. ASSUME NEW T \in SUBSET S, T # {}, \A x \in T : T \ {x} \in F PROVE T \in F
    <2>1. Pick(T) \in T /\ f[Pick(T)] \in Nat /\ Sums(f)[T] = f[Pick(T)] + Sums(f)[T \ {Pick(T)}]
      BY <1>2, <1>4
    <2>2. Sums(f)[T \ {Pick(T)}] \in Nat
      BY <1>4, <2>1
    <2> QED BY <2>1, <2>2
  <1>5. F \in SUBSET SUBSET S
    OBVIOUS
  <1>6. F = SUBSET S
    <2> HIDE DEF F
    <2> QED BY <1>3, <1>4, <1>5, SubsetsInduct
  <1> QED BY <1>2, <1>6

\* A sum is that of any one element and the rest.
Splits(f, S) ==
    /\ \A T \in SUBSET S : Sums(f)[T] \in Nat
    /\ Sums(f)[{}] = 0
    /\ \A T \in SUBSET S : \A x \in T : Sums(f)[T] = f[x] + Sums(f)[T \ {x}]

LEMMA SumSplit ==
    ASSUME NEW S, IsFiniteSet(S), NEW f \in [S -> Nat]
    PROVE  Splits(f, S)
  <1>1. \A s \in SUBSET S :
            /\ s # {} => Pick(s) \in s /\ Sums(f)[s] = f[Pick(s)] + Sums(f)[s \ {Pick(s)}]
            /\ Sums(f)[s] \in Nat
    BY SumsFacts
  <1> DEFINE F == {T \in SUBSET S : \A x \in T : Sums(f)[T] = f[x] + Sums(f)[T \ {x}]}
  <1>2. {} \in F /\ F \in SUBSET SUBSET S
    OBVIOUS
  <1>3. ASSUME NEW T \in SUBSET S, T # {}, \A x \in T : T \ {x} \in F PROVE T \in F
    <2>1. PICK p \in T : p = Pick(T) /\ Sums(f)[T] = f[p] + Sums(f)[T \ {p}]
      BY <1>1, <1>3
    <2>2. ASSUME NEW x \in T, x # p PROVE Sums(f)[T] = f[x] + Sums(f)[T \ {x}]
      <3>1. PICK R : R = (T \ {p}) \ {x} /\ R = (T \ {x}) \ {p}
        OBVIOUS
      <3>2. T \ {p} \in F /\ T \ {x} \in F /\ x \in T \ {p} /\ p \in T \ {x}
        BY <1>3, <2>2
      <3>3. Sums(f)[T \ {p}] = f[x] + Sums(f)[R] /\ Sums(f)[T \ {x}] = f[p] + Sums(f)[R]
        BY <3>1, <3>2
      <3>4. f[x] \in Nat /\ f[p] \in Nat /\ Sums(f)[R] \in Nat
        BY <1>1, <3>1
      <3> QED BY <2>1, <3>3, <3>4
    <2> QED BY <2>1, <2>2
  <1>4. F = SUBSET S
    <2> HIDE DEF F
    <2> QED BY <1>2, <1>3, SubsetsInduct
  <1> QED BY <1>1, <1>4, SumsFacts DEF Splits

\* The sum over two sets that have nothing in common.
LEMMA SumDisjoint ==
    ASSUME NEW S, IsFiniteSet(S), NEW f \in [S -> Nat], NEW A \in SUBSET S, NEW B \in SUBSET S, A \cap B = {}
    PROVE  Sums(f)[A \cup B] = Sums(f)[A] + Sums(f)[B]
  <1>1. /\ \A T \in SUBSET S : Sums(f)[T] \in Nat
        /\ Sums(f)[{}] = 0
    BY SumSplit DEF Splits
  <1>2. \A T \in SUBSET S : \A x \in T : Sums(f)[T] = f[x] + Sums(f)[T \ {x}]
    <2>1. Splits(f, S)
      BY SumSplit
    <2> QED BY <2>1 DEF Splits
  <1> DEFINE F == {T \in SUBSET B : Sums(f)[A \cup T] = Sums(f)[A] + Sums(f)[T]}
  <1>3. {} \in F /\ F \in SUBSET SUBSET B
    <2>1. A \cup {} = A
      OBVIOUS
    <2> QED BY <1>1, <2>1
  <1>4. ASSUME NEW T \in SUBSET B, T # {}, \A x \in T : T \ {x} \in F PROVE T \in F
    <2>1. PICK x \in T : T \ {x} \in F
      BY <1>4
    <2>2. (A \cup T) \ {x} = A \cup (T \ {x})
      BY <2>1
    <2>3. /\ Sums(f)[A \cup T] = f[x] + Sums(f)[(A \cup T) \ {x}]
          /\ Sums(f)[T] = f[x] + Sums(f)[T \ {x}]
      BY <1>2, <2>1
    <2>4. Sums(f)[A \cup (T \ {x})] = Sums(f)[A] + Sums(f)[T \ {x}]
      BY <2>1
    <2>5. f[x] \in Nat /\ Sums(f)[A] \in Nat /\ Sums(f)[T \ {x}] \in Nat
      BY <1>1, <2>1
    <2>6. Sums(f)[A \cup T] = f[x] + (Sums(f)[A] + Sums(f)[T \ {x}])
      BY <2>2, <2>3, <2>4
    <2>7. Sums(f)[A \cup T] = Sums(f)[A] + Sums(f)[T]
      <3> HIDE DEF F
      <3> QED BY <2>3, <2>5, <2>6
    <2> QED BY <2>7
  <1>5. IsFiniteSet(B)
    BY FS_Subset
  <1>6. F = SUBSET B
    <2> HIDE DEF F
    <2> QED BY <1>3, <1>4, <1>5, SubsetsInduct
  <1> QED BY <1>6

\* What is added up decides, not where else it is defined.
LEMMA SumAgrees ==
    ASSUME NEW S, IsFiniteSet(S), NEW f \in [S -> Nat], NEW T \in SUBSET S, NEW g \in [T -> Nat],
           \A x \in T : g[x] = f[x]
    PROVE  Sums(g)[T] = Sums(f)[T]
  <1>1. IsFiniteSet(T)
    BY FS_Subset
  <1>2. /\ Sums(f)[{}] = 0 /\ Sums(g)[{}] = 0
        /\ \A s \in SUBSET T : s # {} => /\ Pick(s) \in s
                                         /\ Sums(f)[s] = f[Pick(s)] + Sums(f)[s \ {Pick(s)}]
                                         /\ Sums(g)[s] = g[Pick(s)] + Sums(g)[s \ {Pick(s)}]
    <2>1. /\ Sums(f)[{}] = 0
          /\ \A s \in SUBSET S : s # {} =>
                Pick(s) \in s /\ Sums(f)[s] = f[Pick(s)] + Sums(f)[s \ {Pick(s)}]
      BY SumsFacts
    <2>2. /\ Sums(g)[{}] = 0
          /\ \A s \in SUBSET T : s # {} =>
                Pick(s) \in s /\ Sums(g)[s] = g[Pick(s)] + Sums(g)[s \ {Pick(s)}]
      BY <1>1, SumsFacts
    <2> QED BY <2>1, <2>2
  <1> DEFINE F == {s \in SUBSET T : Sums(g)[s] = Sums(f)[s]}
  <1>3. {} \in F /\ F \in SUBSET SUBSET T
    BY <1>2
  <1>4. ASSUME NEW s \in SUBSET T, s # {}, \A x \in s : s \ {x} \in F PROVE s \in F
    <2>1. PICK p \in s : p = Pick(s)
      BY <1>2, <1>4
    <2>2. s \ {p} \in F /\ g[p] = f[p]
      BY <1>4
    <2> QED BY <1>2, <1>4, <2>1, <2>2
  <1>5. F = SUBSET T
    <2> HIDE DEF F
    <2> QED BY <1>1, <1>3, <1>4, SubsetsInduct
  <1> QED BY <1>5

\* A measure of subsets that grows with each element by no more than what is added up for
\* it, or by just that, is bounded by the sum, or is the sum.
LEMMA SumIsMeasure ==
    ASSUME NEW D, IsFiniteSet(D), NEW f \in [D -> Nat], NEW M \in [SUBSET D -> Nat], M[{}] = 0
    PROVE  /\ (\A E \in SUBSET D : \A x \in E : M[E] <= f[x] + M[E \ {x}]) => M[D] <= Sums(f)[D]
           /\ (\A E \in SUBSET D : \A x \in E : M[E] = f[x] + M[E \ {x}]) => M[D] = Sums(f)[D]
  <1>1. /\ Sums(f)[{}] = 0
        /\ \A s \in SUBSET D : s # {} => Pick(s) \in s /\ Sums(f)[s] = f[Pick(s)] + Sums(f)[s \ {Pick(s)}]
        /\ \A s \in SUBSET D : Sums(f)[s] \in Nat
    BY SumsFacts
  <1>2. ASSUME \A E \in SUBSET D : \A x \in E : M[E] <= f[x] + M[E \ {x}] PROVE M[D] <= Sums(f)[D]
    <2> DEFINE F == {s \in SUBSET D : M[s] <= Sums(f)[s]}
    <2>1. {} \in F /\ F \in SUBSET SUBSET D
      BY <1>1
    <2>2. ASSUME NEW s \in SUBSET D, s # {}, \A x \in s : s \ {x} \in F PROVE s \in F
      <3>1. PICK p \in s : p = Pick(s) /\ Sums(f)[s] = f[p] + Sums(f)[s \ {p}]
        BY <1>1, <2>2
      <3>2. M[s] <= f[p] + M[s \ {p}] /\ M[s \ {p}] <= Sums(f)[s \ {p}]
        BY <1>2, <2>2
      <3>3. f[p] \in Nat /\ M[s] \in Nat /\ M[s \ {p}] \in Nat /\ Sums(f)[s \ {p}] \in Nat
        BY <1>1
      <3> QED BY <3>1, <3>2, <3>3
    <2>3. F = SUBSET D
      <3> HIDE DEF F
      <3> QED BY <2>1, <2>2, SubsetsInduct
    <2> QED BY <2>3
  <1>3. ASSUME \A E \in SUBSET D : \A x \in E : M[E] = f[x] + M[E \ {x}] PROVE M[D] = Sums(f)[D]
    <2> DEFINE F == {s \in SUBSET D : M[s] = Sums(f)[s]}
    <2>1. {} \in F /\ F \in SUBSET SUBSET D
      BY <1>1
    <2>2. ASSUME NEW s \in SUBSET D, s # {}, \A x \in s : s \ {x} \in F PROVE s \in F
      <3>1. PICK p \in s : p = Pick(s) /\ Sums(f)[s] = f[p] + Sums(f)[s \ {p}]
        BY <1>1, <2>2
      <3>2. M[s] = f[p] + M[s \ {p}] /\ M[s \ {p}] = Sums(f)[s \ {p}]
        BY <1>3, <2>2
      <3> QED BY <3>1, <3>2
    <2>3. F = SUBSET D
      <3> HIDE DEF F
      <3> QED BY <2>1, <2>2, SubsetsInduct
    <2> QED BY <2>3
  <1> QED BY <1>2, <1>3

\* A sum of numbers that are at most m.
LEMMA SumBound ==
    ASSUME NEW S, IsFiniteSet(S), NEW f \in [S -> Nat], NEW m \in Nat, \A x \in S : f[x] <= m
    PROVE  Sums(f)[S] <= Cardinality(S) * m
  <1>1. \A s \in SUBSET S :
            /\ s # {} => Pick(s) \in s /\ Sums(f)[s] = f[Pick(s)] + Sums(f)[s \ {Pick(s)}]
            /\ Sums(f)[s] \in Nat
    BY SumsFacts
  <1>2. \A s \in SUBSET S : IsFiniteSet(s) /\ Cardinality(s) \in Nat
    BY FS_Subset, FS_CardinalityType
  <1>3. \A n \in Nat : (n + 1) * m = n * m + m /\ n * m \in Nat
    OBVIOUS
  <1> DEFINE F == {s \in SUBSET S : Sums(f)[s] <= Cardinality(s) * m}
  <1>4. {} \in F /\ F \in SUBSET SUBSET S
    <2>1. Sums(f)[{}] = 0 /\ Cardinality({}) = 0 /\ 0 * m = 0
      BY SumsFacts, FS_EmptySet
    <2> QED BY <2>1
  <1>5. ASSUME NEW s \in SUBSET S, s # {}, \A x \in s : s \ {x} \in F PROVE s \in F
    <2>1. PICK p \in s : p = Pick(s) /\ Sums(f)[s] = f[p] + Sums(f)[s \ {p}]
      BY <1>1, <1>5
    <2>2. PICK n : n = Cardinality(s \ {p})
      OBVIOUS
    <2>3. n \in Nat /\ Cardinality(s) = n + 1
      <3>1. Cardinality(s \ {p}) = Cardinality(s) - 1
        BY <1>2, FS_RemoveElement
      <3> QED BY <1>2, <2>2, <3>1
    <2>4. Sums(f)[s \ {p}] <= n * m /\ f[p] <= m
      BY <1>5, <2>2
    <2>5. f[p] \in Nat /\ Sums(f)[s \ {p}] \in Nat /\ n * m \in Nat /\ (n + 1) * m = n * m + m
      BY <1>1, <1>3, <2>3
    <2>6. Sums(f)[s] <= (n + 1) * m
      BY <2>1, <2>4, <2>5
    <2> QED BY <2>3, <2>6
  <1>6. F = SUBSET S
    <2> HIDE DEF F
    <2> QED BY <1>4, <1>5, SubsetsInduct
  <1> QED BY <1>6
------------------------------------------------------------------------------
(* Documents by day, by gate and by visitor. *)

LEMMA SumOverIs ==
    ASSUME NEW D, IsFiniteSet(D), NEW f \in [D -> Nat]
    PROVE  SumOver(f) = Sums(f)[D] /\ SumOver(f) \in Nat
  <1>1. SumOver(f) = Sums(f)[DOMAIN f]
    BY DEF SumOver, MapThenSumSet, MapThenFoldSet, Sums, Adding, Pick
  <1> QED BY <1>1, SumSplit DEF Splits

\* The parts of a finite set by what a function gives its elements.
Part(X, key, E) == {x \in X : key[x] \in E}

LEMMA PartFacts ==
    ASSUME NEW X, IsFiniteSet(X), NEW key
    PROVE  /\ Part(X, key, {}) = {}
           /\ \A E : Part(X, key, E) \in SUBSET X /\ IsFiniteSet(Part(X, key, E))
                     /\ Cardinality(Part(X, key, E)) \in Nat
           /\ \A E : \A d \in E : /\ Part(X, key, E) = Part(X, key, {d}) \cup Part(X, key, E \ {d})
                                  /\ Part(X, key, {d}) \cap Part(X, key, E \ {d}) = {}
  <1>1. \A E : Part(X, key, E) \in SUBSET X
    BY DEF Part
  <1>2. \A E : IsFiniteSet(Part(X, key, E)) /\ Cardinality(Part(X, key, E)) \in Nat
    BY <1>1, FS_Subset, FS_CardinalityType
  <1> QED BY <1>1, <1>2 DEF Part

\* Counted by key, the elements of a set are as many as it has.
Tallied(X, D, key, f) ==
    /\ IsFiniteSet(X) /\ IsFiniteSet(D) /\ key \in [X -> D] /\ f \in [D -> Nat]
    /\ \A d \in D : f[d] = Cardinality(Part(X, key, {d}))

LEMMA CountByKey ==
    ASSUME NEW X, NEW D, NEW key, NEW f, Tallied(X, D, key, f)
    PROVE  SumOver(f) = Cardinality(X)
  <1>0. /\ IsFiniteSet(X) /\ IsFiniteSet(D) /\ key \in [X -> D] /\ f \in [D -> Nat]
        /\ \A d \in D : f[d] = Cardinality(Part(X, key, {d}))
    BY DEF Tallied
  <1> DEFINE M == [E \in SUBSET D |-> Cardinality(Part(X, key, E))]
  <1>1. M \in [SUBSET D -> Nat] /\ M[{}] = 0
    BY <1>0, PartFacts, FS_EmptySet
  <1>2. ASSUME NEW E \in SUBSET D, NEW d \in E PROVE M[E] = f[d] + M[E \ {d}]
    <2>1. PICK A, B : A = Part(X, key, {d}) /\ B = Part(X, key, E \ {d})
      OBVIOUS
    <2>2. /\ Part(X, key, E) = A \cup B /\ A \cap B = {} /\ IsFiniteSet(A) /\ IsFiniteSet(B)
          /\ Cardinality(A) \in Nat /\ Cardinality(B) \in Nat
      BY <1>0, <2>1, PartFacts
    <2>3. Cardinality(A \cup B) = Cardinality(A) + Cardinality(B) - Cardinality(A \cap B)
      BY <2>2, FS_Union
    <2>6. Cardinality(A \cap B) = 0
      BY <2>2, FS_EmptySet
    <2>4. Cardinality(A \cup B) = Cardinality(A) + Cardinality(B)
      BY <2>2, <2>3, <2>6
    <2>5. E \ {d} \in SUBSET D /\ f[d] = Cardinality(A)
      BY <1>0, <2>1
    <2> QED BY <2>1, <2>2, <2>4, <2>5
  <1>3. M[D] = Sums(f)[D]
    <2> HIDE DEF M
    <2> QED BY <1>0, <1>1, <1>2, SumIsMeasure
  <1>4. Part(X, key, D) = X
    BY <1>0 DEF Part
  <1> QED BY <1>0, <1>3, <1>4, SumOverIs

\* The same of what they weigh.
Weighed(X, w, D, key, f) ==
    /\ IsFiniteSet(X) /\ w \in [X -> Nat] /\ IsFiniteSet(D) /\ key \in [X -> D] /\ f \in [D -> Nat]
    /\ \A d \in D : f[d] = Sums(w)[Part(X, key, {d})]

LEMMA WeighedByKey ==
    ASSUME NEW X, NEW w, NEW D, NEW key, NEW f, Weighed(X, w, D, key, f)
    PROVE  SumOver(f) = Sums(w)[X]
  <1>0. /\ IsFiniteSet(X) /\ w \in [X -> Nat] /\ IsFiniteSet(D) /\ key \in [X -> D] /\ f \in [D -> Nat]
        /\ \A d \in D : f[d] = Sums(w)[Part(X, key, {d})]
    BY DEF Weighed
  <1> DEFINE M == [E \in SUBSET D |-> Sums(w)[Part(X, key, E)]]
  <1>1. M \in [SUBSET D -> Nat] /\ M[{}] = 0
    <2>1. Splits(w, X)
      BY <1>0, SumSplit
    <2> QED BY <1>0, <2>1, PartFacts DEF Splits
  <1>2. ASSUME NEW E \in SUBSET D, NEW d \in E PROVE M[E] = f[d] + M[E \ {d}]
    <2>1. PICK A, B : A = Part(X, key, {d}) /\ B = Part(X, key, E \ {d})
      OBVIOUS
    <2>2. Part(X, key, E) = A \cup B /\ A \cap B = {} /\ A \in SUBSET X /\ B \in SUBSET X
      BY <1>0, <2>1, PartFacts
    <2>3. Sums(w)[A \cup B] = Sums(w)[A] + Sums(w)[B]
      BY <1>0, <2>2, SumDisjoint
    <2>4. E \ {d} \in SUBSET D /\ f[d] = Sums(w)[A]
      BY <1>0, <2>1
    <2> QED BY <2>1, <2>2, <2>3, <2>4
  <1>3. M[D] = Sums(f)[D]
    <2> HIDE DEF M
    <2> QED BY <1>0, <1>1, <1>2, SumIsMeasure
  <1>4. Part(X, key, D) = X
    BY <1>0 DEF Part
  <1> QED BY <1>0, <1>3, <1>4, SumOverIs

\* Different values in a set are no more than those that are different under each key.
Distinct(X, who, D, key, f) ==
    /\ IsFiniteSet(X) /\ IsFiniteSet(D) /\ key \in [X -> D] /\ f \in [D -> Nat]
    /\ \A d \in D : f[d] = Cardinality({who[x] : x \in Part(X, key, {d})})

LEMMA DistinctByKey ==
    ASSUME NEW X, NEW who, NEW D, NEW key, NEW f, Distinct(X, who, D, key, f)
    PROVE  Cardinality({who[x] : x \in X}) <= SumOver(f)
  <1>0. /\ IsFiniteSet(X) /\ IsFiniteSet(D) /\ key \in [X -> D] /\ f \in [D -> Nat]
        /\ \A d \in D : f[d] = Cardinality({who[x] : x \in Part(X, key, {d})})
    BY DEF Distinct
  <1> DEFINE Of_(E) == {who[x] : x \in Part(X, key, E)}
             M == [E \in SUBSET D |-> Cardinality(Of_(E))]
  <1>1. \A E : IsFiniteSet(Of_(E)) /\ Cardinality(Of_(E)) \in Nat
    <2> TAKE E
    <2>1. IsFiniteSet(Part(X, key, E))
      BY <1>0, PartFacts
    <2>2. IsFiniteSet(Of_(E))
      <3> DEFINE g == [x \in Part(X, key, E) |-> who[x]]
      <3>1. g \in Surjection(Part(X, key, E), Of_(E))
        BY DEF Surjection
      <3> QED BY <2>1, <3>1, FS_Surjection
    <2> QED BY <2>2, FS_CardinalityType
  <1>2. M \in [SUBSET D -> Nat] /\ M[{}] = 0
    <2>1. Of_({}) = {}
      BY <1>0, PartFacts
    <2> HIDE DEF Of_
    <2> QED BY <1>1, <2>1, FS_EmptySet
  <1>3. ASSUME NEW E \in SUBSET D, NEW d \in E PROVE M[E] <= f[d] + M[E \ {d}]
    <2>1. PICK A, B : A = Of_({d}) /\ B = Of_(E \ {d})
      OBVIOUS
    <2>2. Of_(E) = A \cup B
      <3>1. Part(X, key, E) = Part(X, key, {d}) \cup Part(X, key, E \ {d})
        BY <1>0, PartFacts
      <3> QED BY <2>1, <3>1
    <2>3. f[d] = Cardinality(A) /\ E \ {d} \in SUBSET D
      BY <1>0, <2>1
    <2> HIDE DEF Of_
    <2>4. IsFiniteSet(A) /\ IsFiniteSet(B) /\ IsFiniteSet(A \cap B)
      BY <1>1, <2>1, FS_Intersection
    <2>5. PICK a, b, c \in Nat : a = Cardinality(A) /\ b = Cardinality(B) /\ c = Cardinality(A \cap B)
      BY <2>4, FS_CardinalityType
    <2>6. Cardinality(A \cup B) = a + b - c
      BY <2>4, <2>5, FS_Union
    <2>7. M[E] = a + b - c /\ M[E \ {d}] = b /\ f[d] = a
      <3>1. M[E] = Cardinality(Of_(E)) /\ M[E \ {d}] = Cardinality(Of_(E \ {d}))
        BY <2>3
      <3> HIDE DEF M
      <3> QED BY <2>1, <2>2, <2>3, <2>5, <2>6, <3>1
    <2> HIDE DEF M
    <2> QED BY <2>5, <2>7
  <1>4. M[D] <= Sums(f)[D]
    <2> HIDE DEF M
    <2> QED BY <1>0, <1>2, <1>3, SumIsMeasure
  <1>5. Part(X, key, D) = X
    BY <1>0 DEF Part
  <1> QED BY <1>0, <1>4, <1>5, SumOverIs

\* The durations of visits.
Durations(V) == [v \in V |-> v.duration]

DurationsFrom(V, it) ==
    [s \in SUBSET V |-> IF s = {} THEN 0 ELSE Pick(s).duration + it[s \ {Pick(s)}]]

DurationSums(V) == CHOOSE it : it = DurationsFrom(V, it)

LEMMA DurationIs ==
    ASSUME NEW U, IsFiniteSet(U), Durations(U) \in [U -> Nat], NEW V \in SUBSET U
    PROVE  TotalDuration(V) = Sums(Durations(U))[V] /\ TotalDuration(V) \in Nat
  <1>1. TotalDuration(V) = DurationSums(V)[V]
    BY DEF TotalDuration, MapThenSumSet, MapThenFoldSet, DurationSums, DurationsFrom, Pick
  <1>2. IsFiniteSet(V) /\ Durations(V) \in [V -> Nat]
    BY FS_Subset DEF Durations
  <1>3. Sums(Durations(V)) = Adding(Durations(V), SUBSET V, Sums(Durations(V)))
    BY <1>2, SumsExist
  <1>4. \A s \in SUBSET V : s # {} => Pick(s) \in s
    BY DEF Pick
  <1>5. \A it : Adding(Durations(V), SUBSET V, it) = DurationsFrom(V, it)
    BY <1>4 DEF Adding, DurationsFrom, Durations
  <1>6. Sums(Durations(V)) = DurationsFrom(V, Sums(Durations(V)))
    BY <1>3, <1>5
  <1>7. DurationSums(V) = DurationsFrom(V, DurationSums(V))
    BY <1>6 DEF DurationSums
  <1>8. DurationSums(V)[V] = Sums(Durations(V))[V]
    <2> DEFINE F == {s \in SUBSET V : DurationSums(V)[s] = Sums(Durations(V))[s]}
    <2>1. {} \in F /\ F \in SUBSET SUBSET V
      BY <1>6, <1>7 DEF DurationsFrom
    <2>2. ASSUME NEW s \in SUBSET V, s # {}, \A x \in s : s \ {x} \in F PROVE s \in F
      <3>1. s \ {Pick(s)} \in F
        BY <1>4, <2>2
      <3>2. /\ DurationSums(V)[s] = Pick(s).duration + DurationSums(V)[s \ {Pick(s)}]
            /\ Sums(Durations(V))[s] = Pick(s).duration + Sums(Durations(V))[s \ {Pick(s)}]
        BY <1>6, <1>7, <2>2 DEF DurationsFrom
      <3> QED BY <3>1, <3>2
    <2>3. F = SUBSET V
      <3> HIDE DEF F
      <3> QED BY <1>2, <2>1, <2>2, SubsetsInduct
    <2> QED BY <2>3
  <1>9. Sums(Durations(V))[V] = Sums(Durations(U))[V]
    <2>1. \A v \in V : Durations(V)[v] = Durations(U)[v]
      BY DEF Durations
    <2> QED BY <1>2, <2>1, SumAgrees
  <1>10. Sums(Durations(U))[V] \in Nat
    BY SumSplit DEF Splits
  <1> QED BY <1>1, <1>8, <1>9, <1>10

\* The durations under each key add up to those of all.
Lasting(V, D, key, f) ==
    /\ IsFiniteSet(V) /\ Durations(V) \in [V -> Nat]
    /\ IsFiniteSet(D) /\ key \in [V -> D] /\ f \in [D -> Nat]
    /\ \A d \in D : f[d] = TotalDuration(Part(V, key, {d}))

LEMMA DurationsByKey ==
    ASSUME NEW V, NEW D, NEW key, NEW f, Lasting(V, D, key, f)
    PROVE  SumOver(f) = TotalDuration(V)
  <1>0. /\ IsFiniteSet(V) /\ Durations(V) \in [V -> Nat]
        /\ IsFiniteSet(D) /\ key \in [V -> D] /\ f \in [D -> Nat]
        /\ \A d \in D : f[d] = TotalDuration(Part(V, key, {d}))
    BY DEF Lasting
  <1>1. \A d \in D : f[d] = Sums(Durations(V))[Part(V, key, {d})]
    BY <1>0, PartFacts, DurationIs
  <1>2. TotalDuration(V) = Sums(Durations(V))[V]
    BY <1>0, DurationIs
  <1>3. Weighed(V, Durations(V), D, key, f)
    BY <1>0, <1>1 DEF Weighed
  <1> QED BY <1>2, <1>3, WeighedByKey

------------------------------------------------------------------------------
(* Order. *)

\* Of finitely many there is one with the greatest key and one with the least.
LEMMA GreatestKey ==
    ASSUME NEW S, IsFiniteSet(S), S # {}, NEW key \in [S -> Nat]
    PROVE  \E m \in S : \A x \in S : key[x] <= key[m]
  <1> DEFINE F == {T \in SUBSET S : T = {} \/ \E m \in T : \A x \in T : key[x] <= key[m]}
  <1>1. {} \in F /\ F \in SUBSET SUBSET S
    OBVIOUS
  <1>2. ASSUME NEW T \in SUBSET S, T # {}, \A x \in T : T \ {x} \in F PROVE T \in F
    <2>1. PICK y \in T : T \ {y} \in F
      BY <1>2
    <2>2. CASE T \ {y} = {}
      BY <2>1, <2>2
    <2>3. CASE T \ {y} # {}
      <3>1. PICK m \in T \ {y} : \A x \in T \ {y} : key[x] <= key[m]
        BY <2>1, <2>3
      <3>2. CASE key[y] <= key[m]
        BY <3>1, <3>2
      <3>3. CASE ~(key[y] <= key[m])
        <4>1. \A x \in T : key[x] \in Nat
          OBVIOUS
        <4>2. \A x \in T : key[x] <= key[y]
          BY <2>1, <3>1, <3>3, <4>1
        <4> QED BY <2>1, <4>2
      <3> QED BY <3>2, <3>3
    <2> QED BY <2>2, <2>3
  <1>3. F = SUBSET S
    <2> HIDE DEF F
    <2> QED BY <1>1, <1>2, SubsetsInduct
  <1> QED BY <1>3

LEMMA LeastKey ==
    ASSUME NEW S, S # {}, NEW key \in [S -> Nat]
    PROVE  \E m \in S : \A x \in S : key[m] <= key[x]
  <1> DEFINE K == {key[x] : x \in S}
  <1>1. PICK R : IsWellFoundedOn(R, Nat) /\ R = OpToRel(<, Nat)
    BY NatLessThanWellFounded
  <1>2. K \subseteq Nat /\ K # {}
    OBVIOUS
  <1>3. PICK n \in K : \A m \in K : ~(<<m, n>> \in R)
    <2> HIDE DEF K
    <2> QED BY <1>1, <1>2, WFMin
  <1>4. ASSUME NEW m \in K PROVE n <= m
    <2>1. m \in Nat /\ n \in Nat /\ ~(<<m, n>> \in R)
      BY <1>2, <1>3
    <2> HIDE DEF K
    <2>2. m < n => <<m, n>> \in R
      BY <1>1, <2>1 DEF OpToRel
    <2> QED BY <2>1, <2>2
  <1> QED BY <1>3, <1>4

\* Min and Max of the keys.
LEMMA Bounds ==
    ASSUME NEW S, IsFiniteSet(S), S # {}, NEW key \in [S -> Nat], NEW K, K = {key[x] : x \in S}
    PROVE  /\ Min(K) \in K /\ \A x \in S : Min(K) <= key[x]
           /\ Max(K) \in K /\ \A x \in S : key[x] <= Max(K)
  <1>1. \E m \in K : \A y \in K : m >= y
    <2>1. PICK m \in S : \A x \in S : key[x] <= key[m]
      BY GreatestKey
    <2> QED BY <2>1
  <1>2. \E m \in K : \A y \in K : m =< y
    <2>1. PICK m \in S : \A x \in S : key[m] <= key[x]
      BY LeastKey
    <2> QED BY <2>1
  <1>3. Max(K) \in K /\ \A y \in K : Max(K) >= y
    BY <1>1 DEF Max
  <1>4. Min(K) \in K /\ \A y \in K : Min(K) <= y
    BY <1>2 DEF Min
  <1>5. \A x \in S : key[x] \in K /\ key[x] \in Nat
    OBVIOUS
  <1> QED BY <1>3, <1>4, <1>5

\* s lists S in ascending order of the key.
Sorts(s, S, key) ==
    /\ s \in [1..Cardinality(S) -> S]
    /\ \A i, j \in 1..Cardinality(S) : i # j => s[i] # s[j]
    /\ \A i, j \in 1..Cardinality(S) : i < j => key[s[i]] <= key[s[j]]

LEMMA CanBeSorted ==
    ASSUME NEW S, IsFiniteSet(S), NEW key \in [S -> Nat]
    PROVE  \E s : Sorts(s, S, key)
  <1> DEFINE F == {T \in SUBSET S : \E s : Sorts(s, T, key)}
  <1>1. {} \in F /\ F \in SUBSET SUBSET S
    <2>1. Cardinality({}) = 0 /\ 1..0 = {}
      BY FS_EmptySet
    <2>2. Sorts([i \in {} |-> 0], {}, key)
      BY <2>1 DEF Sorts
    <2> QED BY <2>2
  <1>2. ASSUME NEW T \in SUBSET S, T # {}, \A x \in T : T \ {x} \in F PROVE T \in F
    <2>1. IsFiniteSet(T) /\ [x \in T |-> key[x]] \in [T -> Nat]
      BY FS_Subset
    <2>2. PICK m \in T : \A x \in T : [y \in T |-> key[y]][x] <= [y \in T |-> key[y]][m]
      BY <1>2, <2>1, GreatestKey
    <2>3. \A x \in T : key[x] <= key[m] /\ key[x] \in Nat
      BY <2>2
    <2>4. PICK s : Sorts(s, T \ {m}, key)
      BY <1>2
    <2>5. PICK n \in Nat : n = Cardinality(T \ {m}) /\ Cardinality(T) = n + 1
      <3>1. IsFiniteSet(T \ {m}) /\ Cardinality(T \ {m}) = Cardinality(T) - 1
        BY <2>1, FS_RemoveElement
      <3>2. Cardinality(T \ {m}) \in Nat /\ Cardinality(T) \in Nat
        BY <2>1, <3>1, FS_CardinalityType
      <3> QED BY <3>1, <3>2
    <2> DEFINE u == [i \in 1..n + 1 |-> IF i = n + 1 THEN m ELSE s[i]]
    <2>6. /\ s \in [1..n -> T \ {m}]
          /\ \A i, j \in 1..n : i # j => s[i] # s[j]
          /\ \A i, j \in 1..n : i < j => key[s[i]] <= key[s[j]]
      BY <2>4, <2>5 DEF Sorts
    <2>7. u \in [1..n + 1 -> T]
      BY <2>6
    <2>8. ASSUME NEW i \in 1..n + 1, NEW j \in 1..n + 1, i < j PROVE u[i] # u[j] /\ key[u[i]] <= key[u[j]]
      <3>1. i \in 1..n /\ u[i] = s[i] /\ s[i] \in T \ {m}
        BY <2>6, <2>8
      <3>2. CASE j = n + 1
        BY <2>3, <3>1, <3>2
      <3>3. CASE j # n + 1
        <4>1. j \in 1..n /\ u[j] = s[j] /\ i # j
          BY <2>8, <3>3
        <4> QED BY <2>6, <2>8, <3>1, <4>1
      <3> QED BY <3>2, <3>3
    <2>9. \A i, j \in 1..n + 1 : i # j => u[i] # u[j]
      <3>1. \A i, j \in 1..n + 1 : i # j => i < j \/ j < i
        OBVIOUS
      <3> HIDE DEF u
      <3> QED BY <2>8, <3>1
    <2> HIDE DEF u
    <2>10. Sorts(u, T, key)
      BY <2>5, <2>7, <2>8, <2>9 DEF Sorts
    <2> QED BY <2>10
  <1>3. F = SUBSET S
    <2> HIDE DEF F
    <2> QED BY <1>1, <1>2, SubsetsInduct
  <1> QED BY <1>3

\* The sorted sequence has each document once, the last of all at the end.
LEMMA SortedIs ==
    ASSUME NEW S, IsFiniteSet(S), NEW key \in [S -> Nat], NEW s, s = SortedBy(key)
    PROVE  /\ s \in Seq(S) /\ Len(s) = Cardinality(S) /\ Cardinality(S) \in Nat
           /\ \A x \in S : \E i \in 1..Len(s) : s[i] = x
           /\ \A i, j \in 1..Len(s) : i < j => key[s[i]] <= key[s[j]]
  <1>1. PICK n \in Nat : n = Cardinality(S)
    BY FS_CardinalityType
  <1>2. DOMAIN key = S
    OBVIOUS
  <1>3. \A u : Sorts(u, S, key) <=> u \in SetToSeqs(S) /\ \A i, j \in DOMAIN u : i < j => key[u[i]] <= key[u[j]]
    BY DEF Sorts, SetToSeqs
  <1>4. Sorts(s, S, key)
    BY <1>2, <1>3, CanBeSorted DEF SortedBy
  <1>5. s \in [1..n -> S] /\ \A i, j \in 1..n : i # j => s[i] # s[j]
    BY <1>1, <1>4 DEF Sorts
  <1>6. s \in Seq(S) /\ Len(s) = n
    BY <1>5
  <1>7. s \in Injection(1..n, S)
    BY <1>5 DEF Injection, IsInjective
  <1>8. Cardinality(1..n) = n
    BY FS_Interval
  <1>9. s \in Surjection(1..n, S)
    BY <1>1, <1>7, <1>8, FS_Injection
  <1>10. \A x \in S : \E i \in 1..n : s[i] = x
    BY <1>9 DEF Surjection
  <1> QED BY <1>1, <1>4, <1>6, <1>10 DEF Sorts

------------------------------------------------------------------------------
(* Where visits come from. *)

\* The event that opened a visit is saved, or about to be.
Taken(e) == e \in events \/ \E k \in Calls : call[k].phase = "save" /\ Event(k) = e

\* Of a visitor without a fault, no visit is gone and each was opened at the time of an
\* event.
Held(p) ==
    /\ \A n \in 1..opened[p] : \E v \in visits : v.who = p /\ v.no = n
    /\ \A v \in visits : v.who = p => \E e \in Feed : e.who = p /\ e.at = v.at /\ Taken(e)

\* Only a completed visit has a duration.
HeldInv ==
    /\ \A v \in visits : v.no > 0 /\ (v.status = "OPEN" => v.duration = 0)
    /\ \A p \in Visitors \ disturbed : Held(p)

\* What a step other than retention does to the visits: they stay, with their numbers and
\* times, and a new one is opened by an event that is to be saved next.
Keeps ==
    /\ \A v \in visits : \E w \in visits' : w.who = v.who /\ w.no = v.no /\ w.at = v.at
    /\ \A w \in visits' :
         \/ \E v \in visits : /\ w.who = v.who /\ w.no = v.no /\ w.at = v.at
                              /\ w.status = "OPEN" => w = v
         \/ /\ \E k \in Calls : /\ w.who = Who(k) /\ w.at = Event(k).at
                                /\ call'[k].phase = "save" /\ call'[k].event = Event(k)
            /\ w.no = opened[w.who] + 1 /\ opened' = [opened EXCEPT ![w.who] = @ + 1] /\ w.duration = 0
    /\ \/ opened' = opened
       \/ \E w \in visits' : w.no = opened[w.who] + 1 /\ opened' = [opened EXCEPT ![w.who] = @ + 1]

LEMMA VisitsKept ==
    ASSUME TypeOK, NEW k \in Calls, Acts(k)
    PROVE  Keeps
  <1>1. visits \subseteq VisitType /\ call[k].from \in Nat /\ call \in [Calls -> CallType]
        /\ Event(k) \in Feed /\ Who(k) \in Visitors /\ call[k] \in CallType
        /\ Who(k) = Event(k).who /\ Event(k) = call[k].event
    BY CallTyped DEF TypeOK, Who, Event
  <1>2. ASSUME visits' = visits, opened' = opened PROVE Keeps
    BY <1>2 DEF Keeps
  <1>3. CASE Opens(k) /\ MayOpen(Who(k))
    <2> DEFINE w == [no |-> opened[Who(k)] + 1, who |-> Who(k), at |-> Event(k).at,
                     status |-> "OPEN", till |-> NoTime, duration |-> 0]
    <2>1. visits' = visits \cup {w} /\ opened' = [opened EXCEPT ![Who(k)] = @ + 1]
      BY <1>1, <1>3 DEF Opens
    <2>2. call'[k].phase = "save" /\ call'[k].event = Event(k)
      BY <1>1, <1>3 DEF Opens, CallType
    <2>3. w.who = Who(k) /\ w.at = Event(k).at /\ w.no = opened[Who(k)] + 1 /\ w.duration = 0
      OBVIOUS
    <2> HIDE DEF w
    <2> QED BY <2>1, <2>2, <2>3 DEF Keeps
  <1>4. CASE Opens(k) /\ ~MayOpen(Who(k))
    BY <1>1, <1>2, <1>4 DEF Opens
  <1>5. CASE Closes(k)
    <2> DEFINE new(v) == ClosedBy(v, Event(k), call[k].from)
    <2>1. \A v \in visits : /\ new(v).who = v.who /\ new(v).no = v.no /\ new(v).at = v.at
                            /\ new(v).status = "COMPLETED"
      BY <1>1 DEF ClosedBy, VisitType
    <2> HIDE DEF new
    <2>2. visits' = {IF v.who = Who(k) /\ v.no = call[k].target /\ v.status = "OPEN" THEN new(v) ELSE v : v \in visits}
      BY <1>1, <1>5 DEF Closes, Closing, new
    <2>3. opened' = opened
      BY <1>5 DEF Closes, history
    <2> QED BY <2>1, <2>2, <2>3 DEF Keeps
  <1>6. CASE ~Opens(k) /\ ~Closes(k)
    BY <1>2, <1>6 DEF Acts, LooksForVisit, Saves, FindsProfile, InsertsProfile,
       UpdatesProfile, WritePassedOver, ReadPassedOver, CallLost, collections, history, Fault
  <1> QED BY <1>3, <1>4, <1>5, <1>6

\* An event that opened a visit is not lost without a fault.
LEMMA TakenStays ==
    ASSUME TypeOK, NEW k \in Calls, Acts(k), NEW e \in Feed, e.who \notin disturbed', Taken(e)
    PROVE  Taken(e)'
  <1>1. /\ Event(k) \in Feed /\ Event(k) = call[k].event /\ Who(k) = Event(k).who
        /\ call \in [Calls -> CallType] /\ call[k] \in CallType
    BY CallTyped DEF TypeOK, Event, Who
  <1>2. events \subseteq events'
    BY DEF Acts, LooksForVisit, Opens, Closes, Saves, FindsProfile, InsertsProfile,
       UpdatesProfile, WritePassedOver, ReadPassedOver, CallLost, collections
  <1>3. CASE e \in events
    BY <1>2, <1>3 DEF Taken
  <1>4. CASE call[k].phase = "save" /\ Event(k) = e
    <2>1. ~WritePassedOver(k) /\ ~CallLost(k)
      BY <1>1, <1>4 DEF WritePassedOver, CallLost, Fault
    <2>2. Saves(k)
      BY <1>4, <2>1 DEF Acts, LooksForVisit, Opens, Closes, FindsProfile, InsertsProfile,
         UpdatesProfile, ReadPassedOver
    <2> QED BY <1>4, <2>2 DEF Saves, Taken
  <1>5. ASSUME NEW l \in Calls, l # k, call[l].phase = "save", Event(l) = e PROVE Taken(e)'
    <2>1. call'[l] = call[l]
      <3>1. Over(k) \/ (\E phase : Step(k, phase)) => call'[l] = call[l]
        BY <1>1, <1>5 DEF Over, Step
      <3>2. LooksForVisit(k) => call'[l] = call[l]
        <4> DEFINE v == CHOOSE v \in OpenVisits(Who(k)) : TRUE
        <4>1. LooksForVisit(k) =>
                \/ \E phase : Step(k, phase)
                \/ call' = [call EXCEPT ![k].phase = IF Event(k).kind = "EXIT" THEN "close" ELSE "save",
                                        ![k].target = v.no, ![k].from = v.at]
          BY DEF LooksForVisit
        <4> HIDE DEF v
        <4> QED BY <1>1, <1>5, <3>1, <4>1
      <3>3. Opens(k) \/ WritePassedOver(k) \/ FindsProfile(k) => call'[l] = call[l]
        BY <1>1, <1>5, <3>1 DEF Opens, WritePassedOver, FindsProfile
      <3>4. Closes(k) \/ Saves(k) \/ InsertsProfile(k) \/ UpdatesProfile(k) \/ ReadPassedOver(k) \/ CallLost(k)
              => Over(k) \/ \E phase : Step(k, phase)
        BY DEF Closes, Saves, InsertsProfile, UpdatesProfile, ReadPassedOver, CallLost
      <3> QED BY <3>1, <3>2, <3>3, <3>4 DEF Acts
    <2> QED BY <1>5, <2>1 DEF Taken, Event
  <1> QED BY <1>3, <1>4, <1>5 DEF Taken

LEMMA HeldNext ==
    ASSUME VisitInv, Sound, HeldInv, [HistoryNext]_vars
    PROVE  HeldInv'
  <1>1. TypeOK /\ TypeOK' /\ \A p \in Visitors : opened[p] \in Nat
    BY TypeNext DEF VisitInv, TypeOK
  <1>0. visits \subseteq VisitType /\ visits' \subseteq VisitType
    BY <1>1 DEF TypeOK
  <1>2. ASSUME NEW k \in Calls, Acts(k) PROVE HeldInv'
    <2>1. Keeps
      BY <1>1, <1>2, VisitsKept
    <2>2. \A w \in visits' : w.no > 0 /\ (w.status = "OPEN" => w.duration = 0)
      <3> SUFFICES ASSUME NEW w \in visits' PROVE w.no > 0 /\ (w.status = "OPEN" => w.duration = 0)
        OBVIOUS
      <3>1. w.who \in Visitors
        BY <1>0 DEF VisitType
      <3> QED BY <1>1, <2>1, <3>1 DEF Keeps, HeldInv
    <2>3. ASSUME NEW p \in Visitors \ disturbed' PROVE Held(p)'
      <3>1. Held(p)
        BY <1>2 DEF HeldInv, Acts, LooksForVisit, Opens, Closes, Saves, FindsProfile, InsertsProfile,
           UpdatesProfile, WritePassedOver, ReadPassedOver, CallLost, Fault, history
      <3>2. ASSUME NEW n \in 1..opened'[p] PROVE \E w \in visits' : w.who = p /\ w.no = n
        <4>1. CASE n \in 1..opened[p]
          <5>1. PICK v \in visits : v.who = p /\ v.no = n
            BY <3>1, <4>1 DEF Held
          <5> QED BY <2>1, <5>1 DEF Keeps
        <4>2. CASE n \notin 1..opened[p]
          <5>1. opened' # opened
            BY <3>2, <4>2
          <5>2. PICK w \in visits' : w.no = opened[w.who] + 1 /\ opened' = [opened EXCEPT ![w.who] = @ + 1]
            BY <2>1, <5>1 DEF Keeps
          <5>3. w.who = p /\ opened'[p] = opened[p] + 1 /\ opened[p] \in Nat
            BY <1>1, <3>2, <4>2, <5>2 DEF TypeOK
          <5> QED BY <3>2, <4>2, <5>2, <5>3
        <4> QED BY <4>1, <4>2
      <3>3. ASSUME NEW w \in visits', w.who = p
            PROVE  \E e \in Feed : e.who = p /\ e.at = w.at /\ Taken(e)'
        <4>1. CASE \E v \in visits : w.who = v.who /\ w.no = v.no /\ w.at = v.at
          <5>1. PICK e \in Feed : e.who = p /\ e.at = w.at /\ Taken(e)
            BY <3>1, <3>3, <4>1 DEF Held
          <5> QED BY <1>1, <1>2, <5>1, TakenStays
        <4>2. CASE \E l \in Calls : /\ w.who = Who(l) /\ w.at = Event(l).at
                                    /\ call'[l].phase = "save" /\ call'[l].event = Event(l)
          <5>1. PICK l \in Calls : /\ w.who = Who(l) /\ w.at = Event(l).at
                                   /\ call'[l].phase = "save" /\ call'[l].event = Event(l)
            BY <4>2
          <5>2. Event(l) \in Feed /\ Event(l).who = p
            BY <1>1, <3>3, <5>1, CallTyped DEF Who, Event
          <5>3. Taken(Event(l))'
            BY <5>1 DEF Taken, Event
          <5>4. PICK e : e = Event(l)
            OBVIOUS
          <5>5. Taken(e)'
            BY <5>1, <5>4 DEF Taken, Event
          <5> QED BY <5>1, <5>2, <5>4, <5>5
        <4> QED BY <2>1, <4>1, <4>2 DEF Keeps
      <3> QED BY <3>2, <3>3 DEF Held
    <2> QED BY <2>2, <2>3 DEF HeldInv
  <1>3. ASSUME NEW k \in Calls, NEW e \in Feed, Delivered(k, e) PROVE HeldInv'
    <2>1. visits' = visits /\ opened' = opened /\ events' = events /\ disturbed \subseteq disturbed'
      BY <1>3 DEF Delivered, collections
    <2>2. \A l \in Calls : call[l].phase = "save" => call'[l] = call[l]
      BY <1>1, <1>3 DEF Delivered, TypeOK
    <2>3. \A f : Taken(f) => Taken(f)'
      BY <2>1, <2>2 DEF Taken, Event
    <2> QED BY <2>1, <2>3 DEF HeldInv, Held
  <1>4. CASE (\E cutoff \in Cutoffs : PurgesEvents(cutoff)) \/ PurgesVisits \/ PurgesProfiles
    <2>1. disturbed' = Visitors
      BY <1>4 DEF PurgesEvents, PurgesVisits, PurgesProfiles, history, Sound
    <2>2. visits' \subseteq visits
      BY <1>4 DEF PurgesEvents, PurgesVisits, PurgesProfiles
    <2> QED BY <2>1, <2>2 DEF HeldInv
  <1>5. CASE UNCHANGED vars
    BY <1>5 DEF vars, HeldInv, Held, Taken, Event
  <1> QED BY <1>2, <1>3, <1>4, <1>5 DEF HistoryNext, Acts

LEMMA HeldInit == HistoryInit => HeldInv
  <1> SUFFICES ASSUME HistoryInit PROVE HeldInv
    OBVIOUS
  <1>1. visits = {} /\ \A p \in Visitors : opened[p] = 0
    BY DEF HistoryInit
  <1> QED BY <1>1 DEF HeldInv, Held

------------------------------------------------------------------------------
(* What the reports count. *)

\* A function of a finite domain has finitely many values.
LEMMA RangeFinite ==
    ASSUME NEW key, NEW S, key = [x \in S |-> key[x]], IsFiniteSet(S)
    PROVE  IsFiniteSet(Range(key)) /\ Cardinality(Range(key)) \in Nat
  <1>1. key \in Surjection(S, Range(key))
    BY DEF Surjection, Range
  <1>2. IsFiniteSet(Range(key))
    BY <1>1, FS_Surjection
  <1> QED BY <1>2, FS_CardinalityType

\* The documents and their parts.
LEMMA Documents ==
    ASSUME VisitInv
    PROVE  /\ \A S \in SUBSET events : S \subseteq Feed /\ IsFiniteSet(S) /\ Count(S) \in Nat
           /\ \A S \in SUBSET visits : S \subseteq VisitType /\ IsFiniteSet(S) /\ Count(S) \in Nat
           /\ \A e \in events : /\ e.at \in Nat /\ e.at > 0 /\ e.at <= Horizon /\ e.gate \in Gates
                                /\ e.who \in Visitors /\ e.kind \in {"ENTRY", "EXIT"}
           /\ \A v \in visits : /\ v.at \in Nat /\ v.at > 0 /\ v.at <= Horizon /\ v.duration \in Nat
                                /\ v.who \in Visitors /\ v.status \in {"OPEN", "COMPLETED"}
  <1>1. /\ events \subseteq Feed /\ visits \subseteq VisitType /\ IsFiniteSet(visits)
    BY DEF VisitInv, TypeOK
  <1>2. IsFiniteSet(events)
    BY <1>1, FeedTyped, FS_Subset
  <1>3. /\ \A S \in SUBSET events : S \subseteq Feed /\ IsFiniteSet(S) /\ Count(S) \in Nat
        /\ \A S \in SUBSET visits : S \subseteq VisitType /\ IsFiniteSet(S) /\ Count(S) \in Nat
    BY <1>1, <1>2, FS_Subset, FS_CardinalityType DEF Count
  <1>4. \A e \in events : /\ e.at \in Nat /\ e.at > 0 /\ e.at <= Horizon /\ e.gate \in Gates
                          /\ e.who \in Visitors /\ e.kind \in {"ENTRY", "EXIT"}
    BY <1>1, FeedTyped, HistoryBounds DEF EventType, Times
  <1>5. \A v \in visits : /\ v.at \in Nat /\ v.at > 0 /\ v.at <= Horizon /\ v.duration \in Nat
                          /\ v.who \in Visitors /\ v.status \in {"OPEN", "COMPLETED"}
    BY <1>1, HistoryBounds DEF VisitType, Times
  <1> QED BY <1>3, <1>4, <1>5

LEMMA DaysAreNumbers == \A t \in Nat : DayOf(t) \in Nat
  BY DayIsNat DEF DayOf

LEMMA DaysAscend == \A t, u \in Nat : t <= u => DayOf(t) <= DayOf(u)
  BY DayIsNat DEF DayOf

\* Counted day by day or all together.
LEMMA CountByDay ==
    ASSUME NEW X, IsFiniteSet(X), NEW D, IsFiniteSet(D), \A x \in X : DayOf(x.at) \in D
    PROVE  SumOver([day \in D |-> Count({x \in X : DayOf(x.at) = day})]) = Count(X)
  <1> DEFINE key == [x \in X |-> DayOf(x.at)]
             f == [day \in D |-> Count({x \in X : DayOf(x.at) = day})]
  <1>1. \A d : {x \in X : DayOf(x.at) = d} = Part(X, key, {d})
    BY DEF Part
  <1>2. key \in [X -> D] /\ \A d \in D : f[d] = Cardinality(Part(X, key, {d}))
    BY <1>1 DEF Count
  <1>3. \A d \in D : Cardinality({x \in X : DayOf(x.at) = d}) \in Nat
    BY FS_Subset, FS_CardinalityType
  <1>4. f \in [D -> Nat]
    BY <1>3 DEF Count
  <1> HIDE DEF key, f
  <1>5. Tallied(X, D, key, f)
    BY <1>2, <1>4 DEF Tallied
  <1>6. SumOver(f) = Cardinality(X)
    BY <1>5, CountByKey
  <1> QED BY <1>6 DEF f, Count

LEMMA CountByGate ==
    ASSUME NEW X, IsFiniteSet(X), \A x \in X : x.gate \in Gates
    PROVE  GateUse(X) \in [Gates -> Nat] /\ SumOver(GateUse(X)) = Count(X)
  <1> DEFINE key == [x \in X |-> x.gate]
             f == GateUse(X)
  <1>1. \A d : {x \in X : x.gate = d} = Part(X, key, {d})
    BY DEF Part
  <1>2. key \in [X -> Gates] /\ IsFiniteSet(Gates) /\ \A d \in Gates : f[d] = Cardinality(Part(X, key, {d}))
    BY <1>1, GatesNumbered DEF Count, GateUse
  <1>3. \A d \in Gates : Cardinality({x \in X : x.gate = d}) \in Nat
    BY FS_Subset, FS_CardinalityType
  <1>4. f \in [Gates -> Nat]
    BY <1>3 DEF Count, GateUse
  <1> HIDE DEF key, f
  <1>5. Tallied(X, Gates, key, f)
    BY <1>2, <1>4 DEF Tallied
  <1>6. SumOver(f) = Cardinality(X)
    BY <1>5, CountByKey
  <1> QED BY <1>4, <1>6 DEF f, Count

LEMMA DurationByDay ==
    ASSUME NEW V, IsFiniteSet(V), \A v \in V : v.duration \in Nat,
           NEW D, IsFiniteSet(D), \A v \in V : DayOf(v.at) \in D
    PROVE  SumOver([day \in D |-> TotalDuration({v \in V : DayOf(v.at) = day})]) = TotalDuration(V)
  <1> DEFINE key == [v \in V |-> DayOf(v.at)]
             f == [day \in D |-> TotalDuration({v \in V : DayOf(v.at) = day})]
  <1>0. Durations(V) \in [V -> Nat]
    BY DEF Durations
  <1>1. \A d : Part(V, key, {d}) = {v \in V : DayOf(v.at) = d}
    BY DEF Part
  <1>2. f \in [D -> Nat] /\ \A d \in D : f[d] = TotalDuration(Part(V, key, {d}))
    <2>1. \A d \in D : {v \in V : DayOf(v.at) = d} \in SUBSET V
      OBVIOUS
    <2> QED BY <1>0, <1>1, <2>1, DurationIs
  <1>3. key \in [V -> D]
    OBVIOUS
  <1> HIDE DEF key, f
  <1>4. Lasting(V, D, key, f)
    BY <1>0, <1>2, <1>3 DEF Lasting
  <1>5. SumOver(f) = TotalDuration(V)
    BY <1>4, DurationsByKey
  <1> QED BY <1>5 DEF f

\* Open visits weigh nothing.
LEMMA OpenWeighNothing ==
    ASSUME VisitInv, HeldInv, NEW V \in SUBSET visits
    PROVE  TotalDuration(Status("COMPLETED", V)) = TotalDuration(V) /\ TotalDuration(V) \in Nat
  <1> DEFINE done == Status("COMPLETED", V)
             open == Status("OPEN", V)
             w == Durations(V)
  <1>1. /\ IsFiniteSet(V) /\ w \in [V -> Nat] /\ done \cup open = V /\ done \cap open = {}
        /\ done \in SUBSET V /\ open \in SUBSET V /\ \A v \in open : w[v] = 0
    BY Documents DEF Durations, Status, HeldInv
  <1>2. TotalDuration(done) = Sums(w)[done] /\ TotalDuration(V) = Sums(w)[V] /\ TotalDuration(V) \in Nat
    <2> HIDE DEF done
    <2> QED BY <1>1, DurationIs
  <1> HIDE DEF w, done, open
  <1>3. Sums(w)[V] = Sums(w)[done] + Sums(w)[open]
    BY <1>1, SumDisjoint
  <1>4. Sums(w)[open] = 0
    <2> DEFINE z == [v \in open |-> 0]
    <2>1. z \in [open -> Nat] /\ IsFiniteSet(open) /\ \A v \in open : z[v] <= 0 /\ z[v] = w[v]
      BY <1>1, FS_Subset
    <2> HIDE DEF z
    <2>2. Sums(z)[open] <= Cardinality(open) * 0
      BY <2>1, SumBound
    <2>3. Sums(z)[open] = Sums(w)[open]
      BY <1>1, <2>1, SumAgrees
    <2>4. Sums(z)[open] \in Nat
      <3>1. Splits(z, open)
        BY <2>1, SumSplit
      <3> QED BY <3>1 DEF Splits
    <2>5. Cardinality(open) * 0 = 0
      BY <2>1, FS_CardinalityType
    <2> QED BY <2>2, <2>3, <2>4, <2>5
  <1>5. Sums(w)[done] \in Nat
    <2>1. Splits(w, V)
      BY <1>1, SumSplit
    <2> QED BY <1>1, <2>1 DEF Splits
  <1> QED BY <1>2, <1>3, <1>4, <1>5 DEF done

\* Visits are open or completed.
LEMMA CountByStatus ==
    ASSUME VisitInv, NEW V \in SUBSET visits
    PROVE  Count(V) = Count(Status("COMPLETED", V)) + Count(Status("OPEN", V))
  <1>1. PICK A, B : A = Status("COMPLETED", V) /\ B = Status("OPEN", V)
    OBVIOUS
  <1>2. A \cup B = V /\ A \cap B = {} /\ A \in SUBSET visits /\ B \in SUBSET visits
    BY <1>1, Documents DEF Status
  <1>3. IsFiniteSet(A) /\ IsFiniteSet(B) /\ Cardinality(A) \in Nat /\ Cardinality(B) \in Nat
    BY <1>2, Documents DEF Count
  <1>4. Cardinality(A \cup B) = Cardinality(A) + Cardinality(B) - Cardinality(A \cap B)
    BY <1>3, FS_Union
  <1>5. Cardinality(A \cap B) = 0
    BY <1>2, FS_EmptySet
  <1>6. Cardinality(V) = Cardinality(A) + Cardinality(B)
    BY <1>2, <1>3, <1>4, <1>5
  <1> QED BY <1>1, <1>6 DEF Count

\* What the duration report says of the visits it is about.
LEMMA StatsCount ==
    ASSUME VisitInv, NEW V \in SUBSET visits
    PROVE  /\ DurationStats(V).completed = Count(Status("COMPLETED", V))
           /\ DurationStats(V).open = Count(Status("OPEN", V))
           /\ DurationStats(V).total = TotalDuration(Status("COMPLETED", V))
  <1> DEFINE done == Status("COMPLETED", V)
             key == [v \in done |-> v.duration]
  <1>1. IsFiniteSet(done) /\ key \in [done -> Nat]
    <2>1. done \in SUBSET visits
      BY DEF Status
    <2> HIDE DEF done
    <2> QED BY <2>1, Documents
  <1>2. Len(SortedBy(key)) = Cardinality(done)
    <2> HIDE DEF key, done
    <2> QED BY <1>1, SortedIs
  <1> QED BY <1>2 DEF DurationStats, Count

\* The most used gate is one of the gates and no gate is used more.
LEMMA MostUsedIs ==
    ASSUME NEW S, IsFiniteSet(S), S # {}, \A e \in S : e.gate \in Gates, NEW g, g = MostUsedGate(S)
    PROVE  g \in Gates /\ \A h \in Gates : GateUse(S)[h] <= GateUse(S)[g]
  <1>1. GateUse(S) \in [Gates -> Nat] /\ IsFiniteSet(Gates) /\ Gates # {} /\ Gates \subseteq Nat
    BY CountByGate, GatesNumbered
  <1>2. PICK m \in Gates : \A h \in Gates : GateUse(S)[h] <= GateUse(S)[m]
    BY <1>1, GreatestKey
  <1> DEFINE most == {h \in Gates : GateUse(S)[h] = GateUse(S)[m]}
             key == [h \in most |-> h]
  <1>3. most # {} /\ key \in [most -> Nat]
    BY <1>1, <1>2
  <1>4. PICK k \in most : \A h \in most : key[k] <= key[h]
    <2> HIDE DEF most, key
    <2> QED BY <1>3, LeastKey
  <1>5. \A h \in Gates : GateUse(S)[h] < GateUse(S)[k] \/ (GateUse(S)[h] = GateUse(S)[k] /\ k <= h)
    BY <1>1, <1>2, <1>4
  <1>6. /\ g \in Gates
        /\ \A h \in Gates : GateUse(S)[h] < GateUse(S)[g] \/ (GateUse(S)[h] = GateUse(S)[g] /\ g <= h)
    BY <1>4, <1>5 DEF MostUsedGate
  <1> QED BY <1>1, <1>6

Days(X) == {DayOf(x.at) : x \in X}

LEMMA DaysFinite ==
    ASSUME VisitInv
    PROVE  /\ \A S \in SUBSET events : IsFiniteSet(Days(S))
           /\ \A S \in SUBSET visits : IsFiniteSet(Days(S))
  <1>1. ASSUME NEW S, IsFiniteSet(S) PROVE IsFiniteSet(Days(S))
    <2> DEFINE key == [x \in S |-> DayOf(x.at)]
    <2>1. key = [x \in S |-> key[x]] /\ Days(S) = Range(key)
      BY DEF Days, Range
    <2> HIDE DEF key
    <2> QED BY <1>1, <2>1, RangeFinite
  <1> QED BY <1>1, Documents

\* A daily breakdown is one of all the events and visits it is about.
AddsUp(t, E, V) ==
    /\ DOMAIN t = Days(E) \cup Days(V)
    /\ \A day \in DOMAIN t :
         /\ t[day].started = Count({v \in V : DayOf(v.at) = day})
         /\ t[day].duration = TotalDuration({v \in V : DayOf(v.at) = day})
    /\ SumOver([day \in DOMAIN t |-> t[day].entries]) = Count(Kind("ENTRY", E))
    /\ SumOver([day \in DOMAIN t |-> t[day].exits]) = Count(Kind("EXIT", E))
    /\ SumOver([day \in DOMAIN t |-> t[day].started]) = Count(V)
    /\ SumOver([day \in DOMAIN t |-> t[day].duration]) = TotalDuration(V)

LEMMA DailySums ==
    ASSUME VisitInv, NEW E \in SUBSET events, NEW V \in SUBSET visits, NEW t, t = Daily(E, V)
    PROVE  AddsUp(t, E, V)
  <1>1. PICK D : D = Days(E) \cup Days(V)
    OBVIOUS
  <1>2. DOMAIN t = D
    BY <1>1 DEF Daily, Days
  <1>3. \A day \in D :
          /\ t[day].entries = Count({x \in Kind("ENTRY", E) : DayOf(x.at) = day})
          /\ t[day].exits = Count({x \in Kind("EXIT", E) : DayOf(x.at) = day})
          /\ t[day].started = Count({v \in V : DayOf(v.at) = day})
          /\ t[day].duration = TotalDuration({v \in V : DayOf(v.at) = day})
    <2> SUFFICES ASSUME NEW day \in D
                 PROVE  /\ t[day].entries = Count({x \in Kind("ENTRY", E) : DayOf(x.at) = day})
                        /\ t[day].exits = Count({x \in Kind("EXIT", E) : DayOf(x.at) = day})
                        /\ t[day].started = Count({v \in V : DayOf(v.at) = day})
                        /\ t[day].duration = TotalDuration({v \in V : DayOf(v.at) = day})
      OBVIOUS
    <2>1. \A kind : Kind(kind, {x \in E : DayOf(x.at) = day}) = {x \in Kind(kind, E) : DayOf(x.at) = day}
      BY DEF Kind
    <2>2. /\ t[day].entries = Count(Kind("ENTRY", {x \in E : DayOf(x.at) = day}))
          /\ t[day].exits = Count(Kind("EXIT", {x \in E : DayOf(x.at) = day}))
          /\ t[day].started = Count({v \in V : DayOf(v.at) = day})
          /\ t[day].duration = TotalDuration({v \in V : DayOf(v.at) = day})
      BY <1>1 DEF Daily, Days
    <2> QED BY <2>1, <2>2
  <1>4. IsFiniteSet(D)
    BY <1>1, DaysFinite, FS_Union
  <1>5. \A kind : /\ IsFiniteSet(Kind(kind, E))
                  /\ \A x \in Kind(kind, E) : DayOf(x.at) \in D
    <2>1. \A kind : Kind(kind, E) \in SUBSET events /\ Kind(kind, E) \subseteq E
      BY DEF Kind
    <2> QED BY <1>1, <2>1, Documents DEF Days
  <1>6. IsFiniteSet(V) /\ \A v \in V : DayOf(v.at) \in D /\ v.duration \in Nat
    BY <1>1, Documents DEF Days
  <1>7. \A kind : SumOver([day \in D |-> Count({x \in Kind(kind, E) : DayOf(x.at) = day})]) = Count(Kind(kind, E))
    BY <1>4, <1>5, CountByDay
  <1>8. SumOver([day \in D |-> Count({v \in V : DayOf(v.at) = day})]) = Count(V)
    BY <1>4, <1>6, CountByDay
  <1>9. SumOver([day \in D |-> TotalDuration({v \in V : DayOf(v.at) = day})]) = TotalDuration(V)
    BY <1>4, <1>6, DurationByDay
  <1>10. /\ [day \in D |-> t[day].entries] = [day \in D |-> Count({x \in Kind("ENTRY", E) : DayOf(x.at) = day})]
         /\ [day \in D |-> t[day].exits] = [day \in D |-> Count({x \in Kind("EXIT", E) : DayOf(x.at) = day})]
         /\ [day \in D |-> t[day].started] = [day \in D |-> Count({v \in V : DayOf(v.at) = day})]
         /\ [day \in D |-> t[day].duration] = [day \in D |-> TotalDuration({v \in V : DayOf(v.at) = day})]
    BY <1>3
  <1> QED BY <1>1, <1>2, <1>3, <1>7, <1>8, <1>9, <1>10 DEF AddsUp

\* Whoever has an event has a profile when no call is at work and none has failed.
LEMMA EverybodyKnown ==
    ASSUME VisitInv, ProfileAgrees, Quiet, NEW e \in events
    PROVE  profile[e.who] # NoProfile
  <1>1. e.who \in Visitors /\ e.kind \in {"ENTRY", "EXIT"} /\ e.who \notin disturbed /\ InFlight(e.who) = {}
    BY Documents DEF Quiet, InFlight
  <1>2. /\ profile[e.who].entries = SavedOf(e.who, "ENTRY")
        /\ profile[e.who].exits = SavedOf(e.who, "EXIT")
    BY <1>1 DEF ProfileAgrees
  <1>3. SavedOf(e.who, e.kind) # 0
    <2>1. PICK S : S = {f \in events : f.who = e.who /\ f.kind = e.kind}
      OBVIOUS
    <2>2. S \in SUBSET events /\ e \in S
      BY <2>1
    <2>3. IsFiniteSet(S)
      BY <2>2, Documents
    <2> QED BY <2>1, <2>2, <2>3, FS_EmptySet DEF SavedOf
  <1> QED BY <1>1, <1>2, <1>3 DEF NoProfile

\* The reports about the venue.
LEMMA VenueAgrees ==
    ASSUME VisitInv, HeldInv, ProfileAgrees, NEW r \in Ranges
    PROVE  VenueReportsAgree(r)
  <1>1. PICK E, V, all : E = EventsIn(r) /\ V = VisitsIn(r) /\ all = VenueSummary(r)
    OBVIOUS
  <1>2. E \in SUBSET events /\ V \in SUBSET visits
    BY <1>1 DEF EventsIn, VisitsIn
  <1>3. PICK t : t = Daily(E, V)
    OBVIOUS
  <1>4. /\ SumOver([day \in DOMAIN t |-> t[day].entries]) = Count(Kind("ENTRY", E))
        /\ SumOver([day \in DOMAIN t |-> t[day].started]) = Count(V)
        /\ SumOver([day \in DOMAIN t |-> t[day].duration]) = TotalDuration(V)
        /\ DOMAIN t = Days(E) \cup Days(V)
    <2>1. AddsUp(t, E, V)
      BY <1>2, <1>3, DailySums
    <2> QED BY <2>1 DEF AddsUp
  <1>5. /\ all.trends = t /\ all.overview = VenueOverview(r)
        /\ all.gates = GateStats(E) /\ all.durations = DurationStats(V)
    BY <1>1, <1>3 DEF VenueSummary, VenueTrends
  <1>6. PICK o : o = VenueOverview(r)
    OBVIOUS
  <1>7. /\ o.unique = Count(Active(r)) /\ o.new = Count(Known(r) \ Returning(r))
        /\ o.returning = Count(Returning(r))
        /\ o.entries = Count(Kind("ENTRY", E)) /\ o.exits = Count(Kind("EXIT", E))
        /\ o.visits = Count(V) /\ o.completed = Count(Status("COMPLETED", V))
        /\ o.open = Count(Status("OPEN", V)) /\ o.duration = TotalDuration(V)
    BY <1>1, <1>6 DEF VenueOverview
  <1>8. /\ all.durations.completed = Count(Status("COMPLETED", V))
        /\ all.durations.open = Count(Status("OPEN", V)) /\ all.durations.total = TotalDuration(V)
    BY <1>2, <1>5, StatsCount, OpenWeighNothing
  <1>9. o.visits = o.completed + o.open
    BY <1>2, <1>7, CountByStatus
  <1>10. \A kind : /\ IsFiniteSet(Kind(kind, E)) /\ Count(Kind(kind, E)) \in Nat
                   /\ \A x \in Kind(kind, E) : x.gate \in Gates
    <2>1. \A kind : Kind(kind, E) \in SUBSET events
      BY <1>2 DEF Kind
    <2> QED BY <2>1, Documents
  <1>11. \A kind : GateUse(Kind(kind, E)) \in [Gates -> Nat] /\ SumOver(GateUse(Kind(kind, E))) = Count(Kind(kind, E))
    BY <1>10, CountByGate
  <1>12. /\ all.gates.entries = GateUse(Kind("ENTRY", E)) /\ all.gates.exits = GateUse(Kind("EXIT", E))
         /\ all.gates.entryGate = MostUsedGate(Kind("ENTRY", E))
    BY <1>5 DEF GateStats
  <1>13. o.entries > 0 => o.entries <= Count(Gates) * all.gates.entries[all.gates.entryGate]
    <2>1. PICK S, g, use : S = Kind("ENTRY", E) /\ g = MostUsedGate(S) /\ use = GateUse(S)
      OBVIOUS
    <2> SUFFICES ASSUME Count(S) > 0 PROVE Count(S) <= Count(Gates) * use[g]
      BY <1>7, <1>12, <2>1
    <2>2. IsFiniteSet(S) /\ S # {} /\ \A x \in S : x.gate \in Gates
      BY <1>10, <2>1, FS_EmptySet DEF Count
    <2>3. g \in Gates /\ \A h \in Gates : use[h] <= use[g]
      BY <2>1, <2>2, MostUsedIs
    <2>4. use \in [Gates -> Nat] /\ SumOver(use) = Count(S) /\ IsFiniteSet(Gates)
      BY <1>11, <2>1, GatesNumbered
    <2>5. SumOver(use) = Sums(use)[Gates]
      BY <2>4, SumOverIs
    <2>6. use[g] \in Nat
      BY <2>3, <2>4
    <2>7. Sums(use)[Gates] <= Cardinality(Gates) * use[g]
      BY <2>3, <2>4, <2>6, SumBound
    <2> QED BY <2>4, <2>5, <2>7 DEF Count
  <1>14. o.unique <= SumOver([day \in DOMAIN t |-> Count(VisitorsOn(r, day))])
    <2> DEFINE D == Days(E) \cup Days(V)
               key == [x \in E |-> DayOf(x.at)]
               who == [x \in E |-> x.who]
               f == [day \in D |-> Count(VisitorsOn(r, day))]
    <2>1. IsFiniteSet(E) /\ IsFiniteSet(D) /\ key \in [E -> D] /\ who \in [E -> Visitors]
      BY <1>2, Documents, DaysFinite, FS_Union DEF Days
    <2>2. \A d \in D : /\ VisitorsOn(r, d) = {who[x] : x \in Part(E, key, {d})}
                       /\ Part(E, key, {d}) \in SUBSET E
      BY <1>1 DEF VisitorsOn, Part
    <2>3. \A d \in D : IsFiniteSet(VisitorsOn(r, d)) /\ Cardinality(VisitorsOn(r, d)) \in Nat
      <3> SUFFICES ASSUME NEW d \in D PROVE IsFiniteSet(VisitorsOn(r, d)) /\ Cardinality(VisitorsOn(r, d)) \in Nat
        OBVIOUS
      <3>1. PICK P : P = Part(E, key, {d})
        OBVIOUS
      <3>2. PICK w : w = [x \in P |-> who[x]]
        OBVIOUS
      <3>3. IsFiniteSet(P) /\ w = [x \in P |-> w[x]]
        BY <2>1, <2>2, <3>1, <3>2, FS_Subset
      <3>4. VisitorsOn(r, d) = Range(w)
        BY <2>2, <3>1, <3>2 DEF Range
      <3> QED BY <3>3, <3>4, RangeFinite
    <2>4. f \in [D -> Nat] /\ \A d \in D : f[d] = Cardinality({who[x] : x \in Part(E, key, {d})})
      BY <2>2, <2>3 DEF Count
    <2>5. Active(r) = {who[x] : x \in E}
      BY <1>1 DEF Active
    <2>6. f = [day \in DOMAIN t |-> Count(VisitorsOn(r, day))]
      BY <1>4
    <2> HIDE DEF f, who, key, D
    <2>8. Distinct(E, who, D, key, f)
      BY <2>1, <2>4 DEF Distinct
    <2>7. Cardinality({who[x] : x \in E}) <= SumOver(f)
      BY <2>8, DistinctByKey
    <2> QED BY <1>7, <2>5, <2>6, <2>7 DEF Count
  <1>15. o.new + o.returning <= o.unique /\ (Quiet => o.new + o.returning = o.unique)
    <2>1. PICK A, K, R : A = Active(r) /\ K = Known(r) /\ R = Returning(r)
      OBVIOUS
    <2>2. K \in SUBSET A /\ R \in SUBSET K
      BY <2>1 DEF Known, Returning
    <2>3. IsFiniteSet(A)
      <3> DEFINE who == [x \in E |-> x.who]
      <3>1. who = [x \in E |-> who[x]] /\ A = Range(who) /\ IsFiniteSet(E)
        BY <1>1, <1>2, <2>1, Documents DEF Active, Range
      <3> HIDE DEF who
      <3> QED BY <3>1, RangeFinite
    <2>4. IsFiniteSet(K) /\ IsFiniteSet(R) /\ IsFiniteSet(K \ R) /\ Cardinality(K) <= Cardinality(A)
      BY <2>2, <2>3, FS_Subset
    <2>5. PICK a, k, n, m \in Nat : /\ a = Cardinality(A) /\ k = Cardinality(K)
                                    /\ n = Cardinality(K \ R) /\ m = Cardinality(R)
      BY <2>3, <2>4, FS_CardinalityType
    <2>6. (K \ R) \cup R = K /\ Cardinality((K \ R) \cap R) = 0
      <3>1. (K \ R) \cup R = K /\ (K \ R) \cap R = {}
        BY <2>2
      <3> QED BY <3>1, FS_EmptySet
    <2>7. Cardinality((K \ R) \cup R) = Cardinality(K \ R) + Cardinality(R) - Cardinality((K \ R) \cap R)
      BY <2>4, FS_Union
    <2>8. k = n + m
      BY <2>5, <2>6, <2>7
    <2>9. Quiet => K = A
      <3> SUFFICES ASSUME Quiet, NEW p \in A PROVE p \in K
        BY <2>2
      <3>1. PICK e \in events : e.who = p
        BY <1>1, <1>2, <2>1 DEF Active
      <3> QED BY <2>1, <3>1, EverybodyKnown DEF Known
    <2>10. o.unique = a /\ o.new = n /\ o.returning = m
      BY <1>7, <2>1, <2>5 DEF Count
    <2> QED BY <2>4, <2>5, <2>8, <2>9, <2>10
  <1> QED
    <2>1. all.overview = o /\ all.trends = t
      BY <1>5, <1>6
    <2> QED
      BY <1>1, <1>4, <1>7, <1>8, <1>9, <1>11, <1>12, <1>13, <1>14, <1>15, <2>1 DEF VenueReportsAgree

\* An answer is the one asked for, if any.
LEMMA AnswerIs ==
    ASSUME NEW p, NEW r, NEW a, NEW x \in Range(Answered(p, r, a))
    PROVE  x = a /\ profile[p] # NoProfile
  BY DEF Range, Answered

\* The reports about a visitor.
LEMMA VisitorAgrees ==
    ASSUME VisitInv, HeldInv, NEW p \in Visitors, NEW r \in Ranges
    PROVE  VisitorReportsAgree(p, r)
  <1>1. PICK E, V : E = Of(p, EventsIn(r)) /\ V = Of(p, VisitsIn(r))
    OBVIOUS
  <1>2. E \in SUBSET events /\ V \in SUBSET visits
    BY <1>1 DEF EventsIn, VisitsIn, Of
  <1> SUFFICES ASSUME NEW daily, daily = Daily(E, V), NEW line, line = VisitorTimeline(p, r),
                      NEW d, d = DurationStats(V), NEW g, g = GateStats(E)
               PROVE  /\ DOMAIN daily = DOMAIN line
                      /\ \A day \in DOMAIN daily :
                           /\ daily[day].started = Count(line[day].visits)
                           /\ daily[day].duration = line[day].duration
                           /\ line[day].first <= line[day].last
                      /\ d.total = SumOver([day \in DOMAIN line |-> line[day].duration])
                      /\ SumOver(g.exits) = SumOver([day \in DOMAIN daily |-> daily[day].exits])
    <2>1. \A x \in Range(DailyAnswer(p, r)) : x = Daily(E, V)
      BY <1>1, AnswerIs DEF DailyAnswer, VisitorDaily
    <2>2. \A x \in Range(TimelineAnswer(p, r)) : x = VisitorTimeline(p, r)
      BY AnswerIs DEF TimelineAnswer
    <2>3. \A x \in Range(DurationAnswer(p, r)) : x = DurationStats(V)
      BY <1>1, AnswerIs DEF DurationAnswer
    <2>4. \A x \in Range(GateAnswer(p, r)) : x = GateStats(E)
      BY <1>1, AnswerIs DEF GateAnswer
    <2> QED BY <2>1, <2>2, <2>3, <2>4 DEF VisitorReportsAgree
  <1>3. AddsUp(daily, E, V)
    BY <1>2, DailySums
  <1>4. PICK D : D = Days(E) \cup Days(V)
    OBVIOUS
  <1>5. D = {DayOf(x.at) : x \in E \cup V}
    BY <1>4 DEF Days
  <1>6. DOMAIN line = D /\ DOMAIN daily = D
    BY <1>1, <1>3, <1>4, <1>5 DEF VisitorTimeline, AddsUp
  <1>7. ASSUME NEW day \in D
        PROVE  /\ line[day].visits = {v \in V : DayOf(v.at) = day}
               /\ line[day].duration = TotalDuration(Status("COMPLETED", {v \in V : DayOf(v.at) = day}))
               /\ line[day].duration = TotalDuration({v \in V : DayOf(v.at) = day})
               /\ line[day].first <= line[day].last
    <2>1. PICK A, B : A = {e \in E : DayOf(e.at) = day} /\ B = {v \in V : DayOf(v.at) = day}
      OBVIOUS
    <2>2. A \in SUBSET events /\ B \in SUBSET visits
      BY <1>2, <2>1
    <2>3. PICK seen : seen = IF A # {} THEN {e.at : e \in A} ELSE {Min({v.at : v \in B})}
      OBVIOUS
    <2>4. /\ line[day].visits = B /\ line[day].duration = TotalDuration(Status("COMPLETED", B))
          /\ line[day].first = Min(seen) /\ line[day].last = Max(seen)
      BY <1>1, <1>5, <2>1, <2>3 DEF VisitorTimeline
    <2>5. A # {} \/ B # {}
      BY <1>5, <2>1
    <2>6. ASSUME NEW X, X # {}, IsFiniteSet(X), \A x \in X : x.at \in Nat, NEW K, K = {x.at : x \in X}
          PROVE  Min(K) \in Nat /\ Min(K) <= Max(K)
      <3> DEFINE key == [x \in X |-> x.at]
      <3>1. key \in [X -> Nat] /\ K = {key[x] : x \in X}
        BY <2>6
      <3> HIDE DEF key
      <3>2. /\ Min(K) \in K /\ \A x \in X : Min(K) <= key[x]
            /\ Max(K) \in K /\ \A x \in X : key[x] <= Max(K)
        BY <2>6, <3>1, Bounds
      <3> QED BY <3>1, <3>2
    <2>7. Min(seen) <= Max(seen)
      <3>1. CASE A # {}
        <4>1. IsFiniteSet(A) /\ \A x \in A : x.at \in Nat
          BY <2>2, Documents
        <4> QED BY <2>3, <2>6, <3>1, <4>1
      <3>2. CASE A = {}
        <4>1. IsFiniteSet(B) /\ \A x \in B : x.at \in Nat
          BY <2>2, Documents
        <4>2. PICK n \in Nat : n = Min({v.at : v \in B})
          BY <2>5, <2>6, <3>2, <4>1
        <4>3. seen = {n}
          BY <2>3, <3>2, <4>2
        <4> QED BY <4>3 DEF Min, Max
      <3> QED BY <3>1, <3>2
    <2>8. TotalDuration(Status("COMPLETED", B)) = TotalDuration(B)
      BY <2>2, OpenWeighNothing
    <2> QED BY <2>1, <2>4, <2>7, <2>8
  <1>8. \A day \in D : /\ daily[day].started = Count({v \in V : DayOf(v.at) = day})
                       /\ daily[day].duration = TotalDuration({v \in V : DayOf(v.at) = day})
    BY <1>3, <1>6 DEF AddsUp
  <1>9. d.total = SumOver([day \in D |-> line[day].duration])
    <2>1. d.total = TotalDuration(V)
      BY <1>2, StatsCount, OpenWeighNothing
    <2>2. [day \in D |-> line[day].duration] = [day \in D |-> daily[day].duration]
      BY <1>7, <1>8
    <2> QED BY <1>3, <1>6, <2>1, <2>2 DEF AddsUp
  <1>10. SumOver(g.exits) = SumOver([day \in D |-> daily[day].exits])
    <2>1. PICK X : X = Kind("EXIT", E)
      OBVIOUS
    <2>2. X \in SUBSET events
      BY <1>2, <2>1 DEF Kind
    <2>3. SumOver(GateUse(X)) = Count(X)
      BY <2>2, Documents, CountByGate
    <2> QED BY <1>3, <1>6, <2>1, <2>3 DEF AddsUp, GateStats
  <1>11. /\ [day \in DOMAIN line |-> line[day].duration] = [day \in D |-> line[day].duration]
         /\ [day \in DOMAIN daily |-> daily[day].exits] = [day \in D |-> daily[day].exits]
    BY <1>6
  <1>12. \A day \in D : /\ daily[day].started = Count(line[day].visits)
                        /\ daily[day].duration = line[day].duration
                        /\ line[day].first <= line[day].last
    BY <1>7, <1>8
  <1> QED BY <1>6, <1>9, <1>10, <1>11, <1>12

\* Of a visitor without a fault, there are as many visits as were opened.
LEMMA VisitsOpened ==
    ASSUME VisitInv, HeldInv, NEW p \in Visitors \ disturbed
    PROVE  Count(Of(p, visits)) = opened[p]
  <1> DEFINE V == Of(p, visits)
             no == [v \in V |-> v.no]
  <1>1. opened[p] \in Nat /\ \A v \in V : v.no \in 1..opened[p]
    BY DEF VisitInv, TypeOK, Numbered, HeldInv, Of, VisitType
  <1>2. \A v, w \in V : v.no = w.no => v = w
    BY DEF VisitInv, Numbered, Of
  <1>3. \A n \in 1..opened[p] : \E v \in V : v.no = n
    BY DEF HeldInv, Held, Of
  <1>4. IsFiniteSet(V)
    BY Documents DEF Of
  <1> HIDE DEF V
  <1>5. no \in Bijection(V, 1..opened[p])
    BY <1>1, <1>2, <1>3 DEF Bijection, Injection, IsInjective, Surjection
  <1>6. Cardinality(1..opened[p]) = Cardinality(V)
    BY <1>4, <1>5, FS_Bijection DEF ExistsBijection
  <1> QED BY <1>1, <1>6, FS_Interval DEF Count, V

\* Two pages that follow each other are one.
LEMMA PagesMeet ==
    ASSUME NEW S, NEW s \in Seq(S)
    PROVE  Page(s, 2, 0) \o Page(s, 2, 2) = Page(s, 4, 0)
  <1>1. PICK n \in Nat : n = Len(s)
    OBVIOUS
  <1>2. PICK a, b \in Nat : a = (IF 2 > n THEN n ELSE 2) /\ b = (IF 4 > n THEN n ELSE 4)
    OBVIOUS
  <1>3. /\ Page(s, 2, 0) = SubSeq(s, 1, a) /\ Page(s, 2, 2) = SubSeq(s, 3, b)
        /\ Page(s, 4, 0) = SubSeq(s, 1, b)
    BY <1>1, <1>2 DEF Page
  <1>4. SubSeq(s, 1, a) \o SubSeq(s, a + 1, b) = SubSeq(s, 1, b)
    <2>1. 1 \in 1..Len(s) + 1 /\ a \in 1 - 1..Len(s) /\ b \in a..Len(s)
      BY <1>1, <1>2
    <2> QED BY <2>1, ConcatAdjacentSubSeq
  <1>5. SubSeq(s, 3, b) = SubSeq(s, a + 1, b)
    <2>1. CASE a = 2
      BY <2>1
    <2>2. CASE a # 2
      <3>1. a \in Int /\ b \in Int /\ b < 3 /\ b < a + 1
        BY <1>2, <2>2
      <3>2. SubSeq(s, 3, b) = <<>> /\ SubSeq(s, a + 1, b) = <<>>
        BY <3>1, SubSeqEmpty
      <3> QED BY <3>2
    <2> QED BY <2>1, <2>2
  <1> QED BY <1>3, <1>4, <1>5

LEMMA AtLeastBoth ==
    ASSUME NEW a \in Int, NEW b \in Int
    PROVE  Max({a, b}) \in Int /\ a <= Max({a, b}) /\ b <= Max({a, b})
  <1>1. \E x \in {a, b} : \A y \in {a, b} : x >= y
    OBVIOUS
  <1>2. Max({a, b}) \in {a, b} /\ \A y \in {a, b} : Max({a, b}) >= y
    BY <1>1 DEF Max
  <1> QED BY <1>2

\* Of a visitor alone, each visit lies between the first event and now.
LEMMA DaysFit ==
    ASSUME VisitInv, HeldInv, ProfileAgrees, Quiet, NEW p \in Visitors \ crowded
    PROVE  VisitBounds(p).days <= Max({1, DayOf(Horizon) - DayOf(profile[p].first) + 1})
  <1>1. PICK V, first, days : V = Of(p, visits) /\ first = profile[p].first /\ days = VisitBounds(p).days
    OBVIOUS
  <1>2. /\ V \in SUBSET visits /\ days = Cardinality(Days(V)) /\ first \in Nat /\ Horizon \in Nat
        /\ DayOf(first) \in Nat /\ DayOf(Horizon) \in Nat
    BY <1>1, HistoryBounds, DaysAreNumbers DEF Of, VisitBounds, Days, Count, VisitInv, TypeOK, ProfileType
  <1>3. PICK n \in Int : n = DayOf(Horizon) - DayOf(first) + 1
    BY <1>2
  <1>4. PICK m : m = Max({1, n})
    OBVIOUS
  <1>7. m \in Int /\ 1 <= m /\ n <= m
    <2>1. Max({1, n}) \in Int /\ 1 <= Max({1, n}) /\ n <= Max({1, n})
      BY AtLeastBoth
    <2> QED BY <1>4, <2>1
  <1>5. CASE V = {}
    <2>1. Days(V) = {}
      BY <1>5 DEF Days
    <2>2. days = 0
      BY <1>2, <2>1, FS_EmptySet
    <2> QED BY <1>1, <1>3, <1>4, <1>7, <2>2
  <1>6. CASE V # {}
    <2>1. p \in Visitors \ disturbed /\ InFlight(p) = {} /\ \A k \in Calls : call[k].phase # "save"
      BY DEF Quiet, InFlight
    <2>2. ASSUME NEW v \in V PROVE DayOf(v.at) \in DayOf(first)..DayOf(Horizon)
      <3>1. v \in visits /\ v.who = p
        BY <1>1 DEF Of
      <3>2. PICK e \in Feed : e.who = p /\ e.at = v.at /\ e \in events
        BY <2>1, <3>1 DEF HeldInv, Held, Taken
      <3>3. first <= v.at /\ v.at \in Nat /\ v.at <= Horizon
        BY <1>1, <2>1, <3>1, <3>2, Documents DEF ProfileAgrees
      <3> QED BY <1>2, <3>3, DaysAscend, DaysAreNumbers
    <2>3. Days(V) \in SUBSET (DayOf(first)..DayOf(Horizon))
      BY <2>2 DEF Days
    <2>4. DayOf(first) <= DayOf(Horizon)
      BY <1>2, <1>6, <2>2
    <2>5. IsFiniteSet(DayOf(first)..DayOf(Horizon)) /\ Cardinality(DayOf(first)..DayOf(Horizon)) = n
      BY <1>2, <1>3, <2>4, FS_Interval
    <2>6. days <= n /\ days \in Nat
      BY <1>2, <2>3, <2>5, FS_Subset, FS_CardinalityType
    <2> QED BY <1>1, <1>3, <1>4, <1>7, <2>6
  <1> QED BY <1>5, <1>6

\* The history begins with the last visit.
LEMMA LastFirst ==
    ASSUME VisitInv, NEW p \in Visitors,
           NEW page, page = Page(Reverse(Ordered(Of(p, visits))), 2, 0), page # <<>>
    PROVE  page[1].at = VisitBounds(p).last
  <1> DEFINE V == Of(p, visits)
             key == [v \in V |-> v.at]
  <1>0. PICK s : s = SortedBy(key)
    OBVIOUS
  <1>1. IsFiniteSet(V) /\ key \in [V -> Nat] /\ Ordered(V) = s
    <2>1. V \in SUBSET visits
      BY DEF Of
    <2> QED BY <1>0, <2>1, Documents DEF Ordered
  <1>2. V # {} => VisitBounds(p).last = Max({v.at : v \in V})
    BY DEF VisitBounds
  <1>3. {v.at : v \in V} = {key[v] : v \in V} /\ \A v \in V : key[v] = v.at
    OBVIOUS
  <1> HIDE DEF V, key
  <1>4. /\ s \in Seq(V) /\ Len(s) \in Nat
        /\ \A v \in V : \E i \in 1..Len(s) : s[i] = v
        /\ \A i, j \in 1..Len(s) : i < j => key[s[i]] <= key[s[j]]
    <2>1. /\ s \in Seq(V) /\ Len(s) = Cardinality(V) /\ Cardinality(V) \in Nat
          /\ \A v \in V : \E i \in 1..Len(s) : s[i] = v
          /\ \A i, j \in 1..Len(s) : i < j => key[s[i]] <= key[s[j]]
      BY <1>0, <1>1, SortedIs
    <2> QED BY <2>1
  <1>5. PICK n \in Nat, b \in Nat : n = Len(s) /\ b = IF 2 > n THEN n ELSE 2
    BY <1>4
  <1>6. PICK u : u = Reverse(s)
    OBVIOUS
  <1>7. u \in Seq(V) /\ Len(u) = n /\ (n > 0 => u[1] = s[n])
    BY <1>4, <1>5, <1>6 DEF Reverse
  <1>8. page = SubSeq(u, 1, b)
    BY <1>1, <1>5, <1>6, <1>7 DEF Page, V
  <1>9. \A i \in 1..b : u[i] \in V
    BY <1>5, <1>7
  <1>10. Len(page) = (IF 1 <= b THEN b - 1 + 1 ELSE 0) /\ \A i \in 1..b - 1 + 1 : page[i] = u[1 + i - 1]
    BY <1>8, <1>9, SubSeqProperties
  <1>11. b > 0
    <2> SUFFICES ASSUME b = 0 PROVE FALSE
      BY <1>5
    <2> QED BY <1>8, SubSeqEmpty
  <1>12. n > 0 /\ page[1] = s[n] /\ s[n] \in V
    BY <1>4, <1>5, <1>7, <1>10, <1>11
  <1>13. PICK m : m = Max({key[v] : v \in V})
    OBVIOUS
  <1>14. m \in {key[v] : v \in V} /\ \A v \in V : key[v] <= m
    BY <1>1, <1>12, <1>13, Bounds
  <1>15. PICK i \in 1..n : m = key[s[i]]
    BY <1>4, <1>5, <1>14
  <1>16. m <= key[s[n]]
    <2>1. CASE i = n
      BY <1>1, <1>12, <1>15, <2>1
    <2>2. CASE i # n
      BY <1>4, <1>5, <1>15, <2>2
    <2> QED BY <2>1, <2>2
  <1>17. m = key[s[n]]
    <2>1. key[s[n]] \in Nat /\ m \in Nat /\ key[s[n]] <= m
      BY <1>1, <1>12, <1>14
    <2> QED BY <1>16, <2>1
  <1> QED BY <1>2, <1>3, <1>12, <1>13, <1>17

\* The summary of a visitor.
LEMMA SummarySound ==
    ASSUME VisitInv, HeldInv, ProfileAgrees, NEW p \in Visitors
    PROVE  SummaryAgrees(p)
  <1>1. PICK V, E, line, r : V = Of(p, visits) /\ E = Of(p, events) /\ line = Ordered(E) /\ r = AllTime
    OBVIOUS
  <1>2. V \in SUBSET visits /\ E \in SUBSET events
    BY <1>1 DEF Of
  <1>3. line \in Seq(E) /\ Len(line) = Cardinality(E)
    <2> DEFINE key == [x \in E |-> x.at]
    <2>1. IsFiniteSet(E) /\ key \in [E -> Nat] /\ line = SortedBy(key)
      BY <1>1, <1>2, Documents DEF Ordered
    <2> HIDE DEF key
    <2> QED BY <2>1, SortedIs
  <1>4. ASSUME NEW s \in Range(SummaryAnswer(p)), NEW f \in Range(FrequencyAnswer(p, Horizon)),
               NEW h \in Range(HistoryAnswer(p, 2))
        PROVE  /\ <<s.bounds.completed, s.bounds.open>> = <<s.stats.completed, s.stats.open>>
               /\ (Quiet /\ p \notin crowded) =>
                    f.active <= f.span /\ (s.returning <=> Count(Of(p, visits)) > 1)
               /\ h.events \o Page(line, 2, 2) = Page(line, 4, 0)
               /\ h.visits # <<>> => h.visits[1].at = s.bounds.last
    <2>1. /\ s.bounds = VisitBounds(p) /\ s.stats = DurationStats(V)
          /\ s.returning = (profile[p].visits > 1)
      <3>1. s = [visits |-> profile[p].visits, returning |-> profile[p].visits > 1,
                 entries |-> profile[p].entries, exits |-> profile[p].exits,
                 stats |-> DurationStats(Of(p, visits)), bounds |-> VisitBounds(p)]
        BY <1>4, AnswerIs DEF SummaryAnswer
      <3> QED BY <1>1, <3>1
    <2>2. f.active = VisitBounds(p).days /\ f.span = Max({1, DayOf(Horizon) - DayOf(profile[p].first) + 1})
      BY <1>4, AnswerIs DEF FrequencyAnswer
    <2>3. h.visits = Page(Reverse(Ordered(V)), 2, 0) /\ h.events = Page(line, 2, 0)
      BY <1>1, <1>4, AnswerIs DEF HistoryAnswer
    <2>4. <<s.bounds.completed, s.bounds.open>> = <<s.stats.completed, s.stats.open>>
      BY <1>1, <1>2, <2>1, StatsCount DEF VisitBounds
    <2>5. ASSUME Quiet, p \notin crowded
          PROVE  f.active <= f.span /\ (s.returning <=> Count(Of(p, visits)) > 1)
      <3>1. p \notin disturbed /\ InFlight(p) = {}
        BY <2>5 DEF Quiet, InFlight
      <3>2. profile[p].visits = Count(Of(p, visits))
        BY <2>5, <3>1, VisitsOpened DEF ProfileAgrees
      <3> QED BY <2>1, <2>2, <2>5, <3>2, DaysFit
    <2>6. h.events \o Page(line, 2, 2) = Page(line, 4, 0)
      BY <1>3, <2>3, PagesMeet
    <2>7. h.visits # <<>> => h.visits[1].at = s.bounds.last
      BY <1>1, <2>1, <2>3, LastFirst
    <2> QED BY <2>4, <2>5, <2>6, <2>7
  <1>5. ASSUME Quiet, line # <<>> PROVE SummaryAnswer(p) # <<>>
    <2>1. E # {}
      <3>1. Len(line) # 0
        BY <1>3, <1>5
      <3> QED BY <1>3, <3>1, FS_EmptySet
    <2>2. profile[p] # NoProfile
      <3>1. PICK e \in events : e.who = p
        BY <1>1, <2>1 DEF Of
      <3> QED BY <1>5, <3>1, EverybodyKnown
    <2> QED BY <2>2, HistoryBounds DEF SummaryAnswer, Answered, AllTime
  <1> QED BY <1>1, <1>4, <1>5 DEF SummaryAgrees

\* What different reports say of the same documents agrees.
THEOREM ReportsSound == Spec => []ReportsAgree
  <1>1. Init => VisitInv /\ HeldInv /\ ProfileInv
    <2> SUFFICES ASSUME Init PROVE VisitInv /\ HeldInv /\ ProfileInv
      OBVIOUS
    <2>1. visits = {}
      BY DEF Init, HistoryInit
    <2>2. VisitInv
      BY <2>1, TypeInit, FS_EmptySet DEF Init, VisitInv, Numbered, OneOpen
    <2> QED BY <2>2, HeldInit, ProfileInit DEF Init
  <1>2. VisitInv /\ HeldInv /\ ProfileInv /\ [Next]_allVars => VisitInv' /\ HeldInv' /\ ProfileInv'
    BY ReportsRead, VisitNext, HeldNext, ProfileNext DEF ProfileInv
  <1>3. VisitInv /\ HeldInv /\ ProfileAgrees => ReportsAgree
    BY VenueAgrees, VisitorAgrees, SummarySound DEF ReportsAgree
  <1>4. Spec => []ProfileAgrees
    BY Accounts
  <1> QED BY <1>1, <1>2, <1>3, <1>4, PTL DEF Spec
=============================================================================
