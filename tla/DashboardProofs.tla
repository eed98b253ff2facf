---------------------------- MODULE DashboardProofs ----------------------------
(***************************************************************************)
(* Proofs about what the dashboards of a venue are given, for any venues,  *)
(* gates, handlers, thresholds and bounds. First the live feed: the pools  *)
(* hold the live connections and no others, and a tab that everything has  *)
(* reached shows the session of its venue. Then the insight: the alert of  *)
(* a full venue, the predictions that are stored, the levels of risk, the  *)
(* rates of the windows, and the grounds of what the dashboard advises.    *)
(***************************************************************************)
EXTENDS Realtime, Insight, FiniteSetTheorems, WellFoundedInduction, TLAPS

States == {"unused", "connecting", "open", "closing", "closed"}
Phases == {"idle", "take", "send", "prune"}
Message == [type : {"start", "stop"}, venue : Venues, session : Nat]
Delivered == [type : {"initial_state", "start", "stop"}, session : Nat]
Job == [phase : Phases, message : Message \cup {<<>>},
        left : SUBSET (1..Global), dead : SUBSET (1..Global)]

ClientTypeOK ==
    /\ venue \in Venues \cup {NoVenue} /\ reconnect \in Venues \cup {NoVenue}
    /\ socket \in 0..MaxSockets
    /\ isManuallyClosed \in BOOLEAN
    /\ readyState \in [Sockets -> States]
    /\ at \in [Sockets -> Venues]
    /\ up \in [Sockets -> BOOLEAN]
    /\ inbox \in [Sockets -> Seq(Delivered)]
    /\ view \in Nat

ServerTypeOK ==
    /\ endpoint \in [Sockets -> {"none", "accepted", "registered", "over"}]
    /\ pool \in [Venues -> SUBSET Sockets]
    /\ globals \subseteq {Global} /\ globalUp \in BOOLEAN
    /\ lock \in Jobs \cup {Nobody}
    /\ job \in [Jobs -> Job]
    /\ \A b \in Jobs : job[b].phase # "idle" => job[b].message \in Message
    /\ bus \in Seq(Message)
    /\ live \in [Venues -> Nat]
    /\ changes \in Nat

\* The sorts of the feed: what each ref, socket, pool, job and message may hold.
FeedTypeOK == ClientTypeOK /\ ServerTypeOK

------------------------------------------------------------------------------
(* The first of a set of sockets. *)

\* A set of numbers that is not empty has a least.
LEMMA LeastNumber ==
    ASSUME NEW T \in SUBSET Nat, T # {}
    PROVE  \E n \in T : \A m \in T : n <= m
  <1>1. PICK R : IsWellFoundedOn(R, Nat) /\ R = OpToRel(<, Nat)
    BY NatLessThanWellFounded
  <1>2. PICK n \in T : \A m \in T : ~(<<m, n>> \in R)
    BY <1>1, WFMin
  <1>3. \A x, y \in Nat : y < x => <<y, x>> \in R
    BY <1>1 DEF OpToRel
  <1>4. \A m \in T : ~(m < n)
    BY <1>2, <1>3
  <1> QED BY <1>4

\* So First chooses a member.
LEMMA FirstIsMember ==
    ASSUME NEW T \in SUBSET (1..Global), T # {}
    PROVE  First(T) \in T
  <1>1. T \in SUBSET Nat
    BY SocketBounds DEF Global
  <1> QED BY <1>1, LeastNumber DEF First

\* And connect takes a socket that was not used before.
LEMMA NewSocket ==
    ASSUME Unused # {}
    PROVE  (CHOOSE s \in Unused : \A t \in Unused : s <= t) \in Unused
  <1>1. Unused \in SUBSET Nat
    BY SocketBounds DEF Unused, Sockets
  <1> QED BY <1>1, LeastNumber

\* What connect does, with the socket it takes named.
LEMMA Connecting ==
    ASSUME NEW v, ConnectsTo(v)
    PROVE  \E s \in Sockets :
               /\ readyState[s] = "unused" /\ socket' = s
               /\ readyState' = [CurrentShut EXCEPT ![s] = "connecting"]
               /\ at' = [at EXCEPT ![s] = v]
               /\ isManuallyClosed' = FALSE
  BY NewSocket DEF ConnectsTo, Unused

------------------------------------------------------------------------------
(* Types. *)

LEMMA Constants ==
    /\ MaxSockets \in Nat /\ MaxSockets > 0 /\ Global \in Nat /\ Global = MaxSockets + 1
    /\ Sockets = 1..MaxSockets /\ Global \notin Sockets /\ 0 \notin Sockets
    /\ 1..Global = Sockets \cup {Global}
    /\ FirstVenue \in Venues /\ NoVenue \notin Venues
    /\ Listener \in Jobs /\ Nobody \notin Jobs /\ Listener \notin Handlers /\ Handlers \subseteq Jobs
    /\ Jobs = Handlers \cup {Listener}
  BY SocketBounds, FirstIsAVenue, NoVenueIsNone, NamesAreNone
     DEF Sockets, Global, Jobs, Listener, Nobody

LEMMA FeedTypeInit == FeedInit => FeedTypeOK
  <1> SUFFICES ASSUME FeedInit PROVE FeedTypeOK
    OBVIOUS
  <1>1. Idle \in Job /\ Idle.phase = "idle"
    BY DEF Idle, Job, Phases
  <1>2. ClientTypeOK
    <2>1. ClientInit
      BY DEF FeedInit
    <2>2. /\ readyState \in [Sockets -> States] /\ up \in [Sockets -> BOOLEAN]
          /\ inbox \in [Sockets -> Seq(Delivered)] /\ isManuallyClosed \in BOOLEAN
      <3>1. readyState \in [Sockets -> States]
        BY <2>1 DEF ClientInit, States
      <3>2. up \in [Sockets -> BOOLEAN]
        BY <2>1 DEF ClientInit
      <3>3. inbox \in [Sockets -> Seq(Delivered)]
        BY <2>1 DEF ClientInit
      <3>4. isManuallyClosed \in BOOLEAN
        BY <2>1 DEF ClientInit
      <3> QED BY <3>1, <3>2, <3>3, <3>4
    <2>3. venue \in Venues /\ socket \in 0..MaxSockets /\ at \in [Sockets -> Venues]
      BY <2>1, SocketBounds, FirstIsAVenue DEF ClientInit
    <2>4. reconnect = NoVenue /\ view = 0
      BY <2>1 DEF ClientInit
    <2> QED BY <2>2, <2>3, <2>4 DEF ClientTypeOK
  <1>3. ServerTypeOK
    BY <1>1, Constants DEF FeedInit, ServerTypeOK
  <1> QED BY <1>2, <1>3 DEF FeedTypeOK

LEMMA FeedTypeNext == FeedTypeOK /\ [FeedNext]_feedVars => FeedTypeOK'
  <1> SUFFICES ASSUME FeedTypeOK, [FeedNext]_feedVars PROVE FeedTypeOK'
    OBVIOUS
  <1> USE DEF FeedTypeOK
  <1>1. CurrentShut \in [Sockets -> States]
    BY DEF CurrentShut, ClientTypeOK, Alive, States
  <1>2. ASSUME NEW v \in Venues, ConnectsTo(v)
        PROVE  /\ socket' \in 0..MaxSockets /\ isManuallyClosed' \in BOOLEAN
               /\ readyState' \in [Sockets -> States] /\ at' \in [Sockets -> Venues]
    <2>1. PICK s \in Sockets :
               /\ readyState[s] = "unused" /\ socket' = s
               /\ readyState' = [CurrentShut EXCEPT ![s] = "connecting"]
               /\ at' = [at EXCEPT ![s] = v]
               /\ isManuallyClosed' = FALSE
      BY <1>2, Connecting
    <2>2. readyState' \in [Sockets -> States]
      BY <1>1, <2>1 DEF States
    <2>3. at' \in [Sockets -> Venues]
      BY <2>1 DEF ClientTypeOK
    <2>4. socket' \in 0..MaxSockets
      BY <2>1, SocketBounds DEF Sockets
    <2> QED BY <2>1, <2>2, <2>3, <2>4
  <1>3. ASSUME ClientNext, UNCHANGED server PROVE FeedTypeOK'
    <2>1. ServerTypeOK'
      BY <1>3 DEF server, ServerTypeOK
    <2>2. ASSUME NEW v \in Venues, Switches(v) PROVE ClientTypeOK'
      BY <2>2, <1>2 DEF Switches, ClientTypeOK
    <2>3. CASE Unmounts
      BY <2>1, <2>3, <1>1, Constants DEF Unmounts, ClientTypeOK, NoSocket
    <2>4. CASE TimerFires
      <3>1. reconnect \in Venues /\ ConnectsTo(reconnect)
        BY <2>4 DEF TimerFires, ClientTypeOK
      <3> QED BY <2>1, <2>4, <3>1, <1>2 DEF TimerFires, ClientTypeOK
    <2>5. ASSUME NEW s \in Sockets, CloseEvent(s) PROVE ClientTypeOK'
      <3>1. Retries(s) \in Venues \cup {NoVenue}
        BY DEF Retries, ClientTypeOK
      <3>2. readyState' \in [Sockets -> States]
        BY <2>5 DEF CloseEvent, ClientTypeOK, States
      <3>3. inbox' \in [Sockets -> Seq(Delivered)]
        BY <2>5 DEF CloseEvent, ClientTypeOK
      <3> QED BY <2>5, <3>1, <3>2, <3>3 DEF CloseEvent, ClientTypeOK
    <2>6. ASSUME NEW s \in Sockets, Receives(s) PROVE ClientTypeOK'
      <3>1. inbox[s] \in Seq(Delivered) /\ inbox[s] # <<>>
        BY <2>6 DEF Receives, ClientTypeOK
      <3>2. Head(inbox[s]) \in Delivered /\ Tail(inbox[s]) \in Seq(Delivered)
        BY <3>1
      <3>3. view' \in Nat
        BY <2>6, <3>2 DEF Receives, Shown, Delivered, ClientTypeOK
      <3>4. inbox' \in [Sockets -> Seq(Delivered)]
        BY <2>6, <3>2 DEF Receives, ClientTypeOK
      <3> QED BY <2>6, <3>3, <3>4 DEF Receives, ClientTypeOK
    <2> QED BY <1>3, <2>1, <2>2, <2>3, <2>4, <2>5, <2>6 DEF ClientNext
  <1>4. \A s \in Sockets : Opened(s) => /\ readyState' \in [Sockets -> States]
                                       /\ UNCHANGED <<venue, socket, isManuallyClosed, reconnect, at, view>>
    BY DEF Opened, hook, ClientTypeOK, States
  <1>5. ASSUME NEW s \in Sockets, Accepts(s) PROVE FeedTypeOK'
    <2>1. endpoint' \in [Sockets -> {"none", "accepted", "registered", "over"}]
      BY <1>5 DEF Accepts, ServerTypeOK
    <2>2. ServerTypeOK'
      BY <1>5, <2>1 DEF Accepts, ServerTypeOK
    <2>3. ClientTypeOK'
      BY <1>4, <1>5 DEF Accepts, ClientTypeOK
    <2> QED BY <2>2, <2>3
  <1>6. ASSUME NEW s \in Sockets, Refuses(s) PROVE FeedTypeOK'
    <2>1. /\ endpoint' \in [Sockets -> {"none", "accepted", "registered", "over"}]
          /\ up' \in [Sockets -> BOOLEAN]
      BY <1>6 DEF Refuses, ServerTypeOK, ClientTypeOK
    <2> QED BY <1>6, <2>1 DEF Refuses, ServerTypeOK, ClientTypeOK, hook
  <1>7. ASSUME NEW s \in Sockets, Registers(s) PROVE FeedTypeOK'
    <2>1. InitialState(at[s]) \in Delivered
      BY DEF InitialState, Delivered, ClientTypeOK, ServerTypeOK
    <2>2. inbox' \in [Sockets -> Seq(Delivered)]
      BY <1>7, <2>1 DEF Registers, ClientTypeOK
    <2>3. /\ endpoint' \in [Sockets -> {"none", "accepted", "registered", "over"}]
          /\ pool' \in [Venues -> SUBSET Sockets]
      BY <1>7 DEF Registers, ServerTypeOK, ClientTypeOK
    <2>4. ServerTypeOK'
      BY <1>7, <2>3 DEF Registers, ServerTypeOK
    <2>5. ClientTypeOK'
      BY <1>7, <2>2 DEF Registers, ClientTypeOK, hook
    <2> QED BY <2>4, <2>5
  <1>8. ASSUME NEW s \in Sockets, Leaves(s) PROVE FeedTypeOK'
    <2>1. /\ endpoint' \in [Sockets -> {"none", "accepted", "registered", "over"}]
          /\ pool' \in [Venues -> SUBSET Sockets]
          /\ up' \in [Sockets -> BOOLEAN]
      BY <1>8 DEF Leaves, PoolWithout, ServerTypeOK, ClientTypeOK
    <2> QED BY <1>8, <2>1 DEF Leaves, ServerTypeOK, ClientTypeOK, hook
  <1>9. CASE GlobalLeaves
    BY <1>9 DEF GlobalLeaves, ServerTypeOK, ClientTypeOK, clientVars, hook
  <1>10. ASSUME NEW t, Breaks(t) PROVE FeedTypeOK'
    <2>1. up' \in [Sockets -> BOOLEAN]
      BY <1>10 DEF Breaks, ClientTypeOK
    <2>2. globalUp' \in BOOLEAN
      BY <1>10 DEF Breaks, ServerTypeOK
    <2> QED BY <1>10, <2>1, <2>2 DEF Breaks, ServerTypeOK, ClientTypeOK, hook
  \* What is left keeps the client, and sets one job.
  <1>11. \A b \in Jobs, j \in Job :
             Set(b, j) /\ (j.phase # "idle" => j.message \in Message) =>
                 /\ job' \in [Jobs -> Job]
                 /\ \A c \in Jobs : job'[c].phase # "idle" => job'[c].message \in Message
    BY DEF Set, ServerTypeOK
  <1>12. UNCHANGED clientVars => ClientTypeOK'
    BY DEF clientVars, hook, ClientTypeOK
  <1>13. ASSUME NEW b \in Jobs, NEW v \in Venues, Changes(b, v) PROVE FeedTypeOK'
    <2> DEFINE m == [type |-> IF live[v] = 0 THEN "start" ELSE "stop", venue |-> v,
                     session |-> IF live[v] = 0 THEN changes + 1 ELSE live[v]]
               j == [Idle EXCEPT !.phase = "take", !.message = m]
    <2>1. m \in Message
      BY DEF Message, ServerTypeOK
    <2>2. j \in Job /\ j.message = m /\ Set(b, j)
      BY <1>13, <2>1 DEF Changes, Job, Idle, Phases
    <2>3. live' \in [Venues -> Nat] /\ changes' \in Nat
      BY <1>13 DEF Changes, ServerTypeOK
    <2> HIDE DEF m, j
    <2> QED BY <1>11, <1>12, <1>13, <2>1, <2>2, <2>3 DEF Changes, ServerTypeOK
  <1>14. CASE Hears
    <2> DEFINE j == [Idle EXCEPT !.phase = "take", !.message = Head(bus)]
    <2>1. Head(bus) \in Message /\ Tail(bus) \in Seq(Message)
      BY <1>14 DEF Hears, ServerTypeOK
    <2>2. j \in Job /\ j.message = Head(bus) /\ Set(Listener, j)
      BY <1>14, <2>1 DEF Hears, Job, Idle, Phases
    <2> HIDE DEF j
    <2> QED BY <1>11, <1>12, <1>14, <2>1, <2>2, Constants DEF Hears, ServerTypeOK
  <1>15. ASSUME NEW b \in Jobs, TakesTargets(b) PROVE FeedTypeOK'
    <2> DEFINE j == [job[b] EXCEPT !.phase = "send", !.left = Targets(job[b].message.venue)]
    <2>1. job[b] \in Job /\ job[b].message \in Message
      BY <1>15 DEF TakesTargets, ServerTypeOK
    <2>2. Targets(job[b].message.venue) \subseteq 1..Global
      BY <2>1, Constants DEF Targets, Message, ServerTypeOK
    <2>3. j \in Job /\ j.message = job[b].message /\ Set(b, j)
      BY <1>15, <2>1, <2>2 DEF TakesTargets, Job, Phases
    <2> HIDE DEF j
    <2> QED BY <1>11, <1>12, <1>15, <2>1, <2>3 DEF TakesTargets, ServerTypeOK
  <1>16. ASSUME NEW b \in Jobs, NEW t, Sends(b, t) PROVE FeedTypeOK'
    <2> DEFINE j == [job[b] EXCEPT !.left = @ \ {t}, !.dead = IF Reachable(t) THEN @ ELSE @ \cup {t}]
    <2>1. job[b] \in Job /\ job[b].message \in Message /\ t \in Sockets \cup {Global}
      BY <1>16, FirstIsMember, Constants DEF Sends, ServerTypeOK, Job
    <2>2. j \in Job /\ j.message = job[b].message /\ Set(b, j)
      BY <1>16, <2>1, Constants DEF Sends, Job
    <2>3. inbox' \in [Sockets -> Seq(Delivered)]
      <3>1. [type |-> job[b].message.type, session |-> job[b].message.session] \in Delivered
        BY <2>1 DEF Message, Delivered
      <3>2. CASE inbox' = inbox
        BY <3>2 DEF ClientTypeOK
      <3>3. CASE t \in Sockets
        BY <1>16, <3>1, <3>3 DEF Sends, ClientTypeOK
      <3> QED BY <1>16, <2>1, <3>2, <3>3 DEF Sends
    <2>4. ClientTypeOK'
      BY <1>16, <2>3 DEF Sends, ClientTypeOK, hook
    <2> HIDE DEF j
    <2> QED BY <1>11, <1>16, <2>1, <2>2, <2>4 DEF Sends, ServerTypeOK
  <1>17. ASSUME NEW b \in Jobs, StartsPruning(b) PROVE FeedTypeOK'
    <2> DEFINE j == [job[b] EXCEPT !.phase = "prune"]
    <2>1. job[b] \in Job /\ job[b].message \in Message
      BY <1>17 DEF StartsPruning, ServerTypeOK
    <2>2. j \in Job /\ j.message = job[b].message /\ Set(b, j)
      BY <1>17, <2>1 DEF StartsPruning, Job, Phases
    <2> HIDE DEF j
    <2> QED BY <1>11, <1>12, <1>17, <2>1, <2>2 DEF StartsPruning, ServerTypeOK
  <1>18. ASSUME NEW b \in Jobs, NEW t, Prunes(b, t) PROVE FeedTypeOK'
    <2> DEFINE j == [job[b] EXCEPT !.dead = @ \ {t}]
    <2>1. job[b] \in Job /\ job[b].message \in Message
      BY <1>18 DEF Prunes, ServerTypeOK
    <2>2. j \in Job /\ j.message = job[b].message /\ Set(b, j)
      BY <1>18, <2>1 DEF Prunes, Job
    <2>3. pool' \in [Venues -> SUBSET Sockets]
      BY <1>18 DEF Prunes, ServerTypeOK
    <2> HIDE DEF j
    <2> QED BY <1>11, <1>12, <1>18, <2>1, <2>2, <2>3 DEF Prunes, ServerTypeOK
  <1>19. ASSUME NEW b \in Jobs, EndsBroadcast(b) PROVE FeedTypeOK'
    <2>1. Idle \in Job /\ Idle.phase = "idle"
      BY DEF Idle, Job, Phases
    <2>2. job[b].message \in Message
      BY <1>19 DEF EndsBroadcast, ServerTypeOK
    <2>3. bus' \in Seq(Message)
      BY <1>19, <2>2 DEF EndsBroadcast, ServerTypeOK
    <2> QED BY <1>11, <1>12, <1>19, <2>1, <2>3 DEF EndsBroadcast, ServerTypeOK
  <1>20. CASE UNCHANGED feedVars
    BY <1>20 DEF feedVars, clientVars, hook, server, ServerTypeOK, ClientTypeOK
  <1> QED
    BY <1>3, <1>5, <1>6, <1>7, <1>8, <1>9, <1>10, <1>13, <1>14, <1>15, <1>16, <1>17, <1>18, <1>19, <1>20
       DEF FeedNext, ServerNext, ServerWork

\* The refs of the hook, the sockets, the pools and the jobs of the server keep their shape.
THEOREM FeedTypeCorrect == FeedSpec => []FeedTypeOK
  BY FeedTypeInit, FeedTypeNext, PTL DEF FeedSpec

------------------------------------------------------------------------------
(* The pools. *)

\* What the pools rest on: no endpoint answers a socket that is not used yet, the sockets a
\* broadcast has still to send to are of its venue, and those it takes for dead are gone.
PoolInv ==
    /\ PoolsAreLive
    /\ \A s \in Sockets : readyState[s] = "unused" => endpoint[s] = "none"
    /\ \A s \in Sockets : readyState[s] = "connecting" => endpoint[s] \in {"none", "over"}
    /\ \A b \in Jobs, s \in Sockets : s \in job[b].left =>
           at[s] = job[b].message.venue /\ endpoint[s] \in {"registered", "over"}
    /\ \A b \in Jobs, s \in Sockets : s \in job[b].dead => ~Reachable(s)


LEMMA PoolInit == FeedInit => PoolInv
  <1> SUFFICES ASSUME FeedInit PROVE PoolInv
    OBVIOUS
  <1>1. \A s \in Sockets : /\ endpoint[s] = "none" /\ readyState[s] # "closed"
                           /\ Alive(s) => s = 1
    BY DEF FeedInit, ClientInit, Alive
  <1>2. socket = 1 /\ (\A v \in Venues : pool[v] = {}) /\ \A b \in Jobs : job[b] = Idle
    BY DEF FeedInit, ClientInit
  <1>3. PoolsAreLive
    BY <1>1, <1>2 DEF PoolsAreLive
  <1> QED BY <1>1, <1>2, <1>3 DEF PoolInv, Idle

\* A socket is opened: it is the only one that is not closed, and nothing else has seen it.
LEMMA PoolConnect ==
    ASSUME FeedTypeOK, PoolInv, NEW v \in Venues, ConnectsTo(v), UNCHANGED <<up, server>>
    PROVE  PoolInv'
  <1>1. PICK s \in Sockets :
             /\ readyState[s] = "unused" /\ socket' = s
             /\ readyState' = [CurrentShut EXCEPT ![s] = "connecting"]
             /\ at' = [at EXCEPT ![s] = v]
    BY Connecting
  <1>2. endpoint[s] = "none"
    BY <1>1 DEF PoolInv
  <1>3. \A t \in Sockets : /\ readyState'[t] = IF t = s THEN "connecting"
                                 ELSE IF t = socket /\ Alive(t) THEN "closing" ELSE readyState[t]
                           /\ at'[t] = IF t = s THEN v ELSE at[t]
    BY <1>1 DEF CurrentShut, FeedTypeOK, ClientTypeOK
  <1>4. UNCHANGED <<endpoint, pool, job, globalUp, up>>
    BY DEF server
  <1>5. \A t \in Sockets : Reachable(t)' <=> Reachable(t)
    BY <1>1, <1>3, <1>4, Constants DEF Reachable, Alive
  <1>6. PoolsAreLive'
    <2>1. \A t \in Sockets : Alive(t)' => t = socket'
      BY <1>1, <1>3 DEF Alive, PoolInv, PoolsAreLive
    <2>2. \A w \in Venues, t \in Sockets : t \in pool'[w] => at'[t] = w /\ endpoint'[t] = "registered"
      BY <1>2, <1>3, <1>4 DEF PoolInv, PoolsAreLive
    <2>3. \A t \in Sockets : endpoint'[t] = "registered" /\ Reachable(t)' => t \in pool'[at'[t]]
      BY <1>2, <1>3, <1>4, <1>5 DEF PoolInv, PoolsAreLive
    <2> QED BY <2>1, <2>2, <2>3 DEF PoolsAreLive
  <1>7. \A t \in Sockets : /\ readyState'[t] = "unused" => endpoint'[t] = "none"
                           /\ readyState'[t] = "connecting" => endpoint'[t] \in {"none", "over"}
    BY <1>2, <1>3, <1>4 DEF PoolInv
  <1>8. \A b \in Jobs, t \in Sockets :
            t \in job'[b].left => at'[t] = job'[b].message.venue /\ endpoint'[t] \in {"registered", "over"}
    BY <1>2, <1>3, <1>4 DEF PoolInv
  <1>9. \A b \in Jobs, t \in Sockets : t \in job'[b].dead => ~Reachable(t)'
    BY <1>4, <1>5 DEF PoolInv
  <1> QED BY <1>6, <1>7, <1>8, <1>9 DEF PoolInv

\* What may happen to a socket without disturbing the pools: it is opened, closed or cut off.
LEMMA PoolClose ==
    ASSUME FeedTypeOK, PoolInv, UNCHANGED <<at, endpoint, pool, job, globalUp>>,
           \A t \in Sockets : /\ Alive(t)' => t = socket'
                              /\ readyState'[t] = "unused" => readyState[t] = "unused"
                              /\ readyState'[t] = "connecting" => readyState[t] = "connecting"
                              /\ Reachable(t)' => Reachable(t)
    PROVE  PoolInv'
  <1>1. PoolsAreLive'
    BY DEF PoolsAreLive, PoolInv
  <1> QED BY <1>1 DEF PoolInv

\* A job goes on: it sends to sockets of a pool only, and takes only those for dead that are.
LEMMA PoolJob ==
    ASSUME FeedTypeOK, PoolInv, UNCHANGED <<clientVars, endpoint, pool, globalUp>> \/ UNCHANGED <<hook, up, endpoint, pool, globalUp>>,
           NEW b \in Jobs, NEW j, Set(b, j),
           \A t \in Sockets : /\ t \in j.left => at[t] = j.message.venue /\ endpoint[t] \in {"registered", "over"}
                              /\ t \in j.dead => ~Reachable(t)
    PROVE  PoolInv'
  <1>1. UNCHANGED <<hook, up, endpoint, pool, globalUp>>
    BY DEF clientVars
  <1>2. \A t \in Sockets : (Reachable(t)' <=> Reachable(t)) /\ (Alive(t)' <=> Alive(t))
    BY <1>1 DEF Reachable, Alive, hook
  <1>3. PoolsAreLive'
    BY <1>1, <1>2 DEF PoolsAreLive, PoolInv, hook
  <1>4. \A c \in Jobs : job'[c] = IF c = b THEN j ELSE job[c]
    BY DEF Set, FeedTypeOK, ServerTypeOK
  <1> QED BY <1>1, <1>2, <1>3, <1>4 DEF PoolInv, hook

LEMMA PoolClient == FeedTypeOK /\ PoolInv /\ ClientNext /\ UNCHANGED server => PoolInv'
  <1> SUFFICES ASSUME FeedTypeOK, PoolInv, ClientNext, UNCHANGED server PROVE PoolInv'
    OBVIOUS
  <1>0. /\ UNCHANGED <<endpoint, pool, job, globalUp>>
        /\ \A t \in Sockets : Alive(t) => t = socket
    BY DEF server, PoolInv, PoolsAreLive
  <1>1. ASSUME NEW v \in Venues, Switches(v) PROVE PoolInv'
    BY <1>1, PoolConnect DEF Switches
  <1>2. CASE TimerFires
    <2>1. reconnect \in Venues /\ ConnectsTo(reconnect) /\ up' = up
      BY <1>2 DEF TimerFires, FeedTypeOK, ClientTypeOK
    <2> QED BY <2>1, PoolConnect
  <1>3. CASE Unmounts
    <2>1. \A t \in Sockets : readyState'[t] = IF t = socket /\ Alive(t) THEN "closing" ELSE readyState[t]
      BY <1>3 DEF Unmounts, CurrentShut
    <2>2. UNCHANGED <<at, up>>
      BY <1>3 DEF Unmounts
    <2> QED BY <1>0, <2>1, <2>2, PoolClose DEF Alive, Reachable
  <1>4. ASSUME NEW s \in Sockets, CloseEvent(s) PROVE PoolInv'
    <2>1. \A t \in Sockets : readyState'[t] = IF t = s THEN "closed" ELSE readyState[t]
      BY <1>4 DEF CloseEvent, FeedTypeOK, ClientTypeOK
    <2>2. UNCHANGED <<at, up, socket>>
      BY <1>4 DEF CloseEvent
    <2> QED BY <1>0, <2>1, <2>2, PoolClose DEF Alive, Reachable
  <1>5. ASSUME NEW s \in Sockets, Receives(s) PROVE PoolInv'
    <2>1. UNCHANGED <<at, up, socket, readyState>>
      BY <1>5 DEF Receives
    <2> QED BY <1>0, <2>1, PoolClose DEF Alive, Reachable
  <1> QED BY <1>1, <1>2, <1>3, <1>4, <1>5 DEF ClientNext

LEMMA PoolNext == FeedTypeOK /\ PoolInv /\ [FeedNext]_feedVars => PoolInv'
  <1> SUFFICES ASSUME FeedTypeOK, PoolInv, [FeedNext]_feedVars PROVE PoolInv'
    OBVIOUS
  <1>0. \A t \in Sockets : Alive(t) => t = socket
    BY DEF PoolInv, PoolsAreLive
  <1>a. /\ \A v \in Venues, t \in Sockets : t \in pool[v] => at[t] = v /\ endpoint[t] = "registered"
        /\ \A t \in Sockets : endpoint[t] = "registered" /\ Reachable(t) => t \in pool[at[t]]
        /\ \A t \in Sockets : at[t] \in Venues
    BY DEF PoolInv, PoolsAreLive, FeedTypeOK, ClientTypeOK
  <1>1. CASE ClientNext /\ UNCHANGED server
    BY <1>1, PoolClient
  <1>2. ASSUME NEW s \in Sockets, Accepts(s) PROVE PoolInv'
    <2>1. \A t \in Sockets : /\ endpoint'[t] = IF t = s THEN "accepted" ELSE endpoint[t]
                             /\ readyState'[t] = IF t = s /\ readyState[s] = "connecting" THEN "open" ELSE readyState[t]
      BY <1>2 DEF Accepts, Opened, hook, FeedTypeOK, ServerTypeOK, ClientTypeOK
    <2>2. UNCHANGED <<socket, at, up, pool, job, globalUp>> /\ endpoint[s] = "none" /\ readyState[s] # "unused"
      BY <1>2 DEF Accepts, Opened, hook
    <2>3. \A t \in Sockets : (Reachable(t)' <=> Reachable(t)) /\ (Alive(t)' <=> Alive(t))
      BY <2>1, <2>2 DEF Reachable, Alive
    <2>4. PoolsAreLive'
      BY <2>1, <2>2, <2>3 DEF PoolsAreLive, PoolInv
    <2>5. \A t \in Sockets : /\ readyState'[t] = "unused" => endpoint'[t] = "none"
                             /\ readyState'[t] = "connecting" => endpoint'[t] \in {"none", "over"}
      BY <2>1, <2>2 DEF PoolInv
    <2> QED BY <2>1, <2>2, <2>3, <2>4, <2>5 DEF PoolInv
  <1>3. ASSUME NEW s \in Sockets, Refuses(s) PROVE PoolInv'
    <2>1. \A t \in Sockets : /\ endpoint'[t] = IF t = s THEN "over" ELSE endpoint[t]
                             /\ up'[t] = IF t = s THEN FALSE ELSE up[t]
      BY <1>3 DEF Refuses, FeedTypeOK, ServerTypeOK, ClientTypeOK
    <2>2. UNCHANGED <<socket, at, readyState, pool, job, globalUp>> /\ endpoint[s] = "none" /\ readyState[s] # "unused"
      BY <1>3 DEF Refuses, hook
    <2>3. \A t \in Sockets : (Reachable(t)' => Reachable(t)) /\ (Alive(t)' <=> Alive(t))
      BY <2>1, <2>2, Constants DEF Reachable, Alive
    <2>4. PoolsAreLive'
      <3>1. \A x \in Sockets : endpoint'[x] = "registered" /\ Reachable(x)' => x \in pool'[at'[x]]
        BY <1>a, <2>1, <2>2, <2>3
      <3>2. \A v \in Venues, x \in Sockets : x \in pool'[v] => at'[x] = v /\ endpoint'[x] = "registered"
        BY <1>a, <2>1, <2>2
      <3> QED BY <1>0, <2>2, <2>3, <3>1, <3>2 DEF PoolsAreLive
    <2> QED BY <2>1, <2>2, <2>3, <2>4 DEF PoolInv
  <1>4. ASSUME NEW s \in Sockets, Registers(s) PROVE PoolInv'
    <2>1. \A t \in Sockets : endpoint'[t] = IF t = s THEN "registered" ELSE endpoint[t]
      BY <1>4 DEF Registers, FeedTypeOK, ServerTypeOK
    <2>2. \A v \in Venues, x \in Sockets : x \in pool'[v] <=> x \in pool[v] \/ (v = at[s] /\ x = s)
      BY <1>4 DEF Registers, FeedTypeOK, ServerTypeOK
    <2>3. UNCHANGED <<socket, at, up, readyState, job, globalUp>> /\ endpoint[s] = "accepted" /\ at[s] \in Venues
      BY <1>4 DEF Registers, hook, FeedTypeOK, ClientTypeOK
    <2>4. \A t \in Sockets : (Reachable(t)' <=> Reachable(t)) /\ (Alive(t)' <=> Alive(t))
      BY <2>3 DEF Reachable, Alive
    <2>5. PoolsAreLive'
      <3>1. \A x \in Sockets : endpoint'[x] = "registered" /\ Reachable(x)' => x \in pool'[at'[x]]
        BY <1>a, <2>1, <2>2, <2>3, <2>4
      <3>2. \A v \in Venues, t \in Sockets : t \in pool'[v] => at'[t] = v /\ endpoint'[t] = "registered"
        BY <1>a, <2>1, <2>2, <2>3
      <3> QED BY <1>0, <2>3, <2>4, <3>1, <3>2 DEF PoolsAreLive
    <2> QED BY <2>1, <2>3, <2>4, <2>5 DEF PoolInv
  <1>5. ASSUME NEW s \in Sockets, Leaves(s) PROVE PoolInv'
    <2>1. \A t \in Sockets : /\ endpoint'[t] = IF t = s THEN "over" ELSE endpoint[t]
                             /\ up'[t] = IF t = s THEN FALSE ELSE up[t]
      BY <1>5 DEF Leaves, FeedTypeOK, ServerTypeOK, ClientTypeOK
    <2>2. \A v \in Venues, x \in Sockets : x \in pool'[v] <=> x \in pool[v] /\ ~(v = at[s] /\ x = s)
      BY <1>5 DEF Leaves, PoolWithout, FeedTypeOK, ServerTypeOK
    <2>3. UNCHANGED <<socket, at, readyState, job, globalUp>> /\ endpoint[s] = "registered"
      BY <1>5 DEF Leaves, hook
    <2>4. \A t \in Sockets : /\ Reachable(t)' => Reachable(t)
                             /\ t # s => (Reachable(t)' <=> Reachable(t))
                             /\ Alive(t)' <=> Alive(t)
      BY <2>1, <2>3, Constants DEF Reachable, Alive
    <2>5. PoolsAreLive'
      <3>1. \A x \in Sockets : endpoint'[x] = "registered" /\ Reachable(x)' => x \in pool'[at'[x]]
        BY <1>a, <2>1, <2>2, <2>3, <2>4
      <3>2. ASSUME NEW v \in Venues, NEW x \in Sockets, x \in pool'[v]
            PROVE  at'[x] = v /\ endpoint'[x] = "registered"
        <4>1. x \in pool[v] /\ at[x] = v /\ x # s
          BY <1>a, <2>2, <3>2
        <4>2. endpoint'[x] = endpoint[x]
          BY <2>1, <4>1
        <4> QED BY <1>a, <2>3, <4>1, <4>2
      <3> QED BY <1>0, <2>3, <2>4, <3>1, <3>2 DEF PoolsAreLive
    <2> QED BY <2>1, <2>3, <2>4, <2>5 DEF PoolInv
  <1>6. CASE GlobalLeaves
    <2>1. UNCHANGED <<socket, at, up, readyState, endpoint, pool, job, globalUp>>
      BY <1>6 DEF GlobalLeaves, clientVars, hook
    <2> QED BY <1>0, <2>1, PoolClose DEF Alive, Reachable
  <1>7. ASSUME NEW t, Breaks(t) PROVE PoolInv'
    <2>1. /\ UNCHANGED <<socket, at, readyState, endpoint, pool, job>>
          /\ \A s \in Sockets : up'[s] => up[s]
      BY <1>7 DEF Breaks, hook, FeedTypeOK, ClientTypeOK
    <2>2. \A s \in Sockets : (Reachable(s)' => Reachable(s)) /\ (Alive(s)' <=> Alive(s))
      BY <2>1, Constants DEF Alive, Reachable
    <2>3. PoolsAreLive'
      BY <1>0, <2>1, <2>2 DEF PoolsAreLive, PoolInv
    <2> QED BY <2>1, <2>2, <2>3 DEF PoolInv
  <1>8. ASSUME NEW b \in Jobs, NEW v \in Venues, Changes(b, v) PROVE PoolInv'
    <2> DEFINE j == [Idle EXCEPT !.phase = "take",
                       !.message = [type |-> IF live[v] = 0 THEN "start" ELSE "stop", venue |-> v,
                                    session |-> IF live[v] = 0 THEN changes + 1 ELSE live[v]]]
    <2>1. Set(b, j) /\ j.left = {} /\ j.dead = {}
      BY <1>8 DEF Changes, Idle
    <2> HIDE DEF j
    <2> QED BY <1>8, <2>1, PoolJob DEF Changes
  <1>9. CASE Hears
    <2> DEFINE j == [Idle EXCEPT !.phase = "take", !.message = Head(bus)]
    <2>1. Set(Listener, j) /\ j.left = {} /\ j.dead = {}
      BY <1>9 DEF Hears, Idle
    <2> HIDE DEF j
    <2> QED BY <1>9, <2>1, PoolJob, Constants DEF Hears
  <1>10. ASSUME NEW b \in Jobs, TakesTargets(b) PROVE PoolInv'
    <2>1. job[b] \in Job /\ job[b].message \in Message
      BY <1>10 DEF TakesTargets, FeedTypeOK, ServerTypeOK
    <2> DEFINE j == [job[b] EXCEPT !.phase = "send", !.left = Targets(job[b].message.venue)]
    <2>2. /\ Set(b, j) /\ j.left = Targets(job[b].message.venue) /\ j.dead = job[b].dead
          /\ j.message = job[b].message
      BY <1>10, <2>1 DEF TakesTargets, Job
    <2> HIDE DEF j
    <2>3. \A t \in Sockets : t \in j.left => at[t] = j.message.venue /\ endpoint[t] = "registered"
      BY <2>1, <2>2, Constants DEF Targets, Message, PoolInv, PoolsAreLive, FeedTypeOK, ServerTypeOK
    <2>4. \A t \in Sockets : t \in j.dead => ~Reachable(t)
      BY <2>2 DEF PoolInv
    <2>5. UNCHANGED <<clientVars, endpoint, pool, globalUp>>
      BY <1>10 DEF TakesTargets
    <2> QED BY <2>2, <2>3, <2>4, <2>5, PoolJob
  <1>11. ASSUME NEW b \in Jobs, NEW t, Sends(b, t) PROVE PoolInv'
    <2>1. job[b] \in Job
      BY DEF FeedTypeOK, ServerTypeOK
    <2> DEFINE j == [job[b] EXCEPT !.left = @ \ {t}, !.dead = IF Reachable(t) THEN @ ELSE @ \cup {t}]
    <2>2. /\ Set(b, j) /\ j.left = job[b].left \ {t} /\ j.message = job[b].message
          /\ j.dead = IF Reachable(t) THEN job[b].dead ELSE job[b].dead \cup {t}
      BY <1>11, <2>1 DEF Sends, Job
    <2> HIDE DEF j
    <2>3. \A s \in Sockets : /\ s \in j.left => at[s] = j.message.venue /\ endpoint[s] \in {"registered", "over"}
                             /\ s \in j.dead => ~Reachable(s)
      BY <2>2 DEF PoolInv
    <2>4. UNCHANGED <<hook, up, endpoint, pool, globalUp>>
      BY <1>11 DEF Sends
    <2> QED BY <2>2, <2>3, <2>4, PoolJob
  <1>12. ASSUME NEW b \in Jobs, StartsPruning(b) PROVE PoolInv'
    <2>1. job[b] \in Job
      BY DEF FeedTypeOK, ServerTypeOK
    <2> DEFINE j == [job[b] EXCEPT !.phase = "prune"]
    <2>2. Set(b, j) /\ j.left = job[b].left /\ j.dead = job[b].dead /\ j.message = job[b].message
      BY <1>12, <2>1 DEF StartsPruning, Job
    <2> HIDE DEF j
    <2>3. \A s \in Sockets : /\ s \in j.left => at[s] = j.message.venue /\ endpoint[s] \in {"registered", "over"}
                             /\ s \in j.dead => ~Reachable(s)
      BY <2>2 DEF PoolInv
    <2>4. UNCHANGED <<clientVars, endpoint, pool, globalUp>>
      BY <1>12 DEF StartsPruning
    <2> QED BY <2>2, <2>3, <2>4, PoolJob
  <1>13. ASSUME NEW b \in Jobs, NEW t, Prunes(b, t) PROVE PoolInv'
    <2>1. job[b] \in Job /\ t \in job[b].dead
      BY <1>13, FirstIsMember DEF Prunes, FeedTypeOK, ServerTypeOK, Job
    <2>2. /\ \A c \in Jobs : c # b => job'[c] = job[c]
          /\ job'[b].left = job[b].left /\ job'[b].message = job[b].message
          /\ job'[b].dead = job[b].dead \ {t}
      BY <1>13, <2>1 DEF Prunes, Set, Job, FeedTypeOK, ServerTypeOK
    <2>3. UNCHANGED <<socket, at, up, readyState, endpoint, globalUp>>
      BY <1>13 DEF Prunes, clientVars, hook
    <2>4. \A s \in Sockets : (Reachable(s)' <=> Reachable(s)) /\ (Alive(s)' <=> Alive(s))
      BY <2>3 DEF Reachable, Alive
    <2>5. \A v \in Venues : pool'[v] \subseteq pool[v] /\ pool[v] \ {t} \subseteq pool'[v]
      BY <1>13 DEF Prunes, FeedTypeOK, ServerTypeOK
    <2>6. t \in Sockets => ~Reachable(t)
      BY <2>1 DEF PoolInv
    <2>7. PoolsAreLive'
      BY <1>0, <2>3, <2>4, <2>5, <2>6 DEF PoolsAreLive, PoolInv, FeedTypeOK, ClientTypeOK
    <2> QED BY <2>2, <2>3, <2>4, <2>7 DEF PoolInv
  <1>14. ASSUME NEW b \in Jobs, EndsBroadcast(b) PROVE PoolInv'
    <2>1. Set(b, Idle) /\ Idle.left = {} /\ Idle.dead = {}
      BY <1>14 DEF EndsBroadcast, Idle
    <2> QED BY <1>14, <2>1, PoolJob DEF EndsBroadcast
  <1>15. CASE UNCHANGED feedVars
    BY <1>0, <1>15, PoolClose DEF feedVars, server, clientVars, hook, Alive, Reachable
  <1> QED
    BY <1>1, <1>2, <1>3, <1>4, <1>5, <1>6, <1>7, <1>8, <1>9, <1>10, <1>11, <1>12, <1>13, <1>14, <1>15
       DEF FeedNext, ServerNext, ServerWork

\* The tab has at most one connection it has not closed, and a pool holds the sockets of its
\* own venue whose endpoint runs, and every one of those that is still reachable.
THEOREM LivePools == FeedSpec => []PoolsAreLive
  <1>1. PoolInv => PoolsAreLive
    BY DEF PoolInv
  <1> QED BY <1>1, FeedTypeCorrect, PoolInit, PoolNext, PTL DEF FeedSpec

------------------------------------------------------------------------------
(* The view. *)

Busy(b) == job[b].phase # "idle"

\* Handlers broadcast one after the other: of two that overlap either may arrive last.
OneAtATime == \A g, h \in Handlers : Busy(g) /\ Busy(h) => g = h

Sets(m) == m.type # "stop" /\ m.session # 0

\* A message that undoes what a session x shows wrongly on the dashboard of venue v: it shows
\* the active one or, where none is, ends x or shows another that will be undone in its turn.
Corrects(m, v, x) ==
    IF live[v] # 0 THEN Sets(m) /\ m.session = live[v]
    ELSE Sets(m) \/ (m.type = "stop" /\ m.session = x)

\* The broadcast b has still to send its message to s, itself or through Redis.
Owes(b, s) ==
    /\ Busy(b) /\ job[b].message.venue = at[s]
    /\ \/ job[b].phase = "take" \/ s \in job[b].left
       \/ b # Listener /\ Redis

Awaited(s, x) ==
    \/ \E i \in DOMAIN bus : bus[i].venue = at[s] /\ Corrects(bus[i], at[s], x)
    \/ \E b \in Jobs : Owes(b, s) /\ Corrects(job[b].message, at[s], x)

Corrected(s, x, i) ==
    \/ \E j \in DOMAIN inbox[s] : j > i /\ Corrects(inbox[s][j], at[s], x)
    \/ Awaited(s, x)

\* A session that is stopped is not active anywhere, and never will be again.
Ended(m) ==
    /\ m.session <= changes
    /\ m.type = "start" => m.session # 0
    /\ m.type = "stop" => m.session # 0 /\ \A v \in Venues : live[v] # m.session

Numbered ==
    /\ \A v \in Venues : live[v] <= changes
    /\ \A v, w \in Venues : live[v] = live[w] /\ live[v] # 0 => v = w
    /\ \A i \in DOMAIN bus : Ended(bus[i])
    /\ \A b \in Jobs : Busy(b) => Ended(job[b].message)
    /\ \A s \in Sockets : \A i \in DOMAIN inbox[s] : Ended(inbox[s][i])

Stale(m) == m.type = "start" /\ m.session # live[m.venue]

\* The handler at work broadcasts something that undoes m.
HandlerCorrects(m) ==
    \E h \in Handlers : Busy(h) /\ job[h].message.venue = m.venue /\ Corrects(job[h].message, m.venue, m.session)

\* Behind the first k messages of the bus, or from the handler, comes what undoes m.
Undone(m, k) ==
    \/ \E j \in DOMAIN bus : j > k /\ bus[j].venue = m.venue /\ Corrects(bus[j], m.venue, m.session)
    \/ HandlerCorrects(m)

\* What comes back through Redis comes in the order of the changes: after a session that is no
\* longer active comes what undoes it, behind it on the bus or from the handler at work.
InOrder ==
    /\ ~Redis => bus = <<>> /\ ~Busy(Listener)
    /\ \A h \in Handlers : Busy(h) => ~Stale(job[h].message)
    /\ \A i \in DOMAIN bus : Stale(bus[i]) => Undone(bus[i], i)
    /\ Busy(Listener) /\ Stale(job[Listener].message) => Undone(job[Listener].message, 0)

Attached(s) == s = socket /\ endpoint[s] = "registered" /\ readyState[s] = "open" /\ up[s]

\* The session a socket shows now (i = 0) or will show when it takes its i-th message.
Shows(s, x, i) ==
    \/ i = 0 /\ x = view
    \/ i \in DOMAIN inbox[s] /\ Sets(inbox[s][i]) /\ x = inbox[s][i].session

\* Whatever an attached socket shows or will show is the active session of its venue, or will be
\* undone by a message that comes later. A socket that was opened after the first need not find
\* out that no session is active.
Following ==
    /\ \A s \in Sockets : endpoint[s] \in {"none", "accepted"} => inbox[s] = <<>>
    /\ readyState[1] # "unused"
    /\ socket = 1 /\ endpoint[1] \in {"none", "accepted"} => view = 0
    /\ \A s \in Sockets : Attached(s) /\ (live[at[s]] # 0 \/ s = 1) =>
           \A x, i \in Nat : Shows(s, x, i) /\ x # live[at[s]] => Corrected(s, x, i)

\* What a handler does when a session starts or stops, given that no other is at work.
LEMMA ChangeFacts ==
    ASSUME FeedTypeOK, NEW b \in Jobs, NEW v \in Venues, Changes(b, v), OneAtATime'
    PROVE  \E m \in Message :
               /\ b \in Handlers /\ m.venue = v
               /\ live[v] = 0 => m.type = "start" /\ m.session = changes + 1
               /\ live[v] # 0 => m.type = "stop" /\ m.session = live[v]
               /\ live'[v] = IF live[v] = 0 THEN changes + 1 ELSE 0
               /\ \A w \in Venues : w # v => live'[w] = live[w]
               /\ changes' = changes + 1
               /\ Busy(b)' /\ job'[b].message = m /\ job'[b].phase = "take"
               /\ \A c \in Jobs : c # b => job'[c] = job[c]
               /\ \A h \in Handlers : ~Busy(h)
               /\ UNCHANGED <<clientVars, endpoint, bus>>
  <1> DEFINE m == [type |-> IF live[v] = 0 THEN "start" ELSE "stop", venue |-> v,
                   session |-> IF live[v] = 0 THEN changes + 1 ELSE live[v]]
             j == [Idle EXCEPT !.phase = "take", !.message = m]
  <1>1. /\ m \in Message /\ m.venue = v
        /\ live[v] = 0 => m.type = "start" /\ m.session = changes + 1
        /\ live[v] # 0 => m.type = "stop" /\ m.session = live[v]
    BY DEF Message, FeedTypeOK, ServerTypeOK
  <1>2. j.phase = "take" /\ j.message = m /\ Set(b, j) /\ b \in Handlers /\ ~Busy(b)
    BY DEF Changes, Idle, Busy
  <1> HIDE DEF m, j
  <1>3. /\ \A c \in Jobs : c # b => job'[c] = job[c]
        /\ job'[b] = j
    BY <1>2 DEF Set, FeedTypeOK, ServerTypeOK
  <1>4. Busy(b)'
    BY <1>2, <1>3 DEF Busy
  <1>5. \A h \in Handlers : ~Busy(h)
    BY <1>2, <1>3, <1>4, Constants DEF OneAtATime, Busy
  <1>6. /\ live'[v] = IF live[v] = 0 THEN changes + 1 ELSE 0
        /\ \A w \in Venues : w # v => live'[w] = live[w]
        /\ changes' = changes + 1
        /\ UNCHANGED <<clientVars, endpoint, bus>>
    BY DEF Changes, FeedTypeOK, ServerTypeOK
  <1> QED BY <1>1, <1>2, <1>3, <1>4, <1>5, <1>6

\* What the other steps of a broadcast do to its job.
LEMMA HearFacts ==
    ASSUME FeedTypeOK, Hears
    PROVE  /\ ~Busy(Listener) /\ bus # <<>> /\ Head(bus) \in Message /\ bus' = Tail(bus)
           /\ Busy(Listener)' /\ job'[Listener].message = Head(bus) /\ job'[Listener].phase = "take"
           /\ \A c \in Jobs : c # Listener => job'[c] = job[c]
           /\ UNCHANGED <<clientVars, endpoint, live, changes>>
  <1> DEFINE j == [Idle EXCEPT !.phase = "take", !.message = Head(bus)]
  <1>1. j.phase = "take" /\ j.message = Head(bus) /\ Set(Listener, j)
    BY DEF Hears, Idle
  <1> HIDE DEF j
  <1>2. /\ \A c \in Jobs : c # Listener => job'[c] = job[c]
        /\ job'[Listener] = j
    BY <1>1, Constants DEF Set, FeedTypeOK, ServerTypeOK
  <1>3. Head(bus) \in Message
    BY DEF Hears, FeedTypeOK, ServerTypeOK
  <1> QED BY <1>1, <1>2, <1>3 DEF Hears, Busy

LEMMA TakeFacts ==
    ASSUME FeedTypeOK, NEW b \in Jobs, TakesTargets(b)
    PROVE  /\ Busy(b) /\ job[b].phase = "take" /\ job'[b].phase = "send" /\ job'[b].message = job[b].message
           /\ job[b].message \in Message
           /\ job'[b].left = Targets(job[b].message.venue)
           /\ \A c \in Jobs : c # b => job'[c] = job[c]
           /\ UNCHANGED <<clientVars, endpoint, bus, live, changes>>
  BY DEF TakesTargets, Set, Busy, FeedTypeOK, ServerTypeOK, Job

LEMMA SendFacts ==
    ASSUME FeedTypeOK, NEW b \in Jobs, NEW t, Sends(b, t)
    PROVE  /\ Busy(b) /\ job'[b].phase = job[b].phase /\ job'[b].message = job[b].message
           /\ job[b].message \in Message /\ job[b].phase = "send"
           /\ job'[b].left = job[b].left \ {t} /\ t \in job[b].left
           /\ \A c \in Jobs : c # b => job'[c] = job[c]
           /\ UNCHANGED <<hook, up, endpoint, bus, live, changes>>
  <1> DEFINE j == [job[b] EXCEPT !.left = @ \ {t}, !.dead = IF Reachable(t) THEN @ ELSE @ \cup {t}]
  <1>1. job[b] \in Job /\ job[b].phase = "send" /\ Set(b, j) /\ t \in job[b].left
    BY FirstIsMember DEF Sends, FeedTypeOK, ServerTypeOK, Job
  <1>2. j.phase = job[b].phase /\ j.message = job[b].message /\ j.left = job[b].left \ {t}
    BY <1>1 DEF Job
  <1> HIDE DEF j
  <1>3. job'[b] = j /\ \A c \in Jobs : c # b => job'[c] = job[c]
    BY <1>1 DEF Set, FeedTypeOK, ServerTypeOK
  <1>4. job[b].message \in Message
    BY <1>1 DEF FeedTypeOK, ServerTypeOK
  <1> QED BY <1>1, <1>2, <1>3, <1>4 DEF Sends, Busy

LEMMA PruneFacts ==
    ASSUME FeedTypeOK, NEW b \in Jobs, StartsPruning(b) \/ \E t : Prunes(b, t)
    PROVE  /\ Busy(b) /\ Busy(b)' /\ job'[b].message = job[b].message /\ job'[b].left = job[b].left
           /\ job[b].phase # "take"
           /\ \A c \in Jobs : c # b => job'[c] = job[c]
           /\ UNCHANGED <<clientVars, endpoint, bus, live, changes>>
  <1>1. CASE StartsPruning(b)
    BY <1>1 DEF StartsPruning, Set, Busy, FeedTypeOK, ServerTypeOK, Job
  <1>2. ASSUME NEW t, Prunes(b, t)
        PROVE  /\ Busy(b) /\ Busy(b)' /\ job'[b].message = job[b].message /\ job'[b].left = job[b].left
               /\ job[b].phase # "take"
               /\ \A c \in Jobs : c # b => job'[c] = job[c]
               /\ UNCHANGED <<clientVars, endpoint, bus, live, changes>>
    BY <1>2 DEF Prunes, Set, Busy, FeedTypeOK, ServerTypeOK, Job
  <1> QED BY <1>1, <1>2

LEMMA EndFacts ==
    ASSUME FeedTypeOK, NEW b \in Jobs, EndsBroadcast(b)
    PROVE  /\ Busy(b) /\ ~Busy(b)' /\ job[b].phase # "take" /\ job[b].left = {}
           /\ job[b].message \in Message
           /\ \A c \in Jobs : c # b => job'[c] = job[c]
           /\ bus' = IF b # Listener /\ Redis THEN Append(bus, job[b].message) ELSE bus
           /\ UNCHANGED <<clientVars, endpoint, live, changes>>
  BY DEF EndsBroadcast, Set, Busy, Idle, FeedTypeOK, ServerTypeOK

\* The messages of the jobs and of the bus are what they were.
LEMMA NumberedKept ==
    ASSUME Numbered, UNCHANGED <<live, changes>>,
           \A i \in DOMAIN bus' : Ended(bus'[i]),
           \A b \in Jobs : Busy(b)' => Ended(job'[b].message),
           \A s \in Sockets : \A i \in DOMAIN inbox'[s] : Ended(inbox'[s][i])
    PROVE  Numbered'
  BY DEF Numbered, Ended

LEMMA NumberedClient == FeedTypeOK /\ Numbered /\ ClientNext /\ UNCHANGED server => Numbered'
  <1> SUFFICES ASSUME FeedTypeOK, Numbered, ClientNext, UNCHANGED server PROVE Numbered'
    OBVIOUS
  <1>1. UNCHANGED <<live, changes, bus, job>>
    BY DEF server
  <1>2. \A s \in Sockets : \A i \in DOMAIN inbox'[s] : Ended(inbox'[s][i])
    <2>1. CASE inbox' = inbox
      BY <2>1 DEF Numbered
    <2>2. ASSUME NEW s \in Sockets, CloseEvent(s)
          PROVE  \A t \in Sockets : \A i \in DOMAIN inbox'[t] : Ended(inbox'[t][i])
      <3>1. inbox'[s] = <<>> /\ \A t \in Sockets : t # s => inbox'[t] = inbox[t]
        BY <2>2 DEF CloseEvent, FeedTypeOK, ClientTypeOK
      <3> QED BY <3>1 DEF Numbered
    <2>3. ASSUME NEW s \in Sockets, Receives(s)
          PROVE  \A t \in Sockets : \A i \in DOMAIN inbox'[t] : Ended(inbox'[t][i])
      <3>1. inbox'[s] = Tail(inbox[s]) /\ \A t \in Sockets : t # s => inbox'[t] = inbox[t]
        BY <2>3 DEF Receives, FeedTypeOK, ClientTypeOK
      <3>2. inbox[s] \in Seq(Delivered) /\ inbox[s] # <<>>
        BY <2>3 DEF Receives, FeedTypeOK, ClientTypeOK
      <3>3. \A i \in DOMAIN Tail(inbox[s]) : i + 1 \in DOMAIN inbox[s] /\ Tail(inbox[s])[i] = inbox[s][i + 1]
        BY <3>2
      <3>4. \A t \in Sockets : \A i \in DOMAIN inbox[t] : Ended(inbox[t][i])
        BY DEF Numbered
      <3>5. ASSUME NEW i \in DOMAIN inbox'[s] PROVE Ended(inbox'[s][i])
        <4>1. i \in DOMAIN Tail(inbox[s]) /\ inbox'[s][i] = inbox[s][i + 1] /\ i + 1 \in DOMAIN inbox[s]
          BY <3>1, <3>3, <3>5
        <4> QED BY <3>4, <4>1
      <3> QED BY <3>1, <3>4, <3>5
    <2> QED BY <2>1, <2>2, <2>3 DEF ClientNext, Switches, Unmounts, TimerFires
  <1> QED BY <1>1, <1>2, NumberedKept DEF Numbered, Busy

LEMMA NumberedNext ==
    ASSUME FeedTypeOK, Numbered, OneAtATime', [FeedNext]_feedVars
    PROVE  Numbered'
  <1>1. CASE ClientNext /\ UNCHANGED server
    BY <1>1, NumberedClient
  <1>2. CASE UNCHANGED <<live, changes, bus, job, inbox>>
    BY <1>2, NumberedKept DEF Numbered, Busy
  <1>3. ASSUME NEW s \in Sockets, Registers(s) PROVE Numbered'
    <2> DEFINE m == InitialState(at[s])
    <2>1. UNCHANGED <<live, changes, bus, job>>
      BY <1>3 DEF Registers
    <2>2. Ended(m)
      BY DEF Ended, InitialState, Numbered, FeedTypeOK, ClientTypeOK
    <2>3. inbox' = inbox \/ inbox' = [inbox EXCEPT ![s] = Append(@, m)]
      BY <1>3 DEF Registers
    <2> HIDE DEF m
    <2>5. \A t \in Sockets : inbox'[t] = inbox[t] \/ inbox'[t] = Append(inbox[t], m)
      <3>1. inbox \in [Sockets -> Seq(Delivered)]
        BY DEF FeedTypeOK, ClientTypeOK
      <3>2. CASE inbox' = inbox
        BY <3>2
      <3>3. CASE inbox' = [inbox EXCEPT ![s] = Append(@, m)]
        BY <3>1, <3>3
      <3> QED BY <2>3, <3>2, <3>3
    <2>4. \A t \in Sockets : \A i \in DOMAIN inbox'[t] : Ended(inbox'[t][i])
      <3>1. \A t \in Sockets : inbox[t] \in Seq(Delivered) /\ \A i \in DOMAIN inbox[t] : Ended(inbox[t][i])
        BY DEF Numbered, FeedTypeOK, ClientTypeOK
      <3>2. ASSUME NEW t \in Sockets, inbox'[t] = Append(inbox[t], m), NEW i \in DOMAIN inbox'[t]
            PROVE  Ended(inbox'[t][i])
        <4>1. inbox'[t][i] = m \/ (i \in DOMAIN inbox[t] /\ inbox'[t][i] = inbox[t][i])
          BY <3>1, <3>2
        <4> QED BY <2>2, <3>1, <4>1
      <3> QED BY <2>5, <3>1, <3>2
    <2> QED BY <2>1, <2>4, NumberedKept DEF Numbered, Busy
  <1>4. ASSUME NEW b \in Jobs, NEW v \in Venues, Changes(b, v) PROVE Numbered'
    <2>1. PICK m \in Message :
               /\ b \in Handlers /\ m.venue = v
               /\ live[v] = 0 => m.type = "start" /\ m.session = changes + 1
               /\ live[v] # 0 => m.type = "stop" /\ m.session = live[v]
               /\ live'[v] = IF live[v] = 0 THEN changes + 1 ELSE 0
               /\ \A w \in Venues : w # v => live'[w] = live[w]
               /\ changes' = changes + 1
               /\ Busy(b)' /\ job'[b].message = m
               /\ \A c \in Jobs : c # b => job'[c] = job[c]
               /\ UNCHANGED <<clientVars, bus>>
      BY <1>4, ChangeFacts
    <2>2. \A w \in Venues : live[w] \in Nat /\ live[w] <= changes
      BY DEF Numbered, FeedTypeOK, ServerTypeOK
    <2>3. changes \in Nat /\ m.session \in Nat
      BY DEF Message, FeedTypeOK, ServerTypeOK
    <2>4. \A w \in Venues : live'[w] <= changes'
      BY <2>1, <2>2, <2>3
    <2>5. \A u, w \in Venues : live'[u] = live'[w] /\ live'[u] # 0 => u = w
      BY <2>1, <2>2, <2>3 DEF Numbered
    <2>6. \A n \in Message \cup Delivered : Ended(n) => Ended(n)'
      <3> SUFFICES ASSUME NEW n \in Message \cup Delivered, Ended(n) PROVE Ended(n)'
        OBVIOUS
      <3>1. n.session \in Nat /\ n.session <= changes
        BY DEF Ended, Message, Delivered
      <3>2. n.type = "stop" => n.session # 0 /\ \A w \in Venues : live'[w] # n.session
        BY <2>1, <2>2, <2>3, <3>1 DEF Ended
      <3> QED BY <2>1, <2>3, <3>1, <3>2 DEF Ended
    <2>7. Ended(m)'
      <3>1. m.session <= changes + 1 /\ m.session # 0
        BY <2>1, <2>2, <2>3
      <3>2. m.type = "stop" => \A w \in Venues : live'[w] # m.session
        BY <2>1, <2>2, <2>3, <3>1 DEF Numbered
      <3> QED BY <2>1, <3>1, <3>2 DEF Ended
    <2>8. \A i \in DOMAIN bus' : Ended(bus[i])'
      BY <2>1, <2>6 DEF Numbered, FeedTypeOK, ServerTypeOK
    <2>9. ASSUME NEW c \in Jobs, Busy(c)' PROVE Ended(job[c].message)'
      <3>1. CASE c = b
        BY <2>1, <2>7, <3>1 DEF Ended
      <3>2. CASE c # b
        <4>1. Busy(c) /\ job[c].message \in Message /\ Ended(job[c].message) /\ job'[c].message = job[c].message
          BY <2>1, <2>9, <3>2 DEF Busy, Numbered, FeedTypeOK, ServerTypeOK
        <4>2. \A n \in Message : Ended(n) /\ n = job[c].message => Ended(n)'
          BY <2>6
        <4> QED BY <4>1, <4>2 DEF Ended
      <3> QED BY <3>1, <3>2
    <2>10. ASSUME NEW t \in Sockets, NEW i \in DOMAIN inbox'[t] PROVE Ended(inbox[t][i])'
      <3>1. inbox' = inbox
        BY <2>1 DEF clientVars
      <3>2. inbox[t][i] \in Delivered /\ Ended(inbox[t][i])
        BY <2>10, <3>1 DEF Numbered, FeedTypeOK, ClientTypeOK
      <3> QED BY <2>6, <3>1, <3>2 DEF Ended
    <2> QED BY <2>4, <2>5, <2>8, <2>9, <2>10 DEF Numbered
  <1>5. CASE Hears
    <2>1. /\ \A i \in DOMAIN Tail(bus) : i + 1 \in DOMAIN bus /\ Tail(bus)[i] = bus[i + 1]
          /\ 1 \in DOMAIN bus /\ Head(bus) = bus[1]
      BY <1>5, HearFacts DEF FeedTypeOK, ServerTypeOK
    <2>2. \A b \in Jobs : Busy(b)' => Ended(job'[b].message)
      BY <1>5, <2>1, HearFacts DEF Numbered, Busy
    <2> QED BY <1>5, <2>1, <2>2, HearFacts, NumberedKept DEF Numbered, clientVars
  <1>6. ASSUME NEW b \in Jobs, TakesTargets(b) \/ StartsPruning(b) \/ \E t : Prunes(b, t) PROVE Numbered'
    <2>1. \A c \in Jobs : (Busy(c)' => Busy(c)) /\ job'[c].message = job[c].message
      BY <1>6, TakeFacts, PruneFacts DEF Busy
    <2>2. UNCHANGED <<clientVars, bus, live, changes>>
      BY <1>6, TakeFacts, PruneFacts
    <2> QED BY <2>1, <2>2, NumberedKept DEF Numbered, clientVars
  <1>7. ASSUME NEW b \in Jobs, NEW t, Sends(b, t) PROVE Numbered'
    <2> DEFINE m == [type |-> job[b].message.type, session |-> job[b].message.session]
    <2>1. \A c \in Jobs : (Busy(c)' => Busy(c)) /\ job'[c].message = job[c].message
      BY <1>7, SendFacts DEF Busy
    <2>2. UNCHANGED <<bus, live, changes>>
      BY <1>7, SendFacts
    <2>3. Ended(m)
      <3>1. Ended(job[b].message)
        BY <1>7, SendFacts DEF Numbered
      <3> QED BY <3>1 DEF Ended
    <2>6. inbox' = inbox \/ inbox' = [inbox EXCEPT ![t] = Append(@, m)]
      BY <1>7 DEF Sends
    <2> HIDE DEF m
    <2>4. \A s \in Sockets : inbox'[s] = inbox[s] \/ inbox'[s] = Append(inbox[s], m)
      <3>1. inbox \in [Sockets -> Seq(Delivered)]
        BY DEF FeedTypeOK, ClientTypeOK
      <3>2. CASE inbox' = inbox
        BY <3>2
      <3>3. CASE inbox' = [inbox EXCEPT ![t] = Append(@, m)]
        BY <3>1, <3>3
      <3> QED BY <2>6, <3>2, <3>3
    <2>5. \A s \in Sockets : \A i \in DOMAIN inbox'[s] : Ended(inbox'[s][i])
      <3>1. \A s \in Sockets : inbox[s] \in Seq(Delivered) /\ \A i \in DOMAIN inbox[s] : Ended(inbox[s][i])
        BY DEF Numbered, FeedTypeOK, ClientTypeOK
      <3>2. ASSUME NEW s \in Sockets, inbox'[s] = Append(inbox[s], m), NEW i \in DOMAIN inbox'[s]
            PROVE  Ended(inbox'[s][i])
        <4>1. inbox'[s][i] = m \/ (i \in DOMAIN inbox[s] /\ inbox'[s][i] = inbox[s][i])
          BY <3>1, <3>2
        <4> QED BY <2>3, <3>1, <4>1
      <3> QED BY <2>4, <3>1, <3>2
    <2> QED BY <2>1, <2>2, <2>5, NumberedKept DEF Numbered
  <1>8. ASSUME NEW b \in Jobs, EndsBroadcast(b) PROVE Numbered'
    <2>1. \A c \in Jobs : Busy(c)' => Busy(c) /\ job'[c].message = job[c].message
      BY <1>8, EndFacts DEF Busy
    <2>2. UNCHANGED <<clientVars, live, changes>>
      BY <1>8, EndFacts
    <2>3. \A i \in DOMAIN bus' : Ended(bus'[i])
      <3>1. /\ Ended(job[b].message) /\ \A i \in DOMAIN bus : Ended(bus[i])
            /\ bus' = bus \/ bus' = Append(bus, job[b].message)
        BY <1>8, EndFacts DEF Numbered
      <3>2. bus \in Seq(Message)
        BY DEF FeedTypeOK, ServerTypeOK
      <3>3. \A m : \A i \in DOMAIN Append(bus, m) : Append(bus, m)[i] = m \/ (i \in DOMAIN bus /\ Append(bus, m)[i] = bus[i])
        BY <3>2
      <3> QED BY <3>1, <3>3
    <2> QED BY <2>1, <2>2, <2>3, NumberedKept DEF Numbered, clientVars
  <1> QED
    BY <1>1, <1>2, <1>3, <1>4, <1>5, <1>6, <1>7, <1>8
       DEF FeedNext, ServerNext, ServerWork, Accepts, Refuses, Leaves, GlobalLeaves, Breaks, feedVars, server, clientVars

LEMMA InOrderKept ==
    ASSUME InOrder, UNCHANGED <<live, bus>>,
           \A c \in Jobs : (Busy(c)' <=> Busy(c)) /\ job'[c].message = job[c].message
    PROVE  InOrder'
  <1>1. \A h \in Handlers : (Busy(h)' <=> Busy(h)) /\ job'[h].message = job[h].message
    BY Constants
  <1>2. (Busy(Listener)' <=> Busy(Listener)) /\ job'[Listener].message = job[Listener].message
    BY Constants
  <1> QED BY <1>1, <1>2 DEF InOrder, Stale, Undone, HandlerCorrects, Corrects

LEMMA InOrderNext ==
    ASSUME FeedTypeOK, Numbered, InOrder, OneAtATime, OneAtATime', [FeedNext]_feedVars
    PROVE  InOrder'
  <1>1. CASE UNCHANGED <<live, bus, job>>
    BY <1>1, InOrderKept DEF Busy
  <1>2. ASSUME NEW b \in Jobs, NEW v \in Venues, Changes(b, v) PROVE InOrder'
    <2>1. PICK m \in Message :
               /\ b \in Handlers /\ m.venue = v
               /\ live[v] = 0 => m.type = "start" /\ m.session = changes + 1
               /\ live[v] # 0 => m.type = "stop" /\ m.session = live[v]
               /\ live'[v] = IF live[v] = 0 THEN changes + 1 ELSE 0
               /\ \A w \in Venues : w # v => live'[w] = live[w]
               /\ Busy(b)' /\ job'[b].message = m
               /\ \A c \in Jobs : c # b => job'[c] = job[c]
               /\ \A h \in Handlers : ~Busy(h)
               /\ bus' = bus
      BY <1>2, ChangeFacts
    <2>2. changes \in Nat /\ b # Listener
      BY <2>1, Constants DEF FeedTypeOK, ServerTypeOK
    \* The new message undoes what is behind the times now and was not before.
    <2>3. ASSUME NEW n \in Message, Ended(n), Stale(n)', NEW k \in Nat, Stale(n) => Undone(n, k)
          PROVE  Undone(n, k)'
      <3>1. n.type = "start" /\ n.session # 0 /\ n.session # live'[n.venue] /\ n.venue \in Venues
        BY <2>3 DEF Stale, Ended, Message
      <3>2. ~HandlerCorrects(n)
        BY <2>1 DEF HandlerCorrects
      <3>3. CASE n.venue # v
        <4>1. live'[n.venue] = live[n.venue]
          BY <2>1, <3>1, <3>3
        <4>2. Undone(n, k)
          BY <2>3, <3>1, <4>1 DEF Stale
        <4> QED BY <2>1, <3>2, <4>1, <4>2 DEF Undone, Corrects
      <3>4. CASE n.venue = v /\ live[v] = 0
        <4>1. Corrects(m, v, n.session)'
          BY <2>1, <2>2, <3>4 DEF Corrects, Sets
        <4>2. HandlerCorrects(n)'
          BY <2>1, <3>4, <4>1 DEF HandlerCorrects, Corrects
        <4> QED BY <4>2 DEF Undone
      <3>5. CASE n.venue = v /\ live[v] # 0 /\ n.session = live[v]
        <4>1. Corrects(m, v, n.session)'
          BY <2>1, <3>5 DEF Corrects
        <4>2. HandlerCorrects(n)'
          BY <2>1, <3>5, <4>1 DEF HandlerCorrects, Corrects
        <4> QED BY <4>2 DEF Undone
      <3>6. CASE n.venue = v /\ live[v] # 0 /\ n.session # live[v]
        <4>1. PICK j \in DOMAIN bus : j > k /\ bus[j].venue = v /\ Corrects(bus[j], v, n.session)
          BY <2>3, <3>1, <3>2, <3>6 DEF Stale, Undone
        <4>2. Sets(bus[j])
          BY <3>6, <4>1 DEF Corrects
        <4> QED BY <2>1, <3>6, <4>1, <4>2 DEF Undone, Corrects, Sets
      <3> QED BY <3>3, <3>4, <3>5, <3>6
    <2>4. ~Redis => bus' = <<>> /\ ~Busy(Listener)'
      BY <2>1, <2>2, Constants DEF InOrder, Busy
    <2>5. \A h \in Handlers : Busy(h)' => ~Stale(job[h].message)'
      <3>1. ~Stale(m)'
        BY <2>1, <2>2 DEF Stale
      <3>2. \A h \in Handlers : Busy(h)' => h = b
        BY <2>1, Constants DEF Busy
      <3> QED BY <2>1, <3>1, <3>2 DEF Stale
    <2>6. ASSUME NEW i \in DOMAIN bus', Stale(bus[i])' PROVE Undone(bus[i], i)'
      <3>1. PICK n \in Message : n = bus[i] /\ Ended(n)
        BY <2>1, <2>6 DEF Numbered, FeedTypeOK, ServerTypeOK
      <3>2. Stale(n)' /\ (Stale(n) => Undone(n, i)) /\ i \in Nat
        BY <2>1, <2>6, <3>1 DEF InOrder, Stale, FeedTypeOK, ServerTypeOK
      <3>3. Undone(n, i)'
        BY <2>3, <3>1, <3>2
      <3> QED BY <2>1, <3>1, <3>3 DEF Undone, HandlerCorrects, Corrects
    <2>7. ASSUME Busy(Listener)', Stale(job[Listener].message)' PROVE Undone(job[Listener].message, 0)'
      <3>1. Busy(Listener) /\ job'[Listener] = job[Listener]
        BY <2>1, <2>2, <2>7, Constants DEF Busy
      <3>2. PICK n \in Message : n = job[Listener].message /\ Ended(n)
        BY <3>1, Constants DEF Numbered, Busy, FeedTypeOK, ServerTypeOK
      <3>3. Stale(n)' /\ (Stale(n) => Undone(n, 0))
        BY <2>7, <3>1, <3>2 DEF InOrder, Stale
      <3>4. Undone(n, 0)'
        BY <2>3, <3>2, <3>3
      <3> QED BY <3>1, <3>2, <3>4 DEF Undone, HandlerCorrects, Corrects
    <2> QED BY <2>4, <2>5, <2>6, <2>7 DEF InOrder
  <1>3. CASE Hears
    <2>1. /\ \A h \in Handlers : job'[h] = job[h]
          /\ live' = live /\ bus' = Tail(bus) /\ bus # <<>> /\ bus \in Seq(Message)
          /\ job'[Listener].message = bus[1]
      <3>1. \A h \in Handlers : h \in Jobs /\ h # Listener
        BY Constants
      <3>2. bus \in Seq(Message)
        BY DEF FeedTypeOK, ServerTypeOK
      <3> QED BY <1>3, <3>1, <3>2, HearFacts
    <2>2. /\ \A i \in DOMAIN Tail(bus) : i \in Nat /\ i + 1 \in DOMAIN bus /\ Tail(bus)[i] = bus[i + 1]
          /\ \A i \in DOMAIN bus : i > 1 => i - 1 \in DOMAIN Tail(bus) /\ Tail(bus)[i - 1] = bus[i]
          /\ 1 \in DOMAIN bus
      BY <2>1
    <2>3. ASSUME NEW n, NEW k \in Nat, Undone(n, k + 1) PROVE Undone(n, k)'
      <3>1. HandlerCorrects(n) => HandlerCorrects(n)'
        BY <2>1 DEF HandlerCorrects, Busy, Corrects
      <3>2. ASSUME NEW j \in DOMAIN bus, j > k + 1, bus[j].venue = n.venue, Corrects(bus[j], n.venue, n.session)
            PROVE  Undone(n, k)'
        <4>1. j \in Nat /\ j - 1 \in DOMAIN bus' /\ bus'[j - 1] = bus[j] /\ j - 1 > k
          BY <2>1, <2>2, <3>2
        <4> QED BY <2>1, <3>2, <4>1 DEF Undone, Corrects
      <3> QED BY <2>3, <3>1, <3>2 DEF Undone
    <2>4. ASSUME NEW i \in DOMAIN bus', Stale(bus[i])' PROVE Undone(bus[i], i)'
      <3>1. i \in Nat /\ i + 1 \in DOMAIN bus /\ bus'[i] = bus[i + 1]
        BY <2>1, <2>2
      <3>2. Undone(bus[i + 1], i + 1)
        BY <2>1, <2>4, <3>1 DEF InOrder, Stale
      <3>3. PICK n : n = bus[i + 1]
        OBVIOUS
      <3>4. Undone(n, i)'
        BY <2>3, <3>1, <3>2, <3>3
      <3> QED BY <3>1, <3>3, <3>4 DEF Undone, HandlerCorrects, Corrects
    <2>5. ASSUME Stale(job[Listener].message)' PROVE Undone(job[Listener].message, 0)'
      <3>1. Undone(bus[1], 1)
        BY <2>1, <2>2, <2>5 DEF InOrder, Stale
      <3>2. PICK n : n = bus[1]
        OBVIOUS
      <3>3. Undone(n, 0)'
        BY <2>3, <3>1, <3>2
      <3> QED BY <2>1, <3>2, <3>3 DEF Undone, HandlerCorrects, Corrects
    <2>6. Redis
      BY <2>1 DEF InOrder
    <2>7. \A h \in Handlers : Busy(h)' => ~Stale(job[h].message)'
      BY <2>1 DEF InOrder, Busy, Stale
    <2> QED BY <2>4, <2>5, <2>6, <2>7 DEF InOrder
  <1>4. ASSUME NEW b \in Jobs, TakesTargets(b) \/ StartsPruning(b) \/ \E t : Prunes(b, t) PROVE InOrder'
    BY <1>4, TakeFacts, PruneFacts, InOrderKept DEF Busy
  <1>5. ASSUME NEW b \in Jobs, NEW t, Sends(b, t) PROVE InOrder'
    BY <1>5, SendFacts, InOrderKept DEF Busy
  <1>6. ASSUME NEW b \in Jobs, EndsBroadcast(b) PROVE InOrder'
    <2>1. /\ Busy(b) /\ ~Busy(b)' /\ \A c \in Jobs : c # b => job'[c] = job[c]
          /\ job[b].message \in Message
          /\ bus' = IF b # Listener /\ Redis THEN Append(bus, job[b].message) ELSE bus
          /\ live' = live
      BY <1>6, EndFacts
    <2>2. CASE b = Listener
      <3>1. \A h \in Handlers : job'[h] = job[h]
        BY <2>1, <2>2, Constants
      <3> QED BY <2>1, <2>2, <3>1 DEF InOrder, Busy, Stale, Undone, HandlerCorrects, Corrects
    <2>3. CASE b # Listener /\ ~Redis
      <3>1. bus' = <<>> /\ ~Busy(Listener)'
        BY <2>1, <2>3, Constants DEF InOrder, Busy
      <3>2. \A h \in Handlers : Busy(h)' => ~Stale(job[h].message)'
        BY <2>1, Constants DEF InOrder, Busy, Stale
      <3> QED BY <2>3, <3>1, <3>2 DEF InOrder
    <2>4. CASE b # Listener /\ Redis
      <3>1. bus' = Append(bus, job[b].message) /\ bus \in Seq(Message) /\ b \in Handlers
        BY <2>1, <2>4, Constants DEF FeedTypeOK, ServerTypeOK
      <3>2. /\ \A i \in DOMAIN bus : i \in DOMAIN bus' /\ bus'[i] = bus[i] /\ i \in Nat /\ i < Len(bus) + 1
            /\ Len(bus) + 1 \in DOMAIN bus' /\ bus'[Len(bus) + 1] = job[b].message
            /\ \A i \in DOMAIN bus' : i \in DOMAIN bus \/ i = Len(bus) + 1
        BY <3>1
      <3>3. \A h \in Handlers : Busy(h) => h = b
        BY <2>1, <3>1 DEF OneAtATime
      <3>4. ASSUME NEW n, NEW k, k < Len(bus) + 1, Undone(n, k) PROVE Undone(n, k)'
        <4>1. CASE HandlerCorrects(n)
          <5>1. job[b].message.venue = n.venue /\ Corrects(job[b].message, n.venue, n.session)
            BY <3>3, <4>1 DEF HandlerCorrects
          <5> QED BY <2>1, <3>2, <3>4, <5>1 DEF Undone, Corrects
        <4>2. CASE ~HandlerCorrects(n)
          <5>1. PICK j \in DOMAIN bus : j > k /\ bus[j].venue = n.venue /\ Corrects(bus[j], n.venue, n.session)
            BY <3>4, <4>2 DEF Undone
          <5> QED BY <2>1, <3>2, <5>1 DEF Undone, Corrects
        <4> QED BY <4>1, <4>2
      <3>5. ASSUME NEW i \in DOMAIN bus', Stale(bus[i])' PROVE Undone(bus[i], i)'
        <4>1. i \in DOMAIN bus
          BY <2>1, <3>1, <3>2, <3>5 DEF InOrder, Stale
        <4>2. PICK n : n = bus[i] /\ Undone(n, i)
          BY <2>1, <3>2, <3>5, <4>1 DEF InOrder, Stale
        <4>3. Undone(n, i)'
          BY <3>2, <3>4, <4>1, <4>2
        <4> QED BY <3>2, <4>1, <4>2, <4>3 DEF Undone, HandlerCorrects, Corrects
      <3>6. ASSUME Busy(Listener)', Stale(job[Listener].message)' PROVE Undone(job[Listener].message, 0)'
        <4>1. job'[Listener] = job[Listener] /\ Busy(Listener)
          BY <2>1, <2>4, <3>6, Constants DEF Busy
        <4>2. PICK n : n = job[Listener].message /\ Undone(n, 0)
          BY <2>1, <3>6, <4>1 DEF InOrder, Stale
        <4>3. Undone(n, 0)'
          BY <3>1, <3>4, <4>2
        <4> QED BY <4>1, <4>2, <4>3 DEF Undone, HandlerCorrects, Corrects
      <3>7. \A h \in Handlers : ~Busy(h)'
        BY <2>1, <3>3, Constants DEF Busy
      <3> QED BY <2>4, <3>5, <3>6, <3>7 DEF InOrder
    <2> QED BY <2>2, <2>3, <2>4
  <1> QED
    BY <1>1, <1>2, <1>3, <1>4, <1>5, <1>6
       DEF FeedNext, ServerNext, ServerWork, Accepts, Refuses, Registers, Leaves, GlobalLeaves, Breaks, feedVars, server, clientVars

\* A step that leaves alone what an attached socket has been sent, and keeps what it awaits.
LEMMA FollowingKept ==
    ASSUME Following,
           \A s \in Sockets : endpoint'[s] \in {"none", "accepted"} => inbox'[s] = <<>>,
           readyState'[1] # "unused",
           socket' = 1 /\ endpoint'[1] \in {"none", "accepted"} => view' = 0,
           \A s \in Sockets : Attached(s)' =>
               /\ Attached(s) /\ inbox'[s] = inbox[s] /\ view' = view /\ at'[s] = at[s]
               /\ live'[at[s]] = live[at[s]]
               /\ \A x : Awaited(s, x) => Awaited(s, x)'
    PROVE  Following'
  <1>1. ASSUME NEW s \in Sockets, Attached(s)', live'[at'[s]] # 0 \/ s = 1,
               NEW x \in Nat, NEW i \in Nat, Shows(s, x, i)', x # live'[at'[s]]
        PROVE  Corrected(s, x, i)'
    <2>1. /\ Attached(s) /\ inbox'[s] = inbox[s] /\ view' = view /\ at'[s] = at[s]
          /\ live'[at[s]] = live[at[s]]
          /\ Awaited(s, x) => Awaited(s, x)'
      BY <1>1
    <2>2. Shows(s, x, i)
      BY <1>1, <2>1 DEF Shows, Sets
    <2>3. Corrected(s, x, i)
      BY <1>1, <2>1, <2>2 DEF Following
    <2>4. ASSUME NEW j \in DOMAIN inbox[s], j > i, Corrects(inbox[s][j], at[s], x)
          PROVE  Corrected(s, x, i)'
      <3>1. j \in DOMAIN inbox'[s] /\ Corrects(inbox[s][j], at[s], x)'
        BY <2>1, <2>4 DEF Corrects, Sets
      <3> QED BY <2>4, <3>1 DEF Corrected
    <2> QED BY <2>1, <2>3, <2>4 DEF Corrected
  <1> QED BY <1>1 DEF Following

LEMMA FollowingClient ==
    ASSUME FeedTypeOK, PoolInv, Numbered, Following, ClientNext, UNCHANGED server
    PROVE  Following'
  <1>1. UNCHANGED <<endpoint, live, bus, job>> /\ 1 \in Sockets
    BY Constants DEF server
  <1>2. \A s, x : at'[s] = at[s] => (Awaited(s, x)' <=> Awaited(s, x))
    BY <1>1 DEF Awaited, Owes, Busy, Corrects
  <1>3. ASSUME NEW v, ConnectsTo(v), UNCHANGED <<up, inbox>> PROVE Following'
    <2>1. PICK s \in Sockets :
               /\ readyState[s] = "unused" /\ socket' = s
               /\ readyState' = [CurrentShut EXCEPT ![s] = "connecting"]
      BY <1>3, Connecting
    <2>2. endpoint'[s] = "none" /\ s # 1
      BY <1>1, <2>1 DEF PoolInv, Following
    <2>3. readyState'[1] # "unused"
      BY <1>1, <2>1, <2>2 DEF CurrentShut, Following
    <2>4. \A t \in Sockets : ~Attached(t)'
      BY <2>1, <2>2 DEF Attached
    <2> QED BY <1>1, <1>3, <2>1, <2>2, <2>3, <2>4, FollowingKept DEF Following
  <1>4. ASSUME NEW v \in Venues, Switches(v) PROVE Following'
    BY <1>3, <1>4 DEF Switches
  <1>5. CASE TimerFires
    BY <1>3, <1>5 DEF TimerFires
  <1>6. CASE Unmounts
    <2>1. socket' = 0 /\ inbox' = inbox /\ readyState' = CurrentShut
      BY <1>6 DEF Unmounts, NoSocket
    <2>2. readyState'[1] # "unused"
      BY <1>1, <2>1 DEF CurrentShut, Following
    <2>3. \A t \in Sockets : ~Attached(t)'
      BY <2>1, Constants DEF Attached
    <2> QED BY <1>1, <2>1, <2>2, <2>3, FollowingKept DEF Following
  <1>7. ASSUME NEW t \in Sockets, CloseEvent(t) PROVE Following'
    <2>1. /\ \A s \in Sockets : readyState'[s] = IF s = t THEN "closed" ELSE readyState[s]
          /\ \A s \in Sockets : s # t => inbox'[s] = inbox[s]
          /\ inbox'[t] = <<>>
          /\ UNCHANGED <<socket, at, up, view>>
      BY <1>7 DEF CloseEvent, FeedTypeOK, ClientTypeOK
    <2>2. \A s \in Sockets : Attached(s)' => Attached(s) /\ s # t
      BY <1>1, <2>1 DEF Attached
    <2>3. /\ \A s \in Sockets : endpoint'[s] \in {"none", "accepted"} => inbox'[s] = <<>>
          /\ readyState'[1] # "unused"
      BY <1>1, <2>1 DEF Following
    <2> QED BY <1>1, <1>2, <2>1, <2>2, <2>3, FollowingKept DEF Following
  <1>8. ASSUME NEW t \in Sockets, Receives(t) PROVE Following'
    <2> DEFINE q == inbox[t]
               h == inbox[t][1]
               v == at[t]
    <2>1. /\ readyState[t] = "open" /\ q # <<>> /\ q \in Seq(Delivered)
          /\ inbox'[t] = Tail(q) /\ \A s \in Sockets : s # t => inbox'[s] = inbox[s]
          /\ view' = Shown(h)
          /\ UNCHANGED <<socket, readyState, at, up>>
      BY <1>8 DEF Receives, FeedTypeOK, ClientTypeOK
    <2>2. t = socket
      BY <2>1 DEF PoolInv, PoolsAreLive, Alive
    <2>3. endpoint[t] \notin {"none", "accepted"}
      BY <2>1 DEF Following
    <2>4. /\ \A i \in DOMAIN Tail(q) : i \in Nat /\ i + 1 \in DOMAIN q /\ Tail(q)[i] = q[i + 1]
          /\ \A i \in DOMAIN q : i > 1 => i \in Nat /\ i - 1 \in DOMAIN Tail(q) /\ Tail(q)[i - 1] = q[i]
          /\ 1 \in DOMAIN q /\ DOMAIN q \subseteq Nat \ {0}
      BY <2>1
    <2>5. h \in Delivered /\ Ended(h) /\ v \in Venues
      BY <2>1, <2>4 DEF Numbered, FeedTypeOK, ClientTypeOK
    <2>6. \A m, x : Corrects(m, v, x)' <=> Corrects(m, v, x)
      BY <1>1, <2>1 DEF Corrects, Sets
    <2> HIDE DEF q, h
    \* What corrects x beyond the first message still does.
    <2>7. ASSUME NEW x, NEW i \in Nat, NEW y,
                 \/ Awaited(t, y) /\ \A m : Corrects(m, v, y) => Corrects(m, v, x)
                 \/ \E j \in DOMAIN q : j > i + 1 /\ Corrects(q[j], v, x)
          PROVE  Corrected(t, x, i)'
      <3>1. ASSUME Awaited(t, y), \A m : Corrects(m, v, y) => Corrects(m, v, x)
            PROVE  Awaited(t, x)'
        <4>1. Awaited(t, x)
          BY <3>1 DEF Awaited
        <4> QED BY <1>2, <2>1, <4>1
      <3>2. ASSUME NEW j \in DOMAIN q, j > i + 1, Corrects(q[j], v, x)
            PROVE  Corrected(t, x, i)'
        <4>1. j - 1 \in DOMAIN inbox'[t] /\ inbox'[t][j - 1] = q[j] /\ j - 1 > i
          BY <2>1, <2>4, <3>2
        <4>2. Corrects(inbox[t][j - 1], at[t], x)'
          BY <1>1, <2>1, <3>2, <4>1 DEF Corrects, Sets
        <4> QED BY <4>1, <4>2 DEF Corrected
      <3> QED BY <2>7, <3>1, <3>2 DEF Corrected
    <2>8. ASSUME Attached(t), live[v] # 0 \/ t = 1, NEW x \in Nat, NEW i \in Nat,
                 Shows(t, x, i)', x # live[v]
          PROVE  Corrected(t, x, i)'
      <3>0. \A y, k \in Nat : Shows(t, y, k) /\ y # live[v] =>
                Awaited(t, y) \/ \E j \in DOMAIN q : j > k /\ Corrects(q[j], v, y)
        BY <2>8 DEF Following, Corrected, q
      <3>1. CASE i # 0
        <4>1. i \in DOMAIN Tail(q) /\ Sets(Tail(q)[i]) /\ x = Tail(q)[i].session
          BY <2>1, <2>8, <3>1 DEF Shows, Sets
        <4>2. Shows(t, x, i + 1)
          BY <2>4, <4>1 DEF Shows, q
        <4> QED BY <2>7, <2>8, <3>0, <4>2
      <3>2. CASE i = 0 /\ Sets(h)
        <4>1. x = h.session
          BY <2>1, <2>4, <2>5, <2>8, <3>2 DEF Shows, Shown, Sets, Delivered
        <4>2. Shows(t, x, 1)
          BY <2>4, <3>2, <4>1 DEF Shows, q, h
        <4>3. Awaited(t, x) \/ \E j \in DOMAIN q : j > 1 /\ Corrects(q[j], v, x)
          BY <2>8, <3>0, <4>2
        <4> QED BY <2>7, <3>2, <4>3
      <3>3. CASE i = 0 /\ ~Sets(h)
        <4>1. x = view'
          BY <2>1, <2>4, <2>8, <3>3 DEF Shows
        <4>2. Shows(t, view, 0) /\ view \in Nat
          BY DEF Shows, FeedTypeOK, ClientTypeOK
        <4>3. CASE h.type = "stop" /\ h.session = view
          <5>1. x = 0 /\ live[v] # 0 /\ view # live[v]
            BY <2>1, <2>5, <2>8, <4>1, <4>3 DEF Shown, Ended
          <5>2. Awaited(t, view) \/ \E j \in DOMAIN q : j > 0 /\ Corrects(q[j], v, view)
            BY <3>0, <4>2, <5>1
          <5>3. \A m : Corrects(m, v, view) => Sets(m) /\ Corrects(m, v, x)
            BY <5>1 DEF Corrects
          <5>4. \A j \in DOMAIN q : j > 0 /\ Corrects(q[j], v, view) => j > 1
            BY <2>4, <3>3, <5>3 DEF h, q
          <5> QED BY <2>7, <3>3, <5>2, <5>3, <5>4
        <4>4. CASE ~(h.type = "stop" /\ h.session = view)
          <5>1. x = view
            <6>1. h.type = "initial_state" \/ h.type = "start" \/ h.type = "stop"
              BY <2>5 DEF Delivered
            <6>2. h.type # "start" /\ (h.type = "initial_state" => h.session = 0)
              BY <2>5, <3>3 DEF Sets, Ended
            <6>3. Shown(h) = view
              BY <4>4, <6>1, <6>2 DEF Shown
            <6> QED BY <2>1, <4>1, <6>3
          <5>2. Awaited(t, x) \/ \E j \in DOMAIN q : j > 0 /\ Corrects(q[j], v, x)
            BY <2>8, <3>0, <4>2, <5>1
          <5>3. ~Corrects(h, v, x)
            BY <3>3, <4>4, <5>1 DEF Corrects
          <5>4. \A j \in DOMAIN q : j > 0 /\ Corrects(q[j], v, x) => j > 1
            BY <2>4, <5>3 DEF h, q
          <5> QED BY <2>7, <3>3, <5>2, <5>4
        <4> QED BY <4>3, <4>4
      <3> QED BY <3>1, <3>2, <3>3
    <2>9. /\ \A s \in Sockets : endpoint'[s] \in {"none", "accepted"} => inbox'[s] = <<>>
          /\ readyState'[1] # "unused"
          /\ socket' = 1 /\ endpoint'[1] \in {"none", "accepted"} => view' = 0
      BY <1>1, <2>1, <2>2, <2>3 DEF Following
    <2>10. ASSUME NEW s \in Sockets, Attached(s)', live'[at'[s]] # 0 \/ s = 1
           PROVE  \A x, i \in Nat : Shows(s, x, i)' /\ x # live'[at'[s]] => Corrected(s, x, i)'
      <3>1. s = t /\ Attached(t)
        BY <1>1, <2>1, <2>2, <2>10 DEF Attached
      <3> QED BY <1>1, <2>1, <2>8, <2>10, <3>1
    <2> QED BY <2>9, <2>10 DEF Following
  <1> QED BY <1>4, <1>5, <1>6, <1>7, <1>8 DEF ClientNext

\* The steps of a broadcast that send nothing keep what an attached socket awaits.
LEMMA FollowingBroadcast ==
    ASSUME FeedTypeOK, PoolInv, Following,
           NEW b \in Jobs, Hears \/ TakesTargets(b) \/ StartsPruning(b) \/ (\E t : Prunes(b, t)) \/ EndsBroadcast(b)
    PROVE  Following'
  <1>0. UNCHANGED <<clientVars, endpoint, live>>
    BY HearFacts, TakeFacts, PruneFacts, EndFacts
  <1>1. UNCHANGED <<socket, at, readyState, view, up, inbox, endpoint, live>>
    BY <1>0 DEF clientVars, hook
  <1>2. \A m, v, x : Corrects(m, v, x)' <=> Corrects(m, v, x)
    BY <1>1 DEF Corrects
  <1>3. bus \in Seq(Message)
    BY DEF FeedTypeOK, ServerTypeOK
  <1>4. ASSUME NEW s \in Sockets, Attached(s), NEW x, Awaited(s, x) PROVE Awaited(s, x)'
    <2>1. CASE Hears
      <3>1. ASSUME NEW i \in DOMAIN bus, bus[i].venue = at[s], Corrects(bus[i], at[s], x)
            PROVE  Awaited(s, x)'
        <4>1. CASE i = 1
          <5>1. Busy(Listener)' /\ job'[Listener].phase = "take" /\ job'[Listener].message = bus[i]
            BY <1>3, <2>1, <4>1, HearFacts
          <5> QED BY <1>1, <1>2, <3>1, <5>1, Constants DEF Awaited, Owes
        <4>2. CASE i # 1
          <5>1. i - 1 \in DOMAIN bus' /\ bus'[i - 1] = bus[i]
            BY <1>3, <2>1, <4>2, HearFacts
          <5> QED BY <1>1, <1>2, <3>1, <5>1 DEF Awaited
        <4> QED BY <4>1, <4>2
      <3>2. ASSUME NEW c \in Jobs, Owes(c, s), Corrects(job[c].message, at[s], x)
            PROVE  Awaited(s, x)'
        <4>1. c # Listener /\ job'[c] = job[c]
          BY <2>1, <3>2, HearFacts DEF Owes
        <4> QED BY <1>1, <1>2, <3>2, <4>1 DEF Awaited, Owes, Busy
      <3> QED BY <1>4, <3>1, <3>2 DEF Awaited
    <2>2. CASE \/ TakesTargets(b) \/ StartsPruning(b) \/ \E t : Prunes(b, t)
      <3>1. bus' = bus /\ \A c \in Jobs : c # b => job'[c] = job[c]
        BY <2>2, TakeFacts, PruneFacts
      <3>2. ASSUME Owes(b, s) PROVE Owes(b, s)' /\ job'[b].message = job[b].message
        <4>1. CASE TakesTargets(b)
          <5>1. s \in Targets(at[s])
            BY <1>4, Constants DEF Attached, Reachable, Targets, PoolInv, PoolsAreLive
          <5> QED BY <1>1, <3>2, <4>1, <5>1, TakeFacts DEF Owes, Busy
        <4>2. CASE StartsPruning(b) \/ \E t : Prunes(b, t)
          BY <1>1, <3>2, <4>2, PruneFacts DEF Owes
        <4> QED BY <2>2, <4>1, <4>2
      <3>3. \A c \in Jobs : Owes(c, s) => Owes(c, s)' /\ job'[c].message = job[c].message
        BY <1>1, <3>1, <3>2 DEF Owes, Busy
      <3> QED BY <1>1, <1>2, <1>4, <3>1, <3>3 DEF Awaited
    <2>3. CASE EndsBroadcast(b)
      <3>1. /\ job[b].phase # "take" /\ job[b].left = {} /\ \A c \in Jobs : c # b => job'[c] = job[c]
            /\ bus' = IF b # Listener /\ Redis THEN Append(bus, job[b].message) ELSE bus
        BY <2>3, EndFacts
      <3>2. \A i \in DOMAIN bus : i \in DOMAIN bus' /\ bus'[i] = bus[i]
        BY <1>3, <3>1
      <3>3. ASSUME NEW c \in Jobs, Owes(c, s), Corrects(job[c].message, at[s], x)
            PROVE  Awaited(s, x)'
        <4>1. CASE c = b
          <5>1. bus' = Append(bus, job[c].message) /\ job[c].message.venue = at[s]
            BY <3>1, <3>3, <4>1 DEF Owes
          <5>2. Len(bus) + 1 \in DOMAIN bus' /\ bus'[Len(bus) + 1] = job[c].message
            BY <1>3, <5>1
          <5> QED BY <1>1, <1>2, <3>3, <5>1, <5>2 DEF Awaited
        <4>2. CASE c # b
          BY <1>1, <1>2, <3>1, <3>3, <4>2 DEF Awaited, Owes, Busy
        <4> QED BY <4>1, <4>2
      <3>4. ASSUME NEW i \in DOMAIN bus, bus[i].venue = at[s], Corrects(bus[i], at[s], x)
            PROVE  Awaited(s, x)'
        BY <1>1, <1>2, <3>2, <3>4 DEF Awaited
      <3> QED BY <1>4, <3>3, <3>4 DEF Awaited
    <2> QED BY <2>1, <2>2, <2>3
  <1>5. \A s \in Sockets : Attached(s)' => Attached(s)
    BY <1>1 DEF Attached
  <1> QED BY <1>1, <1>4, <1>5, FollowingKept DEF Following

\* A message reaches the tab: it corrects what the broadcast was to correct, and what it
\* shows itself is active, or undone by what comes after it.
LEMMA FollowingSend ==
    ASSUME FeedTypeOK, PoolInv, InOrder, Following, NEW b \in Jobs, NEW t, Sends(b, t)
    PROVE  Following'
  <1> DEFINE m == job[b].message
             d == [type |-> m.type, session |-> m.session]
  <1>0. UNCHANGED <<hook, up, endpoint, bus, live, changes>>
    BY SendFacts
  <1>1. /\ UNCHANGED <<socket, at, readyState, view, up, endpoint, live, bus>>
        /\ Busy(b) /\ m \in Message /\ m.type \in {"start", "stop"} /\ job'[b].message = m
        /\ job[b].phase = "send" /\ job'[b].phase = "send"
        /\ job'[b].left = job[b].left \ {t} /\ t \in job[b].left
        /\ \A c \in Jobs : c # b => job'[c] = job[c]
    BY <1>0, SendFacts DEF hook, Message
  <1>2. inbox' = IF t = Global \/ ~Reachable(t) THEN inbox ELSE [inbox EXCEPT ![t] = Append(@, d)]
    BY DEF Sends
  <1> HIDE DEF m, d
  <1>3. t \in Sockets \/ t = Global
    BY <1>1, Constants DEF FeedTypeOK, ServerTypeOK, Job
  <1>4. t \in Sockets => at[t] = m.venue /\ endpoint[t] \in {"registered", "over"}
    BY <1>1 DEF PoolInv, m
  <1>5. \A s \in Sockets : s # t => inbox'[s] = inbox[s]
    BY <1>2 DEF FeedTypeOK, ClientTypeOK
  <1>6. \A n, v, x : Corrects(n, v, x)' <=> Corrects(n, v, x)
    BY <1>1 DEF Corrects
  <1>7. /\ \A s \in Sockets : endpoint'[s] \in {"none", "accepted"} => inbox'[s] = <<>>
        /\ readyState'[1] # "unused"
        /\ socket' = 1 /\ endpoint'[1] \in {"none", "accepted"} => view' = 0
    BY <1>1, <1>4, <1>5 DEF Following
  <1>8. \A s \in Sockets : (Attached(s)' <=> Attached(s)) /\ (Attached(s) => s = socket)
    BY <1>1 DEF Attached
  <1>9. CASE ~(t \in Sockets /\ Attached(t))
    <2>1. \A s \in Sockets : Attached(s) => s # t
      BY <1>9
    <2>2. ASSUME NEW s \in Sockets, Attached(s), NEW c \in Jobs, Owes(c, s)
          PROVE  Owes(c, s)' /\ job'[c].message = job[c].message
      BY <1>1, <2>1, <2>2 DEF Owes, Busy, m
    <2>3. ASSUME NEW s \in Sockets, Attached(s), NEW x, Awaited(s, x) PROVE Awaited(s, x)'
      BY <1>1, <1>6, <2>2, <2>3 DEF Awaited
    <2> QED BY <1>1, <1>5, <1>7, <1>8, <2>1, <2>3, FollowingKept
  <1>10. CASE t \in Sockets /\ Attached(t)
    <2> DEFINE q == inbox[t]
               v == at[t]
    <2>1. q \in Seq(Delivered) /\ inbox'[t] = Append(q, d) /\ m.venue = v
      BY <1>2, <1>4, <1>10, Constants DEF Attached, Reachable, FeedTypeOK, ClientTypeOK
    <2>2. /\ \A i \in DOMAIN q : i \in Nat /\ i # 0 /\ i < Len(q) + 1 /\ i \in DOMAIN inbox'[t] /\ inbox'[t][i] = q[i]
          /\ Len(q) + 1 \in DOMAIN inbox'[t] /\ inbox'[t][Len(q) + 1] = d /\ Len(q) + 1 \in Nat
          /\ \A i \in DOMAIN inbox'[t] : i \in DOMAIN q \/ i = Len(q) + 1
      BY <2>1
    <2>3. \A x : Corrects(m, v, x) <=> Corrects(d, v, x)
      BY DEF Corrects, Sets, d
    <2>4. ASSUME live[v] # 0 \/ t = 1, NEW x \in Nat, NEW i \in Nat,
                 i = 0 \/ i \in DOMAIN q, Shows(t, x, i), x # live[v]
          PROVE  Corrected(t, x, i)'
      <3>1. Corrected(t, x, i)
        BY <1>10, <2>4 DEF Following
      <3>2. ASSUME NEW j \in DOMAIN q, j > i, Corrects(q[j], v, x) PROVE Corrected(t, x, i)'
        BY <1>1, <1>6, <2>2, <3>2 DEF Corrected
      <3>3. ASSUME NEW j \in DOMAIN bus, bus[j].venue = v, Corrects(bus[j], v, x) PROVE Corrected(t, x, i)'
        BY <1>1, <1>6, <3>3 DEF Corrected, Awaited
      <3>4. ASSUME NEW c \in Jobs, Owes(c, t), Corrects(job[c].message, v, x) PROVE Corrected(t, x, i)'
        <4>1. CASE c # b
          BY <1>1, <1>6, <3>4, <4>1 DEF Corrected, Awaited, Owes, Busy
        <4>2. CASE c = b
          <5>1. Corrects(d, v, x) /\ Len(q) + 1 > i
            BY <2>2, <2>3, <2>4, <3>4, <4>2 DEF m
          <5> QED BY <1>1, <1>6, <2>2, <5>1 DEF Corrected
        <4> QED BY <4>1, <4>2
      <3> QED BY <3>1, <3>2, <3>3, <3>4 DEF Corrected, Awaited
    <2>5. ASSUME NEW x \in Nat, Sets(d), x = d.session, x # live[v]
          PROVE  Awaited(t, x)'
      <3>1. Stale(m) /\ x = m.session
        BY <1>1, <2>1, <2>5 DEF Sets, Stale, d
      <3>2. b = Listener
        BY <1>1, <3>1, Constants DEF InOrder, m
      <3>3. Redis /\ Undone(m, 0)
        BY <1>1, <3>1, <3>2 DEF InOrder, m
      <3>4. ASSUME NEW j \in DOMAIN bus, bus[j].venue = v, Corrects(bus[j], v, x) PROVE Awaited(t, x)'
        BY <1>1, <1>6, <3>4 DEF Awaited
      <3>5. ASSUME NEW h \in Handlers, Busy(h), job[h].message.venue = v, Corrects(job[h].message, v, x)
            PROVE  Awaited(t, x)'
        <4>1. h # Listener /\ h \in Jobs /\ job'[h] = job[h]
          BY <1>1, <3>2, Constants
        <4> QED BY <1>1, <1>6, <3>3, <3>5, <4>1 DEF Awaited, Owes, Busy
      <3> QED BY <2>1, <3>1, <3>3, <3>4, <3>5 DEF Undone, HandlerCorrects
    <2>6. ASSUME live[v] # 0 \/ t = 1, NEW x \in Nat, NEW i \in Nat, Shows(t, x, i)', x # live[v]
          PROVE  Corrected(t, x, i)'
      <3>1. CASE i = 0 \/ i \in DOMAIN q
        <4>1. Shows(t, x, i)
          BY <1>1, <2>2, <2>6, <3>1 DEF Shows, Sets
        <4> QED BY <2>4, <2>6, <3>1, <4>1
      <3>2. CASE ~(i = 0 \/ i \in DOMAIN q)
        <4>1. Sets(d) /\ x = d.session
          BY <2>2, <2>6, <3>2 DEF Shows, Sets
        <4> QED BY <2>5, <2>6, <4>1 DEF Corrected
      <3> QED BY <3>1, <3>2
    <2>7. \A s \in Sockets : Attached(s)' => s = t
      BY <1>8, <1>10
    <2> QED BY <1>1, <1>7, <2>6, <2>7 DEF Following
  <1> QED BY <1>9, <1>10

\* The tab is registered: the initial state corrects what it showed before.
LEMMA FollowingRegister ==
    ASSUME FeedTypeOK, Following, NEW t \in Sockets, Registers(t)
    PROVE  Following'
  <1>0. PICK n : n = InitialState(at[t])
    OBVIOUS
  <1>1. /\ UNCHANGED <<socket, at, readyState, view, up, live, bus, job>>
        /\ endpoint[t] = "accepted" /\ inbox[t] = <<>>
        /\ \A s \in Sockets : endpoint'[s] = IF s = t THEN "registered" ELSE endpoint[s]
    BY DEF Registers, hook, FeedTypeOK, ServerTypeOK, Following
  <1>2. inbox' = IF Reachable(t) THEN [inbox EXCEPT ![t] = Append(@, n)] ELSE inbox
    BY <1>0 DEF Registers
  <1>3. \A s \in Sockets : s # t => inbox'[s] = inbox[s]
    BY <1>2 DEF FeedTypeOK, ClientTypeOK
  <1>4. Reachable(t) => inbox'[t] = <<n>>
    BY <1>1, <1>2 DEF FeedTypeOK, ClientTypeOK
  <1>5. n.session = live[at[t]] /\ (n.session # 0 => Sets(n))
    BY <1>0 DEF InitialState, Sets
  <1>6. /\ \A s \in Sockets : endpoint'[s] \in {"none", "accepted"} => inbox'[s] = <<>>
        /\ readyState'[1] # "unused"
        /\ socket' = 1 /\ endpoint'[1] \in {"none", "accepted"} => view' = 0
    BY <1>1, <1>3, Constants DEF Following
  <1>7. \A s \in Sockets : Attached(s)' => s = socket /\ (s # t => Attached(s))
    BY <1>1 DEF Attached
  <1>8. CASE ~Attached(t)'
    <2>1. \A s \in Sockets : Attached(s)' => s # t
      BY <1>8
    <2>2. \A s, x : Awaited(s, x)' <=> Awaited(s, x)
      BY <1>1 DEF Awaited, Owes, Busy, Corrects
    <2> QED BY <1>1, <1>3, <1>6, <1>7, <2>1, <2>2, FollowingKept
  <1>9. CASE Attached(t)'
    <2>1. Reachable(t)
      BY <1>1, <1>9, Constants DEF Attached, Reachable
    <2>2. inbox'[t] = <<n>> /\ DOMAIN inbox'[t] = {1} /\ inbox'[t][1] = n
      BY <1>4, <2>1
    <2>3. ASSUME live[at[t]] # 0 \/ t = 1, NEW x \in Nat, NEW i \in Nat, Shows(t, x, i)', x # live[at[t]]
          PROVE  Corrected(t, x, i)'
      <3>1. i = 0 /\ x = view
        BY <1>1, <1>5, <2>2, <2>3 DEF Shows
      <3>2. live[at[t]] # 0
        BY <1>1, <1>7, <1>9, <2>3, <3>1 DEF Following
      <3>3. Corrects(n, at[t], x)'
        BY <1>1, <1>5, <3>2 DEF Corrects
      <3>4. Corrects(inbox[t][1], at[t], x)' /\ 1 > i /\ 1 \in DOMAIN inbox'[t]
        BY <2>2, <3>1, <3>3 DEF Corrects
      <3> QED BY <3>4 DEF Corrected
    <2>4. \A s \in Sockets : Attached(s)' => s = t
      BY <1>7, <1>9
    <2> QED BY <1>1, <1>6, <2>3, <2>4 DEF Following
  <1> QED BY <1>8, <1>9

\* A session starts or stops: the broadcast that begins corrects what is no longer true, and
\* what was to show another session still does.
LEMMA FollowingChange ==
    ASSUME FeedTypeOK, Following, OneAtATime', NEW b \in Jobs, NEW v \in Venues, Changes(b, v)
    PROVE  Following'
  <1>1. PICK m \in Message :
             /\ b \in Handlers /\ m.venue = v
             /\ live[v] = 0 => m.type = "start" /\ m.session = changes + 1
             /\ live[v] # 0 => m.type = "stop" /\ m.session = live[v]
             /\ live'[v] = IF live[v] = 0 THEN changes + 1 ELSE 0
             /\ \A w \in Venues : w # v => live'[w] = live[w]
             /\ Busy(b)' /\ job'[b].message = m /\ job'[b].phase = "take"
             /\ \A c \in Jobs : c # b => job'[c] = job[c]
             /\ ~Busy(b)
             /\ UNCHANGED <<clientVars, endpoint, bus>>
    BY ChangeFacts
  <1>2. UNCHANGED <<socket, at, readyState, view, up, inbox, endpoint, bus>> /\ changes \in Nat
    BY <1>1 DEF clientVars, hook, FeedTypeOK, ServerTypeOK
  <1>3. /\ \A s \in Sockets : endpoint'[s] \in {"none", "accepted"} => inbox'[s] = <<>>
        /\ readyState'[1] # "unused"
        /\ socket' = 1 /\ endpoint'[1] \in {"none", "accepted"} => view' = 0
    BY <1>2 DEF Following
  <1>4. \A s \in Sockets : (Attached(s)' <=> Attached(s)) /\ (Attached(s) => s = socket) /\ at[s] \in Venues
    BY <1>2 DEF Attached, FeedTypeOK, ClientTypeOK
  <1>5. \A s \in Sockets, c \in Jobs : Owes(c, s) => Owes(c, s)' /\ job'[c].message = job[c].message
    BY <1>1, <1>2 DEF Owes, Busy
  <1>6. ASSUME NEW s \in Sockets, Attached(s), at[s] # v, NEW x, Awaited(s, x) PROVE Awaited(s, x)'
    <2>1. \A n : Corrects(n, at[s], x) => Corrects(n, at[s], x)'
      BY <1>1, <1>2, <1>4, <1>6 DEF Corrects
    <2> QED BY <1>2, <1>5, <1>6, <2>1 DEF Awaited
  <1>7. ASSUME NEW s \in Sockets, Attached(s), at[s] = v, live'[v] # 0 \/ s = 1,
               NEW x \in Nat, NEW i \in Nat, Shows(s, x, i), x # live'[v]
        PROVE  Corrected(s, x, i)'
    <2>1. Owes(b, s)' /\ job'[b].message = m /\ b \in Jobs
      BY <1>1, <1>2, <1>7 DEF Owes
    <2>2. CASE live[v] = 0 \/ x = live[v]
      <3>1. Corrects(m, v, x)'
        BY <1>1, <1>2, <1>7, <2>2 DEF Corrects, Sets
      <3>2. Corrects(job[b].message, at[s], x)'
        BY <1>2, <1>7, <2>1, <3>1 DEF Corrects
      <3> QED BY <2>1, <3>2 DEF Corrected, Awaited
    <2>3. CASE live[v] # 0 /\ x # live[v]
      <3>1. Corrected(s, x, i)
        BY <1>7, <2>3 DEF Following
      <3>2. \A n : Corrects(n, v, x) => Corrects(n, v, x)'
        BY <1>1, <2>3 DEF Corrects
      <3>3. ASSUME NEW j \in DOMAIN inbox[s], j > i, Corrects(inbox[s][j], v, x) PROVE Corrected(s, x, i)'
        <4>1. j \in DOMAIN inbox'[s] /\ Corrects(inbox[s][j], at[s], x)'
          BY <1>2, <1>7, <3>2, <3>3 DEF Corrects
        <4> QED BY <3>3, <4>1 DEF Corrected
      <3>4. ASSUME Awaited(s, x) PROVE Awaited(s, x)'
        BY <1>2, <1>5, <1>7, <3>2, <3>4 DEF Awaited, Corrects
      <3> QED BY <1>7, <3>1, <3>3, <3>4 DEF Corrected
    <2> QED BY <2>2, <2>3
  <1>8. ASSUME NEW s \in Sockets, Attached(s)', live'[at'[s]] # 0 \/ s = 1
        PROVE  \A x, i \in Nat : Shows(s, x, i)' /\ x # live'[at'[s]] => Corrected(s, x, i)'
    <2>1. \A x, i : Shows(s, x, i)' <=> Shows(s, x, i)
      BY <1>2 DEF Shows, Sets
    <2>2. CASE at[s] = v
      BY <1>2, <1>4, <1>7, <1>8, <2>1, <2>2
    <2>3. CASE at[s] # v
      <3>1. \A u \in Sockets : Attached(u)' => u = s
        BY <1>4, <1>8
      <3>2. Following'
        BY <1>1, <1>2, <1>3, <1>4, <1>6, <2>3, <3>1, FollowingKept
      <3> QED BY <1>8, <3>2 DEF Following
    <2> QED BY <2>2, <2>3
  <1> QED BY <1>3, <1>8 DEF Following

LEMMA FollowingNext ==
    ASSUME FeedTypeOK, PoolInv, Numbered, InOrder, Following, OneAtATime', [FeedNext]_feedVars
    PROVE  Following'
  <1>1. CASE ClientNext /\ UNCHANGED server
    BY <1>1, FollowingClient
  \* The endpoints and the connections: nothing is sent, and no socket becomes attached.
  <1>2. ASSUME UNCHANGED <<socket, at, view, inbox, live, bus, job>>, readyState'[1] # "unused",
               \A s \in Sockets : /\ endpoint'[s] \in {"none", "accepted"} => endpoint[s] \in {"none", "accepted"}
                                  /\ Attached(s)' => Attached(s)
        PROVE  Following'
    <2>1. \A s, x : Awaited(s, x)' <=> Awaited(s, x)
      BY <1>2 DEF Awaited, Owes, Busy, Corrects
    <2>2. \A s \in Sockets : endpoint'[s] \in {"none", "accepted"} => inbox'[s] = <<>>
      BY <1>2 DEF Following
    <2>3. socket' = 1 /\ endpoint'[1] \in {"none", "accepted"} => view' = 0
      BY <1>2, Constants DEF Following
    <2>4. \A s \in Sockets : Attached(s)' =>
              /\ Attached(s) /\ inbox'[s] = inbox[s] /\ view' = view /\ at'[s] = at[s]
              /\ live'[at[s]] = live[at[s]]
              /\ \A x : Awaited(s, x) => Awaited(s, x)'
      BY <1>2, <2>1
    <2> QED BY <1>2, <2>2, <2>3, <2>4, FollowingKept
  <1>3. readyState[1] # "unused" /\ 1 \in Sockets
    BY Constants DEF Following
  <1>4. ASSUME NEW s \in Sockets, Accepts(s) PROVE Following'
    <2>1. /\ UNCHANGED <<socket, at, view, up, inbox, live, bus, job>> /\ endpoint[s] = "none"
          /\ \A t \in Sockets : endpoint'[t] = IF t = s THEN "accepted" ELSE endpoint[t]
          /\ \A t \in Sockets : readyState'[t] = IF t = s /\ readyState[s] = "connecting" THEN "open" ELSE readyState[t]
      BY <1>4 DEF Accepts, Opened, hook, FeedTypeOK, ServerTypeOK, ClientTypeOK
    <2> QED BY <1>2, <1>3, <2>1 DEF Attached
  <1>5. ASSUME NEW s \in Sockets, Refuses(s) \/ Leaves(s) PROVE Following'
    <2>1. /\ UNCHANGED <<socket, at, view, readyState, inbox, live, bus, job>>
          /\ \A t \in Sockets : endpoint'[t] = IF t = s THEN "over" ELSE endpoint[t]
          /\ \A t \in Sockets : up'[t] => up[t]
      BY <1>5 DEF Refuses, Leaves, hook, FeedTypeOK, ServerTypeOK, ClientTypeOK
    <2> QED BY <1>2, <1>3, <2>1 DEF Attached
  <1>6. ASSUME NEW t, Breaks(t) PROVE Following'
    <2>1. /\ UNCHANGED <<socket, at, view, readyState, inbox, live, bus, job, endpoint>>
          /\ \A s \in Sockets : up'[s] => up[s]
      BY <1>6 DEF Breaks, hook, FeedTypeOK, ClientTypeOK
    <2> QED BY <1>2, <1>3, <2>1 DEF Attached
  <1>7. CASE GlobalLeaves \/ UNCHANGED feedVars
    <2>1. UNCHANGED <<socket, at, view, up, readyState, inbox, live, bus, job, endpoint>>
      BY <1>7 DEF GlobalLeaves, feedVars, server, clientVars, hook
    <2> QED BY <1>2, <1>3, <2>1 DEF Attached
  <1>8. ASSUME NEW s \in Sockets, Registers(s) PROVE Following'
    BY <1>8, FollowingRegister
  <1>9. ASSUME NEW b \in Jobs, NEW v \in Venues, Changes(b, v) PROVE Following'
    BY <1>9, FollowingChange
  <1>10. CASE Hears
    BY <1>10, FollowingBroadcast, Constants
  <1>11. ASSUME NEW b \in Jobs, TakesTargets(b) \/ StartsPruning(b) \/ (\E t : Prunes(b, t)) \/ EndsBroadcast(b)
         PROVE  Following'
    BY <1>11, FollowingBroadcast
  <1>12. ASSUME NEW b \in Jobs, NEW t, Sends(b, t) PROVE Following'
    BY <1>12, FollowingSend
  <1> QED
    BY <1>1, <1>4, <1>5, <1>6, <1>7, <1>8, <1>9, <1>10, <1>11, <1>12 DEF FeedNext, ServerNext, ServerWork

LEMMA FollowingInit == FeedInit => Numbered /\ InOrder /\ Following
  <1> SUFFICES ASSUME FeedInit PROVE Numbered /\ InOrder /\ Following
    OBVIOUS
  <1>1. /\ bus = <<>> /\ \A b \in Jobs : ~Busy(b)
        /\ \A v \in Venues : live[v] = 0
        /\ changes = 0 /\ view = 0 /\ socket = 1
        /\ \A s \in Sockets : inbox[s] = <<>> /\ endpoint[s] = "none"
        /\ readyState[1] = "connecting"
    BY Constants DEF FeedInit, ClientInit, Busy, Idle
  <1>2. \A s \in Sockets : ~Attached(s)
    BY <1>1 DEF Attached
  <1>3. Numbered
    BY <1>1 DEF Numbered
  <1>4. InOrder
    BY <1>1, Constants DEF InOrder
  <1> QED BY <1>1, <1>2, <1>3, <1>4 DEF Following

\* When all is delivered nothing can be corrected any more, so nothing needs to be.
LEMMA FollowingQuiet ==
    ASSUME FeedTypeOK, Following
    PROVE  ViewIsCurrent
  <1> SUFFICES ASSUME Quiet, Connected, at[socket] = venue,
                      live[venue] # 0 \/ socket = 1, view # live[venue]
               PROVE  FALSE
    <2>1. Connected => socket \in 1..MaxSockets
      BY Constants DEF Connected, NoSocket, FeedTypeOK, ClientTypeOK
    <2> QED BY <2>1 DEF ViewIsCurrent
  <1>1. socket \in Sockets /\ Attached(socket)
    BY Constants DEF Connected, NoSocket, Attached, FeedTypeOK, ClientTypeOK
  <1>2. Shows(socket, view, 0) /\ view \in Nat
    BY DEF Shows, FeedTypeOK, ClientTypeOK
  <1>3. Corrected(socket, view, 0)
    BY <1>1, <1>2 DEF Following
  <1>4. bus = <<>> /\ inbox[socket] = <<>> /\ \A b \in Jobs : ~Busy(b)
    BY <1>1 DEF Quiet, Busy
  <1> QED BY <1>3, <1>4 DEF Corrected, Awaited, Owes

\* Where handlers broadcast one at a time, a connected tab that everything has reached shows
\* the active session of its venue, whatever broke, was switched or came back through Redis.
THEOREM CurrentView == FeedSpec /\ []OneAtATime => []ViewIsCurrent
  <1> DEFINE Inv == Numbered /\ InOrder /\ Following
  <1>1. FeedInit => Inv
    BY FollowingInit
  <1>2. FeedTypeOK /\ PoolInv /\ Inv /\ OneAtATime /\ OneAtATime' /\ [FeedNext]_feedVars => Inv'
    BY NumberedNext, InOrderNext, FollowingNext
  <1>3. FeedTypeOK /\ Inv => ViewIsCurrent
    BY FollowingQuiet
  <1>4. FeedSpec => []FeedTypeOK
    BY FeedTypeCorrect
  <1>5. FeedSpec => []PoolInv
    BY FeedTypeCorrect, PoolInit, PoolNext, PTL DEF FeedSpec
  <1> HIDE DEF Inv
  <1> QED BY <1>1, <1>2, <1>3, <1>4, <1>5, PTL DEF FeedSpec

------------------------------------------------------------------------------
(* The engine's types. *)

\* The larger and the smaller of two numbers, as the largest and least of their set.
LEMMA OfTwo ==
    ASSUME NEW a \in Int, NEW b \in Int
    PROVE  /\ Max({a, b}) = IF a >= b THEN a ELSE b
           /\ Min({a, b}) = IF a <= b THEN a ELSE b
  <1>1. \E m \in {a, b} : \A y \in {a, b} : m >= y
    OBVIOUS
  <1>2. \E m \in {a, b} : \A y \in {a, b} : m <= y
    OBVIOUS
  <1>3. Max({a, b}) \in {a, b} /\ \A y \in {a, b} : Max({a, b}) >= y
    BY <1>1 DEF Max
  <1>4. Min({a, b}) \in {a, b} /\ \A y \in {a, b} : Min({a, b}) <= y
    BY <1>2 DEF Min
  <1> QED BY <1>3, <1>4

\* A set of integers that has a bound has a least.
LEMMA LeastOf ==
    ASSUME NEW T \in SUBSET Nat, T # {}
    PROVE  Min(T) \in T /\ \A n \in T : Min(T) <= n
  <1>5. \E x \in T : \A y \in T : x <= y
    BY LeastNumber
  <1> QED BY <1>5 DEF Min

\* What is left of a window: its end, from the first that is young enough on, and no
\* more than fit.
LEMMA TrimmedFacts ==
    ASSUME NEW s \in Seq(Int), NEW cutoff \in Int
    PROVE  LET t == Trimmed(s, cutoff) IN
           /\ t \in Seq(Int) /\ Len(t) <= Len(s) /\ Len(t) <= Capacity
           /\ \A i \in 1..Len(t) : t[i] = s[Len(s) - Len(t) + i]
           /\ \A i \in 1..Len(s) : i <= Len(s) - Len(t) =>
                \/ \A j \in 1..i : s[j] < cutoff
                \/ Len(t) = Capacity
           /\ Len(t) > 0 => \E i \in 1..Len(s) - Len(t) + 1 : s[i] >= cutoff
  <1> DEFINE young == {i \in DOMAIN s : s[i] >= cutoff}
             t == Trimmed(s, cutoff)
  <1>0. Capacity \in Nat \ {0}
    BY EngineBounds
  <1>1. DOMAIN s = 1..Len(s) /\ Len(s) \in Nat /\ \A i \in 1..Len(s) : s[i] \in Int
    OBVIOUS
  <1>2. \A i : i \in young <=> i \in 1..Len(s) /\ s[i] >= cutoff
    BY <1>1
  <1>3. t = IF young = {} THEN <<>> ELSE LastOf(SubSeq(s, Min(young), Len(s)), Capacity)
    BY DEF Trimmed
  <1> SUFFICES /\ t \in Seq(Int) /\ Len(t) <= Len(s) /\ Len(t) <= Capacity
               /\ \A i \in 1..Len(t) : t[i] = s[Len(s) - Len(t) + i]
               /\ \A i \in 1..Len(s) : i <= Len(s) - Len(t) =>
                    \/ \A j \in 1..i : s[j] < cutoff
                    \/ Len(t) = Capacity
               /\ Len(t) > 0 => \E i \in 1..Len(s) - Len(t) + 1 : s[i] >= cutoff
    OBVIOUS
  <1> HIDE DEF t, young
  <1>4. CASE young = {}
    <2>1. t = <<>> /\ Len(t) = 0
      BY <1>3, <1>4
    <2>2. \A j \in 1..Len(s) : s[j] < cutoff
      BY <1>1, <1>2, <1>4
    <2> QED BY <1>0, <1>1, <2>1, <2>2
  <1>5. CASE young # {}
    <2>1. PICK f : f = Min(young)
      OBVIOUS
    <2>2. f \in young /\ \A n \in young : f <= n
      <3>1. young \in SUBSET Nat
        BY <1>1, <1>2
      <3> QED BY <1>5, <2>1, <3>1, LeastOf
    <2>3. f \in 1..Len(s) /\ s[f] >= cutoff /\ \A j \in 1..Len(s) : j < f => s[j] < cutoff
      BY <1>1, <1>2, <2>2
    <2>4. PICK m : m = SubSeq(s, f, Len(s))
      OBVIOUS
    <2>5. /\ m \in Seq(Int) /\ Len(m) = Len(s) - f + 1 /\ Len(m) \in Nat
          /\ \A i \in 1..Len(m) : m[i] = s[f + i - 1]
      BY <1>1, <2>3, <2>4
    <2>6. PICK g : g = Max({1, Len(m) - Capacity + 1})
      OBVIOUS
    <2>7. g = IF Len(m) >= Capacity THEN Len(m) - Capacity + 1 ELSE 1
      <3>1. Len(m) - Capacity + 1 \in Int
        BY <1>0, <2>5
      <3>2. g = IF 1 >= Len(m) - Capacity + 1 THEN 1 ELSE Len(m) - Capacity + 1
        BY <2>6, <3>1, OfTwo
      <3> QED BY <1>0, <2>5, <3>2
    <2>8. g \in 1..Len(m)
      BY <1>0, <1>1, <2>3, <2>5, <2>7
    <2>9. t = SubSeq(m, g, Len(m))
      BY <1>3, <1>5, <2>1, <2>4, <2>6 DEF LastOf
    <2>10. /\ t \in Seq(Int) /\ Len(t) = Len(m) - g + 1
           /\ \A i \in 1..Len(t) : t[i] = m[g + i - 1]
      <3>1. m \in Seq(Int) /\ Len(m) \in Nat
        BY <2>5
      <3>2. t \in Seq(Int) /\ Len(t) = Len(m) - g + 1
        BY <2>8, <2>9, <3>1
      <3>3. \A i \in 1..Len(t) : t[i] = m[g + i - 1]
        BY <2>8, <2>9, <3>1, <3>2
      <3> QED BY <3>2, <3>3
    <2>11. Len(t) <= Len(s) /\ Len(t) <= Capacity /\ Len(s) - Len(t) = f + g - 2
      <3>1. PICK n : n = Len(s)
        OBVIOUS
      <3>2. n \in Nat /\ f \in 1..n /\ Len(m) = n - f + 1
        BY <1>1, <2>3, <2>5, <3>1
      <3>3. Len(t) = n - f + 2 - g
        BY <2>8, <2>10, <3>2
      <3>4. Len(t) <= Capacity
        BY <1>0, <2>7, <3>2, <3>3
      <3>5. Len(t) <= n /\ n - Len(t) = f + g - 2
        BY <2>8, <3>2, <3>3
      <3> QED BY <3>1, <3>4, <3>5
    <2>12. ASSUME NEW i \in 1..Len(t) PROVE t[i] = s[Len(s) - Len(t) + i]
      <3>1. t[i] = m[g + i - 1] /\ g + i - 1 \in 1..Len(m)
        BY <2>5, <2>8, <2>10
      <3>2. m[g + i - 1] = s[f + (g + i - 1) - 1]
        BY <2>5, <3>1
      <3>3. f + (g + i - 1) - 1 = Len(s) - Len(t) + i
        BY <1>1, <2>3, <2>5, <2>8, <2>10, <2>11
      <3> QED BY <3>1, <3>2, <3>3
    <2>13. ASSUME NEW i \in 1..Len(s), i <= Len(s) - Len(t), Len(t) # Capacity
           PROVE  \A j \in 1..i : s[j] < cutoff
      <3>1. g = 1
        <4>1. CASE Len(m) >= Capacity
          <5>1. Len(t) = Capacity
            BY <1>0, <2>5, <2>7, <2>10, <4>1
          <5> QED BY <2>13, <5>1
        <4>2. CASE ~(Len(m) >= Capacity)
          BY <2>7, <4>2
        <4> QED BY <4>1, <4>2
      <3>2. i < f
        BY <1>1, <2>3, <2>11, <2>13, <3>1
      <3> QED BY <1>1, <2>3, <3>2
    <2>14. Len(t) > 0 => \E i \in 1..Len(s) - Len(t) + 1 : s[i] >= cutoff
      BY <1>1, <2>3, <2>8, <2>11
    <2> QED BY <2>10, <2>11, <2>12, <2>13, <2>14
  <1> QED BY <1>4, <1>5

WindowsType == [Kinds -> [Places -> [Widths -> Seq(Int)]]]

LEMMA EngineConstants ==
    /\ Widths \subseteq Nat /\ RateWidth \in Widths /\ RateWidth \in Nat /\ Venue \notin Gates
    /\ Capacity \in Nat \ {0} /\ SustainedFrames \in Nat \ {0}
    /\ Late \in Nat /\ Ahead \in Nat /\ MaxNow \in Nat /\ MaxEvents \in Nat /\ MaxSessions \in Nat
    /\ Crowd.lowMax \in Nat /\ Crowd.highMax \in Nat /\ Crowd.criticalMin \in Nat
    /\ Venue \in Places /\ Gates \subseteq Places
    /\ <<"OCCUPANCY_SPIKE", Venue>> \in RuleKeys
  BY WidthsTyped, EngineBounds, CrowdTyped DEF Places, RuleKeys

\* An event goes to the windows of its gate and of the venue, and to no others.
LEMMA RecordedFacts ==
    ASSUME windows \in WindowsType, NEW kind \in Kinds, NEW gate \in Gates, NEW time \in Int
    PROVE  /\ Recorded(kind, gate, time) \in WindowsType
           /\ \A k \in Kinds, p \in Places, w \in Widths :
                Recorded(kind, gate, time)[k][p][w] =
                    IF k = kind /\ p \in {gate, Venue}
                    THEN Trimmed(Append(windows[k][p][w], time), time - w)
                    ELSE windows[k][p][w]
  <1> DEFINE rec == Recorded(kind, gate, time)
             row == [p \in Places |->
                        IF p \in {gate, Venue}
                        THEN [w \in Widths |-> Trimmed(Append(windows[kind][p][w], time), time - w)]
                        ELSE windows[kind][p]]
  <1>1. rec = [windows EXCEPT ![kind] = row]
    BY DEF Recorded, WindowsType
  <1>2. ASSUME NEW p \in Places, NEW w \in Widths
        PROVE  Trimmed(Append(windows[kind][p][w], time), time - w) \in Seq(Int)
    <2>1. windows[kind][p][w] \in Seq(Int) /\ time - w \in Int
      BY EngineConstants DEF WindowsType
    <2>2. Append(windows[kind][p][w], time) \in Seq(Int)
      BY <2>1
    <2> QED BY <2>1, <2>2, TrimmedFacts
  <1>3. row \in [Places -> [Widths -> Seq(Int)]]
    BY <1>2 DEF WindowsType
  <1>4. rec \in WindowsType
    BY <1>1, <1>3 DEF WindowsType
  <1>5. ASSUME NEW k \in Kinds, NEW p \in Places, NEW w \in Widths
        PROVE  rec[k][p][w] = IF k = kind /\ p \in {gate, Venue}
                              THEN Trimmed(Append(windows[k][p][w], time), time - w)
                              ELSE windows[k][p][w]
    BY <1>1 DEF WindowsType
  <1> QED BY <1>4, <1>5

\* Every window is trimmed to the clock.
LEMMA SweptFacts ==
    ASSUME NEW wins \in WindowsType, now \in Int
    PROVE  /\ Swept(wins) \in WindowsType
           /\ \A k \in Kinds, p \in Places, w \in Widths :
                Swept(wins)[k][p][w] = Trimmed(wins[k][p][w], now - w)
  <1>1. ASSUME NEW k \in Kinds, NEW p \in Places, NEW w \in Widths
        PROVE  Trimmed(wins[k][p][w], now - w) \in Seq(Int)
    <2>1. wins[k][p][w] \in Seq(Int) /\ now - w \in Int
      BY EngineConstants DEF WindowsType
    <2> QED BY <2>1, TrimmedFacts
  <1> QED BY <1>1 DEF Swept, WindowsType

LEMMA RateTyped ==
    ASSUME NEW wins \in WindowsType, NEW kind \in Kinds
    PROVE  Rate(wins, kind) \in Nat
  BY EngineConstants DEF Rate, WindowsType

LEMMA CongestionTyped ==
    ASSUME congestion \in 0..3, NEW n, NEW net
    PROVE  CongestionAt(n, net) \in 0..3
  BY DEF CongestionAt, Target

LEMMA CountedTyped ==
    ASSUME tracker \in OccupancyType, NEW kind \in Kinds, NEW gate \in Gates
    PROVE  Counted(kind, gate) \in OccupancyType
  BY DEF Counted, RecordEntry, RecordExit, OccupancyType, LessOne, Kinds

\* A rule's counter goes up by one to its limit, back to 0, or stays.
LEMMA SustainedTyped ==
    ASSUME sustained \in [RuleKeys -> 0..SustainedFrames], NEW wins, NEW tot
    PROVE  Sustained(wins, tot) \in [RuleKeys -> 0..SustainedFrames]
  <1>1. ASSUME NEW r \in RuleKeys
        PROVE  Min({sustained[r] + 1, SustainedFrames}) \in 0..SustainedFrames
    <2>1. sustained[r] + 1 \in Nat /\ SustainedFrames \in Nat
      BY EngineConstants
    <2>2. \A a, b \in Nat : Min({a, b}) = IF a <= b THEN a ELSE b
      BY OfTwo
    <2> QED BY <2>1, <2>2
  <1> QED BY <1>1, EngineConstants DEF Sustained

LEMMA IntelligenceTypeInit == IntelligenceInit => IntelligenceTypeOK
  BY EngineConstants DEF IntelligenceInit, IntelligenceTypeOK, NoOccupancy, OccupancyType, SessionIds

LEMMA IntelligenceTypeNext ==
    ASSUME IntelligenceTypeOK, [IntelligenceNext]_intelligenceVars PROVE IntelligenceTypeOK'
  <1> USE DEF IntelligenceTypeOK
  <1>0. now \in Int /\ windows \in WindowsType
    BY DEF WindowsType
  <1>1. CASE Tick
    BY <1>1, EngineConstants DEF Tick, engine
  <1>2. CASE Read
    <2>1. windows' \in WindowsType
      BY <1>0, <1>2, SweptFacts DEF Read, Reading
    <2>2. congestion' \in 0..3
      BY <1>2, CongestionTyped DEF Read, Reading
    <2> QED BY <1>2, <2>1, <2>2 DEF Read, Reading, WindowsType
  <1>3. CASE SessionStarts
    <2>1. session' \in [no : SessionIds, status : {"NONE", "ACTIVE", "PAUSED"}]
      BY <1>3, EngineConstants DEF SessionStarts, SessionIds
    <2> QED BY <1>3, <2>1 DEF SessionStarts, engine
  <1>4. CASE SessionStops
    <2>1. session' \in [no : SessionIds, status : {"NONE", "ACTIVE", "PAUSED"}]
      BY <1>4 DEF SessionStops
    <2> QED BY <1>4, <2>1 DEF SessionStops, engine
  <1>5. ASSUME NEW kind \in Kinds, NEW gate \in Gates, Crossing(kind, gate) PROVE IntelligenceTypeOK'
    <2>1. tracker' \in OccupancyType
      BY <1>5, CountedTyped DEF Crossing
    <2> QED BY <1>5, <2>1 DEF Crossing, engine
  <1>6. ASSUME NEW id \in 1..MaxEvents, NEW kind \in Kinds, NEW gate \in Gates,
               NEW time \in now - Late .. now + Ahead, Ingest(id, kind, gate, time)
        PROVE  IntelligenceTypeOK'
    <2>1. tracker' \in OccupancyType /\ occ' = tracker'
      BY <1>6, CountedTyped DEF Ingest, Consumed
    <2>2. time \in Int
      BY EngineConstants
    <2>3. windows' \in WindowsType
      <3>1. CASE Processed(id, kind, gate, time)
        BY <1>0, <2>2, <3>1, RecordedFacts, SweptFacts DEF Processed
      <3>2. CASE Ignored(id)
        BY <1>0, <3>2, SweptFacts DEF Ignored
      <3> QED BY <1>6, <3>1, <3>2 DEF Ingest
    <2>4. /\ totals' \in [Kinds -> [Places -> Nat]] /\ seen' \subseteq 1..MaxEvents
          /\ sustained' \in [RuleKeys -> 0..SustainedFrames]
          /\ active' \in [SessionIds \X RuleKeys -> Nat]
      <3>1. CASE Processed(id, kind, gate, time)
        <4>1. totals' \in [Kinds -> [Places -> Nat]]
          <5> DEFINE one == [totals EXCEPT ![kind][gate] = totals[kind][gate] + 1]
          <5>1. one \in [Kinds -> [Places -> Nat]]
            BY EngineConstants
          <5>2. totals' = [one EXCEPT ![kind][Venue] = one[kind][Venue] + 1]
            BY <3>1, EngineConstants DEF Processed
          <5> HIDE DEF one
          <5>3. one[kind] \in [Places -> Nat] /\ one[kind][Venue] + 1 \in Nat /\ Venue \in Places
            BY <5>1, EngineConstants
          <5>4. [one EXCEPT ![kind][Venue] = one[kind][Venue] + 1] \in [Kinds -> [Places -> Nat]]
            BY <5>1, <5>3
          <5> QED BY <5>2, <5>4
        <4>2. seen' \subseteq 1..MaxEvents
          BY <3>1 DEF Processed, Remembered
        <4>3. sustained' \in [RuleKeys -> 0..SustainedFrames]
          BY <3>1, SustainedTyped DEF Processed
        <4>4. active' \in [SessionIds \X RuleKeys -> Nat]
          BY <3>1 DEF Processed, Alerted
        <4> QED BY <4>1, <4>2, <4>3, <4>4
      <3>2. CASE Ignored(id)
        BY <3>2 DEF Ignored
      <3> QED BY <1>6, <3>1, <3>2 DEF Ingest
    <2>5. congestion' \in 0..3
      BY <1>6, CongestionTyped DEF Ingest, Consumed
    <2>6. peaks' \in [occupancy : Nat, entry : Nat, exit : Nat, congestion : 0..3]
      <3> DEFINE isNew == id \notin seen
      <3>1. peaks' = PeaksWith(isNew, occ'.current, congestion')
        BY <1>6 DEF Ingest, Consumed
      <3>2. occ'.current \in Nat /\ Rate(windows', "ENTRY") \in Nat /\ Rate(windows', "EXIT") \in Nat
        BY <2>1, <2>3, RateTyped DEF OccupancyType, Kinds
      <3>3. \A a, b \in Nat : Max({a, b}) \in Nat /\ Max({a, b}) \in {a, b}
        BY OfTwo
      <3>4. /\ Max({peaks.occupancy, occ'.current}) \in Nat
            /\ Max({peaks.entry, Rate(windows', "ENTRY")}) \in Nat
            /\ Max({peaks.exit, Rate(windows', "EXIT")}) \in Nat
        BY <3>2, <3>3
      <3>5. Max({peaks.congestion, congestion'}) \in 0..3
        <4>1. peaks.congestion \in 0..3 /\ peaks.congestion \in Nat /\ congestion' \in Nat
          BY <2>5
        <4>2. Max({peaks.congestion, congestion'}) \in {peaks.congestion, congestion'}
          BY <3>3, <4>1
        <4> QED BY <2>5, <4>1, <4>2
      <3> QED BY <3>1, <3>4, <3>5 DEF PeaksWith
    <2> QED BY <1>6, <2>1, <2>3, <2>4, <2>5, <2>6 DEF Ingest, WindowsType
  <1>7. CASE UNCHANGED intelligenceVars
    BY <1>7 DEF intelligenceVars, engine
  <1> QED BY <1>1, <1>2, <1>3, <1>4, <1>5, <1>6, <1>7 DEF IntelligenceNext

\* What the engine keeps has its shape, whatever comes when.
THEOREM EngineTypeCorrect == IntelligenceSpec => []IntelligenceTypeOK
  <1>1. IntelligenceTypeOK /\ [IntelligenceNext]_intelligenceVars => IntelligenceTypeOK'
    BY IntelligenceTypeNext
  <1> QED BY <1>1, IntelligenceTypeInit, PTL DEF IntelligenceSpec

------------------------------------------------------------------------------
(* The rule about the critical occupancy. *)

Spike == <<"OCCUPANCY_SPIKE", Venue>>

\* While the venue is over its critical occupancy the rule has been met at every event
\* but, perhaps, the one that found it so: rules see what was consumed before.
SpikeInv ==
    /\ held \in Nat
    /\ held > 0 => occ.current >= Crowd.criticalMin
    /\ sustained[Spike] >= held - 1 \/ sustained[Spike] = SustainedFrames

\* What an event makes of the rule's counter and alert.
LEMMA SpikeEvaluated ==
    ASSUME IntelligenceTypeOK, NEW wins, NEW tot
    PROVE  /\ ActiveSession \in SessionIds
           /\ Evaluated(Spike, tot) /\ (Met(Spike, wins, tot) <=> occ.current >= Crowd.criticalMin)
           /\ Sustained(wins, tot)[Spike] =
                IF occ.current >= Crowd.criticalMin
                THEN IF sustained[Spike] + 1 <= SustainedFrames THEN sustained[Spike] + 1 ELSE SustainedFrames
                ELSE 0
  <1>1. Spike \in RuleKeys
    BY EngineConstants DEF Spike
  <1>2. Evaluated(Spike, tot) /\ (Met(Spike, wins, tot) <=> occ.current >= Crowd.criticalMin)
    BY DEF Evaluated, Met, Spike
  <1>3. sustained[Spike] + 1 \in Nat /\ SustainedFrames \in Nat
    BY <1>1, EngineConstants DEF IntelligenceTypeOK
  <1>4. \A a, b \in Nat : Min({a, b}) = IF a <= b THEN a ELSE b
    BY OfTwo
  <1>5. Min({sustained[Spike] + 1, SustainedFrames})
            = IF sustained[Spike] + 1 <= SustainedFrames THEN sustained[Spike] + 1 ELSE SustainedFrames
    BY <1>3, <1>4
  <1>6. Sustained(wins, tot)[Spike] =
            IF occ.current >= Crowd.criticalMin THEN Min({sustained[Spike] + 1, SustainedFrames}) ELSE 0
    BY <1>1, <1>2 DEF Sustained
  <1>7. ActiveSession \in SessionIds
    BY EngineConstants DEF ActiveSession, IntelligenceTypeOK, SessionIds, GlobalSession
  <1> QED BY <1>2, <1>5, <1>6, <1>7

\* The step of an event: the counter keeps up with held, and with enough of them there
\* is an alert.
LEMMA SpikeStep ==
    ASSUME IntelligenceTypeOK, SpikeInv,
           NEW id \in 1..MaxEvents, NEW kind \in Kinds, NEW gate \in Gates,
           NEW time \in now - Late .. now + Ahead, Ingest(id, kind, gate, time)
    PROVE  /\ SpikeInv'
           /\ held' > SustainedFrames /\ log' # log => active'[<<ActiveSession, Spike>>] > 0
  <1>1. /\ held \in Nat /\ SustainedFrames \in Nat \ {0} /\ Spike \in RuleKeys
        /\ sustained[Spike] \in 0..SustainedFrames
        /\ occ.current \in Nat /\ Crowd.criticalMin \in Nat
    BY EngineConstants DEF SpikeInv, Spike, IntelligenceTypeOK, OccupancyType
  <1>2. occ'.current \in Nat
    BY CountedTyped DEF Ingest, Consumed, IntelligenceTypeOK, OccupancyType
  <1>3. held' = IF occ'.current < Crowd.criticalMin THEN 0 ELSE held + (IF id \notin seen THEN 1 ELSE 0)
    BY DEF Ingest, Consumed
  <1>4. CASE Processed(id, kind, gate, time)
    <2> DEFINE wins == Swept(Recorded(kind, gate, time))
               tot == [totals EXCEPT ![kind][gate] = @ + 1, ![kind][Venue] = @ + 1]
               counted == Sustained(wins, tot)
               crit == occ.current >= Crowd.criticalMin
    <2>1. /\ id \notin seen /\ sustained' = counted
          /\ active' = Alerted(Signals(wins, tot, counted))
      BY <1>4 DEF Processed
    <2> HIDE DEF wins, tot
    <2>2. counted[Spike] = IF crit
                           THEN IF sustained[Spike] + 1 <= SustainedFrames THEN sustained[Spike] + 1
                                ELSE SustainedFrames
                           ELSE 0
      BY SpikeEvaluated
    <2>3. held' = IF occ'.current < Crowd.criticalMin THEN 0 ELSE held + 1
      BY <1>3, <2>1
    <2> HIDE DEF counted
    <2>4. SpikeInv'
      <3>1. held' \in Nat /\ (held' > 0 => occ'.current >= Crowd.criticalMin)
        BY <1>1, <1>2, <2>3
      <3>2. sustained'[Spike] >= held' - 1 \/ sustained'[Spike] = SustainedFrames
        BY <1>1, <1>2, <2>1, <2>2, <2>3 DEF SpikeInv
      <3> QED BY <3>1, <3>2 DEF SpikeInv, Spike
    <2>5. ASSUME held' > SustainedFrames PROVE active'[<<ActiveSession, Spike>>] > 0
      <3>1. crit /\ counted[Spike] = SustainedFrames
        BY <1>1, <1>2, <2>2, <2>3, <2>5 DEF SpikeInv
      <3>2. Spike \in Signals(wins, tot, counted)
        BY <1>1, <3>1, SpikeEvaluated DEF Signals
      <3>3. <<ActiveSession, Spike>> \in DOMAIN active /\ active[<<ActiveSession, Spike>>] \in Nat
        BY <1>1, SpikeEvaluated DEF IntelligenceTypeOK
      <3> QED BY <2>1, <3>2, <3>3 DEF Alerted
    <2> QED BY <2>4, <2>5
  <1>5. CASE Ignored(id)
    <2>1. id \in seen /\ sustained' = sustained /\ log' = log
      BY <1>5 DEF Ignored
    <2> QED BY <1>1, <1>2, <1>3, <2>1 DEF SpikeInv, Spike
  <1> QED BY <1>4, <1>5 DEF Ingest

\* A venue over its critical occupancy for more events than the rule asks for has an
\* alert in the session of the last of them, however late or early timestamps are,
\* whatever the cameras count in between, and whichever ids are forgotten.
THEOREM SpikeReported == IntelligenceSpec => SpikeIsReported
  <1> DEFINE A == held' > SustainedFrames /\ log' # log => active'[<<ActiveSession, Spike>>] > 0
  <1>1. IntelligenceInit => SpikeInv
    BY EngineConstants DEF IntelligenceInit, SpikeInv, NoOccupancy, Spike
  <1>2. ASSUME IntelligenceTypeOK, SpikeInv, [IntelligenceNext]_intelligenceVars PROVE SpikeInv' /\ A
    <2>1. ASSUME held' = held, occ' = occ, sustained' = sustained, log' = log PROVE SpikeInv' /\ A
      BY <1>2, <2>1 DEF SpikeInv, Spike
    <2>2. CASE Tick \/ SessionStarts \/ SessionStops \/ UNCHANGED intelligenceVars
      BY <2>1, <2>2 DEF Tick, SessionStarts, SessionStops, intelligenceVars, engine
    <2>3. CASE Read
      BY <2>1, <2>3 DEF Read, Reading
    <2>4. CASE \E kind \in Kinds, gate \in Gates : Crossing(kind, gate)
      BY <2>1, <2>4 DEF Crossing, engine
    <2> HIDE DEF A
    <2>5. ASSUME NEW id \in 1..MaxEvents, NEW kind \in Kinds, NEW gate \in Gates,
                 NEW time \in now - Late .. now + Ahead, Ingest(id, kind, gate, time)
          PROVE  SpikeInv' /\ A
      BY <1>2, <2>5, SpikeStep DEF A
    <2> QED BY <1>2, <2>2, <2>3, <2>4, <2>5 DEF IntelligenceNext
  <1>3. IntelligenceTypeOK /\ SpikeInv /\ [IntelligenceNext]_intelligenceVars => SpikeInv' /\ A
    BY <1>2
  <1>4. A => [held' > SustainedFrames /\ log' # log =>
                active'[<<ActiveSession, <<"OCCUPANCY_SPIKE", Venue>>>>] > 0]_intelligenceVars
    BY DEF Spike
  <1> HIDE DEF A
  <1>5. IntelligenceTypeOK /\ [IntelligenceNext]_intelligenceVars => IntelligenceTypeOK'
    BY IntelligenceTypeNext
  <1> QED BY <1>1, <1>3, <1>4, <1>5, IntelligenceTypeInit, PTL DEF IntelligenceSpec, SpikeIsReported

------------------------------------------------------------------------------
(* What is stored. *)

\* A step of the service is one of the engine, a pause, or none of its business.
LEMMA EngineSteps ==
    [Next]_vars => [IntelligenceNext]_intelligenceVars \/ SessionPauses
  BY DEF Next, AskDashboard, AskPrediction, Asked, Read, Save, Publish, IntelligenceNext,
         intelligenceVars, vars

LEMMA EngineTypeNext == IntelligenceTypeOK /\ [Next]_vars => IntelligenceTypeOK'
  <1> SUFFICES ASSUME IntelligenceTypeOK, [Next]_vars PROVE IntelligenceTypeOK'
    OBVIOUS
  <1>1. CASE SessionPauses
    BY <1>1 DEF SessionPauses, IntelligenceTypeOK, engine
  <1>2. CASE [IntelligenceNext]_intelligenceVars
    BY <1>2, IntelligenceTypeNext
  <1> QED BY <1>1, <1>2, EngineSteps

\* What waits to be stored, or is: each of its own session and time, and none later than
\* what the engine has come to.
Unsaved == {r \in reports : ~r.saved}

StoreInv ==
    /\ \A r \in reports : "saved" \in DOMAIN r
    /\ session.status # "NONE" => session.no # 0
    /\ lastProcessed \in [1..MaxSessions -> Int]
    /\ \A s \in 1..MaxSessions : lastProcessed[s] <= now
    /\ \A r \in Unsaved \cup stored :
         r.session \in 1..MaxSessions /\ r.at \in Int /\ r.at <= lastProcessed[r.session]
    /\ \A r, q \in Unsaved : r.session = q.session /\ r.at = q.at => r = q
    /\ \A r \in Unsaved, p \in stored : r.session # p.session \/ r.at # p.at
    /\ \A p, q \in stored : p.session = q.session /\ p.at = q.at => p = q

LEMMA StoreInit == Init => StoreInv
  <1> SUFFICES ASSUME Init PROVE StoreInv
    OBVIOUS
  <1>1. now = 0 /\ session.status = "NONE" /\ lastProcessed = [s \in 1..MaxSessions |-> -1]
    BY DEF Init, IntelligenceInit, PredictionInit
  <1>2. Unsaved = {} /\ stored = {} /\ reports = {}
    BY DEF Init, Unsaved
  <1> QED BY <1>1, <1>2 DEF StoreInv

\* The engine evaluates a session at a time it has not come to before, or not at all.
LEMMA EvaluatedOnce ==
    ASSUME IntelligenceTypeOK, StoreInv, Asked
    PROVE  /\ session' = session /\ now' = now /\ session.no \in 1..MaxSessions
           /\ \/ lastProcessed' = lastProcessed /\ outcome'.status # "ok"
              \/ /\ lastProcessed' = [lastProcessed EXCEPT ![session.no] = now]
                 /\ lastProcessed[session.no] < now
                 /\ outcome'.status = "ok"
  <1> DEFINE snap == Snapshot(windows', congestion')
  <1>1. snap.session = session.no /\ snap.at = now /\ snap.status = session.status
    BY DEF Snapshot
  <1>2. Predict(snap) /\ session' = session /\ now' = now /\ session.status # "NONE"
    BY DEF Asked
  <1> HIDE DEF snap
  <1>3. session.no \in 1..MaxSessions /\ lastProcessed[session.no] <= now /\ now \in Int
    BY <1>2, EngineConstants DEF StoreInv, IntelligenceTypeOK, SessionIds
  <1>4. CASE Suspended(snap)
    BY <1>2, <1>3, <1>4 DEF Suspended
  <1>5. CASE Evaluates(snap)
    <2>1. lastProcessed' = [lastProcessed EXCEPT ![session.no] = now] /\ lastProcessed[session.no] # now
      BY <1>1, <1>5 DEF Evaluates, Duplicate
    <2>2. outcome'.status = "ok"
      BY <1>5 DEF Evaluates
    <2>3. lastProcessed[session.no] \in Int
      BY <1>3 DEF StoreInv
    <2> QED BY <1>2, <1>3, <2>1, <2>2, <2>3
  <1> QED BY <1>2, <1>4, <1>5 DEF Predict

LEMMA StoreNext == IntelligenceTypeOK /\ StoreInv /\ [Next]_vars => StoreInv'
  <1> SUFFICES ASSUME IntelligenceTypeOK, StoreInv, [Next]_vars PROVE StoreInv'
    OBVIOUS
  <1>0. now \in Nat /\ session.no \in Nat
    BY EngineConstants DEF IntelligenceTypeOK, SessionIds
  <1>1. ASSUME lastProcessed' \in [1..MaxSessions -> Int],
               \A s \in 1..MaxSessions : lastProcessed[s] <= lastProcessed'[s] /\ lastProcessed'[s] <= now',
               Unsaved' = Unsaved, stored' = stored, \A r \in reports' : "saved" \in DOMAIN r,
               session'.status # "NONE" => session'.no # 0
        PROVE  StoreInv'
    <2>1. ASSUME NEW r \in Unsaved \cup stored
          PROVE  r.session \in 1..MaxSessions /\ r.at \in Int /\ r.at <= lastProcessed'[r.session]
      BY <1>1 DEF StoreInv
    <2> QED BY <1>1, <2>1 DEF StoreInv
  <1>9. ASSUME lastProcessed' = lastProcessed, now' \in Int, now' >= now
        PROVE  /\ lastProcessed' \in [1..MaxSessions -> Int]
               /\ \A s \in 1..MaxSessions :
                    lastProcessed[s] <= lastProcessed'[s] /\ lastProcessed'[s] <= now'
    BY <1>0, <1>9 DEF StoreInv
  <1>2. CASE SessionPauses
    <2>1. session' = [session EXCEPT !.status = IF @ = "ACTIVE" THEN "PAUSED" ELSE "ACTIVE"]
          /\ session.status # "NONE"
      BY <1>2 DEF SessionPauses
    <2>2. session'.no # 0
      BY <2>1 DEF StoreInv, IntelligenceTypeOK
    <2> QED BY <1>0, <1>1, <1>2, <1>9, <2>2 DEF SessionPauses, predictionVars, serviceVars, Unsaved, StoreInv
  <1>3. CASE IntelligenceNext /\ UNCHANGED <<predictionVars, serviceVars>>
    <2>1. now' \in Int /\ now' >= now
      BY <1>0, <1>3 DEF IntelligenceNext, Tick, Read, SessionStarts, SessionStops, Crossing, Ingest
    <2>2. session'.status # "NONE" => session'.no # 0
      <3>1. CASE session' = session
        BY <3>1 DEF StoreInv
      <3>2. CASE SessionStarts \/ SessionStops
        BY <1>0, <3>2 DEF SessionStarts, SessionStops, IntelligenceTypeOK
      <3> QED BY <1>3, <3>1, <3>2 DEF IntelligenceNext, Tick, Read, Crossing, Ingest
    <2> QED BY <1>1, <1>3, <1>9, <2>1, <2>2 DEF predictionVars, serviceVars, Unsaved, StoreInv
  <1>10. ASSUME Asked
         PROVE  /\ session' = session /\ now' = now
                /\ lastProcessed' \in [1..MaxSessions -> Int]
                /\ \A s \in 1..MaxSessions :
                     lastProcessed[s] <= lastProcessed'[s] /\ lastProcessed'[s] <= now'
    <2>1. session' = session /\ now' = now /\ session.no \in 1..MaxSessions
      BY <1>10, EvaluatedOnce
    <2>2. CASE lastProcessed' = lastProcessed
      BY <1>0, <1>9, <2>1, <2>2
    <2>3. CASE lastProcessed' = [lastProcessed EXCEPT ![session.no] = now] /\ lastProcessed[session.no] < now
      BY <1>0, <2>1, <2>3 DEF StoreInv
    <2> QED BY <1>10, <2>1, <2>2, <2>3, EvaluatedOnce
  <1>4. CASE AskDashboard
    <2>1. reports' = reports /\ stored' = stored /\ Asked
      BY <1>4 DEF AskDashboard, Asked
    <2>2. Unsaved' = Unsaved
      BY <2>1 DEF Unsaved
    <2> QED BY <1>1, <1>10, <2>1, <2>2 DEF StoreInv
  <1>5. CASE AskPrediction
    <2>1. Asked /\ stored' = stored
      BY <1>5 DEF AskPrediction, Asked
    <2> DEFINE ok == outcome'.status = "ok"
               new(risk) == [no |-> requests', session |-> session.no, at |-> now,
                             status |-> outcome'.status, saved |-> outcome'.status # "ok", risk |-> risk]
    <2>0. PICK risk : reports' = reports \cup {new(risk)}
      BY <1>5 DEF AskPrediction
    <2>2. PICK r : /\ reports' = reports \cup {r} /\ r.session = session.no /\ r.at = now
                   /\ "saved" \in DOMAIN r
                   /\ r.saved <=> ~ok
      <3> WITNESS new(risk)
      <3> QED BY <2>0
    <2>3. CASE ~ok
      <3>1. Unsaved' = Unsaved
        BY <2>2, <2>3 DEF Unsaved
      <3> QED BY <1>1, <1>10, <2>1, <2>2, <3>1 DEF StoreInv
    <2>4. CASE ok
      <3>1. Unsaved' = Unsaved \cup {r}
        BY <2>2, <2>4 DEF Unsaved
      <3>2. /\ lastProcessed' = [lastProcessed EXCEPT ![session.no] = now]
            /\ lastProcessed[session.no] < now /\ session.no \in 1..MaxSessions
            /\ session' = session /\ now' = now
        BY <2>1, <2>4, EvaluatedOnce
      <3>3. \A q \in Unsaved \cup stored : q.session # r.session \/ q.at # r.at
        BY <1>0, <2>2, <3>2 DEF StoreInv
      <3>4. /\ lastProcessed' \in [1..MaxSessions -> Int]
            /\ \A s \in 1..MaxSessions : lastProcessed[s] <= lastProcessed'[s] /\ lastProcessed'[s] <= now
            /\ lastProcessed'[session.no] = now
        BY <1>0, <3>2 DEF StoreInv
      <3>5. ASSUME NEW q \in Unsaved' \cup stored'
            PROVE  q.session \in 1..MaxSessions /\ q.at \in Int /\ q.at <= lastProcessed'[q.session]
        <4>1. CASE q = r
          BY <1>0, <2>2, <3>2, <3>4, <4>1
        <4>2. CASE q \in Unsaved \cup stored
          BY <3>4, <4>2 DEF StoreInv
        <4> QED BY <2>1, <3>1, <4>1, <4>2
      <3> QED BY <2>1, <2>2, <3>1, <3>2, <3>3, <3>4, <3>5 DEF StoreInv
    <2> QED BY <2>3, <2>4
  <1>6. ASSUME NEW r \in reports, Save(r) PROVE StoreInv'
    <2> DEFINE p == [no |-> r.no, session |-> r.session, at |-> r.at, risk |-> r.risk]
    <2>1. /\ Unsaved' = Unsaved \ {r} /\ r \in Unsaved
          /\ \A q \in reports' : "saved" \in DOMAIN q
      <3>1. "saved" \in DOMAIN r
        BY <1>6 DEF StoreInv
      <3>2. [r EXCEPT !.saved = TRUE].saved = TRUE /\ "saved" \in DOMAIN [r EXCEPT !.saved = TRUE]
        BY <3>1
      <3>3. reports' = (reports \ {r}) \cup {[r EXCEPT !.saved = TRUE]} /\ ~r.saved
        BY <1>6 DEF Save
      <3> QED BY <3>2, <3>3 DEF Unsaved, StoreInv
    <2>2. stored' = stored \/ stored' = stored \cup {p}
      BY <1>6 DEF Save
    <2>3. p.session = r.session /\ p.at = r.at
      OBVIOUS
    <2> HIDE DEF p
    <2>4. lastProcessed' = lastProcessed /\ now' = now /\ session' = session
      BY <1>6 DEF Save, intelligenceVars, predictionVars
    <2>5. ASSUME NEW q \in Unsaved' \cup stored'
          PROVE  q.session \in 1..MaxSessions /\ q.at \in Int /\ q.at <= lastProcessed'[q.session]
      BY <2>1, <2>2, <2>3, <2>4 DEF StoreInv
    <2>6. ASSUME NEW q \in Unsaved', NEW o \in stored' PROVE q.session # o.session \/ q.at # o.at
      BY <2>1, <2>2, <2>3 DEF StoreInv
    <2>7. ASSUME NEW q \in stored', NEW o \in stored', q.session = o.session, q.at = o.at PROVE q = o
      BY <2>1, <2>2, <2>3, <2>7 DEF StoreInv
    <2> QED BY <2>1, <2>4, <2>5, <2>6, <2>7 DEF StoreInv
  <1>7. ASSUME NEW r \in reports, Publish(r) PROVE StoreInv'
    <2>1. Unsaved' = Unsaved
      BY <1>7 DEF Publish, Unsaved
    <2> QED BY <1>0, <1>1, <1>7, <1>9, <2>1 DEF Publish, intelligenceVars, predictionVars, StoreInv
  <1>8. CASE UNCHANGED vars
    <2>1. UNCHANGED <<session, now, lastProcessed, reports, stored>>
      BY <1>8 DEF vars, intelligenceVars, predictionVars, serviceVars
    <2> QED BY <1>0, <1>1, <1>9, <2>1 DEF StoreInv, Unsaved
  <1> QED BY <1>2, <1>3, <1>4, <1>5, <1>6, <1>7, <1>8 DEF Next

\* However many requests ask at the same moment, each waiting for its write while the next
\* one evaluates, one prediction at most is stored of a session for each time.
THEOREM OnceStored == Spec => []StoredOnce
  <1>1. StoreInv => StoredOnce
    BY DEF StoreInv, StoredOnce
  <1>2. Init => IntelligenceTypeOK /\ StoreInv
    BY IntelligenceTypeInit, StoreInit DEF Init
  <1> QED BY <1>1, <1>2, EngineTypeNext, StoreNext, PTL DEF Spec

------------------------------------------------------------------------------
(* The levels of risk. *)

\* The last k elements of a sequence, and no more, are in S one after the other.
Streak(q, k, S) ==
    /\ k \in 0..Len(q)
    /\ \A i \in Len(q) - k + 1..Len(q) : q[i] \in S
    /\ k < Len(q) => q[Len(q) - k] \notin S

LEMMA LastFewFacts ==
    ASSUME NEW q \in Seq(Nat), NEW n \in Nat \ {0}
    PROVE  LET t == LastFew(q, n)
               d == Len(q) - Len(t) IN
           /\ t \in Seq(Nat) /\ Len(t) = IF Len(q) <= n THEN Len(q) ELSE n
           /\ \A i \in 1..Len(t) : t[i] = q[d + i]
  <1>1. Len(q) \in Nat
    OBVIOUS
  <1>2. PICK f : f = Most(1, Len(q) - n + 1)
    OBVIOUS
  <1>3. f = IF Len(q) <= n THEN 1 ELSE Len(q) - n + 1
    BY <1>1, <1>2 DEF Most
  <1>4. PICK t : t = SubSeq(q, f, Len(q))
    OBVIOUS
  <1>5. f \in 1..Len(q) + 1 /\ f \in Nat
    BY <1>1, <1>3
  <1>6. t \in Seq(Nat) /\ Len(t) = Len(q) - f + 1
    BY <1>1, <1>4, <1>5
  <1>7. \A i \in 1..Len(t) : t[i] = q[f + i - 1]
    BY <1>1, <1>4, <1>5, <1>6
  <1>8. Len(t) = (IF Len(q) <= n THEN Len(q) ELSE n) /\ Len(q) - Len(t) = f - 1
    BY <1>1, <1>3, <1>5, <1>6
  <1>9. ASSUME NEW i \in 1..Len(t) PROVE t[i] = q[(Len(q) - Len(t)) + i]
    <2>1. f + i - 1 = (Len(q) - Len(t)) + i
      BY <1>1, <1>5, <1>6, <1>8
    <2> QED BY <1>7, <2>1
  <1>10. t = LastFew(q, n)
    BY <1>2, <1>4 DEF LastFew
  <1> QED BY <1>6, <1>8, <1>9, <1>10

\* One more on the side makes the streak longer, one that is not ends it, and no less
\* than the streak is needed to see it.
LEMMA StreakGoesOn ==
    ASSUME NEW q \in Seq(Nat), NEW k, NEW S, NEW raw \in Nat, NEW n \in Nat \ {0},
           Streak(q, k, S), k < n
    PROVE  /\ LastFew(Append(q, raw), n) \in Seq(Nat)
           /\ raw \in S => Streak(LastFew(Append(q, raw), n), k + 1, S)
           /\ raw \notin S => Streak(LastFew(Append(q, raw), n), 0, S)
  <1>1. PICK m : m = Len(q)
    OBVIOUS
  <1>2. PICK a : a = Append(q, raw)
    OBVIOUS
  <1>3. m \in Nat /\ k \in 0..m
    BY <1>1 DEF Streak
  <1>4. /\ a \in Seq(Nat) /\ Len(a) = m + 1 /\ a[m + 1] = raw
        /\ \A i \in 1..m : a[i] = q[i]
    BY <1>1, <1>2
  <1>5. PICK t : t = LastFew(a, n)
    OBVIOUS
  <1>6. PICK d : d = Len(a) - Len(t)
    OBVIOUS
  <1>7. /\ t \in Seq(Nat) /\ Len(t) = (IF m + 1 <= n THEN m + 1 ELSE n)
        /\ \A i \in 1..Len(t) : t[i] = a[d + i]
    BY <1>4, <1>5, <1>6, LastFewFacts
  <1>8. d \in Nat /\ d + Len(t) = m + 1 /\ Len(t) \in Nat /\ Len(t) >= 1
    BY <1>3, <1>4, <1>6, <1>7
  <1>9. t[Len(t)] = raw
    BY <1>4, <1>7, <1>8
  <1>10. ASSUME raw \in S PROVE Streak(t, k + 1, S)
    <2>1. k + 1 \in 0..Len(t)
      BY <1>3, <1>7
    <2>2. ASSUME NEW i \in Len(t) - (k + 1) + 1..Len(t) PROVE t[i] \in S
      <3>1. CASE i = Len(t)
        BY <1>9, <1>10, <3>1
      <3>2. CASE i # Len(t)
        <4>1. i \in 1..Len(t) /\ d + i \in m - k + 1..m /\ d + i \in 1..m
          BY <1>3, <1>8, <2>1, <3>2
        <4>2. t[i] = q[d + i]
          BY <1>4, <1>7, <4>1
        <4> QED BY <1>1, <4>1, <4>2 DEF Streak
      <3> QED BY <3>1, <3>2
    <2>3. ASSUME k + 1 < Len(t) PROVE t[Len(t) - (k + 1)] \notin S
      <3>1. Len(t) - (k + 1) \in 1..Len(t) /\ d + (Len(t) - (k + 1)) = m - k /\ m - k \in 1..m /\ k < m
        BY <1>3, <1>8, <2>3
      <3>2. t[Len(t) - (k + 1)] = q[m - k]
        BY <1>4, <1>7, <3>1
      <3> QED BY <1>1, <3>1, <3>2 DEF Streak
    <2> QED BY <2>1, <2>2, <2>3 DEF Streak
  <1>11. ASSUME raw \notin S PROVE Streak(t, 0, S)
    <2>1. \A i \in Len(t) - 0 + 1..Len(t) : t[i] \in S
      BY <1>8
    <2>2. t[Len(t) - 0] \notin S
      BY <1>8, <1>9, <1>11
    <2> QED BY <1>8, <2>1, <2>2 DEF Streak
  <1> QED BY <1>2, <1>5, <1>7, <1>10, <1>11

AllLast(raws, n, S) ==
    /\ Len(raws) >= n
    /\ \A i \in Len(raws) - n + 1 .. Len(raws) : raws[i] \in S

\* The last n are on the side exactly if the streak makes n with the one that is added.
LEMMA StreakCounts ==
    ASSUME NEW q \in Seq(Nat), NEW k, NEW S, NEW raw \in Nat, NEW n \in Nat \ {0}, Streak(q, k, S)
    PROVE  AllLast(Append(q, raw), n, S) <=> raw \in S /\ k + 1 >= n
  <1>1. PICK m : m = Len(q)
    OBVIOUS
  <1>2. PICK a : a = Append(q, raw)
    OBVIOUS
  <1>3. m \in Nat /\ k \in 0..m
    BY <1>1 DEF Streak
  <1>4. /\ a \in Seq(Nat) /\ Len(a) = m + 1 /\ a[m + 1] = raw
        /\ \A i \in 1..m : a[i] = q[i]
    BY <1>1, <1>2
  <1>5. ASSUME Len(a) >= n, \A i \in Len(a) - n + 1 .. Len(a) : a[i] \in S
        PROVE  raw \in S /\ k + 1 >= n
    <2>1. raw \in S
      BY <1>3, <1>4, <1>5
    <2>2. ASSUME k + 1 < n PROVE FALSE
      <3>1. k < m /\ m - k \in 1..m /\ m - k \in Len(a) - n + 1 .. Len(a)
        BY <1>3, <1>4, <1>5, <2>2
      <3>2. q[m - k] \in S
        BY <1>4, <1>5, <3>1
      <3> QED BY <1>1, <3>1, <3>2 DEF Streak
    <2> QED BY <1>3, <2>1, <2>2
  <1>6. ASSUME raw \in S, k + 1 >= n
        PROVE  Len(a) >= n /\ \A i \in Len(a) - n + 1 .. Len(a) : a[i] \in S
    <2>1. Len(a) >= n
      BY <1>3, <1>4, <1>6
    <2>2. ASSUME NEW i \in Len(a) - n + 1 .. Len(a) PROVE a[i] \in S
      <3>1. CASE i = m + 1
        BY <1>4, <1>6, <3>1
      <3>2. CASE i # m + 1
        <4>1. i \in m - k + 1 .. m /\ i \in 1..m
          BY <1>3, <1>4, <1>6, <3>2
        <4> QED BY <1>1, <1>4, <4>1 DEF Streak
      <3> QED BY <3>1, <3>2
    <2> QED BY <2>1, <2>2
  <1> QED BY <1>2, <1>5, <1>6 DEF AllLast

\* The counters of a scope are the streaks of its evidence above and below its level.
OnSide(level) == [above |-> {x \in Nat : x > level}, below |-> {x \in Nat : x < level}]

ScopeInv(st, q) ==
    /\ q \in Seq(Nat)
    /\ st.level \in Nat
    /\ st.up < EscalationFrames /\ st.down < RecoveryFrames
    /\ Streak(q, st.up, OnSide(st.level).above)
    /\ Streak(q, st.down, OnSide(st.level).below)

LevelInv ==
    /\ standing \in [Scopes -> [level : Nat, up : Nat, down : Nat]]
    /\ \A s \in Scopes : ScopeInv(standing[s], evidence[s])

\* An evaluation moves the level exactly when one of the streaks is long enough.
LEMMA ScopeStep ==
    ASSUME NEW st \in [level : Nat, up : Nat, down : Nat], NEW q, NEW raw \in Nat, ScopeInv(st, q)
    PROVE  LET new == Stabilized(st, raw)
               raws == Append(q, raw)
               side == OnSide(st.level)
           IN  /\ new \in [level : Nat, up : Nat, down : Nat]
               /\ (new.level # st.level) <=> \/ AllLast(raws, EscalationFrames, side.above)
                                            \/ AllLast(raws, RecoveryFrames, side.below)
               /\ new.level \in {st.level, raw}
               /\ ScopeInv(new, IF new.level # st.level THEN <<>>
                                ELSE LastFew(raws, Most(EscalationFrames, RecoveryFrames)))
  <1> DEFINE new == Stabilized(st, raw)
             side == OnSide(st.level)
             raws == Append(q, raw)
             most == Most(EscalationFrames, RecoveryFrames)
             Goal == /\ new \in [level : Nat, up : Nat, down : Nat]
                     /\ (new.level # st.level) <=> \/ AllLast(raws, EscalationFrames, side.above)
                                                  \/ AllLast(raws, RecoveryFrames, side.below)
                     /\ new.level \in {st.level, raw}
                     /\ ScopeInv(new, IF new.level # st.level THEN <<>> ELSE LastFew(raws, most))
  <1> SUFFICES Goal
    OBVIOUS
  <1>1. /\ EscalationFrames \in Nat \ {0} /\ RecoveryFrames \in Nat \ {0}
        /\ most \in Nat \ {0} /\ EscalationFrames <= most /\ RecoveryFrames <= most
    BY FramesTyped DEF Most
  <1>2. /\ q \in Seq(Nat) /\ st.level \in Nat /\ st.up \in Nat /\ st.down \in Nat
        /\ st.up < EscalationFrames /\ st.down < RecoveryFrames
        /\ Streak(q, st.up, side.above) /\ Streak(q, st.down, side.below)
    BY DEF ScopeInv
  <1>3. (raw \in side.above <=> raw > st.level) /\ (raw \in side.below <=> raw < st.level)
    BY DEF OnSide
  <1> HIDE DEF side, most
  <1>4. /\ AllLast(raws, EscalationFrames, side.above) <=> raw > st.level /\ st.up + 1 >= EscalationFrames
        /\ AllLast(raws, RecoveryFrames, side.below) <=> raw < st.level /\ st.down + 1 >= RecoveryFrames
    BY <1>1, <1>2, <1>3, StreakCounts
  <1>5. /\ LastFew(raws, most) \in Seq(Nat)
        /\ raw > st.level => /\ Streak(LastFew(raws, most), st.up + 1, side.above)
                              /\ Streak(LastFew(raws, most), 0, side.below)
        /\ raw < st.level => /\ Streak(LastFew(raws, most), 0, side.above)
                              /\ Streak(LastFew(raws, most), st.down + 1, side.below)
        /\ raw = st.level => /\ Streak(LastFew(raws, most), 0, side.above)
                              /\ Streak(LastFew(raws, most), 0, side.below)
    BY <1>1, <1>2, <1>3, StreakGoesOn
  <1>6. \A S : Streak(<<>>, 0, S)
    BY DEF Streak
  <1> HIDE DEF raws, new
  <1>7. CASE raw > st.level
    <2>1. CASE st.up + 1 >= EscalationFrames
      <3>1. new = [level |-> raw, up |-> 0, down |-> 0]
        BY <1>7, <2>1 DEF Stabilized, new
      <3>2. new.level # st.level /\ ScopeInv(new, <<>>)
        BY <1>1, <1>2, <1>6, <1>7, <3>1 DEF ScopeInv
      <3> QED BY <1>4, <1>7, <2>1, <3>1, <3>2
    <2>2. CASE ~(st.up + 1 >= EscalationFrames)
      <3>1. new = [level |-> st.level, up |-> st.up + 1, down |-> 0]
        BY <1>7, <2>2 DEF Stabilized, new
      <3>2. new.level = st.level /\ ScopeInv(new, LastFew(raws, most))
        BY <1>1, <1>2, <1>5, <1>7, <2>2, <3>1 DEF ScopeInv, side
      <3> QED BY <1>2, <1>4, <1>7, <2>2, <3>1, <3>2
    <2> QED BY <2>1, <2>2
  <1>8. CASE raw < st.level
    <2>1. CASE st.down + 1 >= RecoveryFrames
      <3>1. new = [level |-> raw, up |-> 0, down |-> 0]
        BY <1>2, <1>8, <2>1 DEF Stabilized, new
      <3>2. new.level # st.level /\ ScopeInv(new, <<>>)
        BY <1>1, <1>2, <1>6, <1>8, <3>1 DEF ScopeInv
      <3> QED BY <1>4, <1>8, <2>1, <3>1, <3>2
    <2>2. CASE ~(st.down + 1 >= RecoveryFrames)
      <3>1. new = [level |-> st.level, up |-> 0, down |-> st.down + 1]
        BY <1>2, <1>8, <2>2 DEF Stabilized, new
      <3>2. new.level = st.level /\ ScopeInv(new, LastFew(raws, most))
        BY <1>1, <1>2, <1>5, <1>8, <2>2, <3>1 DEF ScopeInv, side
      <3> QED BY <1>2, <1>4, <1>8, <2>2, <3>1, <3>2
    <2> QED BY <2>1, <2>2
  <1>9. CASE raw = st.level
    <2>1. new = [level |-> st.level, up |-> 0, down |-> 0]
      BY <1>2, <1>9 DEF Stabilized, new
    <2>2. new.level = st.level /\ ScopeInv(new, LastFew(raws, most))
      BY <1>1, <1>2, <1>5, <1>9, <2>1 DEF ScopeInv, side
    <2> QED BY <1>2, <1>4, <1>9, <2>1, <2>2
  <1> QED BY <1>2, <1>7, <1>8, <1>9

\* A score has a level, whatever it is.
LEMMA LevelTyped == \A score : RiskLevel(score) \in Nat
  <1>1. ASSUME NEW score PROVE RiskLevel(score) \in Nat
    <2> DEFINE L == {least \in {20, 40, 60, 80} : score >= least}
    <2>1. L \subseteq 20..80
      OBVIOUS
    <2>3. 20 \in Int /\ 80 \in Int
      OBVIOUS
    <2>4. IsFiniteSet(20..80)
      BY <2>3, FS_Interval
    <2> HIDE DEF L
    <2>2. IsFiniteSet(L)
      BY <2>1, <2>4, FS_Subset
    <2> QED BY <2>2, FS_CardinalityType DEF RiskLevel, L
  <1> QED BY <1>1

\* What an evaluation does to the scopes it judges, by the level of the score it returns.
LEMMA EvaluationFacts ==
    ASSUME NEW snap, Evaluates(snap)
    PROVE  LET raw(s) == RiskLevel(outcome'.advice[s].score) IN
           /\ DOMAIN outcome'.advice = Judged(snap)
           /\ standing' = [s \in Scopes |-> IF s \in Judged(snap) THEN Stabilized(standing[s], raw(s))
                                            ELSE standing[s]]
           /\ evidence' = [s \in Scopes |->
                    IF s \notin Judged(snap) THEN evidence[s]
                    ELSE IF standing'[s].level # standing[s].level THEN <<>>
                    ELSE LastFew(Append(evidence[s], raw(s)), Most(EscalationFrames, RecoveryFrames))]
  <1> DEFINE features == [s \in Judged(snap) |-> Features(ScopeSnapshot(snap, s))]
             raws == [s \in Judged(snap) |-> RiskLevel(Score(features[s]))]
             raw(s) == RiskLevel(outcome'.advice[s].score)
  <1>1. /\ DOMAIN outcome'.advice = Judged(snap)
        /\ \A s \in Judged(snap) : outcome'.advice[s].score = Score(features[s])
    BY DEF Evaluates
  <1>2. /\ standing' = [s \in Scopes |->
              IF s \in Judged(snap) THEN Stabilized(standing[s], raws[s]) ELSE standing[s]]
        /\ evidence' = [s \in Scopes |->
              IF s \notin Judged(snap) THEN evidence[s]
              ELSE IF standing'[s].level # standing[s].level THEN <<>>
              ELSE LastFew(Append(evidence[s], raws[s]), Most(EscalationFrames, RecoveryFrames))]
    BY DEF Evaluates
  <1>3. \A s \in Judged(snap) : raws[s] = raw(s)
    BY <1>1
  <1> HIDE DEF raws, raw
  <1>4. standing' = [s \in Scopes |->
              IF s \in Judged(snap) THEN Stabilized(standing[s], raw(s)) ELSE standing[s]]
    BY <1>2, <1>3
  <1>5. evidence' = [s \in Scopes |->
              IF s \notin Judged(snap) THEN evidence[s]
              ELSE IF standing'[s].level # standing[s].level THEN <<>>
              ELSE LastFew(Append(evidence[s], raw(s)), Most(EscalationFrames, RecoveryFrames))]
    BY <1>2, <1>3
  <1> QED BY <1>1, <1>4, <1>5 DEF raw

\* The level of a scope and the counters behind it after an evaluation that judged it.
LevelStep(s) ==
    LET raw == RiskLevel(outcome'.advice[s].score)
        side == OnSide(standing[s].level)
        raws == Append(evidence[s], raw) IN
    /\ raws \in Seq(Nat)
    /\ standing'[s].level # standing[s].level <=>
         AllLast(raws, EscalationFrames, side.above) \/ AllLast(raws, RecoveryFrames, side.below)
    /\ standing'[s].level \in {standing[s].level, raw}

LEMMA LevelEvaluated ==
    ASSUME LevelInv, NEW snap, Evaluates(snap)
    PROVE  /\ LevelInv'
           /\ \A s \in Scopes : IF s \in DOMAIN outcome'.advice THEN LevelStep(s)
                               ELSE standing'[s].level = standing[s].level
  <1> DEFINE raw(s) == RiskLevel(outcome'.advice[s].score)
             most == Most(EscalationFrames, RecoveryFrames)
  <1>1. /\ DOMAIN outcome'.advice = Judged(snap)
        /\ standing' = [s \in Scopes |-> IF s \in Judged(snap) THEN Stabilized(standing[s], raw(s))
                                         ELSE standing[s]]
        /\ evidence' = [s \in Scopes |->
              IF s \notin Judged(snap) THEN evidence[s]
              ELSE IF standing'[s].level # standing[s].level THEN <<>>
              ELSE LastFew(Append(evidence[s], raw(s)), most)]
    BY EvaluationFacts
  <1>2. \A s : raw(s) \in Nat
    BY LevelTyped
  <1> HIDE DEF raw, most
  <1>3. ASSUME NEW s \in Scopes, s \notin Judged(snap)
        PROVE  /\ standing'[s] = standing[s] /\ evidence'[s] = evidence[s]
               /\ standing'[s] \in [level : Nat, up : Nat, down : Nat] /\ ScopeInv(standing'[s], evidence'[s])
    BY <1>1, <1>3 DEF LevelInv
  <1>4. ASSUME NEW s \in Scopes, s \in Judged(snap)
        PROVE  /\ standing'[s] \in [level : Nat, up : Nat, down : Nat] /\ ScopeInv(standing'[s], evidence'[s])
               /\ LevelStep(s)
    <2> DEFINE new == Stabilized(standing[s], raw(s))
               side == OnSide(standing[s].level)
               raws == Append(evidence[s], raw(s))
    <2>1. standing[s] \in [level : Nat, up : Nat, down : Nat] /\ ScopeInv(standing[s], evidence[s])
      BY DEF LevelInv
    <2>2. /\ new \in [level : Nat, up : Nat, down : Nat]
          /\ (new.level # standing[s].level) <=> \/ AllLast(raws, EscalationFrames, side.above)
                                                \/ AllLast(raws, RecoveryFrames, side.below)
          /\ new.level \in {standing[s].level, raw(s)}
          /\ ScopeInv(new, IF new.level # standing[s].level THEN <<>> ELSE LastFew(raws, most))
      BY <1>2, <2>1, ScopeStep DEF most
    <2>3. standing'[s] = new
      BY <1>1, <1>4
    <2>4. evidence'[s] = IF new.level # standing[s].level THEN <<>> ELSE LastFew(raws, most)
      BY <1>1, <1>4, <2>3
    <2>5. raws \in Seq(Nat)
      BY <1>2, <2>1 DEF ScopeInv
    <2>6. LevelStep(s)
      BY <2>2, <2>3, <2>5 DEF LevelStep, raw
    <2> QED BY <2>2, <2>3, <2>4, <2>6
  <1>5. standing' \in [Scopes -> [level : Nat, up : Nat, down : Nat]]
    <2>1. standing' = [s \in Scopes |-> standing'[s]]
      BY <1>1
    <2> QED BY <1>3, <1>4, <2>1
  <1> QED BY <1>1, <1>3, <1>4, <1>5 DEF LevelInv

LEMMA LevelInit == Init => LevelInv
  <1> SUFFICES ASSUME Init PROVE LevelInv
    OBVIOUS
  <1>1. /\ standing = [s \in Scopes |-> [level |-> 0, up |-> 0, down |-> 0]]
        /\ evidence = [s \in Scopes |-> <<>>]
    BY DEF Init, PredictionInit
  <1>2. \A S : Streak(<<>>, 0, S)
    BY DEF Streak
  <1> QED BY <1>1, <1>2, FramesTyped DEF LevelInv, ScopeInv

\* The formula of LevelFollowsEvidence, of one step and one scope.
LevelFollows(s) ==
    LET raws == Append(evidence[s], RiskLevel(outcome'.advice[s].score))
        LastOnes(n, Side(_)) == /\ Len(raws) >= n
                                /\ \A i \in Len(raws) - n + 1 .. Len(raws) : Side(raws[i])
        Above(raw) == raw > standing[s].level
        Below(raw) == raw < standing[s].level
    IN  IF Evaluation /\ s \in DOMAIN outcome'.advice
        THEN /\ (standing'[s].level # standing[s].level) <=>
                    (LastOnes(EscalationFrames, Above) \/ LastOnes(RecoveryFrames, Below))
             /\ standing'[s].level \in {standing[s].level, RiskLevel(outcome'.advice[s].score)}
        ELSE standing'[s].level = standing[s].level

LEMMA LevelStepFollows ==
    ASSUME LevelInv, NEW s \in Scopes, Evaluation, s \in DOMAIN outcome'.advice, LevelStep(s)
    PROVE  LevelFollows(s)
  <1> DEFINE raws == Append(evidence[s], RiskLevel(outcome'.advice[s].score))
  <1>1. raws \in Seq(Nat) /\ \A i \in 1..Len(raws) : raws[i] \in Nat
    BY DEF LevelStep
  <1> HIDE DEF raws
  <1>2. PICK above : above = OnSide(standing[s].level).above
    OBVIOUS
  <1>3. PICK below : below = OnSide(standing[s].level).below
    OBVIOUS
  <1>4. \A x \in Nat : (x \in above <=> x > standing[s].level) /\ (x \in below <=> x < standing[s].level)
    BY <1>2, <1>3 DEF OnSide
  <1>5. ASSUME NEW n \in Nat \ {0}, Len(raws) >= n, NEW i \in Len(raws) - n + 1 .. Len(raws)
        PROVE  raws[i] \in Nat
    <2>1. i \in 1..Len(raws)
      BY <1>1, <1>5
    <2> QED BY <1>1, <2>1
  <1>6. ASSUME NEW n \in Nat \ {0}
        PROVE  /\ AllLast(raws, n, above) <=>
                    /\ Len(raws) >= n
                    /\ \A i \in Len(raws) - n + 1 .. Len(raws) : raws[i] > standing[s].level
               /\ AllLast(raws, n, below) <=>
                    /\ Len(raws) >= n
                    /\ \A i \in Len(raws) - n + 1 .. Len(raws) : raws[i] < standing[s].level
    BY <1>4, <1>5 DEF AllLast
  <1> QED BY <1>2, <1>3, <1>6, FramesTyped DEF LevelStep, LevelFollows, raws

LEMMA LevelNext ==
    IntelligenceTypeOK /\ StoreInv /\ LevelInv /\ [Next]_vars
        => LevelInv' /\ \A s \in Scopes : LevelFollows(s)
  <1> SUFFICES ASSUME IntelligenceTypeOK, StoreInv, LevelInv, [Next]_vars
               PROVE  LevelInv' /\ \A s \in Scopes : LevelFollows(s)
    OBVIOUS
  <1>1. ASSUME standing' = standing, evidence' = evidence, lastProcessed' = lastProcessed
        PROVE  LevelInv' /\ \A s \in Scopes : LevelFollows(s)
    BY <1>1 DEF LevelInv, LevelFollows, Evaluation
  <1>2. CASE Asked
    <2> DEFINE snap == Snapshot(windows', congestion')
    <2>1. Predict(snap)
      BY <1>2 DEF Asked
    <2>2. CASE Suspended(snap)
      BY <1>1, <2>2 DEF Suspended
    <2>3. CASE Evaluates(snap)
      <3>1. Evaluation
        <4>1. outcome'.status = "ok"
          BY <2>3 DEF Evaluates
        <4>2. /\ session.no \in 1..MaxSessions /\ lastProcessed[session.no] < now
              /\ lastProcessed' = [lastProcessed EXCEPT ![session.no] = now]
          BY <1>2, <4>1, EvaluatedOnce
        <4>3. lastProcessed'[session.no] # lastProcessed[session.no]
          BY <4>2, EngineConstants DEF StoreInv, IntelligenceTypeOK
        <4> QED BY <4>3 DEF Evaluation
      <3>2. /\ LevelInv'
            /\ \A s \in Scopes : IF s \in DOMAIN outcome'.advice THEN LevelStep(s)
                                ELSE standing'[s].level = standing[s].level
        BY <2>3, LevelEvaluated
      <3>3. ASSUME NEW s \in Scopes PROVE LevelFollows(s)
        <4>1. CASE s \in DOMAIN outcome'.advice
          BY <3>1, <3>2, <4>1, LevelStepFollows
        <4>2. CASE s \notin DOMAIN outcome'.advice
          BY <3>2, <4>2 DEF LevelFollows
        <4> QED BY <4>1, <4>2
      <3> QED BY <3>2, <3>3
    <2> QED BY <2>1, <2>2, <2>3 DEF Predict
  <1>3. CASE ~Asked
    <2>1. standing' = standing /\ evidence' = evidence /\ lastProcessed' = lastProcessed
      BY <1>3 DEF Next, SessionPauses, AskDashboard, AskPrediction, Save, Publish, predictionVars, vars
    <2> QED BY <1>1, <2>1
  <1> QED BY <1>2, <1>3

\* The level of the venue, and of each gate, goes exactly where enough evaluations in a row
\* have been on one side of it, and nowhere else.
THEOREM LevelsFollow == Spec => LevelFollowsEvidence
  <1>1. (\A s \in Scopes : LevelFollows(s)) =>
            [\A s \in Scopes :
               LET raws == Append(evidence[s], RiskLevel(outcome'.advice[s].score))
                   LastOnes(n, Side(_)) == /\ Len(raws) >= n
                                           /\ \A i \in Len(raws) - n + 1 .. Len(raws) : Side(raws[i])
                   Above(raw) == raw > standing[s].level
                   Below(raw) == raw < standing[s].level
               IN  IF Evaluation /\ s \in DOMAIN outcome'.advice
                   THEN /\ (standing'[s].level # standing[s].level) <=>
                               (LastOnes(EscalationFrames, Above) \/ LastOnes(RecoveryFrames, Below))
                        /\ standing'[s].level \in {standing[s].level, RiskLevel(outcome'.advice[s].score)}
                   ELSE standing'[s].level = standing[s].level]_vars
    BY DEF LevelFollows
  <1>2. Init => IntelligenceTypeOK /\ StoreInv /\ LevelInv
    BY IntelligenceTypeInit, StoreInit, LevelInit DEF Init
  <1> QED BY <1>1, <1>2, EngineTypeNext, StoreNext, LevelNext, PTL DEF Spec, LevelFollowsEvidence

------------------------------------------------------------------------------
(* The windows against the log. *)

\* How far i is from the end of K: 1 for the last of its numbers.
Back(K, i) == Cardinality({j \in K : j >= i})

\* A window has the times of the last events among K, in order; one that is missing
\* is old, or there have been too many since.
Holds(s, K, times, old) ==
    /\ Len(s) <= Cardinality(K)
    /\ \A i \in K : IF Back(K, i) <= Len(s) THEN s[Len(s) + 1 - Back(K, i)] = times[i]
                    ELSE i \in old \/ Back(K, i) > Capacity

LEMMA BackFacts ==
    ASSUME NEW K \in SUBSET Nat, IsFiniteSet(K)
    PROVE  /\ Cardinality(K) \in Nat
           /\ \A i \in K : Back(K, i) \in 1..Cardinality(K)
           /\ \A i, j \in K : i < j => Back(K, j) < Back(K, i)
  <1>1. \A i : {j \in K : j >= i} \in SUBSET K /\ IsFiniteSet({j \in K : j >= i})
    BY FS_Subset
  <1>2. \A i : Back(K, i) \in Nat /\ Back(K, i) <= Cardinality(K)
    BY <1>1, FS_Subset, FS_CardinalityType DEF Back
  <1>3. ASSUME NEW i \in K PROVE Back(K, i) # 0
    <2>1. i \in {j \in K : j >= i}
      OBVIOUS
    <2> QED BY <1>1, <2>1, FS_EmptySet DEF Back
  <1>4. ASSUME NEW i \in K, NEW j \in K, i < j PROVE Back(K, j) < Back(K, i)
    <2> DEFINE A == {x \in K : x >= j}
               B == {x \in K : x >= i}
    <2>0. \A x \in K : x \in Nat
      OBVIOUS
    <2>1. A \in SUBSET (B \ {i}) /\ i \in B
      <3>1. i \in B
        BY <2>0
      <3>2. ASSUME NEW x \in A PROVE x \in B /\ x # i
        BY <1>4, <2>0
      <3> QED BY <3>1, <3>2
    <2>2. IsFiniteSet(B) /\ IsFiniteSet(B \ {i}) /\ Cardinality(B \ {i}) = Cardinality(B) - 1
      <3>1. IsFiniteSet(B)
        BY <1>1
      <3> HIDE DEF B
      <3> QED BY <2>1, <3>1, FS_RemoveElement
    <2>3. Cardinality(A) <= Cardinality(B \ {i})
      BY <2>1, <2>2, FS_Subset
    <2>4. Cardinality(A) \in Nat /\ Cardinality(B) \in Nat
      BY <1>1, FS_CardinalityType
    <2> QED BY <2>2, <2>3, <2>4 DEF Back
  <1> QED BY <1>2, <1>3, <1>4, FS_CardinalityType

\* All that come after it, and itself.
LEMMA BackAfter ==
    ASSUME NEW K \in SUBSET Nat, IsFiniteSet(K), NEW i \in K
    PROVE  /\ Cardinality({j \in K : j > i}) \in Nat
           /\ Back(K, i) = Cardinality({j \in K : j > i}) + 1
  <1>1. PICK L : L = {j \in K : j > i}
    OBVIOUS
  <1>2. IsFiniteSet(L) /\ i \notin L
    BY <1>1, FS_Subset
  <1>3. {j \in K : j >= i} = L \cup {i}
    <2>1. \A j \in K : j >= i <=> (j > i \/ j = i)
      OBVIOUS
    <2> QED BY <1>1, <2>1
  <1>4. Cardinality(L \cup {i}) = Cardinality(L) + 1
    BY <1>2, FS_AddElement
  <1>5. Cardinality(L) \in Nat
    BY <1>2, FS_CardinalityType
  <1> QED BY <1>1, <1>3, <1>4, <1>5 DEF Back

\* No more of them are within n of the end than n.
LEMMA LastOnes ==
    ASSUME NEW K \in SUBSET Nat, IsFiniteSet(K), NEW n \in Nat, NEW L \in SUBSET K,
           \A i \in L : Back(K, i) <= n
    PROVE  Cardinality(L) <= n
  <1>1. IsFiniteSet(L) /\ Cardinality(L) \in Nat
    BY FS_Subset, FS_CardinalityType
  <1>2. CASE L = {}
    BY <1>2, FS_EmptySet
  <1>3. CASE L # {}
    <2>1. L \in SUBSET Nat
      OBVIOUS
    <2>2. PICK m \in L : \A i \in L : m <= i
      BY <1>3, <2>1, LeastOf
    <2>3. L \in SUBSET {j \in K : j >= m} /\ IsFiniteSet({j \in K : j >= m})
      BY <2>1, <2>2, FS_Subset
    <2>4. Cardinality(L) <= Back(K, m)
      BY <2>3, FS_Subset DEF Back
    <2>5. Back(K, m) \in Nat /\ Back(K, m) <= n
      BY <2>2, BackFacts
    <2> QED BY <1>1, <2>4, <2>5
  <1> QED BY <1>2, <1>3

\* A new one is the last, and every other is one farther from the end.
LEMMA BackGrows ==
    ASSUME NEW K \in SUBSET Nat, IsFiniteSet(K), NEW n \in Nat, \A i \in K : i < n
    PROVE  /\ IsFiniteSet(K \cup {n}) /\ Cardinality(K \cup {n}) = Cardinality(K) + 1
           /\ Back(K \cup {n}, n) = 1
           /\ \A i \in K : Back(K \cup {n}, i) = Back(K, i) + 1
  <1>1. n \notin K
    OBVIOUS
  <1>2. IsFiniteSet(K \cup {n}) /\ Cardinality(K \cup {n}) = Cardinality(K) + 1
    BY <1>1, FS_AddElement
  <1>3. {j \in K \cup {n} : j >= n} = {n}
    <2>1. ASSUME NEW j \in K PROVE ~(j >= n)
      OBVIOUS
    <2>2. n >= n
      OBVIOUS
    <2> QED BY <2>1, <2>2
  <1>4. Back(K \cup {n}, n) = 1
    BY <1>3, FS_Singleton DEF Back
  <1>5. ASSUME NEW i \in K PROVE Back(K \cup {n}, i) = Back(K, i) + 1
    <2> DEFINE B == {j \in K : j >= i}
    <2>1. {j \in K \cup {n} : j >= i} = B \cup {n} /\ n \notin B
      OBVIOUS
    <2>2. IsFiniteSet(B)
      BY FS_Subset
    <2> QED BY <2>1, <2>2, FS_AddElement DEF Back
  <1> QED BY <1>2, <1>4, <1>5

LEMMA HoldsMore ==
    ASSUME NEW s \in Seq(Int), NEW K \in SUBSET Nat, IsFiniteSet(K), NEW times, NEW old,
           Holds(s, K, times, old),
           NEW n \in Nat, \A i \in K : i < n,
           NEW more, \A i \in K : more[i] = times[i], more[n] \in Int
    PROVE  Holds(Append(s, more[n]), K \cup {n}, more, old)
  <1> DEFINE t == Append(s, more[n])
             M == K \cup {n}
  <1>1. Len(s) \in Nat /\ Len(t) = Len(s) + 1 /\ t[Len(s) + 1] = more[n] /\ \A i \in 1..Len(s) : t[i] = s[i]
    OBVIOUS
  <1>2. Cardinality(K) \in Nat /\ \A i \in K : Back(K, i) \in 1..Cardinality(K)
    BY BackFacts
  <1>3. Cardinality(M) = Cardinality(K) + 1 /\ Back(M, n) = 1 /\ \A i \in K : Back(M, i) = Back(K, i) + 1
    BY BackGrows
  <1> HIDE DEF t, M
  <1>4. Len(t) <= Cardinality(M)
    BY <1>1, <1>2, <1>3 DEF Holds
  <1>5. ASSUME NEW i \in K
        PROVE  IF Back(M, i) <= Len(t) THEN t[Len(t) + 1 - Back(M, i)] = more[i]
               ELSE i \in old \/ Back(M, i) > Capacity
    <2>1. PICK b \in Nat : b = Back(K, i) /\ b >= 1 /\ Back(M, i) = b + 1
      BY <1>2, <1>3
    <2>2. IF b <= Len(s) THEN s[Len(s) + 1 - b] = times[i] ELSE i \in old \/ b > Capacity
      BY <2>1 DEF Holds
    <2>3. Capacity \in Nat
      BY EngineConstants
    <2>4. CASE b <= Len(s)
      <3>1. Len(s) + 1 - b \in 1..Len(s) /\ Len(t) + 1 - (b + 1) = Len(s) + 1 - b
        BY <1>1, <2>1, <2>4
      <3> QED BY <1>1, <2>1, <2>2, <2>4, <3>1
    <2>5. CASE ~(b <= Len(s))
      BY <1>1, <2>1, <2>2, <2>3, <2>5
    <2> QED BY <2>4, <2>5
  <1>6. t[Len(t) + 1 - Back(M, n)] = more[n] /\ Back(M, n) <= Len(t)
    <2>1. Len(t) + 1 - Back(M, n) = Len(s) + 1
      BY <1>1, <1>3
    <2> QED BY <1>1, <1>3, <2>1
  <1>7. \A i \in M : i \in K \/ i = n
    BY DEF M
  <1>8. Holds(t, M, more, old)
    BY <1>4, <1>5, <1>6, <1>7 DEF Holds
  <1> QED BY <1>8 DEF t, M

LEMMA HoldsTrimmed ==
    ASSUME NEW s \in Seq(Int), NEW K \in SUBSET Nat, IsFiniteSet(K), NEW times, NEW old,
           Holds(s, K, times, old), \A i \in K : times[i] \in Int,
           NEW cutoff \in Int, NEW gone, old \subseteq gone,
           \A i \in K : times[i] < cutoff => i \in gone
    PROVE  Holds(Trimmed(s, cutoff), K, times, gone)
  <1> DEFINE t == Trimmed(s, cutoff)
  <1>1. /\ t \in Seq(Int) /\ Len(t) <= Len(s) /\ Len(t) <= Capacity
        /\ \A i \in 1..Len(t) : t[i] = s[Len(s) - Len(t) + i]
        /\ \A i \in 1..Len(s) : i <= Len(s) - Len(t) =>
                (\A j \in 1..i : s[j] < cutoff) \/ Len(t) = Capacity
    BY TrimmedFacts
  <1>2. Len(s) \in Nat /\ Len(t) \in Nat /\ Capacity \in Nat
    BY <1>1, EngineConstants
  <1>3. Cardinality(K) \in Nat /\ \A i \in K : Back(K, i) \in 1..Cardinality(K)
    BY BackFacts
  <1> HIDE DEF t
  <1>4. Len(t) <= Cardinality(K)
    BY <1>1, <1>2, <1>3 DEF Holds
  <1>5. ASSUME NEW i \in K
        PROVE  IF Back(K, i) <= Len(t) THEN t[Len(t) + 1 - Back(K, i)] = times[i]
               ELSE i \in gone \/ Back(K, i) > Capacity
    <2>1. PICK b \in Nat : b = Back(K, i) /\ b >= 1
      BY <1>3
    <2>2. IF b <= Len(s) THEN s[Len(s) + 1 - b] = times[i] ELSE i \in old \/ b > Capacity
      BY <2>1 DEF Holds
    <2>3. CASE b <= Len(t)
      <3>1. Len(t) + 1 - b \in 1..Len(t) /\ Len(s) - Len(t) + (Len(t) + 1 - b) = Len(s) + 1 - b /\ b <= Len(s)
        <4>1. PICK l, m \in Nat : l = Len(t) /\ m = Len(s)
          BY <1>2
        <4>2. l <= m /\ b <= l /\ b >= 1
          BY <1>1, <2>1, <2>3, <4>1
        <4>3. l + 1 - b \in 1..l /\ m - l + (l + 1 - b) = m + 1 - b /\ b <= m
          BY <4>2
        <4> QED BY <4>1, <4>3
      <3> QED BY <1>1, <2>1, <2>2, <2>3, <3>1
    <2>4. CASE b > Len(t) /\ b <= Len(s)
      <3>1. Len(s) + 1 - b \in 1..Len(s) /\ Len(s) + 1 - b <= Len(s) - Len(t)
        BY <1>1, <1>2, <2>1, <2>4
      <3>2. s[Len(s) + 1 - b] < cutoff \/ Len(t) = Capacity
        <4>1. PICK x \in 1..Len(s) : x = Len(s) + 1 - b
          BY <3>1
        <4>2. x \in 1..x
          BY <1>2, <4>1
        <4> QED BY <1>1, <3>1, <4>1, <4>2
      <3> QED BY <1>2, <2>1, <2>2, <2>4, <3>2
    <2>5. CASE ~(b <= Len(t)) /\ ~(b <= Len(s))
      BY <2>1, <2>2, <2>5
    <2> QED BY <1>2, <2>3, <2>4, <2>5
  <1>6. Holds(t, K, times, gone)
    BY <1>4, <1>5 DEF Holds
  <1> QED BY <1>6 DEF t

\* One window is the end of another.
Ends(s, t) == Len(s) <= Len(t) /\ \A i \in 1..Len(s) : s[i] = t[Len(t) - Len(s) + i]

LEMMA EndsGrow ==
    ASSUME NEW s \in Seq(Int), NEW t \in Seq(Int), Ends(s, t), NEW x \in Int
    PROVE  Ends(Append(s, x), Append(t, x))
  <1> DEFINE a == Append(s, x)
             b == Append(t, x)
  <1>1. /\ Len(s) \in Nat /\ Len(t) \in Nat /\ Len(a) = Len(s) + 1 /\ Len(b) = Len(t) + 1
        /\ a[Len(s) + 1] = x /\ b[Len(t) + 1] = x
        /\ \A i \in 1..Len(s) : a[i] = s[i]
        /\ \A i \in 1..Len(t) : b[i] = t[i]
    OBVIOUS
  <1> HIDE DEF a, b
  <1>2. ASSUME NEW i \in 1..Len(a) PROVE a[i] = b[Len(b) - Len(a) + i]
    <2>1. CASE i \in 1..Len(s)
      <3>1. Len(b) - Len(a) + i = Len(t) - Len(s) + i /\ Len(t) - Len(s) + i \in 1..Len(t)
        BY <1>1, <2>1 DEF Ends
      <3> QED BY <1>1, <2>1, <3>1 DEF Ends
    <2>2. CASE i = Len(s) + 1
      <3>1. Len(b) - Len(a) + i = Len(t) + 1
        BY <1>1, <2>2
      <3> QED BY <1>1, <2>2, <3>1
    <2> QED BY <1>1, <2>1, <2>2
  <1>3. Len(a) <= Len(b)
    BY <1>1 DEF Ends
  <1> QED BY <1>2, <1>3 DEF Ends, a, b

\* The window of the shorter width stays the end of the longer one's.
LEMMA EndsTrimmed ==
    ASSUME NEW s \in Seq(Int), NEW t \in Seq(Int), Ends(s, t),
           NEW c \in Int, NEW d \in Int, d <= c
    PROVE  Ends(Trimmed(s, c), Trimmed(t, d))
  <1> DEFINE a == Trimmed(s, c)
             b == Trimmed(t, d)
  <1>1. /\ a \in Seq(Int) /\ Len(a) <= Len(s) /\ Len(a) <= Capacity
        /\ \A i \in 1..Len(a) : a[i] = s[Len(s) - Len(a) + i]
        /\ Len(a) > 0 => \E i \in 1..Len(s) - Len(a) + 1 : s[i] >= c
    BY TrimmedFacts
  <1>2. /\ b \in Seq(Int) /\ Len(b) <= Len(t) /\ Len(b) <= Capacity
        /\ \A i \in 1..Len(b) : b[i] = t[Len(t) - Len(b) + i]
        /\ \A i \in 1..Len(t) : i <= Len(t) - Len(b) => (\A j \in 1..i : t[j] < d) \/ Len(b) = Capacity
    BY TrimmedFacts
  <1>3. Capacity \in Nat /\ \A i \in 1..Len(t) : t[i] \in Int
    BY EngineConstants
  <1> HIDE DEF a, b
  <1>4. PICK ls, lt, la, lb \in Nat : ls = Len(s) /\ lt = Len(t) /\ la = Len(a) /\ lb = Len(b)
    BY <1>1, <1>2
  <1>5. /\ ls <= lt /\ la <= ls /\ lb <= lt /\ la <= Capacity
        /\ \A i \in 1..ls : s[i] = t[lt - ls + i]
        /\ \A i \in 1..la : a[i] = s[ls - la + i]
        /\ \A i \in 1..lb : b[i] = t[lt - lb + i]
        /\ la > 0 => \E i \in 1..ls - la + 1 : s[i] >= c
        /\ \A i \in 1..lt : i <= lt - lb => (\A j \in 1..i : t[j] < d) \/ lb = Capacity
    BY <1>1, <1>2, <1>4 DEF Ends
  <1>6. la <= lb
    <2>1. SUFFICES ASSUME la > lb PROVE FALSE
      BY <1>4
    <2>2. PICK i \in 1..ls - la + 1 : s[i] >= c
      BY <1>4, <1>5, <2>1
    <2>3. i \in 1..ls /\ lt - ls + i \in 1..lt /\ lt - ls + i <= lt - lb
      <3>1. ls <= lt /\ la <= ls
        BY <1>5
      <3> QED BY <2>1, <3>1
    <2>4. PICK x \in 1..lt : x = lt - ls + i
      BY <2>3
    <2>5. lb # Capacity /\ x \in 1..x
      BY <1>3, <1>4, <1>5, <2>1, <2>4
    <2>6. t[x] < d /\ t[x] = s[i] /\ t[x] \in Int
      BY <1>3, <1>4, <1>5, <2>3, <2>4, <2>5
    <2> QED BY <2>2, <2>6
  <1>7. ASSUME NEW i \in 1..la PROVE a[i] = b[lb - la + i]
    <2>1. ls - la + i \in 1..ls /\ lb - la + i \in 1..lb
      <3>1. la <= ls
        BY <1>5
      <3> QED BY <1>6, <3>1
    <2>2. a[i] = t[lt - ls + (ls - la + i)] /\ b[lb - la + i] = t[lt - lb + (lb - la + i)]
      BY <1>5, <2>1
    <2>3. lt - ls + (ls - la + i) = lt - la + i /\ lt - lb + (lb - la + i) = lt - la + i
      BY <1>4
    <2> QED BY <2>2, <2>3
  <1> QED BY <1>4, <1>6, <1>7 DEF Ends, a, b
Logs == Seq([kind : Kinds, gate : Gates, at : Int])

\* What is said of the log is said of any lg, and of the clock of any time.
OccurredIn(lg, k, p) == {i \in DOMAIN lg : lg[i].kind = k /\ p \in {lg[i].gate, Venue}}
TimesOf(lg) == [i \in DOMAIN lg |-> lg[i].at]

\* What is older than the width, by the clock or by a later event's timestamp.
OldIn(lg, clock, k, p, w) ==
    {i \in OccurredIn(lg, k, p) : \/ lg[i].at < clock - w
                                  \/ \E j \in OccurredIn(lg, k, p) : lg[i].at < lg[j].at - w}

\* The windows hold what the log says, a shorter one the end of a longer one.
Agree(wins, lg, clock) ==
    \A k \in Kinds, p \in Places :
        /\ \A w \in Widths :
                Holds(wins[k][p][w], OccurredIn(lg, k, p), TimesOf(lg), OldIn(lg, clock, k, p, w))
        /\ \A v, w \in Widths : v <= w => Ends(wins[k][p][v], wins[k][p][w])

\* What has occurred is a finite set of numbers.
LEMMA OccurredFacts ==
    ASSUME NEW lg \in Logs
    PROVE  /\ Len(lg) \in Nat /\ DOMAIN lg = 1..Len(lg)
           /\ \A i \in DOMAIN lg : lg[i].at \in Int /\ lg[i].kind \in Kinds /\ lg[i].gate \in Gates
           /\ \A k, p : /\ OccurredIn(lg, k, p) \in SUBSET DOMAIN lg /\ OccurredIn(lg, k, p) \in SUBSET Nat
                        /\ IsFiniteSet(OccurredIn(lg, k, p))
                        /\ \A i \in OccurredIn(lg, k, p) : TimesOf(lg)[i] = lg[i].at /\ TimesOf(lg)[i] \in Int
  <1>1. Len(lg) \in Nat /\ DOMAIN lg = 1..Len(lg) /\ \A i \in DOMAIN lg : lg[i] \in [kind : Kinds, gate : Gates, at : Int]
    <2>1. PICK E : E = [kind : Kinds, gate : Gates, at : Int]
      OBVIOUS
    <2>2. lg \in Seq(E)
      BY <2>1 DEF Logs
    <2>3. Len(lg) \in Nat /\ DOMAIN lg = 1..Len(lg) /\ \A i \in 1..Len(lg) : lg[i] \in E
      BY <2>2
    <2> QED BY <2>1, <2>3
  <1>2. IsFiniteSet(DOMAIN lg)
    <2>1. Len(lg) \in Int /\ 1 \in Int
      BY <1>1
    <2>2. IsFiniteSet(1..Len(lg))
      BY <2>1, FS_Interval
    <2> QED BY <1>1, <2>2
  <1>3. \A k, p : OccurredIn(lg, k, p) \in SUBSET DOMAIN lg
    BY DEF OccurredIn
  <1>4. ASSUME NEW k, NEW p PROVE IsFiniteSet(OccurredIn(lg, k, p)) /\ OccurredIn(lg, k, p) \in SUBSET Nat
    BY <1>1, <1>2, <1>3, FS_Subset
  <1>5. \A i \in DOMAIN lg : TimesOf(lg)[i] = lg[i].at /\ lg[i].at \in Int /\ lg[i].kind \in Kinds /\ lg[i].gate \in Gates
    BY <1>1 DEF TimesOf
  <1> QED BY <1>1, <1>3, <1>4, <1>5

\* Time goes on: more is old.
LEMMA AgreeLater ==
    ASSUME NEW wins, NEW lg \in Logs, NEW clock \in Int, Agree(wins, lg, clock),
           NEW later \in Int, clock <= later
    PROVE  Agree(wins, lg, later)
  <1>1. ASSUME NEW k \in Kinds, NEW p \in Places, NEW w \in Widths
        PROVE  OldIn(lg, clock, k, p, w) \subseteq OldIn(lg, later, k, p, w)
    <2>1. w \in Int
      BY EngineConstants
    <2>2. ASSUME NEW i \in OccurredIn(lg, k, p), lg[i].at < clock - w PROVE lg[i].at < later - w
      <3>1. lg[i].at \in Int
        BY OccurredFacts
      <3> QED BY <2>1, <2>2, <3>1
    <2> QED BY <2>2 DEF OldIn
  <1> QED BY <1>1 DEF Agree, Holds

\* Every window is trimmed to the clock.
LEMMA AgreeTrimmed ==
    ASSUME NEW wins \in WindowsType, NEW lg \in Logs, NEW clock \in Int, Agree(wins, lg, clock),
           NEW new, \A k \in Kinds, p \in Places, w \in Widths :
                        new[k][p][w] = Trimmed(wins[k][p][w], clock - w)
    PROVE  Agree(new, lg, clock)
  <1>0. \A w \in Widths : w \in Int /\ clock - w \in Int
    BY EngineConstants
  <1>1. ASSUME NEW k \in Kinds, NEW p \in Places, NEW w \in Widths
        PROVE  Holds(new[k][p][w], OccurredIn(lg, k, p), TimesOf(lg), OldIn(lg, clock, k, p, w))
    <2> DEFINE K == OccurredIn(lg, k, p)
               old == OldIn(lg, clock, k, p, w)
               times == TimesOf(lg)
    <2>1. K \in SUBSET Nat /\ IsFiniteSet(K) /\ \A i \in K : times[i] = lg[i].at /\ times[i] \in Int
      BY OccurredFacts
    <2>2. \A i \in K : times[i] < clock - w => i \in old
      BY <2>1 DEF OldIn
    <2>3. Holds(wins[k][p][w], K, times, old) /\ wins[k][p][w] \in Seq(Int)
      BY DEF Agree, WindowsType
    <2> HIDE DEF K, old, times
    <2>4. Holds(Trimmed(wins[k][p][w], clock - w), K, times, old)
      BY <1>0, <2>1, <2>2, <2>3, HoldsTrimmed
    <2> QED BY <2>4 DEF K, old, times
  <1>2. ASSUME NEW k \in Kinds, NEW p \in Places, NEW v \in Widths, NEW w \in Widths, v <= w
        PROVE  Ends(new[k][p][v], new[k][p][w])
    <2>1. wins[k][p][v] \in Seq(Int) /\ wins[k][p][w] \in Seq(Int) /\ Ends(wins[k][p][v], wins[k][p][w])
      BY <1>2 DEF Agree, WindowsType
    <2>2. clock - w <= clock - v
      BY <1>0, <1>2
    <2>3. Ends(Trimmed(wins[k][p][v], clock - v), Trimmed(wins[k][p][w], clock - w))
      BY <1>0, <2>1, <2>2, EndsTrimmed
    <2> QED BY <2>3
  <1> QED BY <1>1, <1>2 DEF Agree

\* What one more event, at n, changes of what has occurred.
IsMore(more, n, lg, e, k, p) ==
    /\ more \in Logs /\ n \in Nat /\ \A i \in OccurredIn(lg, k, p) : i < n
    /\ OccurredIn(more, k, p) = IF k = e.kind /\ p \in {e.gate, Venue}
                                THEN OccurredIn(lg, k, p) \cup {n} ELSE OccurredIn(lg, k, p)
    /\ TimesOf(more)[n] = e.at /\ more[n] = e
    /\ \A i \in OccurredIn(lg, k, p) : more[i] = lg[i] /\ TimesOf(more)[i] = TimesOf(lg)[i]

LEMMA OccurredMore ==
    ASSUME NEW lg \in Logs, NEW e \in [kind : Kinds, gate : Gates, at : Int], NEW k, NEW p
    PROVE  IsMore(Append(lg, e), Len(lg) + 1, lg, e, k, p)
  <1>0. PICK more, n : more = Append(lg, e) /\ n = Len(lg) + 1
    OBVIOUS
  <1>1. /\ Len(lg) \in Nat /\ DOMAIN lg = 1..Len(lg) /\ DOMAIN more = 1..n /\ more[n] = e
        /\ \A i \in 1..Len(lg) : more[i] = lg[i]
        /\ more \in Logs
    BY <1>0 DEF Logs
  <1>2. OccurredIn(lg, k, p) \in SUBSET (1..Len(lg)) /\ \A i \in OccurredIn(lg, k, p) : i < n
    BY <1>0, <1>1 DEF OccurredIn
  <1>3. \A i : i \in 1..n <=> i \in 1..Len(lg) \/ i = n
    BY <1>0, <1>1
  <1>4. n \notin 1..Len(lg)
    BY <1>0, <1>1
  <1>5. OccurredIn(more, k, p) = IF k = e.kind /\ p \in {e.gate, Venue}
                                 THEN OccurredIn(lg, k, p) \cup {n} ELSE OccurredIn(lg, k, p)
    BY <1>1, <1>3, <1>4 DEF OccurredIn
  <1>6. TimesOf(more)[n] = e.at /\ \A i \in OccurredIn(lg, k, p) : more[i] = lg[i] /\ TimesOf(more)[i] = TimesOf(lg)[i]
    BY <1>1, <1>2, <1>3 DEF TimesOf
  <1>7. IsMore(more, n, lg, e, k, p)
    BY <1>0, <1>1, <1>2, <1>5, <1>6 DEF IsMore
  <1> QED BY <1>0, <1>7

\* An event goes to the windows of its gate and of the venue.
LEMMA AgreeRecorded ==
    ASSUME NEW wins \in WindowsType, NEW lg \in Logs, NEW clock \in Int, Agree(wins, lg, clock),
           NEW e \in [kind : Kinds, gate : Gates, at : Int],
           NEW new, \A k \in Kinds, p \in Places, w \in Widths :
                        new[k][p][w] = IF k = e.kind /\ p \in {e.gate, Venue}
                                       THEN Trimmed(Append(wins[k][p][w], e.at), e.at - w)
                                       ELSE wins[k][p][w]
    PROVE  Agree(new, Append(lg, e), clock)
  <1>9. PICK more, n : more = Append(lg, e) /\ n = Len(lg) + 1
    OBVIOUS
  <1>8. \A k, p : IsMore(more, n, lg, e, k, p)
    BY <1>9, OccurredMore
  <1>0. e.at \in Int /\ \A w \in Widths : w \in Int /\ w \in Nat /\ e.at - w \in Int
    BY EngineConstants
  <1>1. ASSUME NEW k \in Kinds, NEW p \in Places, NEW w \in Widths
        PROVE  Holds(new[k][p][w], OccurredIn(more, k, p), TimesOf(more), OldIn(more, clock, k, p, w))
    <2> DEFINE K == OccurredIn(lg, k, p)
               M == OccurredIn(more, k, p)
               old == OldIn(lg, clock, k, p, w)
               gone == OldIn(more, clock, k, p, w)
               times == TimesOf(lg)
               then == TimesOf(more)
               s == wins[k][p][w]
    <2>1. K \in SUBSET Nat /\ IsFiniteSet(K) /\ \A i \in K : times[i] = lg[i].at /\ times[i] \in Int
      BY OccurredFacts
    <2>2. /\ more \in Logs /\ n \in Nat /\ \A i \in K : i < n
          /\ M = IF k = e.kind /\ p \in {e.gate, Venue} THEN K \cup {n} ELSE K
          /\ then[n] = e.at /\ more[n] = e
          /\ \A i \in K : more[i] = lg[i] /\ then[i] = times[i]
      BY <1>8 DEF IsMore
    <2>3. Holds(s, K, times, old) /\ s \in Seq(Int)
      BY DEF Agree, WindowsType
    <2>4. old \subseteq gone /\ K \subseteq M
      <3>1. K \subseteq M
        BY <2>2
      <3>2. \A i \in old : /\ i \in K
                           /\ lg[i].at < clock - w \/ \E j \in K : lg[i].at < lg[j].at - w
        BY DEF OldIn
      <3> HIDE DEF K, M, old
      <3>3. \A i \in old : /\ i \in M
                           /\ more[i].at < clock - w \/ \E j \in M : more[i].at < more[j].at - w
        BY <2>2, <3>1, <3>2
      <3> QED BY <3>1, <3>3 DEF OldIn, M
    <2>5. CASE k = e.kind /\ p \in {e.gate, Venue}
      <3>1. M = K \cup {n} /\ new[k][p][w] = Trimmed(Append(s, then[n]), e.at - w)
        BY <2>2, <2>5
      <3>2. \A i \in M : then[i] = more[i].at /\ then[i] \in Int
        BY <2>2, OccurredFacts
      <3>3. \A i \in M : then[i] < e.at - w => i \in gone
        BY <2>2, <3>1, <3>2 DEF OldIn
      <3>4. M \in SUBSET Nat /\ IsFiniteSet(M)
        BY <2>2, OccurredFacts
      <3> HIDE DEF K, M, old, gone, times, then, s
      <3>5. Append(s, then[n]) \in Seq(Int) /\ then[n] \in Int
        BY <1>0, <2>2, <2>3
      <3>6. Holds(Append(s, then[n]), M, then, old)
        <4>1. n \in Nat /\ (\A i \in K : i < n) /\ \A i \in K : then[i] = times[i]
          BY <2>2
        <4>2. K \in SUBSET Nat /\ IsFiniteSet(K) /\ Holds(s, K, times, old) /\ s \in Seq(Int) /\ then[n] \in Int
          BY <2>1, <2>3, <3>5
        <4>3. Holds(Append(s, then[n]), K \cup {n}, then, old)
          BY <4>1, <4>2, HoldsMore
        <4> QED BY <3>1, <4>3
      <3>7. Holds(Trimmed(Append(s, then[n]), e.at - w), M, then, gone)
        BY <1>0, <2>4, <3>2, <3>3, <3>4, <3>5, <3>6, HoldsTrimmed
      <3> QED BY <3>1, <3>7 DEF M, then, gone
    <2>6. CASE ~(k = e.kind /\ p \in {e.gate, Venue})
      <3>1. M = K /\ new[k][p][w] = s
        BY <2>2, <2>6
      <3> HIDE DEF K, M, old, gone, times, then, s
      <3>2. Holds(s, M, then, gone)
        BY <2>2, <2>3, <2>4, <3>1 DEF Holds
      <3> QED BY <3>1, <3>2 DEF M, then, gone
    <2> QED BY <2>5, <2>6
  <1>2. ASSUME NEW k \in Kinds, NEW p \in Places, NEW v \in Widths, NEW w \in Widths, v <= w
        PROVE  Ends(new[k][p][v], new[k][p][w])
    <2>1. wins[k][p][v] \in Seq(Int) /\ wins[k][p][w] \in Seq(Int) /\ Ends(wins[k][p][v], wins[k][p][w])
      BY <1>2 DEF Agree, WindowsType
    <2>2. e.at - w <= e.at - v
      BY <1>0, <1>2
    <2>3. Append(wins[k][p][v], e.at) \in Seq(Int) /\ Append(wins[k][p][w], e.at) \in Seq(Int)
      BY <1>0, <2>1
    <2>4. Ends(Append(wins[k][p][v], e.at), Append(wins[k][p][w], e.at))
      BY <1>0, <2>1, EndsGrow
    <2>5. Ends(Trimmed(Append(wins[k][p][v], e.at), e.at - v), Trimmed(Append(wins[k][p][w], e.at), e.at - w))
      BY <1>0, <2>2, <2>3, <2>4, EndsTrimmed
    <2> QED BY <2>1, <2>5
  <1> QED BY <1>1, <1>2, <1>9 DEF Agree
------------------------------------------------------------------------------
(* Sums. *)

\* Induction over the numbers: what has no least counterexample has none.
LEMMA NumbersInduct ==
    ASSUME NEW F \in SUBSET Nat, 0 \in F, \A n \in F : n + 1 \in F
    PROVE  F = Nat
  <1>1. PICK R : IsWellFoundedOn(R, Nat) /\ R = OpToRel(<, Nat)
    BY NatLessThanWellFounded
  <1>2. SUFFICES ASSUME Nat \ F # {} PROVE FALSE
    OBVIOUS
  <1>3. PICK n \in Nat \ F : \A m \in Nat \ F : ~(<<m, n>> \in R)
    BY <1>1, <1>2, WFMin
  <1>4. n # 0 /\ n - 1 \in Nat /\ <<n - 1, n>> \in R
    BY <1>1, <1>3 DEF OpToRel
  <1>5. n - 1 \in F
    BY <1>3, <1>4
  <1>6. (n - 1) + 1 = n
    BY <1>3
  <1> QED BY <1>3, <1>5, <1>6

\* Induction over the subsets of a finite set.
LEMMA SubsetsInduct ==
    ASSUME NEW S, IsFiniteSet(S), NEW F \in SUBSET SUBSET S, {} \in F,
           \A T \in SUBSET S : T # {} /\ (\A x \in T : T \ {x} \in F) => T \in F
    PROVE  F = SUBSET S
  <1> DEFINE N == {n \in Nat : \A T \in SUBSET S : Cardinality(T) = n => T \in F}
  <1>1. \A T \in SUBSET S : IsFiniteSet(T) /\ Cardinality(T) \in Nat
    BY FS_Subset, FS_CardinalityType
  <1>2. 0 \in N
    BY <1>1, FS_EmptySet
  <1>3. ASSUME NEW n \in N PROVE n + 1 \in N
    <2>0. n \in Nat /\ n + 1 # 0
      BY <1>3
    <2>1. ASSUME NEW T \in SUBSET S, Cardinality(T) = n + 1 PROVE T \in F
      <3>1. T # {}
        BY <2>0, <2>1, FS_EmptySet
      <3>2. ASSUME NEW x \in T PROVE T \ {x} \in F
        <4>1. IsFiniteSet(T) /\ T \ {x} \in SUBSET S
          BY <1>1
        <4>2. Cardinality(T \ {x}) = Cardinality(T) - 1
          BY <4>1, FS_RemoveElement
        <4>3. Cardinality(T \ {x}) = n
          BY <2>0, <2>1, <4>2
        <4> QED BY <1>3, <4>1, <4>3
      <3> QED BY <3>1, <3>2
    <2> QED BY <2>0, <2>1
  <1>4. N \in SUBSET Nat
    OBVIOUS
  <1> HIDE DEF N
  <1>5. N = Nat
    BY <1>2, <1>3, <1>4, NumbersInduct
  <1> QED BY <1>1, <1>5 DEF N

Pick(s) == CHOOSE x \in s : TRUE

\* The recursion by which FoldFunction adds, one element after the other, on the sets D.
Adding(f, D, it) == [s \in D |-> IF s = {} THEN 0 ELSE f[Pick(s)] + it[s \ {Pick(s)}]]

Sums(f) == CHOOSE it : it = Adding(f, SUBSET DOMAIN f, it)

\* The subsets of S with n elements at most.
UpTo(S, n) == {s \in SUBSET S : Cardinality(s) <= n}

\* There is such a function: sets of n elements are summed up by means of smaller ones.
LEMMA SumsExist ==
    ASSUME NEW S, IsFiniteSet(S), NEW f \in [S -> Nat]
    PROVE  Sums(f) = Adding(f, SUBSET S, Sums(f))
  <1> DEFINE N == {n \in Nat : \E it : it = Adding(f, UpTo(S, n), it)}
  <1>1. \A s \in SUBSET S : /\ IsFiniteSet(s) /\ Cardinality(s) \in Nat
                            /\ Cardinality(s) <= Cardinality(S)
                            /\ Cardinality(s) = 0 => s = {}
    BY FS_Subset, FS_CardinalityType, FS_EmptySet
  <1>2. \A s \in SUBSET S : s # {} => /\ Pick(s) \in s /\ s \ {Pick(s)} \in SUBSET S
                                      /\ Cardinality(s \ {Pick(s)}) = Cardinality(s) - 1
    BY <1>1, FS_RemoveElement DEF Pick
  <1>3. 0 \in N
    <2> DEFINE it == [s \in UpTo(S, 0) |-> 0]
    <2>1. \A s \in UpTo(S, 0) : s = {}
      BY <1>1 DEF UpTo
    <2>2. it = Adding(f, UpTo(S, 0), it)
      BY <2>1 DEF Adding
    <2> QED BY <2>2
  <1>4. ASSUME NEW n \in N PROVE n + 1 \in N
    <2>1. PICK it : it = Adding(f, UpTo(S, n), it)
      OBVIOUS
    <2>2. n \in Nat
      OBVIOUS
    <2> DEFINE new == Adding(f, UpTo(S, n + 1), it)
    <2>3. \A s \in UpTo(S, n) : s \in UpTo(S, n + 1)
      BY <1>1, <2>2 DEF UpTo
    <2>4. \A s \in UpTo(S, n) : new[s] = it[s]
      BY <2>1, <2>3 DEF Adding
    <2>5. \A s \in UpTo(S, n + 1) : s # {} => s \ {Pick(s)} \in UpTo(S, n)
      BY <1>1, <1>2, <2>2 DEF UpTo
    <2>6. new = Adding(f, UpTo(S, n + 1), new)
      BY <2>4, <2>5 DEF Adding
    <2> QED BY <2>2, <2>6
  <1>5. N \in SUBSET Nat
    OBVIOUS
  <1>6. N = Nat
    <2> HIDE DEF N
    <2> QED BY <1>3, <1>4, <1>5, NumbersInduct
  <1>7. PICK it : it = Adding(f, UpTo(S, Cardinality(S)), it)
    BY <1>1, <1>6, FS_CardinalityType
  <1>8. UpTo(S, Cardinality(S)) = SUBSET S
    BY <1>1 DEF UpTo
  <1>9. it = Adding(f, SUBSET DOMAIN f, it)
    BY <1>7, <1>8
  <1> QED BY <1>9 DEF Sums

\* Each set is summed up by one of its elements and the rest.
LEMMA SumsFacts ==
    ASSUME NEW S, IsFiniteSet(S), NEW f \in [S -> Nat]
    PROVE  /\ Sums(f)[{}] = 0
           /\ \A s \in SUBSET S : s # {} => Pick(s) \in s /\ Sums(f)[s] = f[Pick(s)] + Sums(f)[s \ {Pick(s)}]
           /\ \A s \in SUBSET S : Sums(f)[s] \in Nat
  <1>1. Sums(f) = Adding(f, SUBSET S, Sums(f))
    BY SumsExist
  <1>2. /\ Sums(f)[{}] = 0
        /\ \A s \in SUBSET S : s # {} => Pick(s) \in s /\ Sums(f)[s] = f[Pick(s)] + Sums(f)[s \ {Pick(s)}]
    BY <1>1 DEF Adding, Pick
  <1> DEFINE F == {s \in SUBSET S : Sums(f)[s] \in Nat}
  <1>3. {} \in F
    BY <1>2
  <1>4. ASSUME NEW T \in SUBSET S, T # {}, \A x \in T : T \ {x} \in F PROVE T \in F
    <2>1. Pick(T) \in T /\ f[Pick(T)] \in Nat /\ Sums(f)[T] = f[Pick(T)] + Sums(f)[T \ {Pick(T)}]
      BY <1>2, <1>4
    <2>2. Sums(f)[T \ {Pick(T)}] \in Nat
      BY <1>4, <2>1
    <2> QED BY <2>1, <2>2
  <1>5. F \in SUBSET SUBSET S
    OBVIOUS
  <1>6. F = SUBSET S
    <2> HIDE DEF F
    <2> QED BY <1>3, <1>4, <1>5, SubsetsInduct
  <1> QED BY <1>2, <1>6


\* What MapThenSumSet adds up: the lengths of the windows of the gates.
LengthsFrom(wins, k, w, it) ==
    [s \in SUBSET Gates |-> IF s = {} THEN 0 ELSE Len(wins[k][Pick(s)][w]) + it[s \ {Pick(s)}]]

Lengths(wins, k, w) == CHOOSE it : it = LengthsFrom(wins, k, w, it)

GateLengths(wins, k, w) == MapThenSumSet(LAMBDA g : Len(wins[k][g][w]), Gates)

LEMMA LengthsUnfold ==
    ASSUME NEW wins, NEW k, NEW w
    PROVE  GateLengths(wins, k, w) = Lengths(wins, k, w)[Gates]
  BY DEF GateLengths, MapThenSumSet, MapThenFoldSet, Lengths, LengthsFrom, Pick

LEMMA LengthsFacts ==
    ASSUME NEW wins \in WindowsType, NEW k \in Kinds, NEW w \in Widths
    PROVE  LET sum == Lengths(wins, k, w) IN
           /\ sum[{}] = 0
           /\ \A s \in SUBSET Gates : s # {} =>
                Pick(s) \in s /\ sum[s] = Len(wins[k][Pick(s)][w]) + sum[s \ {Pick(s)}]
  <1> DEFINE f == [g \in Gates |-> Len(wins[k][g][w])]
             sum == Lengths(wins, k, w)
  <1>1. f \in [Gates -> Nat]
    BY EngineConstants DEF WindowsType
  <1>2. \A s \in SUBSET Gates : s # {} => Pick(s) \in s
    BY DEF Pick
  <1>3. Sums(f) = Adding(f, SUBSET Gates, Sums(f))
    BY <1>1, GatesFinite, SumsExist
  <1>4. \A it : Adding(f, SUBSET Gates, it) = LengthsFrom(wins, k, w, it)
    BY <1>2 DEF Adding, LengthsFrom
  <1>5. Sums(f) = LengthsFrom(wins, k, w, Sums(f))
    BY <1>3, <1>4
  <1>6. sum = LengthsFrom(wins, k, w, sum)
    BY <1>5 DEF Lengths
  <1>7. sum[{}] = 0
    BY <1>6 DEF LengthsFrom
  <1>8. \A s \in SUBSET Gates : s # {} => sum[s] = Len(wins[k][Pick(s)][w]) + sum[s \ {Pick(s)}]
    BY <1>6 DEF LengthsFrom
  <1> QED BY <1>2, <1>7, <1>8

\* Where each gate's window is no longer than its part of a set, the windows together
\* are no longer than the set.
LEMMA LengthsBounded ==
    ASSUME NEW wins \in WindowsType, NEW k \in Kinds, NEW w \in Widths,
           NEW R, IsFiniteSet(R), NEW gateOf,
           \A g \in Gates : Len(wins[k][g][w]) <= Cardinality({i \in R : gateOf[i] = g})
    PROVE  /\ GateLengths(wins, k, w) \in Nat
           /\ GateLengths(wins, k, w) <= Cardinality(R)
  <1> DEFINE sum == Lengths(wins, k, w)
             At(s) == {i \in R : gateOf[i] \in s}
             F == {s \in SUBSET Gates : sum[s] \in Nat /\ sum[s] <= Cardinality(At(s))}
  <1>1. /\ sum[{}] = 0
        /\ \A s \in SUBSET Gates : s # {} =>
                Pick(s) \in s /\ sum[s] = Len(wins[k][Pick(s)][w]) + sum[s \ {Pick(s)}]
    BY LengthsFacts
  <1>2. \A s : At(s) \in SUBSET R /\ IsFiniteSet(At(s)) /\ Cardinality(At(s)) \in Nat
    BY FS_Subset, FS_CardinalityType
  <1> HIDE DEF sum
  <1>3. {} \in F
    <2>1. Cardinality(At({})) \in Nat
      BY <1>2
    <2>2. 0 <= Cardinality(At({}))
      <3> HIDE DEF At
      <3> QED BY <2>1
    <2> QED BY <1>1, <2>2
  <1>4. ASSUME NEW T \in SUBSET Gates, T # {}, \A x \in T : T \ {x} \in F PROVE T \in F
    <2>1. PICK x \in T : sum[T] = Len(wins[k][x][w]) + sum[T \ {x}]
      BY <1>1, <1>4
    <2> DEFINE B == {i \in R : gateOf[i] = x}
    <2>2. At(T) = B \cup At(T \ {x}) /\ B \cap At(T \ {x}) = {}
      OBVIOUS
    <2>3. IsFiniteSet(B) /\ Cardinality(B) \in Nat
      BY FS_Subset, FS_CardinalityType
    <2>4. sum[T \ {x}] \in Nat /\ sum[T \ {x}] <= Cardinality(At(T \ {x}))
      BY <1>4, <2>1
    <2>5. Len(wins[k][x][w]) \in Nat /\ Len(wins[k][x][w]) <= Cardinality(B)
      BY <2>1, EngineConstants DEF WindowsType
    <2>6. IsFiniteSet(At(T \ {x})) /\ Cardinality(At(T \ {x})) \in Nat
      BY <1>2
    <2> HIDE DEF At, B
    <2>7. Cardinality(At(T)) = Cardinality(B) + Cardinality(At(T \ {x}))
      <3>1. Cardinality(B \cup At(T \ {x}))
                = Cardinality(B) + Cardinality(At(T \ {x})) - Cardinality(B \cap At(T \ {x}))
        BY <2>3, <2>6, FS_Union
      <3>2. Cardinality(B \cap At(T \ {x})) = 0
        BY <2>2, FS_EmptySet
      <3> QED BY <2>2, <2>3, <2>6, <3>1, <3>2
    <2> QED BY <2>1, <2>3, <2>4, <2>5, <2>6, <2>7
  <1>5. F \in SUBSET SUBSET Gates
    OBVIOUS
  <1>6. F = SUBSET Gates
    <2> HIDE DEF F
    <2> QED BY <1>3, <1>4, <1>5, GatesFinite, SubsetsInduct
  <1>7. sum[Gates] \in Nat /\ sum[Gates] <= Cardinality(At(Gates))
    BY <1>6
  <1>8. Cardinality(At(Gates)) <= Cardinality(R) /\ Cardinality(R) \in Nat /\ Cardinality(At(Gates)) \in Nat
    BY <1>2, FS_Subset, FS_CardinalityType
  <1>9. sum[Gates] <= Cardinality(R)
    BY <1>7, <1>8
  <1> QED BY <1>7, <1>9, LengthsUnfold DEF sum
------------------------------------------------------------------------------
(* The rates. *)

LEMMA GreatestOf ==
    ASSUME NEW T \in SUBSET Int, T # {}, NEW b \in Int, \A x \in T : x <= b
    PROVE  Max(T) \in T /\ \A x \in T : Max(T) >= x
  <1> DEFINE D == {b - x : x \in T}
  <1>1. \A x \in T : x \in Int /\ b - x \in D
    OBVIOUS
  <1>2. D \in SUBSET Nat /\ D # {}
    <2>1. \A x \in T : b - x \in Nat
      BY <1>1
    <2> QED BY <2>1
  <1>3. PICK d \in D : \A y \in D : d <= y
    <2> HIDE DEF D
    <2> QED BY <1>2, LeastOf
  <1>4. PICK m \in T : d = b - m
    OBVIOUS
  <1>5. ASSUME NEW x \in T PROVE m >= x
    <2>1. x \in Int /\ m \in Int /\ b - m <= b - x
      BY <1>1, <1>3, <1>4
    <2> QED BY <2>1
  <1>6. \E m2 \in T : \A x \in T : m2 >= x
    BY <1>5
  <1> QED BY <1>6 DEF Max

\* There is one at each distance from the end.
LEMMA BackOnto ==
    ASSUME NEW K \in SUBSET Nat, IsFiniteSet(K), NEW m \in 1..Cardinality(K)
    PROVE  \E i \in K : Back(K, i) = m
  <1>1. /\ Cardinality(K) \in Nat
        /\ \A i \in K : Back(K, i) \in 1..Cardinality(K)
        /\ \A i, j \in K : i < j => Back(K, j) < Back(K, i)
    BY BackFacts
  <1>2. \A i \in K : i \in Nat /\ Back(K, i) \in Nat
    BY <1>1
  <1> DEFINE far == {i \in K : Back(K, i) >= m}
             backs == {Back(K, i) : i \in far}
  <1>3. far # {}
    <2>1. SUFFICES ASSUME \A i \in K : Back(K, i) < m PROVE FALSE
      BY <1>2
    <2>2. m - 1 \in Nat /\ \A i \in K : Back(K, i) <= m - 1
      BY <1>1, <2>1
    <2>3. Cardinality(K) <= m - 1
      BY <2>2, LastOnes
    <2> QED BY <1>1, <2>3
  <1>4. backs \in SUBSET Nat /\ backs # {}
    BY <1>2, <1>3
  <1>5. PICK c \in backs : \A d \in backs : c <= d
    <2> HIDE DEF backs
    <2> QED BY <1>4, LeastOf
  <1>6. PICK i \in far : c = Back(K, i)
    BY <1>5
  <1>7. i \in K /\ Back(K, i) >= m /\ \A j \in K : Back(K, j) >= m => Back(K, i) <= Back(K, j)
    BY <1>5, <1>6
  <1> HIDE DEF far, backs
  <1> DEFINE L == {j \in K : j > i}
  <1>8. \A j \in L : Back(K, j) <= m - 1
    <2>1. SUFFICES ASSUME NEW j \in L PROVE Back(K, j) <= m - 1
      OBVIOUS
    <2>2. Back(K, j) < Back(K, i) /\ Back(K, j) \in Nat /\ Back(K, i) \in Nat
      BY <1>1, <1>2, <1>7
    <2> QED BY <1>7, <2>2
  <1>9. Cardinality(L) <= m - 1
    <2>1. L \in SUBSET K /\ m - 1 \in Nat
      BY <1>1
    <2> HIDE DEF L
    <2> QED BY <1>8, <2>1, LastOnes
  <1>10. Back(K, i) = Cardinality(L) + 1 /\ Cardinality(L) \in Nat
    BY <1>7, BackAfter
  <1> QED BY <1>1, <1>7, <1>9, <1>10

\* What is recorded is an event at a gate, not further ahead than one may be; it is
\* counted; and the windows hold what the log says.
RatesInv ==
    /\ log \in Logs
    /\ \A i \in DOMAIN log : log[i].at <= MaxNow + Ahead
    /\ \A k \in Kinds, p \in Places : totals[k][p] = Cardinality(OccurredIn(log, k, p))
    /\ Agree(windows, log, now)

LEMMA RatesInit == IntelligenceInit => RatesInv
  <1> SUFFICES ASSUME IntelligenceInit PROVE RatesInv
    OBVIOUS
  <1>1. log = <<>> /\ log \in Logs /\ DOMAIN log = {}
    BY DEF IntelligenceInit, Logs
  <1>2. \A k, p : OccurredIn(log, k, p) = {}
    BY <1>1 DEF OccurredIn
  <1>3. \A k \in Kinds, p \in Places : totals[k][p] = 0 /\ \A w \in Widths : windows[k][p][w] = <<>>
    BY DEF IntelligenceInit
  <1>4. Cardinality({}) = 0
    BY FS_EmptySet
  <1>5. Agree(windows, log, now)
    <2>1. \A times, old : Holds(<<>>, {}, times, old)
      BY <1>4 DEF Holds
    <2>2. Ends(<<>>, <<>>)
      BY DEF Ends
    <2> QED BY <1>2, <1>3, <2>1, <2>2 DEF Agree
  <1> QED BY <1>1, <1>2, <1>3, <1>4, <1>5 DEF RatesInv

LEMMA RatesNext ==
    ASSUME IntelligenceTypeOK, RatesInv, [IntelligenceNext]_intelligenceVars
    PROVE  RatesInv'
  <1>0. now \in Int /\ windows \in WindowsType /\ log \in Logs /\ Agree(windows, log, now)
    BY DEF IntelligenceTypeOK, WindowsType, RatesInv
  <1>1. CASE Tick
    <2>1. log' = log /\ windows' = windows /\ totals' = totals /\ now' = now + 1
      BY <1>1 DEF Tick, engine
    <2>2. Agree(windows, log, now + 1)
      BY <1>0, AgreeLater
    <2> QED BY <2>1, <2>2 DEF RatesInv
  <1>2. ASSUME windows' = Swept(windows), log' = log, totals' = totals, now' = now PROVE RatesInv'
    <2>1. \A k \in Kinds, p \in Places, w \in Widths : Swept(windows)[k][p][w] = Trimmed(windows[k][p][w], now - w)
      BY <1>0, SweptFacts
    <2>2. Agree(Swept(windows), log, now)
      BY <1>0, <2>1, AgreeTrimmed
    <2> QED BY <1>2, <2>2 DEF RatesInv
  <1>3. CASE Read
    BY <1>2, <1>3 DEF Read, Reading
  <1>4. ASSUME UNCHANGED <<log, windows, totals, now>> PROVE RatesInv'
    BY <1>4 DEF RatesInv
  <1>5. CASE SessionStarts \/ SessionStops \/ \E kind \in Kinds, gate \in Gates : Crossing(kind, gate)
    BY <1>4, <1>5 DEF SessionStarts, SessionStops, Crossing, engine
  <1>6. ASSUME NEW id \in 1..MaxEvents, NEW kind \in Kinds, NEW gate \in Gates,
               NEW time \in now - Late .. now + Ahead, Ingest(id, kind, gate, time)
        PROVE  RatesInv'
    <2>1. CASE Ignored(id)
      BY <1>2, <1>6, <2>1 DEF Ingest, Ignored
    <2>2. CASE Processed(id, kind, gate, time)
      <3> DEFINE e == [kind |-> kind, gate |-> gate, at |-> time]
                 rec == Recorded(kind, gate, time)
      <3>1. time \in Int /\ time <= MaxNow + Ahead
        BY EngineConstants DEF IntelligenceTypeOK
      <3>2. e \in [kind : Kinds, gate : Gates, at : Int]
        BY <3>1
      <3>3. log' = Append(log, e) /\ windows' = Swept(rec) /\ now' = now
        BY <1>6, <2>2 DEF Ingest, Processed
      <3>4. /\ rec \in WindowsType
            /\ \A k \in Kinds, p \in Places, w \in Widths :
                 rec[k][p][w] = IF k = e.kind /\ p \in {e.gate, Venue}
                                THEN Trimmed(Append(windows[k][p][w], e.at), e.at - w)
                                ELSE windows[k][p][w]
        BY <1>0, <3>1, RecordedFacts
      <3>5. \A k, p : IsMore(Append(log, e), Len(log) + 1, log, e, k, p)
        BY <1>0, <3>2, OccurredMore
      <3>6. log' \in Logs
        BY <3>3, <3>5 DEF IsMore
      <3>7. \A i \in DOMAIN log' : log'[i].at <= MaxNow + Ahead
        <4>1. DOMAIN log' = 1..Len(log) + 1 /\ log'[Len(log) + 1] = e /\ \A i \in 1..Len(log) : log'[i] = log[i]
          BY <1>0, <3>3 DEF Logs
        <4>2. \A i \in 1..Len(log) : log[i].at <= MaxNow + Ahead
          BY <1>0 DEF RatesInv, Logs
        <4>3. Len(log) \in Nat
          BY <1>0 DEF Logs
        <4>4. \A i \in 1..Len(log) + 1 : i \in 1..Len(log) \/ i = Len(log) + 1
          BY <4>3
        <4> QED BY <3>1, <4>1, <4>2, <4>4
      <3>8. ASSUME NEW k \in Kinds, NEW p \in Places
            PROVE  totals'[k][p] = Cardinality(OccurredIn(log', k, p))
        <4> DEFINE K == OccurredIn(log, k, p)
                   n == Len(log) + 1
        <4>1. totals[k][p] = Cardinality(K)
          BY DEF RatesInv
        <4>2. totals'[k][p] = IF k = kind /\ p \in {gate, Venue} THEN totals[k][p] + 1 ELSE totals[k][p]
          <5> DEFINE one == [totals EXCEPT ![kind][gate] = totals[kind][gate] + 1]
          <5>1. one \in [Kinds -> [Places -> Nat]]
            <6>1. totals \in [Kinds -> [Places -> Nat]] /\ gate \in Places
              BY EngineConstants DEF IntelligenceTypeOK
            <6> QED BY <6>1
          <5>2. totals' = [one EXCEPT ![kind][Venue] = one[kind][Venue] + 1]
            BY <2>2, EngineConstants DEF Processed, IntelligenceTypeOK
          <5>3. one[k][p] = IF k = kind /\ p = gate THEN totals[k][p] + 1 ELSE totals[k][p]
            BY EngineConstants DEF IntelligenceTypeOK
          <5> HIDE DEF one
          <5>4. totals'[k][p] = IF k = kind /\ p = Venue THEN one[k][p] + 1 ELSE one[k][p]
            BY <5>1, <5>2
          <5>5. gate # Venue
            BY EngineConstants
          <5> QED BY <5>3, <5>4, <5>5
        <4>3. /\ n \in Nat /\ \A i \in K : i < n
              /\ OccurredIn(log', k, p) = IF k = kind /\ p \in {gate, Venue} THEN K \cup {n} ELSE K
          BY <3>3, <3>5 DEF IsMore
        <4>4. K \in SUBSET Nat /\ IsFiniteSet(K)
          BY <1>0, OccurredFacts
        <4> HIDE DEF K, n
        <4>5. Cardinality(K \cup {n}) = Cardinality(K) + 1
          BY <4>3, <4>4, BackGrows
        <4> QED BY <4>1, <4>2, <4>3, <4>5
      <3> HIDE DEF e, rec
      <3>9. Agree(rec, log', now)
        BY <1>0, <3>2, <3>3, <3>4, AgreeRecorded
      <3>10. \A k \in Kinds, p \in Places, w \in Widths : windows'[k][p][w] = Trimmed(rec[k][p][w], now - w)
        BY <1>0, <3>3, <3>4, SweptFacts
      <3>11. Agree(windows', log', now')
        BY <1>0, <3>3, <3>4, <3>6, <3>9, <3>10, AgreeTrimmed
      <3> QED BY <3>6, <3>7, <3>8, <3>11 DEF RatesInv
    <2> QED BY <1>6, <2>1, <2>2 DEF Ingest
  <1>7. CASE UNCHANGED intelligenceVars
    BY <1>4, <1>7 DEF intelligenceVars, engine
  <1> QED BY <1>1, <1>3, <1>5, <1>6, <1>7 DEF IntelligenceNext

\* The horizon is the clock, or the timestamp of an event, and nothing is later.
LEMMA HorizonFacts ==
    ASSUME IntelligenceTypeOK, RatesInv, NEW k \in Kinds, NEW p \in Places
    PROVE  /\ Occurred(k, p) = OccurredIn(log, k, p)
           /\ Horizon(k, p) \in Int /\ now <= Horizon(k, p)
           /\ \A i \in OccurredIn(log, k, p) : log[i].at <= Horizon(k, p)
  <1>1. Occurred(k, p) = OccurredIn(log, k, p)
    BY DEF Occurred, OccurredIn
  <1> DEFINE K == OccurredIn(log, k, p)
             T == {now} \cup {log[i].at : i \in K}
  <1>2. now \in Int /\ now <= MaxNow + Ahead /\ MaxNow + Ahead \in Int
    BY EngineConstants DEF IntelligenceTypeOK
  <1>3. \A i \in K : log[i].at \in Int /\ log[i].at <= MaxNow + Ahead
    BY OccurredFacts DEF RatesInv
  <1>4. T \in SUBSET Int /\ T # {} /\ \A x \in T : x <= MaxNow + Ahead
    BY <1>2, <1>3
  <1>5. Max(T) \in T /\ \A x \in T : Max(T) >= x
    <2> HIDE DEF T
    <2> QED BY <1>2, <1>4, GreatestOf
  <1>6. Horizon(k, p) = Max(T)
    BY <1>1 DEF Horizon
  <1>7. Horizon(k, p) \in Int /\ now <= Horizon(k, p) /\ \A i \in K : log[i].at <= Horizon(k, p)
    BY <1>2, <1>3, <1>4, <1>5, <1>6
  <1> QED BY <1>1, <1>7

\* What is due is in the window, one for one.
LEMMA NothingMissed ==
    ASSUME IntelligenceTypeOK, RatesInv, NEW wins \in WindowsType, Agree(wins, log, now),
           NEW k \in Kinds, NEW p \in Places, NEW w \in Widths
    PROVE  /\ \A i \in OccurredIn(log, k, p) :
                 /\ log[i].at >= Horizon(k, p) - w
                 /\ Back(OccurredIn(log, k, p), i) <= Capacity
                 => Back(OccurredIn(log, k, p), i) <= Len(wins[k][p][w])
           /\ Cardinality(Due(k, p, w)) <= Len(wins[k][p][w])
  <1> DEFINE K == OccurredIn(log, k, p)
             old == OldIn(log, now, k, p, w)
             s == wins[k][p][w]
             H == Horizon(k, p)
  <1>1. /\ Occurred(k, p) = K /\ H \in Int /\ now <= H /\ \A i \in K : log[i].at <= H
    BY HorizonFacts
  <1>2. K \in SUBSET Nat /\ IsFiniteSet(K) /\ \A i \in K : log[i].at \in Int
    BY OccurredFacts DEF RatesInv
  <1>3. now \in Int /\ w \in Int /\ Len(s) \in Nat /\ Capacity \in Nat
    BY EngineConstants DEF IntelligenceTypeOK, WindowsType
  <1>4. Holds(s, K, TimesOf(log), old)
    BY DEF Agree
  <1>5. \A i \in old : i \in K /\ (log[i].at < now - w \/ \E j \in K : log[i].at < log[j].at - w)
    BY DEF OldIn
  <1>6. Due(k, p, w) = {i \in K : log[i].at >= H - w /\ Cardinality({j \in K : j > i}) < Capacity}
    BY <1>1 DEF Due
  <1> HIDE DEF K, old, s, H
  <1>7. \A i \in K : Back(K, i) \in Nat /\ Back(K, i) = Cardinality({j \in K : j > i}) + 1
                     /\ Cardinality({j \in K : j > i}) \in Nat
    BY <1>2, BackFacts, BackAfter
  <1>8. ASSUME NEW i \in K, log[i].at >= H - w, Back(K, i) <= Capacity PROVE Back(K, i) <= Len(s)
    <2>1. SUFFICES ASSUME ~(Back(K, i) <= Len(s)) PROVE FALSE
      OBVIOUS
    <2>2. i \in old
      <3>1. IF Back(K, i) <= Len(s) THEN s[Len(s) + 1 - Back(K, i)] = TimesOf(log)[i]
            ELSE i \in old \/ Back(K, i) > Capacity
        BY <1>4 DEF Holds
      <3>2. PICK b \in Nat : b = Back(K, i)
        BY <1>7
      <3>3. ~(b > Capacity)
        BY <1>3, <1>8, <3>2
      <3> QED BY <2>1, <3>1, <3>2, <3>3
    <2>3. CASE log[i].at < now - w
      BY <1>1, <1>2, <1>3, <1>8, <2>3
    <2>4. CASE \E j \in K : log[i].at < log[j].at - w
      <3>1. PICK j \in K : log[i].at < log[j].at - w
        BY <2>4
      <3>2. log[j].at <= H /\ log[j].at \in Int /\ log[i].at \in Int
        BY <1>1, <1>2
      <3> QED BY <1>1, <1>3, <1>8, <3>1, <3>2
    <2> QED BY <1>5, <2>2, <2>3, <2>4
  <1>9. \A i \in Due(k, p, w) : i \in K /\ Back(K, i) <= Len(s)
    <2>1. SUFFICES ASSUME NEW i \in Due(k, p, w) PROVE i \in K /\ Back(K, i) <= Len(s)
      OBVIOUS
    <2>2. i \in K /\ log[i].at >= H - w /\ Cardinality({j \in K : j > i}) < Capacity
      BY <1>6
    <2>3. Back(K, i) <= Capacity
      BY <1>3, <1>7, <2>2
    <2> QED BY <1>8, <2>2, <2>3
  <1>10. Cardinality(Due(k, p, w)) <= Len(s)
    <2>1. Due(k, p, w) \in SUBSET K
      BY <1>9
    <2> QED BY <1>2, <1>3, <1>9, <2>1, LastOnes
  <1> QED BY <1>8, <1>10 DEF K, s, H
\* A gate's part of what the venue's window has, when only the clock has trimmed it, is
\* at least what the gate's own window has.
LEMMA GatesWithin ==
    ASSUME IntelligenceTypeOK, RatesInv, NEW k \in Kinds, NEW w \in Widths,
           Horizon(k, Venue) = now, totals[k][Venue] <= Capacity
    PROVE  GateLengths(Swept(windows), k, w) <= Len(Swept(windows)[k][Venue][w])
  <1> DEFINE wins == Swept(windows)
             V == OccurredIn(log, k, Venue)
             size == Len(wins[k][Venue][w])
             R == {i \in V : Back(V, i) <= size}
             gateOf == [i \in DOMAIN log |-> log[i].gate]
  <1>1. /\ now \in Int /\ w \in Int /\ Capacity \in Nat /\ windows \in WindowsType /\ wins \in WindowsType
        /\ \A p \in Places : wins[k][p][w] = Trimmed(windows[k][p][w], now - w)
    <2>1. now \in Int /\ windows \in WindowsType
      BY DEF IntelligenceTypeOK, WindowsType
    <2> QED BY <2>1, EngineConstants, SweptFacts
  <1>2. Agree(windows, log, now) /\ log \in Logs
    BY DEF RatesInv
  <1>3. Agree(wins, log, now)
    <2>1. \A c \in Kinds, p \in Places, v \in Widths : wins[c][p][v] = Trimmed(windows[c][p][v], now - v)
      BY <1>1, SweptFacts
    <2> HIDE DEF wins
    <2> QED BY <1>1, <1>2, <2>1, AgreeTrimmed
  <1>4. size \in Nat
    BY <1>1, EngineConstants DEF WindowsType
  <1>5. V \in SUBSET Nat /\ IsFiniteSet(V) /\ Cardinality(V) <= Capacity /\ \A i \in V : log[i].at \in Int
    BY <1>2, EngineConstants, OccurredFacts DEF RatesInv
  <1>6. \A i \in V : log[i].at >= now - w /\ Back(V, i) <= Capacity => Back(V, i) <= size
    <2> HIDE DEF wins
    <2> QED BY <1>1, <1>3, EngineConstants, NothingMissed
  <1>7. /\ \A i \in V : Back(V, i) \in Nat /\ Back(V, i) <= Capacity
        /\ \A i, j \in V : i < j => Back(V, j) < Back(V, i)
    <2> HIDE DEF V
    <2>1. /\ \A i \in V : Back(V, i) \in 1..Cardinality(V)
          /\ \A i, j \in V : i < j => Back(V, j) < Back(V, i)
          /\ Cardinality(V) \in Nat
      BY <1>5, BackFacts
    <2> QED BY <1>1, <1>5, <2>1
  <1>8. ASSUME NEW g \in Gates PROVE Len(wins[k][g][w]) <= Cardinality({i \in R : gateOf[i] = g})
    <2> DEFINE G == OccurredIn(log, k, g)
               s == windows[k][g][w]
               n == Len(wins[k][g][w])
               B == {i \in R : gateOf[i] = g}
    <2>1. g \in Places /\ s \in Seq(Int) /\ Len(s) \in Nat /\ n = Len(Trimmed(s, now - w)) /\ n \in Nat
      BY <1>1, EngineConstants DEF WindowsType
    <2>2. G \in SUBSET Nat /\ IsFiniteSet(G) /\ \A i \in G : TimesOf(log)[i] = log[i].at /\ log[i].at \in Int
      BY <1>2, OccurredFacts
    <2>3. \A i \in G : i \in V /\ gateOf[i] = g
      BY EngineConstants DEF OccurredIn
    <2>4. Holds(s, G, TimesOf(log), OldIn(log, now, k, g, w))
      BY <1>2, <2>1 DEF Agree
    <2>5. IsFiniteSet(B) /\ Cardinality(B) \in Nat
      BY <1>5, FS_Subset, FS_CardinalityType
    <2>6. CASE n = 0
      BY <2>5, <2>6
    <2>7. CASE n > 0
      <3>1. /\ n <= Len(s)
            /\ \E x \in 1..Len(s) - n + 1 : s[x] >= now - w
        <4>1. now - w \in Int
          BY <1>1
        <4> QED BY <2>1, <2>7, <4>1, TrimmedFacts
      <3>2. PICK x \in 1..Len(s) - n + 1 : s[x] >= now - w
        BY <3>1
      <3>3. PICK m \in Nat : m = Len(s) + 1 - x /\ m >= n /\ m <= Len(s) /\ m >= 1 /\ Len(s) + 1 - m = x
        <4>1. PICK l \in Nat : l = Len(s) /\ n <= l /\ x \in 1..l - n + 1
          BY <2>1, <3>1
        <4>2. l + 1 - x \in Nat /\ l + 1 - x >= n /\ l + 1 - x <= l /\ l + 1 - x >= 1 /\ l + 1 - (l + 1 - x) = x
          BY <2>1, <2>7, <4>1
        <4> QED BY <4>1, <4>2
      <3>4. PICK j \in G : Back(G, j) = m
        <4>1. m \in 1..Cardinality(G)
          <5>1. Len(s) <= Cardinality(G) /\ Cardinality(G) \in Nat
            BY <2>2, <2>4, FS_CardinalityType DEF Holds
          <5> QED BY <2>1, <3>3, <5>1
        <4> HIDE DEF G
        <4> QED BY <2>2, <4>1, BackOnto
      <3>5. s[x] = log[j].at
        BY <2>2, <2>4, <3>3, <3>4 DEF Holds
      <3>6. j \in V /\ Back(V, j) <= size
        BY <1>6, <1>7, <2>3, <3>2, <3>5
      <3> HIDE DEF V, G, size, s, n, wins, gateOf
      <3>7. ASSUME NEW i \in G, i >= j PROVE i \in B
        <4>1. i \in V /\ gateOf[i] = g
          BY <2>3
        <4>2. Back(V, i) <= Back(V, j)
          <5>1. i \in Nat /\ j \in Nat
            BY <2>2
          <5>2. CASE i = j
            BY <1>7, <3>6, <5>2
          <5>3. CASE j < i
            BY <1>7, <3>6, <4>1, <5>3
          <5> QED BY <3>7, <5>1, <5>2, <5>3
        <4>3. Back(V, i) <= size
          BY <1>4, <1>7, <3>6, <4>1, <4>2
        <4> QED BY <4>1, <4>3
      <3>8. Cardinality({i \in G : i >= j}) <= Cardinality(B)
        <4>1. {i \in G : i >= j} \in SUBSET B
          BY <3>7
        <4> HIDE DEF B
        <4> QED BY <2>5, <4>1, FS_Subset
      <3>9. m <= Cardinality(B)
        BY <3>4, <3>8 DEF Back
      <3> HIDE DEF B
      <3>10. n <= Cardinality(B)
        BY <2>1, <2>5, <3>3, <3>9
      <3> QED BY <3>10 DEF n, B, wins
    <2> QED BY <2>1, <2>6, <2>7
  <1>9. R \in SUBSET V /\ IsFiniteSet(R)
    BY <1>5, FS_Subset
  <1>10. Cardinality(R) <= size /\ Cardinality(R) \in Nat
    <2>1. \A i \in R : Back(V, i) <= size
      OBVIOUS
    <2> HIDE DEF R, V, size
    <2> QED BY <1>4, <1>5, <1>9, <2>1, LastOnes, FS_CardinalityType
  <1> HIDE DEF R, V, gateOf
  <1>11. PICK n \in Nat : n = GateLengths(wins, k, w) /\ n <= Cardinality(R)
    <2> HIDE DEF wins
    <2>1. wins \in WindowsType /\ IsFiniteSet(R)
      BY <1>1, <1>9
    <2>2. \A g \in Gates : Len(wins[k][g][w]) <= Cardinality({i \in R : gateOf[i] = g})
      BY <1>8
    <2>3. GateLengths(wins, k, w) \in Nat /\ GateLengths(wins, k, w) <= Cardinality(R)
      BY <2>1, <2>2, LengthsBounded
    <2> QED BY <2>3
  <1>12. n <= size
    BY <1>4, <1>10, <1>11
  <1> QED BY <1>11, <1>12

\* The property in the terms of the lemmas.
LEMMA RatesStated ==
    RatesAgree <=>
    LET wins == Swept(windows)
    IN  \A k \in Kinds, w \in Widths :
            /\ \A p \in Places :
                /\ Cardinality(Due(k, p, w)) <= Len(wins[k][p][w])
                /\ \A v \in Widths : v <= w => Len(wins[k][p][v]) <= Len(wins[k][p][w])
            /\ Horizon(k, Venue) = now /\ totals[k][Venue] <= Capacity =>
                    GateLengths(wins, k, w) <= Len(wins[k][Venue][w])
  BY DEF RatesAgree, GateLengths

LEMMA RatesHold == IntelligenceTypeOK /\ RatesInv => RatesAgree
  <1> SUFFICES ASSUME IntelligenceTypeOK, RatesInv PROVE RatesAgree
    OBVIOUS
  <1>1. PICK wins : wins = Swept(windows)
    OBVIOUS
  <1>2. /\ wins \in WindowsType
        /\ \A k \in Kinds, p \in Places, w \in Widths : wins[k][p][w] = Trimmed(windows[k][p][w], now - w)
    <2>1. now \in Int /\ windows \in WindowsType
      BY DEF IntelligenceTypeOK, WindowsType
    <2> QED BY <1>1, <2>1, SweptFacts
  <1>3. Agree(wins, log, now)
    <2>1. now \in Int /\ windows \in WindowsType /\ log \in Logs /\ Agree(windows, log, now)
      BY DEF IntelligenceTypeOK, WindowsType, RatesInv
    <2> QED BY <1>2, <2>1, AgreeTrimmed
  <1>4. ASSUME NEW k \in Kinds, NEW w \in Widths, NEW p \in Places
        PROVE  /\ Cardinality(Due(k, p, w)) <= Len(wins[k][p][w])
               /\ \A v \in Widths : v <= w => Len(wins[k][p][v]) <= Len(wins[k][p][w])
    <2>1. Cardinality(Due(k, p, w)) <= Len(wins[k][p][w])
      BY <1>2, <1>3, NothingMissed
    <2>2. \A v \in Widths : v <= w => Len(wins[k][p][v]) <= Len(wins[k][p][w])
      BY <1>3 DEF Agree, Ends
    <2> QED BY <2>1, <2>2
  <1>5. ASSUME NEW k \in Kinds, NEW w \in Widths, Horizon(k, Venue) = now, totals[k][Venue] <= Capacity
        PROVE  GateLengths(wins, k, w) <= Len(wins[k][Venue][w])
    BY <1>1, <1>5, GatesWithin
  <1> QED BY <1>1, <1>4, <1>5, RatesStated

\* Whenever the rates are read, none misses an event that is due, whatever timestamps
\* the sources gave, a wider window counts no less than a narrower one, and the gates
\* do not add up to more than the venue where nothing but the clock has trimmed it
\* (FlowAnalytics, whose windows are trimmed from the left by every event's timestamp).
THEOREM TrueRates == IntelligenceSpec => []RatesAgree
  <1>1. IntelligenceTypeOK /\ RatesInv /\ [IntelligenceNext]_intelligenceVars => RatesInv'
    BY RatesNext
  <1> QED BY <1>1, IntelligenceTypeInit, IntelligenceTypeNext, RatesInit, RatesHold, PTL DEF IntelligenceSpec

------------------------------------------------------------------------------
(* Scores. *)

\* What a snapshot may hold.
Sound(snap) ==
    /\ {"at", "occupancy", "entries", "net", "congestion", "gates", "alerts"} \subseteq DOMAIN snap
    /\ snap.at \in Int /\ snap.occupancy \in Nat /\ snap.entries \in Nat /\ snap.net \in Int
    /\ snap.congestion \in 0..3
    /\ DOMAIN snap.gates \subseteq Gates
    /\ \A g \in DOMAIN snap.gates :
        snap.gates[g].entries \in Nat /\ snap.gates[g].net \in Int /\ snap.gates[g].occupancy \in Nat
    /\ DOMAIN snap.gates \subseteq DOMAIN snap.alerts
    /\ IsFiniteSet(DOMAIN snap.alerts) /\ snap.alerts \in [DOMAIN snap.alerts -> Nat]

FeaturesType ==
    [occupancy : Int, entry : Int, net : Int, congestion : 0..100, anomaly : 0..100, imbalance : Int]

\* A snapshot of a gate is one of a venue with that gate alone.
LEMMA ScopeIsSound ==
    ASSUME NEW snap, Sound(snap), NEW s \in Judged(snap)
    PROVE  LET own == ScopeSnapshot(snap, s) IN
           /\ Sound(own)
           /\ s # Whole => /\ own.occupancy = snap.gates[s].occupancy /\ own.entries = snap.gates[s].entries
                           /\ own.net = snap.gates[s].net /\ DOMAIN own.gates = {s}
  <1>1. CASE s = Whole
    BY <1>1 DEF ScopeSnapshot
  <1>2. CASE s # Whole
    <2>1. s \in DOMAIN snap.gates /\ s \in DOMAIN snap.alerts /\ s \in Gates
      BY <1>2 DEF Judged, Sound
    <2>2. PICK own : own = GateSnapshot(snap, s)
      OBVIOUS
    <2>3. /\ own.occupancy = snap.gates[s].occupancy /\ own.entries = snap.gates[s].entries
          /\ own.net = snap.gates[s].net /\ own.gates = [x \in {s} |-> snap.gates[s]]
          /\ own.alerts = [x \in {s} |-> snap.alerts[s]]
          /\ DOMAIN own = DOMAIN snap /\ own.at = snap.at /\ own.congestion = snap.congestion
      BY <2>2 DEF GateSnapshot
    <2>4. IsFiniteSet({s})
      BY FS_Singleton
    <2>5. snap.alerts[s] \in Nat
      BY <2>1 DEF Sound
    <2>6. Sound(own)
      BY <2>1, <2>3, <2>4, <2>5 DEF Sound
    <2> QED BY <1>2, <2>2, <2>3, <2>6 DEF ScopeSnapshot
  <1> QED BY <1>1, <1>2

\* A ratio is a number, and no more than 0 when nobody is counted.
LEMMA RatioTyped ==
    ASSUME NEW n \in Int, NEW d \in Nat
    PROVE  /\ Ratio(n, d) \in Int
           /\ n <= 0 => Ratio(n, d) <= 0
  <1>1. CASE d = 0
    BY <1>1 DEF Ratio
  <1>2. CASE d > 0
    <2>1. PICK m \in Int : m = 100 * n
      OBVIOUS
    <2>2. m \div d \in Int /\ Ratio(n, d) = m \div d
      BY <1>2, <2>1 DEF Ratio
    <2>3. n <= 0 => m <= 0
      BY <2>1
    <2>4. m <= 0 => m \div d <= 0
      BY <1>2
    <2> QED BY <2>2, <2>3, <2>4
  <1> QED BY <1>1, <1>2

LEMMA ClampedTyped ==
    ASSUME NEW p \in Int
    PROVE  Clamped(p) \in 0..100 /\ (p <= 0 => Clamped(p) = 0)
  BY DEF Clamped, Least, Most

\* FoldFunction adds up what Sums does.
Total(f) == FoldFunction(+, 0, f)

LEMMA TotalIsSum ==
    ASSUME NEW S, IsFiniteSet(S), NEW f \in [S -> Nat]
    PROVE  Total(f) = Sums(f)[S] /\ Total(f) \in Nat
  <1>1. Total(f) = Sums(f)[DOMAIN f]
    BY DEF Total, FoldFunction, FoldFunctionOnSet, MapThenFoldSet, Sums, Adding, Pick
  <1> QED BY <1>1, SumsFacts

\* What is summed up is no more than the sum.
LEMMA PartOfSum ==
    ASSUME NEW S, IsFiniteSet(S), NEW f \in [S -> Nat]
    PROVE  \A x \in S : f[x] <= Sums(f)[S]
  <1>0. \A s \in SUBSET S :
            /\ s # {} => Pick(s) \in s /\ Sums(f)[s] = f[Pick(s)] + Sums(f)[s \ {Pick(s)}]
            /\ Sums(f)[s] \in Nat
    BY SumsFacts
  <1> DEFINE F == {T \in SUBSET S : \A x \in T : f[x] <= Sums(f)[T]}
  <1>1. {} \in F /\ F \in SUBSET SUBSET S
    OBVIOUS
  <1>2. ASSUME NEW T \in SUBSET S, T # {}, \A x \in T : T \ {x} \in F PROVE T \in F
    <2>1. Pick(T) \in T /\ Sums(f)[T] = f[Pick(T)] + Sums(f)[T \ {Pick(T)}]
      BY <1>0, <1>2
    <2>2. f[Pick(T)] \in Nat /\ Sums(f)[T \ {Pick(T)}] \in Nat
      BY <1>0, <2>1
    <2>3. \A x \in T \ {Pick(T)} : f[x] \in Nat /\ f[x] <= Sums(f)[T \ {Pick(T)}]
      BY <1>2, <2>1
    <2> QED BY <2>1, <2>2, <2>3
  <1>3. F = SUBSET S
    <2> HIDE DEF F
    <2> QED BY <1>1, <1>2, SubsetsInduct
  <1> QED BY <1>3

\* Gates that are even, and one alone, have no imbalance; it is a number whatever they count.
LEMMA ImbalanceTyped ==
    ASSUME NEW S, IsFiniteSet(S), NEW rates \in [S -> Nat]
    PROVE  /\ Imbalance(rates) \in Int
           /\ \A g : S = {g} => Imbalance(rates) = 0
  <1>1. PICK n : n = Cardinality(DOMAIN rates)
    OBVIOUS
  <1>2. PICK total : total = Total(rates)
    OBVIOUS
  <1>3. PICK top : top = Max({rates[g] : g \in DOMAIN rates})
    OBVIOUS
  <1>4. Imbalance(rates) = IF n < 2 \/ total = 0 THEN 0 ELSE (100 * (n * top - total)) \div total
    BY <1>1, <1>2, <1>3 DEF Imbalance, Total
  <1>5. n \in Nat /\ n = Cardinality(S)
    BY <1>1, FS_CardinalityType
  <1>6. total \in Nat /\ total = Sums(rates)[S]
    BY <1>2, TotalIsSum
  <1>7. ASSUME n >= 2 PROVE top \in Nat
    <2> DEFINE T == {rates[g] : g \in S}
    <2>1. S # {}
      BY <1>5, <1>7, FS_EmptySet
    <2>2. \A g \in S : rates[g] \in Nat /\ rates[g] <= total
      BY <1>6, PartOfSum
    <2>3. T \in SUBSET Int /\ T # {} /\ \A x \in T : x \in Nat /\ x <= total
      BY <2>1, <2>2
    <2>4. top = Max(T)
      BY <1>3
    <2>5. total \in Int /\ \A x \in T : x <= total
      BY <1>6, <2>3
    <2> HIDE DEF T
    <2>6. Max(T) \in T
      BY <2>3, <2>5, GreatestOf
    <2>7. top \in T
      BY <2>4, <2>6
    <2> QED BY <2>3, <2>7
  <1>8. ASSUME NEW g, S = {g} PROVE n = 1
    BY <1>5, <1>8, FS_Singleton
  <1>9. ASSUME n >= 2, total > 0 PROVE (100 * (n * top - total)) \div total \in Int
    <2>1. PICK m \in Int : m = 100 * (n * top - total)
      BY <1>5, <1>6, <1>7, <1>9
    <2> QED BY <1>6, <1>9, <2>1
  <1> QED BY <1>4, <1>5, <1>6, <1>8, <1>9

\* The alerts weigh as a sum does, up to 100.
LEMMA AnomalyTyped ==
    ASSUME NEW S, IsFiniteSet(S), NEW alerts \in [S -> Nat]
    PROVE  AnomalyPressure(Total(alerts)) \in 0..100
  <1>1. Total(alerts) \in Nat
    BY TotalIsSum
  <1> QED BY <1>1 DEF AnomalyPressure, Least

LEMMA FeaturesTyped ==
    ASSUME NEW snap, Sound(snap)
    PROVE  /\ Features(snap) \in FeaturesType
           /\ snap.occupancy = 0 /\ snap.entries = 0 /\ snap.net <= 0 /\ (\E g : DOMAIN snap.gates = {g}) =>
                LET f == Features(snap)
                IN  f.occupancy <= 0 /\ f.entry <= 0 /\ f.net <= 0 /\ f.imbalance <= 0
  <1> DEFINE rates == [g \in DOMAIN snap.gates |-> snap.gates[g].entries]
  <1>0. /\ VenueCapacity \in Nat /\ Safe.entries \in Nat /\ Safe.net \in Nat
        /\ snap.occupancy \in Int /\ snap.entries \in Int /\ snap.net \in Int
    BY ThresholdsTyped DEF Sound
  <1>1. PICK anomaly : anomaly = AnomalyPressure(Total(snap.alerts))
    OBVIOUS
  <1>2. PICK imbalance : imbalance = Imbalance(rates)
    OBVIOUS
  <1>3. PICK f : f = Features(snap)
    OBVIOUS
  <1>4. f = [occupancy |-> Ratio(snap.occupancy, VenueCapacity), entry |-> Ratio(snap.entries, Safe.entries),
             net |-> Ratio(snap.net, Safe.net),
             congestion |-> <<0, 33, 67, 100>>[snap.congestion + 1],
             anomaly |-> anomaly, imbalance |-> imbalance]
    BY <1>1, <1>2, <1>3 DEF Features, Total
  <1>5. anomaly \in 0..100
    BY <1>1, AnomalyTyped DEF Sound
  <1>6. IsFiniteSet(DOMAIN snap.gates) /\ rates \in [DOMAIN snap.gates -> Nat]
    BY GatesFinite, FS_Subset DEF Sound
  <1>7. imbalance \in Int /\ \A g : DOMAIN snap.gates = {g} => imbalance = 0
    <2> HIDE DEF rates
    <2> QED BY <1>2, <1>6, ImbalanceTyped
  <1>8. <<0, 33, 67, 100>>[snap.congestion + 1] \in 0..100
    BY DEF Sound
  <1>9. PICK a, b, c : a = Ratio(snap.occupancy, VenueCapacity) /\ b = Ratio(snap.entries, Safe.entries)
                       /\ c = Ratio(snap.net, Safe.net)
    OBVIOUS
  <1>10. /\ a \in Int /\ (snap.occupancy = 0 => a <= 0)
         /\ b \in Int /\ (snap.entries = 0 => b <= 0)
         /\ c \in Int /\ (snap.net <= 0 => c <= 0)
    <2>1. /\ Ratio(snap.occupancy, VenueCapacity) \in Int
          /\ snap.occupancy <= 0 => Ratio(snap.occupancy, VenueCapacity) <= 0
      BY <1>0, RatioTyped
    <2>2. /\ Ratio(snap.entries, Safe.entries) \in Int
          /\ snap.entries <= 0 => Ratio(snap.entries, Safe.entries) <= 0
      BY <1>0, RatioTyped
    <2>3. /\ Ratio(snap.net, Safe.net) \in Int
          /\ snap.net <= 0 => Ratio(snap.net, Safe.net) <= 0
      BY <1>0, RatioTyped
    <2> QED BY <1>9, <2>1, <2>2, <2>3
  <1>11. f \in FeaturesType
    BY <1>4, <1>5, <1>7, <1>8, <1>9, <1>10 DEF FeaturesType
  <1>12. f.occupancy = a /\ f.entry = b /\ f.net = c /\ f.imbalance = imbalance
    BY <1>4, <1>9
  <1> QED BY <1>3, <1>7, <1>10, <1>11, <1>12

Weighed(f) == [x \in DOMAIN Weight |-> Weight[x] * Clamped(f[x])]

\* What the congestion and the alerts can make of a score, of the features X.
ShareOf(X) == (IF "congestion" \in X THEN 2000 ELSE 0) + (IF "anomaly" \in X THEN 1200 ELSE 0)

\* What all six can.
MostOf(X) == (IF "occupancy" \in X THEN 3000 ELSE 0) + (IF "entry" \in X THEN 1500 ELSE 0)
             + (IF "net" \in X THEN 1500 ELSE 0) + ShareOf(X) + (IF "imbalance" \in X THEN 500 ELSE 0)

LEMMA ScoreTyped ==
    ASSUME NEW f \in FeaturesType
    PROVE  /\ Score(f) \in 0..100
           /\ f.occupancy <= 0 /\ f.entry <= 0 /\ f.net <= 0 /\ f.imbalance <= 0
                => Score(f) <= Weight.congestion + Weight.anomaly
  <1> DEFINE D == {"occupancy", "entry", "net", "congestion", "anomaly", "imbalance"}
             low == f.occupancy <= 0 /\ f.entry <= 0 /\ f.net <= 0 /\ f.imbalance <= 0
  <1>1. PICK w : w = Weighed(f)
    OBVIOUS
  <1>2. \A x \in D : f[x] \in Int /\ Clamped(f[x]) \in 0..100 /\ (f[x] <= 0 => Clamped(f[x]) = 0)
    BY ClampedTyped DEF FeaturesType
  <1>3. DOMAIN Weight = D
    BY DEF Weight
  <1>4. w \in [D -> Nat]
    <2>1. Weight \in [D -> Nat]
      BY DEF Weight
    <2>2. \A a, b \in Nat : a * b \in Nat
      OBVIOUS
    <2>3. \A x \in D : Weight[x] * Clamped(f[x]) \in Nat
      <3> HIDE DEF D
      <3>1. \A x \in D : Weight[x] \in Nat /\ Clamped(f[x]) \in Nat
        BY <1>2, <2>1
      <3> QED BY <2>2, <3>1
    <2> QED BY <1>1, <1>3, <2>3 DEF Weighed
  <1>5. /\ w["occupancy"] = 30 * Clamped(f["occupancy"]) /\ w["entry"] = 15 * Clamped(f["entry"])
        /\ w["net"] = 15 * Clamped(f["net"]) /\ w["congestion"] = 20 * Clamped(f["congestion"])
        /\ w["anomaly"] = 12 * Clamped(f["anomaly"]) /\ w["imbalance"] = 5 * Clamped(f["imbalance"])
    BY <1>1 DEF Weighed, Weight
  <1>6. /\ w["occupancy"] <= 3000 /\ w["entry"] <= 1500 /\ w["net"] <= 1500
        /\ w["congestion"] <= 2000 /\ w["anomaly"] <= 1200 /\ w["imbalance"] <= 500
    BY <1>2, <1>5
  <1>7. low => w["occupancy"] = 0 /\ w["entry"] = 0 /\ w["net"] = 0 /\ w["imbalance"] = 0
    BY <1>2, <1>5
  <1>8. IsFiniteSet(D)
    <2>1. \A T, x : IsFiniteSet(T) => IsFiniteSet(T \cup {x})
      BY FS_AddElement
    <2>2. IsFiniteSet((({} \cup {"occupancy"}) \cup {"entry"}) \cup {"net"})
      BY <2>1, FS_EmptySet
    <2>3. IsFiniteSet((((({} \cup {"occupancy"}) \cup {"entry"}) \cup {"net"}) \cup {"congestion"}) \cup {"anomaly"})
      BY <2>1, <2>2
    <2>4. D = ((((({} \cup {"occupancy"}) \cup {"entry"}) \cup {"net"}) \cup {"congestion"}) \cup {"anomaly"})
              \cup {"imbalance"}
      OBVIOUS
    <2> QED BY <2>1, <2>3, <2>4
  <1> HIDE DEF D
  <1>9. \A s \in SUBSET D : /\ s # {} => Pick(s) \in s /\ Sums(w)[s] = w[Pick(s)] + Sums(w)[s \ {Pick(s)}]
                            /\ Sums(w)[s] \in Nat
    BY <1>4, <1>8, SumsFacts
  <1>10. Sums(w)[{}] = 0
    BY <1>4, <1>8, SumsFacts
  <1> DEFINE F == {s \in SUBSET D : Sums(w)[s] <= MostOf(s) /\ (low => Sums(w)[s] <= ShareOf(s))}
  <1>11. {} \in F /\ F \in SUBSET SUBSET D
    BY <1>10 DEF MostOf, ShareOf
  <1>12. ASSUME NEW s \in SUBSET D, s # {}, \A x \in s : s \ {x} \in F PROVE s \in F
    <2>1. PICK x, r : x = Pick(s) /\ r = s \ {x}
      OBVIOUS
    <2>2. x \in s /\ Sums(w)[s] = w[x] + Sums(w)[r] /\ Sums(w)[r] \in Nat
      BY <1>9, <1>12, <2>1
    <2>3. Sums(w)[r] <= MostOf(r) /\ (low => Sums(w)[r] <= ShareOf(r))
      BY <1>12, <2>1, <2>2
    <2>4. w[x] + MostOf(r) <= MostOf(s) /\ w[x] \in Nat
      BY <1>4, <1>6, <2>1, <2>2 DEF MostOf, ShareOf, D
    <2>5. ASSUME low PROVE w[x] + ShareOf(r) <= ShareOf(s)
      <3>1. /\ w["occupancy"] = 0 /\ w["entry"] = 0 /\ w["net"] = 0 /\ w["imbalance"] = 0
            /\ w["congestion"] <= 2000 /\ w["anomaly"] <= 1200
            /\ w["congestion"] \in Nat /\ w["anomaly"] \in Nat
        BY <1>4, <1>6, <1>7, <2>5 DEF D
      <3>2. x \in {"occupancy", "entry", "net", "congestion", "anomaly", "imbalance"}
        BY <2>2 DEF D
      <3>3. x = "congestion" => "congestion" \in s /\ "congestion" \notin r
        BY <2>1, <2>2
      <3>4. x = "anomaly" => "anomaly" \in s /\ "anomaly" \notin r
        BY <2>1, <2>2
      <3>5. x # "congestion" => ("congestion" \in r <=> "congestion" \in s)
        BY <2>1, <2>2
      <3>6. x # "anomaly" => ("anomaly" \in r <=> "anomaly" \in s)
        BY <2>1, <2>2
      <3> HIDE DEF F, low
      <3>7. CASE x = "congestion"
        BY <3>1, <3>3, <3>6, <3>7 DEF ShareOf
      <3>8. CASE x = "anomaly"
        BY <3>1, <3>4, <3>5, <3>8 DEF ShareOf
      <3>9. CASE x \notin {"congestion", "anomaly"}
        <4>1. w[x] = 0
          BY <3>1, <3>2, <3>9
        <4>2. ShareOf(r) = ShareOf(s) /\ ShareOf(s) \in Nat
          BY <3>5, <3>6, <3>9 DEF ShareOf
        <4> QED BY <4>1, <4>2
      <3> QED BY <3>7, <3>8, <3>9
    <2>6. MostOf(r) \in Nat /\ ShareOf(r) \in Nat /\ MostOf(s) \in Nat /\ ShareOf(s) \in Nat
      BY DEF MostOf, ShareOf
    <2> QED BY <1>12, <2>2, <2>3, <2>4, <2>5, <2>6
  <1>13. F = SUBSET D
    <2> HIDE DEF F
    <2> QED BY <1>8, <1>11, <1>12, SubsetsInduct
  <1>14. Sums(w)[D] <= 9700 /\ (low => Sums(w)[D] <= 3200) /\ Sums(w)[D] \in Nat
    <2>1. MostOf(D) = 9700 /\ ShareOf(D) = 3200
      BY DEF MostOf, ShareOf, D
    <2>2. D \in SUBSET D /\ D \in F
      <3> HIDE DEF F
      <3> QED BY <1>13
    <2>3. Sums(w)[D] <= MostOf(D) /\ (low => Sums(w)[D] <= ShareOf(D))
      BY <2>2
    <2>4. Sums(w)[D] \in Nat
      BY <1>9
    <2> HIDE DEF low, F
    <2> QED BY <2>1, <2>3, <2>4
  <1>15. Score(f) = Total(w) \div 100
    BY <1>1 DEF Score, Total, Weighed
  <1>16. Total(w) = Sums(w)[D]
    BY <1>4, <1>8, TotalIsSum
  <1>17. PICK t \in Nat : t = Total(w) /\ t <= 9700 /\ (low => t <= 3200)
    BY <1>14, <1>16
  <1>18. t \div 100 \in 0..100 /\ (t <= 3200 => t \div 100 <= 32)
    BY <1>17
  <1>19. Weight.congestion + Weight.anomaly = 32
    BY DEF Weight
  <1> QED BY <1>15, <1>17, <1>18, <1>19

------------------------------------------------------------------------------
(* Levels, histories and decisions. *)

LEMMA LevelInRange == \A score : RiskLevel(score) \in Levels
  <1>1. ASSUME NEW score PROVE RiskLevel(score) \in 0..4
    <2> DEFINE L == {least \in {20, 40, 60, 80} : score >= least}
    <2>1. L \subseteq {20, 40, 60, 80}
      OBVIOUS
    <2>2. IsFiniteSet({20}) /\ Cardinality({20}) = 1
      BY FS_Singleton
    <2>3. \A T, x : IsFiniteSet(T) /\ x \notin T =>
              IsFiniteSet(T \cup {x}) /\ Cardinality(T \cup {x}) = Cardinality(T) + 1
      BY FS_AddElement
    <2>4. IsFiniteSet({20} \cup {40}) /\ Cardinality({20} \cup {40}) = 2
      BY <2>2, <2>3
    <2>5. IsFiniteSet(({20} \cup {40}) \cup {60}) /\ Cardinality(({20} \cup {40}) \cup {60}) = 3
      BY <2>3, <2>4
    <2>6. /\ IsFiniteSet((({20} \cup {40}) \cup {60}) \cup {80})
          /\ Cardinality((({20} \cup {40}) \cup {60}) \cup {80}) = 4
      BY <2>3, <2>5
    <2>7. {20, 40, 60, 80} = (({20} \cup {40}) \cup {60}) \cup {80}
      OBVIOUS
    <2>10. PICK U : U = {20, 40, 60, 80}
      OBVIOUS
    <2>11. IsFiniteSet(U) /\ Cardinality(U) = 4 /\ L \in SUBSET U
      BY <2>1, <2>6, <2>7, <2>10
    <2> HIDE DEF L
    <2>8. IsFiniteSet(L) /\ Cardinality(L) <= 4
      BY <2>11, FS_Subset
    <2>9. Cardinality(L) \in 0..4
      BY <2>8, FS_CardinalityType
    <2> QED BY <2>9 DEF RiskLevel, L
  <1> QED BY <1>1 DEF Levels

LEMMA LastFewTyped ==
    ASSUME NEW T, NEW q \in Seq(T), NEW n \in Nat \ {0}
    PROVE  LastFew(q, n) \in Seq(T)
  <1>1. Len(q) \in Nat
    OBVIOUS
  <1>2. PICK f : f = Most(1, Len(q) - n + 1)
    OBVIOUS
  <1>3. f \in 1..Len(q) + 1
    BY <1>1, <1>2 DEF Most
  <1>4. SubSeq(q, f, Len(q)) \in Seq(T)
    BY <1>1, <1>3
  <1> QED BY <1>2, <1>4 DEF LastFew

LEMMA ObservedTyped ==
    ASSUME NEW past \in Seq(Observation), NEW o \in Observation
    PROVE  Observed(past, o) \in Seq(Observation)
  <1>1. PICK all : all = Append(past, o)
    OBVIOUS
  <1>2. all \in Seq(Observation) /\ Len(all) \in Nat \ {0} /\ DOMAIN all = 1..Len(all) /\ all[Len(all)] = o
    BY <1>1
  <1> DEFINE young == {i \in DOMAIN all : all[i].at >= o.at - MaxAge}
  <1>3. Len(all) \in young
    <2>1. o.at \in Int /\ MaxAge \in Nat
      BY ThresholdsTyped DEF Observation
    <2> QED BY <1>2, <2>1
  <1>4. young \subseteq DOMAIN all /\ young \in SUBSET Nat
    BY <1>2
  <1>5. PICK first : first = CHOOSE i \in young : \A j \in young : i <= j
    OBVIOUS
  <1>6. first \in 1..Len(all)
    <2> HIDE DEF young
    <2>1. \E i \in young : \A j \in young : i <= j
      BY <1>3, <1>4, LeastNumber
    <2>2. first \in young
      BY <1>5, <2>1
    <2> QED BY <1>2, <1>4, <2>2
  <1>7. SubSeq(all, first, Len(all)) \in Seq(Observation)
    BY <1>2, <1>6
  <1>8. LastFew(SubSeq(all, first, Len(all)), MaxHistory) \in Seq(Observation)
    <2>1. MaxHistory \in Nat \ {0}
      BY FramesTyped
    <2> QED BY <1>7, <2>1, LastFewTyped
  <1>9. Observed(past, o) = LastFew(SubSeq(all, first, Len(all)), MaxHistory)
    BY <1>1, <1>5 DEF Observed
  <1> QED BY <1>8, <1>9

\* No two of the observations a forecast is made from have a time in common.
LEMMA TimesCovered ==
    ASSUME NEW past \in Seq(Observation)
    PROVE  /\ Cardinality(Latest(past)) <= Cardinality({past[i].at : i \in DOMAIN past})
           /\ Cardinality(Latest(past)) \in Nat
           /\ Cardinality({past[i].at : i \in DOMAIN past}) \in Nat
  <1> DEFINE times == {past[i].at : i \in DOMAIN past}
             latest == Latest(past)
             f == [o \in latest |-> o.at]
             g == [i \in 1..Len(past) |-> past[i].at]
  <1>1. Len(past) \in Nat /\ DOMAIN past = 1..Len(past)
    OBVIOUS
  <1>2. IsFiniteSet(times)
    <2>1. g \in Surjection(1..Len(past), times)
      BY <1>1 DEF Surjection
    <2>2. IsFiniteSet(1..Len(past))
      BY <1>1, FS_Interval
    <2> HIDE DEF g, times
    <2> QED BY <2>1, <2>2, FS_Surjection
  <1>3. \A o \in latest : \E i \in DOMAIN past :
            o = past[i] /\ \A j \in DOMAIN past : j > i => past[j].at # past[i].at
    BY DEF Latest
  <1>4. \A o \in latest : o.at \in times
    BY <1>3
  <1>5. ASSUME NEW o \in latest, NEW p \in latest, o.at = p.at PROVE o = p
    <2>1. PICK i \in DOMAIN past : o = past[i] /\ \A j \in DOMAIN past : j > i => past[j].at # past[i].at
      BY <1>3
    <2>2. PICK k \in DOMAIN past : p = past[k] /\ \A j \in DOMAIN past : j > k => past[j].at # past[k].at
      BY <1>3
    <2>3. ~(k > i) /\ ~(i > k)
      BY <1>5, <2>1, <2>2
    <2>4. i = k
      BY <1>1, <2>3
    <2> QED BY <2>1, <2>2, <2>4
  <1> HIDE DEF times, latest
  <1>6. f \in Injection(latest, times)
    BY <1>4, <1>5 DEF Injection, IsInjective
  <1> HIDE DEF f
  <1>7. Cardinality(latest) <= Cardinality(times) /\ Cardinality(latest) \in Nat /\ Cardinality(times) \in Nat
    BY <1>2, <1>6, FS_Injection, FS_CardinalityType
  <1> QED BY <1>7 DEF latest, times

\* The priorities and actions of the rules; the strongest asks for a forecast that exceeds.
Listed(r, exceeds) ==
    \/ \E b : r = <<90, "EMERGENCY_REVIEW", b>> /\ (b => exceeds)
    \/ \E b : r = <<80, "ESCALATE_OPERATOR", b>>
    \/ \E b : r = <<70, "REDIRECT_FLOW", b>>
    \/ \E b : r = <<65, "REDUCE_GATE_INFLOW", b>>
    \/ \E b : r = <<60, "CONTROL_ENTRY", b>>
    \/ \E b : r = <<50, "INCREASE_MONITORING", b>>
    \/ \E b : r = <<45, "INCREASE_MONITORING", b>>
    \/ \E b : r = <<40, "MONITOR", b>>
    \/ \E b : r = <<35, "MONITOR", b>>
    \/ \E b : r = <<20, "NO_ACTION", b>>
    \/ \E b : r = <<0, "MONITOR", b>>

LEMMA RulesListed ==
    ASSUME NEW level, NEW trend, NEW features, NEW exceeds,
           NEW r \in Rules(level, trend, features, exceeds)
    PROVE  Listed(r, exceeds)
  BY ZenonT(60) DEF Rules, Listed

\* Some rule matches, and the strongest that does is one of them.
LEMMA DecisionFacts ==
    ASSUME NEW level, NEW trend, NEW features, NEW exceeds \in BOOLEAN
    PROVE  LET decision == Decision(level, trend, features, exceeds) IN
           /\ decision \in Actions
           /\ decision = "EMERGENCY_REVIEW" => exceeds
  <1> DEFINE rules == Rules(level, trend, features, exceeds)
             matching == {r \in rules : r[3]}
             ranks == {r[1] : r \in matching}
  <1>1. ASSUME NEW r \in rules
        PROVE  /\ r[1] \in Int /\ r[1] <= 90 /\ r[2] \in Actions
               /\ r[2] = "EMERGENCY_REVIEW" => (r[3] => exceeds)
    <2> HIDE DEF rules
    <2>1. Listed(r, exceeds)
      BY <1>1, RulesListed DEF rules
    <2>2. r[1] \in Int /\ r[1] <= 90
      BY <2>1 DEF Listed
    <2>3. r[2] \in Actions
      BY <2>1 DEF Listed, Actions
    <2>4. r[2] = "EMERGENCY_REVIEW" => (r[3] => exceeds)
      BY <2>1 DEF Listed
    <2> QED BY <2>2, <2>3, <2>4
  <1>2. <<0, "MONITOR", TRUE>> \in rules
    BY DEF Rules
  <1>3. matching # {}
    <2> HIDE DEF rules
    <2>1. \E r \in rules : r[3]
      BY <1>2
    <2> QED BY <2>1
  <1> HIDE DEF rules
  <1>4. ranks \in SUBSET Int /\ ranks # {} /\ \A x \in ranks : x <= 90
    BY <1>1, <1>3
  <1>5. PICK m \in ranks : \A x \in ranks : m >= x
    <2>1. 90 \in Int
      OBVIOUS
    <2> HIDE DEF ranks
    <2>2. Max(ranks) \in ranks /\ \A x \in ranks : Max(ranks) >= x
      BY <1>4, <2>1, GreatestOf
    <2> QED BY <2>2
  <1>6. \E r \in matching : \A q \in matching : q[1] <= r[1]
    BY <1>4, <1>5
  <1>7. PICK r : r = CHOOSE x \in matching : \A q \in matching : q[1] <= x[1]
    OBVIOUS
  <1>8. r \in matching
    BY <1>6, <1>7
  <1>9. Decision(level, trend, features, exceeds) = r[2]
    BY <1>7 DEF Decision, rules
  <1> QED BY <1>1, <1>8, <1>9

------------------------------------------------------------------------------
(* An evaluation. *)

FeaturesOf(snap, s) == Features(ScopeSnapshot(snap, s))
ScoreOf(snap, s) == Score(FeaturesOf(snap, s))
PastOf(snap, s) ==
    Observed(history[s], [at |-> snap.at, score |-> ScoreOf(snap, s),
                          occupancy |-> ScopeSnapshot(snap, s).occupancy])

\* What an evaluation leaves and returns.
LEMMA EvaluationResults ==
    ASSUME NEW snap, Evaluates(snap)
    PROVE  /\ lastProcessed' = [lastProcessed EXCEPT ![snap.session] = snap.at]
           /\ outcome'.status = "ok" /\ DOMAIN outcome'.advice = Judged(snap)
           /\ history' = [s \in Scopes |-> IF s \in Judged(snap) THEN PastOf(snap, s) ELSE history[s]]
           /\ \A s \in Judged(snap) : outcome'.advice[s] =
                [score |-> ScoreOf(snap, s), level |-> standing'[s].level,
                 trend |-> Trend(PastOf(snap, s)),
                 action |-> Decision(standing'[s].level, Trend(PastOf(snap, s)), FeaturesOf(snap, s),
                                     s = Whole /\ Exceeds(PastOf(snap, s), snap.occupancy))]
  <1> DEFINE features == [s \in Judged(snap) |-> Features(ScopeSnapshot(snap, s))]
             past == [s \in Judged(snap) |->
                        Observed(history[s], [at |-> snap.at, score |-> Score(features[s]),
                                              occupancy |-> ScopeSnapshot(snap, s).occupancy])]
  <1>1. \A s \in Judged(snap) : features[s] = FeaturesOf(snap, s) /\ past[s] = PastOf(snap, s)
    BY DEF FeaturesOf, ScoreOf, PastOf
  <1>2. /\ lastProcessed' = [lastProcessed EXCEPT ![snap.session] = snap.at]
        /\ history' = [s \in Scopes |-> IF s \in Judged(snap) THEN past[s] ELSE history[s]]
    BY DEF Evaluates
  <1>3. outcome' = [status |-> "ok", advice |-> [s \in Judged(snap) |->
                LET level == standing'[s].level
                    trend == Trend(past[s])
                IN  [score |-> Score(features[s]), level |-> level, trend |-> trend,
                     action |-> Decision(level, trend, features[s],
                                         s = Whole /\ Exceeds(past[s], snap.occupancy))]]]
    BY DEF Evaluates
  <1> HIDE DEF features, past
  <1>4. history' = [s \in Scopes |-> IF s \in Judged(snap) THEN PastOf(snap, s) ELSE history[s]]
    BY <1>1, <1>2
  <1>5. ASSUME NEW s \in Judged(snap)
        PROVE  outcome'.advice[s] =
                [score |-> ScoreOf(snap, s), level |-> standing'[s].level,
                 trend |-> Trend(PastOf(snap, s)),
                 action |-> Decision(standing'[s].level, Trend(PastOf(snap, s)), FeaturesOf(snap, s),
                                     s = Whole /\ Exceeds(PastOf(snap, s), snap.occupancy))]
    BY <1>1, <1>3 DEF ScoreOf
  <1>6. outcome'.status = "ok" /\ DOMAIN outcome'.advice = Judged(snap)
    BY <1>3
  <1> QED BY <1>2, <1>4, <1>5, <1>6

LEMMA TrendTyped == \A past : Trend(past) \in Directions
  BY DEF Trend, Directions

\* How a scope is judged has its sort.
LEMMA JudgementTyped ==
    ASSUME NEW snap, Sound(snap), NEW s \in Judged(snap), history \in [Scopes -> Seq(Observation)]
    PROVE  /\ s \in Scopes /\ ScoreOf(snap, s) \in 0..100
           /\ PastOf(snap, s) \in Seq(Observation)
  <1>1. s \in Scopes
    BY ScopesArePlaces DEF Judged, Sound, Places
  <1>2. PICK own : own = ScopeSnapshot(snap, s)
    OBVIOUS
  <1>3. Sound(own)
    BY <1>2, ScopeIsSound
  <1>4. PICK f : f = Features(own)
    OBVIOUS
  <1>5. Score(f) \in 0..100
    BY <1>3, <1>4, FeaturesTyped, ScoreTyped
  <1>6. [at |-> snap.at, score |-> Score(f), occupancy |-> own.occupancy] \in Observation
    BY <1>3, <1>5 DEF Sound, Observation
  <1>7. Observed(history[s], [at |-> snap.at, score |-> Score(f), occupancy |-> own.occupancy]) \in Seq(Observation)
    BY <1>1, <1>6, ObservedTyped
  <1> QED BY <1>1, <1>2, <1>4, <1>5, <1>7 DEF ScoreOf, PastOf, FeaturesOf

LEMMA StabilizedTyped ==
    ASSUME NEW st \in [level : Levels, up : Nat, down : Nat], NEW new \in Levels
    PROVE  Stabilized(st, new) \in [level : Levels, up : Nat, down : Nat]
  <1>1. st.level \in Levels /\ st.up + 1 \in Nat /\ st.down + 1 \in Nat
    OBVIOUS
  <1> QED BY <1>1 DEF Stabilized, Levels

LEMMA EvaluationTyped ==
    ASSUME NEW snap, Sound(snap), Evaluates(snap), NEW sessions, PredictionTypeOK(sessions)
    PROVE  /\ standing' \in [Scopes -> [level : Levels, up : Nat, down : Nat]]
           /\ history' \in [Scopes -> Seq(Observation)]
           /\ lastProcessed' \in [sessions -> Int]
           /\ evidence' \in [Scopes -> Seq(Levels)]
           /\ \A s \in DOMAIN outcome'.advice : outcome'.advice[s] \in Advice
  <1>1. /\ standing \in [Scopes -> [level : Levels, up : Nat, down : Nat]]
        /\ history \in [Scopes -> Seq(Observation)] /\ lastProcessed \in [sessions -> Int]
        /\ evidence \in [Scopes -> Seq(Levels)]
    BY DEF PredictionTypeOK
  <1> DEFINE raw(s) == RiskLevel(outcome'.advice[s].score)
  <1>2. \A s : raw(s) \in Levels
    BY LevelInRange
  <1>3. /\ standing' = [s \in Scopes |-> IF s \in Judged(snap) THEN Stabilized(standing[s], raw(s))
                                         ELSE standing[s]]
        /\ evidence' = [s \in Scopes |->
                IF s \notin Judged(snap) THEN evidence[s]
                ELSE IF standing'[s].level # standing[s].level THEN <<>>
                ELSE LastFew(Append(evidence[s], raw(s)), Most(EscalationFrames, RecoveryFrames))]
    BY EvaluationFacts
  <1> HIDE DEF raw
  <1>4. standing' \in [Scopes -> [level : Levels, up : Nat, down : Nat]]
    <2>1. \A s \in Scopes : Stabilized(standing[s], raw(s)) \in [level : Levels, up : Nat, down : Nat]
      BY <1>1, <1>2, StabilizedTyped
    <2> QED BY <1>1, <1>3, <2>1
  <1>5. evidence' \in [Scopes -> Seq(Levels)]
    <2>1. Most(EscalationFrames, RecoveryFrames) \in Nat \ {0}
      BY FramesTyped DEF Most
    <2>2. ASSUME NEW s \in Scopes
          PROVE  LastFew(Append(evidence[s], raw(s)), Most(EscalationFrames, RecoveryFrames)) \in Seq(Levels)
      <3>1. Append(evidence[s], raw(s)) \in Seq(Levels)
        BY <1>1, <1>2
      <3> QED BY <2>1, <3>1, LastFewTyped
    <2>3. <<>> \in Seq(Levels)
      OBVIOUS
    <2> QED BY <1>1, <1>3, <2>2, <2>3
  <1>6. \A s \in Judged(snap) : /\ s \in Scopes /\ ScoreOf(snap, s) \in 0..100
                                /\ PastOf(snap, s) \in Seq(Observation)
    BY <1>1, JudgementTyped
  <1>7. history' \in [Scopes -> Seq(Observation)]
    <2>1. history' = [s \in Scopes |-> IF s \in Judged(snap) THEN PastOf(snap, s) ELSE history[s]]
      BY EvaluationResults
    <2> QED BY <1>1, <1>6, <2>1
  <1>8. lastProcessed' \in [sessions -> Int]
    <2>1. snap.at \in Int /\ lastProcessed' = [lastProcessed EXCEPT ![snap.session] = snap.at]
      BY EvaluationResults DEF Sound
    <2> QED BY <1>1, <2>1
  <1>9. ASSUME NEW s \in DOMAIN outcome'.advice PROVE outcome'.advice[s] \in Advice
    <2>1. s \in Judged(snap)
      BY EvaluationResults
    <2>2. PICK trend, level, exceeds :
            trend = Trend(PastOf(snap, s)) /\ level = standing'[s].level
            /\ exceeds = (s = Whole /\ Exceeds(PastOf(snap, s), snap.occupancy))
      OBVIOUS
    <2>3. exceeds \in BOOLEAN
      BY <2>2
    <2>4. PICK action : action = Decision(level, trend, FeaturesOf(snap, s), exceeds)
      OBVIOUS
    <2>5. action \in Actions
      BY <2>3, <2>4, DecisionFacts
    <2>6. outcome'.advice[s] = [score |-> ScoreOf(snap, s), level |-> level, trend |-> trend, action |-> action]
      BY <2>1, <2>2, <2>4, EvaluationResults
    <2>7. trend \in Directions /\ level \in Levels /\ ScoreOf(snap, s) \in 0..100
      BY <1>4, <1>6, <2>1, <2>2, TrendTyped
    <2> QED BY <2>5, <2>6, <2>7 DEF Advice
  <1> QED BY <1>4, <1>5, <1>7, <1>8, <1>9

------------------------------------------------------------------------------
(* The requests. *)

LEMMA AlertsFinite ==
    ASSUME IntelligenceTypeOK
    PROVE  IsFiniteSet(DOMAIN active)
  <1>1. DOMAIN active = SessionIds \X RuleKeys
    BY DEF IntelligenceTypeOK
  <1>2. IsFiniteSet(SessionIds)
    BY EngineConstants, FS_Interval DEF SessionIds
  <1>3. IsFiniteSet({<<r, Venue>> : r \in {"ENTRY_SURGE", "EXIT_SURGE", "OCCUPANCY_SPIKE", "MOVEMENT_STAGNATION"}})
    <2> DEFINE names == {"ENTRY_SURGE", "EXIT_SURGE", "OCCUPANCY_SPIKE", "MOVEMENT_STAGNATION"}
               f == [r \in names |-> <<r, Venue>>]
               keys == {<<r, Venue>> : r \in names}
    <2>1. \A T, x : IsFiniteSet(T) => IsFiniteSet(T \cup {x})
      BY FS_AddElement
    <2>2. IsFiniteSet(((({} \cup {"ENTRY_SURGE"}) \cup {"EXIT_SURGE"}) \cup {"OCCUPANCY_SPIKE"})
                        \cup {"MOVEMENT_STAGNATION"})
      BY <2>1, FS_EmptySet
    <2>3. names = ((({} \cup {"ENTRY_SURGE"}) \cup {"EXIT_SURGE"}) \cup {"OCCUPANCY_SPIKE"})
                        \cup {"MOVEMENT_STAGNATION"}
      OBVIOUS
    <2>4. f \in Surjection(names, keys)
      BY DEF Surjection
    <2>5. IsFiniteSet(names)
      BY <2>2, <2>3
    <2> HIDE DEF names, f, keys
    <2>6. IsFiniteSet(keys)
      BY <2>4, <2>5, FS_Surjection
    <2> QED BY <2>6 DEF keys, names
  <1>4. IsFiniteSet({<<"GATE_FLOW_ANOMALY", g>> : g \in Gates})
    <2> DEFINE f == [g \in Gates |-> <<"GATE_FLOW_ANOMALY", g>>]
               keys == {<<"GATE_FLOW_ANOMALY", g>> : g \in Gates}
    <2>1. f \in Surjection(Gates, keys)
      BY DEF Surjection
    <2> HIDE DEF f, keys
    <2>2. IsFiniteSet(keys)
      BY <2>1, GatesFinite, FS_Surjection
    <2> QED BY <2>2 DEF keys
  <1>5. IsFiniteSet(RuleKeys)
    <2>1. RuleKeys = {<<r, Venue>> : r \in {"ENTRY_SURGE", "EXIT_SURGE", "OCCUPANCY_SPIKE", "MOVEMENT_STAGNATION"}}
                        \cup {<<"GATE_FLOW_ANOMALY", g>> : g \in Gates}
      BY DEF RuleKeys
    <2> QED BY <1>3, <1>4, <2>1, FS_Union
  <1> QED BY <1>1, <1>2, <1>5, FS_Product

\* What is built for the prediction engine can be judged.
LEMMA SnapshotSound ==
    ASSUME IntelligenceTypeOK, NEW wins \in WindowsType, NEW level \in 0..3
    PROVE  Sound(Snapshot(wins, level))
  <1>1. PICK snap : snap = Snapshot(wins, level)
    OBVIOUS
  <1>2. \A p \in Places, k \in Kinds : Len(wins[k][p][RateWidth]) \in Nat
    BY EngineConstants DEF WindowsType
  <1>3. "ENTRY" \in Kinds /\ "EXIT" \in Kinds /\ Known(totals) \subseteq Gates
    BY DEF Kinds, Known
  <1>4. now \in Int /\ occ.current \in Nat /\ \A g \in Gates : occ.gate[g] \in Nat
    BY DEF IntelligenceTypeOK, OccupancyType
  <1> DEFINE Alerts(p) == Cardinality({a \in DOMAIN active : active[a] > 0 /\ a[2][2] = p})
  <1>5. ASSUME NEW p PROVE Alerts(p) \in Nat
    <2>1. IsFiniteSet({a \in DOMAIN active : active[a] > 0 /\ a[2][2] = p})
      BY AlertsFinite, FS_Subset
    <2> QED BY <2>1, FS_CardinalityType
  <1> HIDE DEF Alerts
  <1>6. /\ {"at", "occupancy", "entries", "net", "congestion", "gates", "alerts"} \subseteq DOMAIN snap
        /\ snap.at = now /\ snap.occupancy = occ.current /\ snap.congestion = level
        /\ snap.entries = Len(wins["ENTRY"][Venue][RateWidth])
        /\ snap.net = Len(wins["ENTRY"][Venue][RateWidth]) - Len(wins["EXIT"][Venue][RateWidth])
    BY <1>1 DEF Snapshot
  <1>7. /\ DOMAIN snap.gates = Known(totals)
        /\ \A g \in Known(totals) :
            /\ snap.gates[g].entries = Len(wins["ENTRY"][g][RateWidth])
            /\ snap.gates[g].net = Len(wins["ENTRY"][g][RateWidth]) - Len(wins["EXIT"][g][RateWidth])
            /\ snap.gates[g].occupancy = occ.gate[g]
    BY <1>1 DEF Snapshot
  <1>8. snap.alerts = [p \in Places |-> Alerts(p)]
    BY <1>1 DEF Snapshot, Alerts
  <1>9. IsFiniteSet(Places)
    BY GatesFinite, FS_AddElement DEF Places
  <1>10. snap.alerts \in [Places -> Nat] /\ DOMAIN snap.alerts = Places
    BY <1>5, <1>8
  <1>11. snap.entries \in Nat /\ snap.net \in Int
    BY <1>2, <1>3, <1>6, EngineConstants
  <1>12. ASSUME NEW g \in DOMAIN snap.gates
         PROVE  snap.gates[g].entries \in Nat /\ snap.gates[g].net \in Int /\ snap.gates[g].occupancy \in Nat
    <2>1. g \in Known(totals) /\ g \in Gates /\ g \in Places
      BY <1>3, <1>7, EngineConstants
    <2>2. PICK i, o \in Nat : i = Len(wins["ENTRY"][g][RateWidth]) /\ o = Len(wins["EXIT"][g][RateWidth])
      BY <1>2, <1>3, <2>1
    <2>3. snap.gates[g].entries = i /\ snap.gates[g].net = i - o /\ snap.gates[g].occupancy = occ.gate[g]
      BY <1>7, <2>1, <2>2
    <2> QED BY <1>4, <2>1, <2>2, <2>3
  <1>13. Known(totals) \subseteq Places
    BY <1>3, EngineConstants
  <1> QED BY <1>1, <1>3, <1>4, <1>6, <1>7, <1>9, <1>10, <1>11, <1>12, <1>13 DEF Sound

\* Whatever is asked, the prediction engine keeps its shape, and answers for the venue.
LEMMA AskedTyped ==
    ASSUME IntelligenceTypeOK, IntelligenceTypeOK', StoreInv', PredictionTypeOK(1..MaxSessions), Asked
    PROVE  /\ PredictionTypeOK(1..MaxSessions)'
           /\ outcome'.status \in {"ok", "paused", "duplicate"}
           /\ outcome'.status = "ok" => Venue \in DOMAIN outcome'.advice
  <1>1. PICK snap : snap = Snapshot(windows', congestion')
    OBVIOUS
  <1>2. Sound(snap)
    <2>1. windows' \in WindowsType /\ congestion' \in 0..3
      BY DEF IntelligenceTypeOK, WindowsType
    <2> QED BY <1>1, <2>1, SnapshotSound
  <1>3. Predict(snap) /\ session.status \in {"ACTIVE", "PAUSED"}
    BY <1>1 DEF Asked, IntelligenceTypeOK
  <1>4. snap.status = session.status
    BY <1>1 DEF Snapshot
  <1>5. CASE Suspended(snap)
    <2>1. /\ standing' = standing /\ history' = history /\ lastProcessed' = lastProcessed
          /\ evidence' = evidence
          /\ outcome'.status \in {"paused", "duplicate"}
      BY <1>3, <1>4, <1>5 DEF Suspended
    <2> QED BY <2>1 DEF PredictionTypeOK
  <1>6. CASE Evaluates(snap)
    <2>1. outcome'.status = "ok" /\ DOMAIN outcome'.advice = Judged(snap)
      BY <1>6, EvaluationResults
    <2>2. Venue \in Judged(snap)
      BY ScopesArePlaces DEF Judged
    <2>3. PredictionTypeOK(1..MaxSessions)'
      <3>1. /\ standing' \in [Scopes -> [level : Levels, up : Nat, down : Nat]]
            /\ history' \in [Scopes -> Seq(Observation)]
            /\ lastProcessed' \in [1..MaxSessions -> Int]
            /\ evidence' \in [Scopes -> Seq(Levels)]
            /\ \A s \in DOMAIN outcome'.advice : outcome'.advice[s] \in Advice
        BY <1>2, <1>6, EvaluationTyped
      <3> QED BY <3>1 DEF PredictionTypeOK
    <2> QED BY <2>1, <2>2, <2>3
  <1> QED BY <1>3, <1>5, <1>6 DEF Predict

LEMMA TypeInit == Init => TypeOK
  <1> SUFFICES ASSUME Init PROVE TypeOK
    OBVIOUS
  <1>1. IntelligenceTypeOK
    BY IntelligenceTypeInit DEF Init
  <1>2. PredictionTypeOK(1..MaxSessions)
    <2>1. /\ standing = [s \in Scopes |-> [level |-> 0, up |-> 0, down |-> 0]]
          /\ history = [s \in Scopes |-> <<>>] /\ evidence = [s \in Scopes |-> <<>>]
          /\ lastProcessed = [s \in 1..MaxSessions |-> -1] /\ outcome.status = "none"
      BY DEF Init, PredictionInit, Nothing
    <2> QED BY <2>1 DEF PredictionTypeOK, Levels
  <1>3. published \in Risk /\ reports \subseteq Report /\ polls \in 0..MaxPolls /\ requests \in 0..MaxRequests
    BY PollsBounded DEF Init, DefaultRisk, Risk, Levels, Actions
  <1> QED BY <1>1, <1>2, <1>3 DEF TypeOK

LEMMA TypeNext ==
    ASSUME TypeOK, StoreInv, [Next]_vars
    PROVE  TypeOK'
  <1>1. /\ IntelligenceTypeOK /\ PredictionTypeOK(1..MaxSessions) /\ published \in Risk /\ reports \subseteq Report
        /\ polls \in 0..MaxPolls /\ requests \in 0..MaxRequests /\ MaxPolls \in Nat /\ MaxRequests \in Nat
    BY PollsBounded DEF TypeOK
  <1>2. IntelligenceTypeOK' /\ StoreInv'
    BY <1>1, EngineTypeNext, StoreNext
  <1>3. CASE AskDashboard \/ AskPrediction
    <2>0. Asked
      BY <1>3 DEF AskDashboard, AskPrediction
    <2>1. /\ PredictionTypeOK(1..MaxSessions)'
          /\ outcome'.status \in {"ok", "paused", "duplicate"}
          /\ outcome'.status = "ok" => Venue \in DOMAIN outcome'.advice
      BY <1>1, <1>2, <2>0, AskedTyped
    <2>2. published' = published /\ polls' \in 0..MaxPolls
      BY <1>1, <2>0 DEF Asked
    <2>3. CASE AskDashboard
      BY <1>1, <1>2, <2>1, <2>2, <2>3 DEF AskDashboard, TypeOK
    <2>4. CASE AskPrediction
      <3>1. requests' \in 1..MaxRequests
        BY <1>1, <2>4 DEF AskPrediction
      <3>2. PICK risk : risk = IF outcome'.status = "ok"
                   THEN [level |-> outcome'.advice[Venue].level, action |-> outcome'.advice[Venue].action]
                   ELSE DefaultRisk
        OBVIOUS
      <3>3. risk \in Risk
        <4>1. DefaultRisk \in Risk
          BY DEF DefaultRisk, Risk, Levels, Actions
        <4>2. outcome'.status = "ok" => outcome'.advice[Venue] \in Advice
          BY <2>1 DEF PredictionTypeOK
        <4>3. outcome'.status = "ok" =>
                [level |-> outcome'.advice[Venue].level, action |-> outcome'.advice[Venue].action] \in Risk
          BY <4>2 DEF Advice, Risk
        <4> QED BY <3>2, <4>1, <4>3
      <3>4. session.no \in SessionIds /\ now \in 0..MaxNow
        BY <1>1 DEF IntelligenceTypeOK
      <3>5. reports' = reports \cup
                {[no |-> requests', session |-> session.no, at |-> now, status |-> outcome'.status,
                  saved |-> outcome'.status # "ok", risk |-> risk]}
        BY <2>4, <3>2 DEF AskPrediction
      <3>6. PICK saved \in BOOLEAN : saved = (outcome'.status # "ok")
        OBVIOUS
      <3>7. [no |-> requests', session |-> session.no, at |-> now, status |-> outcome'.status,
             saved |-> saved, risk |-> risk] \in Report
        BY <2>1, <3>1, <3>3, <3>4 DEF Report
      <3>8. reports' \subseteq Report
        BY <1>1, <3>5, <3>6, <3>7
      <3> QED BY <1>2, <2>1, <2>2, <3>1, <3>8 DEF TypeOK
    <2> QED BY <1>3, <2>3, <2>4
  <1>4. CASE \E r \in reports : Save(r)
    <2>1. PICK r \in reports : Save(r)
      BY <1>4
    <2>2. [r EXCEPT !.saved = TRUE] \in Report
      BY <1>1 DEF Report
    <2>3. reports' \subseteq Report /\ published' = published /\ polls' = polls /\ requests' = requests
      BY <1>1, <2>1, <2>2 DEF Save
    <2>4. PredictionTypeOK(1..MaxSessions)'
      BY <1>1, <2>1 DEF Save, PredictionTypeOK, predictionVars
    <2> QED BY <1>1, <1>2, <2>3, <2>4 DEF TypeOK
  <1>5. CASE \E r \in reports : Publish(r)
    <2>1. PICK r \in reports : Publish(r)
      BY <1>5
    <2>2. r.risk \in Risk
      BY <1>1 DEF Report
    <2>3. reports' \subseteq Report /\ published' \in Risk /\ polls' = polls /\ requests' = requests
      BY <1>1, <2>1, <2>2 DEF Publish
    <2>4. PredictionTypeOK(1..MaxSessions)'
      BY <1>1, <2>1 DEF Publish, PredictionTypeOK, predictionVars
    <2> QED BY <1>2, <2>3, <2>4 DEF TypeOK
  <1>6. CASE UNCHANGED <<predictionVars, serviceVars>>
    BY <1>1, <1>2, <1>6 DEF TypeOK, PredictionTypeOK, predictionVars, serviceVars
  <1> QED BY <1>3, <1>4, <1>5, <1>6 DEF Next, AskDashboard, AskPrediction, SessionPauses, vars

\* The engines, the requests and what they store and publish keep their sorts: every
\* advice has a score up to 100, one of the levels and one of the actions.
THEOREM InsightTypeCorrect == Spec => []TypeOK
  <1>1. Init => TypeOK /\ StoreInv
    BY TypeInit, StoreInit
  <1>2. TypeOK /\ StoreInv /\ [Next]_vars => TypeOK' /\ StoreInv'
    BY TypeNext, StoreNext DEF TypeOK
  <1> QED BY <1>1, <1>2, PTL DEF Spec

------------------------------------------------------------------------------
(* The grounds of an advice. *)

LEMMA RatesKept ==
    ASSUME IntelligenceTypeOK, RatesInv, [Next]_vars
    PROVE  RatesInv'
  <1>1. CASE [IntelligenceNext]_intelligenceVars
    BY <1>1, RatesNext
  <1>2. CASE SessionPauses
    BY <1>2 DEF SessionPauses, RatesInv, engine
  <1> QED BY <1>1, <1>2, EngineSteps

\* Where nobody is recorded to have come in, no window counts anybody.
LEMMA NobodyCame ==
    IntelligenceTypeOK /\ RatesInv =>
        \A g \in Gates : totals["ENTRY"][g] = 0 => Len(windows["ENTRY"][g][RateWidth]) = 0
  <1> SUFFICES ASSUME IntelligenceTypeOK, RatesInv, NEW g \in Gates, totals["ENTRY"][g] = 0
               PROVE  Len(windows["ENTRY"][g][RateWidth]) = 0
    OBVIOUS
  <1>1. "ENTRY" \in Kinds /\ g \in Places /\ RateWidth \in Widths
    BY EngineConstants DEF Kinds
  <1>2. /\ Cardinality(OccurredIn(log, "ENTRY", g)) = 0
        /\ Holds(windows["ENTRY"][g][RateWidth], OccurredIn(log, "ENTRY", g), TimesOf(log),
                 OldIn(log, now, "ENTRY", g, RateWidth))
    BY <1>1 DEF RatesInv, Agree
  <1>3. Len(windows["ENTRY"][g][RateWidth]) \in Nat
    BY <1>1 DEF IntelligenceTypeOK
  <1> QED BY <1>2, <1>3 DEF Holds

LEMMA AdviceOf ==
    ASSUME NEW snap, Evaluates(snap), NEW s \in DOMAIN outcome'.advice
    PROVE  /\ s \in Judged(snap)
           /\ outcome'.advice[s].score = ScoreOf(snap, s)
           /\ outcome'.advice[s].action =
                Decision(standing'[s].level, Trend(PastOf(snap, s)), FeaturesOf(snap, s),
                         s = Whole /\ Exceeds(PastOf(snap, s), snap.occupancy))
  <1>1. s \in Judged(snap)
    BY EvaluationResults
  <1>2. outcome'.advice[s] =
            [score |-> ScoreOf(snap, s), level |-> standing'[s].level, trend |-> Trend(PastOf(snap, s)),
             action |-> Decision(standing'[s].level, Trend(PastOf(snap, s)), FeaturesOf(snap, s),
                                 s = Whole /\ Exceeds(PastOf(snap, s), snap.occupancy))]
    BY <1>1, EvaluationResults
  <1> QED BY <1>1, <1>2

\* The venue is told to be reviewed only from observations at enough times.
LEMMA ReviewIsFounded ==
    ASSUME PredictionTypeOK(1..MaxSessions), NEW snap, Sound(snap), Evaluates(snap),
           NEW s \in DOMAIN outcome'.advice, outcome'.advice[s].action = "EMERGENCY_REVIEW"
    PROVE  /\ s = Venue
           /\ Cardinality({history'[s][i].at : i \in DOMAIN history'[s]}) >= MinForecast
  <1>1. s \in Judged(snap)
    BY EvaluationResults
  <1>2. history \in [Scopes -> Seq(Observation)]
    BY DEF PredictionTypeOK
  <1>3. s \in Scopes /\ PastOf(snap, s) \in Seq(Observation)
    BY <1>1, <1>2, JudgementTyped
  <1>4. PICK trend, level, exceeds, past :
            /\ trend = Trend(PastOf(snap, s)) /\ level = standing'[s].level
            /\ past = PastOf(snap, s)
            /\ exceeds = (s = Whole /\ Exceeds(past, snap.occupancy))
    OBVIOUS
  <1>5. exceeds \in BOOLEAN
    BY <1>4
  <1>6. outcome'.advice[s].action = Decision(level, trend, FeaturesOf(snap, s), exceeds)
    BY <1>4, AdviceOf
  <1>7. exceeds
    BY <1>5, <1>6, DecisionFacts
  <1>8. s = Whole /\ Cardinality(Latest(past)) >= MinForecast
    BY <1>4, <1>7 DEF Exceeds
  <1>9. history'[s] = past
    <2>1. history' = [x \in Scopes |-> IF x \in Judged(snap) THEN PastOf(snap, x) ELSE history[x]]
      BY EvaluationResults
    <2> QED BY <1>1, <1>3, <1>4, <2>1
  <1>10. past \in Seq(Observation)
    BY <1>3, <1>4
  <1>11. PICK n, m \in Nat : /\ n = Cardinality(Latest(past)) /\ n <= m
                             /\ m = Cardinality({past[i].at : i \in DOMAIN past})
    BY <1>10, TimesCovered
  <1>12. m >= MinForecast
    BY <1>8, <1>11, FramesTyped
  <1>13. m = Cardinality({history'[s][i].at : i \in DOMAIN history'[s]})
    BY <1>9, <1>11
  <1> QED BY <1>8, <1>12, <1>13, ScopesArePlaces

\* A gate where nobody came in and nobody is scores by the congestion and its alerts.
LEMMA EmptyGateScore ==
    ASSUME NEW snap, Sound(snap), NEW g \in Gates, g \in DOMAIN snap.gates,
           snap.gates[g].entries = 0, snap.gates[g].net <= 0, snap.gates[g].occupancy = 0
    PROVE  ScoreOf(snap, g) <= Weight.congestion + Weight.anomaly
  <1>1. g \in Judged(snap) /\ g # Whole
    BY EngineConstants, ScopesArePlaces DEF Judged
  <1>2. PICK own : own = ScopeSnapshot(snap, g)
    OBVIOUS
  <1>3. /\ Sound(own) /\ own.occupancy = 0 /\ own.entries = 0 /\ own.net <= 0
        /\ DOMAIN own.gates = {g}
    BY <1>1, <1>2, ScopeIsSound
  <1>4. PICK f : f = Features(own)
    OBVIOUS
  <1>5. f \in FeaturesType /\ f.occupancy <= 0 /\ f.entry <= 0 /\ f.net <= 0 /\ f.imbalance <= 0
    BY <1>3, <1>4, FeaturesTyped
  <1>6. Score(f) <= Weight.congestion + Weight.anomaly
    BY <1>5, ScoreTyped
  <1> QED BY <1>2, <1>4, <1>6 DEF ScoreOf, FeaturesOf

\* What AdviceHasGrounds says of one scope.
Grounded(s) ==
    LET advice == outcome'.advice[s]
        times == {history'[s][i].at : i \in DOMAIN history'[s]}
    IN  /\ advice.action = "EMERGENCY_REVIEW" =>
                s = Venue /\ Cardinality(times) >= Most(MinForecast, EscalationFrames)
        /\ s \in Gates /\ occ.gate[s] = 0 /\ totals["ENTRY"][s] = 0 =>
                advice.score <= Weight.congestion + Weight.anomaly

LEMMA GroundsStep ==
    ASSUME MinForecast >= EscalationFrames, TypeOK, StoreInv, RatesInv, [Next]_vars, Evaluation
    PROVE  \A s \in DOMAIN outcome'.advice : Grounded(s)
  <1>1. /\ IntelligenceTypeOK /\ IntelligenceTypeOK' /\ RatesInv'
        /\ PredictionTypeOK(1..MaxSessions)
    BY EngineTypeNext, RatesKept DEF TypeOK
  <1>2. Asked
    BY DEF Evaluation, Next, SessionPauses, AskDashboard, AskPrediction, Save, Publish, predictionVars, vars
  <1>3. PICK snap : snap = Snapshot(windows', congestion')
    OBVIOUS
  <1>4. Sound(snap)
    <2>1. windows' \in WindowsType /\ congestion' \in 0..3
      BY <1>1 DEF IntelligenceTypeOK, WindowsType
    <2> QED BY <1>1, <1>3, <2>1, SnapshotSound
  <1>5. Evaluates(snap)
    <2>1. Predict(snap)
      BY <1>2, <1>3 DEF Asked
    <2>2. ~Suspended(snap)
      BY DEF Suspended, Evaluation
    <2> QED BY <2>1, <2>2 DEF Predict
  <1>6. SUFFICES ASSUME NEW s \in DOMAIN outcome'.advice PROVE Grounded(s)
    OBVIOUS
  <1>7. outcome'.advice[s].action = "EMERGENCY_REVIEW" =>
            /\ s = Venue
            /\ Cardinality({history'[s][i].at : i \in DOMAIN history'[s]}) >= Most(MinForecast, EscalationFrames)
    <2>1. Most(MinForecast, EscalationFrames) = MinForecast
      BY FramesTyped DEF Most
    <2> QED BY <1>1, <1>4, <1>5, <1>6, <2>1, ReviewIsFounded
  <1>8. ASSUME s \in Gates, occ.gate[s] = 0, totals["ENTRY"][s] = 0
        PROVE  outcome'.advice[s].score <= Weight.congestion + Weight.anomaly
    <2>1. s \in Judged(snap) /\ outcome'.advice[s].score = ScoreOf(snap, s)
      BY <1>5, <1>6, AdviceOf
    <2>2. s # Whole /\ s \in DOMAIN snap.gates
      BY <1>8, <2>1, EngineConstants, ScopesArePlaces DEF Judged
    <2>3. totals' = totals
      BY <1>2 DEF Asked, Reading
    <2>4. Len(windows'["ENTRY"][s][RateWidth]) = 0
      <3>1. totals'["ENTRY"][s] = 0
        BY <1>8, <2>3
      <3>2. (IntelligenceTypeOK /\ RatesInv =>
                \A g \in Gates : totals["ENTRY"][g] = 0 => Len(windows["ENTRY"][g][RateWidth]) = 0)'
        BY NobodyCame, PTL
      <3> QED BY <1>1, <1>8, <3>1, <3>2
    <2>5. PICK o : o = Len(windows'["EXIT"][s][RateWidth])
      OBVIOUS
    <2>6. o \in Nat
      <3>1. "EXIT" \in Kinds /\ s \in Places /\ RateWidth \in Widths
        BY <1>8, EngineConstants DEF Kinds
      <3> QED BY <1>1, <2>5, <3>1 DEF IntelligenceTypeOK
    <2>7. snap.gates[s].entries = 0 /\ snap.gates[s].net = 0 - o /\ snap.gates[s].occupancy = 0
      <3>1. DOMAIN snap.gates = Known(totals)
        BY <1>3 DEF Snapshot
      <3>2. /\ snap.gates[s].entries = Len(windows'["ENTRY"][s][RateWidth])
            /\ snap.gates[s].net = Len(windows'["ENTRY"][s][RateWidth]) - Len(windows'["EXIT"][s][RateWidth])
            /\ snap.gates[s].occupancy = occ.gate[s]
        BY <1>3, <2>2, <3>1 DEF Snapshot
      <3> QED BY <1>8, <2>4, <2>5, <3>2
    <2>8. snap.gates[s].net <= 0
      BY <2>6, <2>7
    <2> QED BY <1>4, <1>8, <2>1, <2>2, <2>7, <2>8, EmptyGateScore
  <1> QED BY <1>7, <1>8 DEF Grounded

\* Where a forecast needs no fewer observations than a level needs evaluations, as in the
\* settings (5 and 2), the strongest recommendation is given for the venue only, from
\* observations at enough times; and a gate where nobody came in and nobody is owes its
\* score to the venue's congestion and its own alerts (PredictionEngine.predict).
THEOREM Grounds ==
    ASSUME MinForecast >= EscalationFrames
    PROVE  Spec => AdviceHasGrounds
  <1>1. Init => TypeOK /\ StoreInv /\ RatesInv
    BY TypeInit, StoreInit, RatesInit DEF Init
  <1>2. TypeOK /\ StoreInv /\ RatesInv /\ [Next]_vars => TypeOK' /\ StoreInv' /\ RatesInv'
    BY TypeNext, StoreNext, RatesKept DEF TypeOK
  <1>3. TypeOK /\ StoreInv /\ RatesInv /\ [Next]_vars =>
            [Evaluation => \A s \in DOMAIN outcome'.advice :
                LET advice == outcome'.advice[s]
                    times == {history'[s][i].at : i \in DOMAIN history'[s]}
                IN  /\ advice.action = "EMERGENCY_REVIEW" =>
                            s = Venue /\ Cardinality(times) >= Most(MinForecast, EscalationFrames)
                    /\ s \in Gates /\ occ.gate[s] = 0 /\ totals["ENTRY"][s] = 0 =>
                            advice.score <= Weight.congestion + Weight.anomaly]_vars
    BY GroundsStep DEF Grounded
  <1> QED BY <1>1, <1>2, <1>3, PTL DEF Spec, AdviceHasGrounds
=============================================================================
