-------------------------------- MODULE Realtime -------------------------------
(***************************************************************************)
(* The server's end of the live feed, and both ends together: the          *)
(* connection pools of ConnectionManager, the WebSocket endpoints, and     *)
(* Broadcaster, which sends each message to the pool of its venue and then *)
(* to Redis, from where the listener of the same process takes it and      *)
(* sends it once more.                                                     *)
(*                                                                         *)
(* One process; the messages are the session updates. The global feed /ws  *)
(* has one client, whose connection may break.                             *)
(***************************************************************************)
EXTENDS VenueSocket, FiniteSets

CONSTANTS
    Redis,         \* whether Redis is connected
    Handlers,      \* requests that may broadcast at the same time
    MaxChanges,    \* bound: sessions started or stopped
    MaxFaults      \* bound: connections broken, clients refused

ASSUME ServerBounds == Redis \in BOOLEAN /\ MaxChanges \in Nat /\ MaxFaults \in Nat

Listener == "listener"
Jobs == Handlers \cup {Listener}
Nobody == "nobody"
ASSUME NamesAreNone == {Listener, Nobody} \cap Handlers = {}
Global == MaxSockets + 1    \* the client of the global feed

VARIABLES
    endpoint,      \* of each socket: none, accepted, registered, over
    pool,          \* _venue_connections
    globals,       \* _global_connections
    globalUp,      \* whether the connection of the global client is unbroken
    lock,          \* _lock
    job,           \* the broadcasts under way
    bus,           \* published messages the listener has not taken
    live,          \* the active session of each venue, 0 for none
    changes,       \* history: numbers the sessions
    faults         \* history: what MaxFaults bounds

server == <<endpoint, pool, globals, globalUp, lock, job, bus, live, changes, faults>>
feedVars == <<clientVars, server>>

Idle == [phase |-> "idle", message |-> <<>>, left |-> {}, dead |-> {}]

FeedInit ==
    /\ ClientInit
    /\ endpoint = [s \in Sockets |-> "none"]
    /\ pool = [v \in Venues |-> {}]
    /\ globals = {Global} /\ globalUp = TRUE
    /\ lock = Nobody
    /\ job = [b \in Jobs |-> Idle]
    /\ bus = <<>>
    /\ live = [v \in Venues |-> 0]
    /\ changes = 0 /\ faults = 0

Set(b, j) == job' = [job EXCEPT ![b] = j]
Reachable(t) == IF t = Global THEN globalUp ELSE up[t] /\ readyState[t] # "closed"

------------------------------------------------------------------------------
(* The endpoints. *)

\* Authorised, then accepted; the client's onopen follows.
Accepts(s) ==
    /\ endpoint[s] = "none" /\ readyState[s] # "unused" /\ up[s]
    /\ endpoint' = [endpoint EXCEPT ![s] = "accepted"]
    /\ Opened(s)
    /\ UNCHANGED <<up, inbox, pool, globals, globalUp, lock, job, bus, live, changes, faults>>

\* Closed before it is accepted, when the token or the venue does not pass.
Refuses(s) ==
    /\ endpoint[s] = "none" /\ readyState[s] # "unused" /\ up[s]
    /\ faults < MaxFaults /\ faults' = faults + 1
    /\ endpoint' = [endpoint EXCEPT ![s] = "over"]
    /\ up' = [up EXCEPT ![s] = FALSE]
    /\ UNCHANGED <<hook, inbox, pool, globals, globalUp, lock, job, bus, live, changes>>

\* The initial state: the active session, if there is one.
InitialState(v) == [type |-> "initial_state", session |-> live[v]]

\* connect under the lock; the initial state is built and sent in the same go.
Registers(s) ==
    /\ endpoint[s] = "accepted" /\ lock = Nobody
    /\ endpoint' = [endpoint EXCEPT ![s] = "registered"]
    /\ pool' = [pool EXCEPT ![at[s]] = @ \cup {s}]
    /\ inbox' = IF Reachable(s) THEN [inbox EXCEPT ![s] = Append(@, InitialState(at[s]))] ELSE inbox
    /\ UNCHANGED <<hook, up, globals, globalUp, lock, job, bus, live, changes, faults>>

\* Mutant: the endpoint ends without disconnect.
PoolLeftAlone(s) == pool

PoolWithout(s) == [pool EXCEPT ![at[s]] = @ \ {s}]

\* receive_text raises, and disconnect waits for the lock.
Leaves(s) ==
    /\ endpoint[s] = "registered" /\ lock = Nobody
    /\ ~up[s] \/ readyState[s] \in {"closing", "closed"}
    /\ endpoint' = [endpoint EXCEPT ![s] = "over"]
    /\ pool' = PoolWithout(s)
    /\ up' = [up EXCEPT ![s] = FALSE]
    /\ UNCHANGED <<hook, inbox, globals, globalUp, lock, job, bus, live, changes, faults>>

GlobalLeaves ==
    /\ ~globalUp /\ Global \in globals /\ lock = Nobody
    /\ globals' = globals \ {Global}
    /\ UNCHANGED <<clientVars, endpoint, pool, globalUp, lock, job, bus, live, changes, faults>>

Breaks(t) ==
    /\ faults < MaxFaults /\ faults' = faults + 1
    /\ \/ /\ t \in Sockets /\ Alive(t) /\ up[t]
          /\ up' = [up EXCEPT ![t] = FALSE]
          /\ UNCHANGED globalUp
       \/ /\ t = Global /\ globalUp
          /\ globalUp' = FALSE
          /\ UNCHANGED up
    /\ UNCHANGED <<hook, inbox, endpoint, pool, globals, lock, job, bus, live, changes>>

------------------------------------------------------------------------------
(* Broadcasts. *)

\* A session of the venue starts or stops, and the handler broadcasts it.
Changes(b, v) ==
    /\ b \in Handlers /\ job[b].phase = "idle" /\ changes < MaxChanges
    /\ changes' = changes + 1
    /\ live' = [live EXCEPT ![v] = IF @ = 0 THEN changes + 1 ELSE 0]
    /\ Set(b, [Idle EXCEPT !.phase = "take",
                 !.message = [type |-> IF live[v] = 0 THEN "start" ELSE "stop", venue |-> v,
                              session |-> IF live[v] = 0 THEN changes + 1 ELSE live[v]]])
    /\ UNCHANGED <<clientVars, endpoint, pool, globals, globalUp, lock, bus, faults>>

\* _redis_pubsub_loop.
Hears ==
    /\ job[Listener].phase = "idle" /\ bus # <<>>
    /\ Set(Listener, [Idle EXCEPT !.phase = "take", !.message = Head(bus)])
    /\ bus' = Tail(bus)
    /\ UNCHANGED <<clientVars, endpoint, pool, globals, globalUp, lock, live, changes, faults>>

\* broadcast_to_venue: the targets are copied under the lock.
Targets(v) == pool[v] \cup globals

TakesTargets(b) ==
    /\ job[b].phase = "take" /\ lock = Nobody
    /\ Set(b, [job[b] EXCEPT !.phase = "send", !.left = Targets(job[b].message.venue)])
    /\ UNCHANGED <<clientVars, endpoint, pool, globals, globalUp, lock, bus, live, changes, faults>>

\* One after the other, the venue's sockets before the global ones.
First(T) == CHOOSE t \in T : \A o \in T : t <= o

Sends(b, t) ==
    /\ job[b].phase = "send" /\ job[b].left # {} /\ t = First(job[b].left)
    /\ Set(b, [job[b] EXCEPT !.left = @ \ {t}, !.dead = IF Reachable(t) THEN @ ELSE @ \cup {t}])
    /\ inbox' = IF t = Global \/ ~Reachable(t) THEN inbox
                ELSE [inbox EXCEPT ![t] = Append(@, [type |-> job[b].message.type,
                                                     session |-> job[b].message.session])]
    /\ UNCHANGED <<hook, up, endpoint, pool, globals, globalUp, lock, bus, live, changes, faults>>

\* Mutant: disconnect, which takes the lock itself, for _remove_connection_locked.
MayRemoveUnlocked(b) == lock = Nobody

MayRemove(b) == lock = b

\* The lock is held while the dead are removed and closed one by one.
StartsPruning(b) ==
    /\ job[b].phase = "send" /\ job[b].left = {} /\ job[b].dead # {}
    /\ lock = Nobody /\ lock' = b
    /\ Set(b, [job[b] EXCEPT !.phase = "prune"])
    /\ UNCHANGED <<clientVars, endpoint, pool, globals, globalUp, bus, live, changes, faults>>

\* _remove_connection_locked with the venue: the global client is not removed.
Prunes(b, t) ==
    /\ job[b].phase = "prune" /\ job[b].dead # {} /\ t = First(job[b].dead) /\ MayRemove(b)
    /\ pool' = [pool EXCEPT ![job[b].message.venue] = @ \ {t}]
    /\ Set(b, [job[b] EXCEPT !.dead = @ \ {t}])
    /\ UNCHANGED <<clientVars, endpoint, globals, globalUp, lock, bus, live, changes, faults>>

\* Then a message of a handler is published, if Redis is connected.
EndsBroadcast(b) ==
    /\ job[b].left = {} /\ job[b].dead = {}
    /\ \/ job[b].phase = "send" /\ UNCHANGED lock
       \/ job[b].phase = "prune" /\ lock' = Nobody
    /\ bus' = IF b # Listener /\ Redis THEN Append(bus, job[b].message) ELSE bus
    /\ Set(b, Idle)
    /\ UNCHANGED <<clientVars, endpoint, pool, globals, globalUp, live, changes, faults>>

\* What the event loop of the server runs by itself.
ServerWork ==
    \/ \E s \in Sockets : Accepts(s) \/ Registers(s) \/ Leaves(s)
    \/ GlobalLeaves \/ Hears
    \/ \E b \in Jobs :
        \/ TakesTargets(b) \/ StartsPruning(b) \/ EndsBroadcast(b)
        \/ \E t \in Sockets \cup {Global} : Sends(b, t) \/ Prunes(b, t)

ServerNext ==
    \/ ServerWork
    \/ \E s \in Sockets : Refuses(s)
    \/ \E t \in Sockets \cup {Global} : Breaks(t)
    \/ \E b \in Jobs, v \in Venues : Changes(b, v)

FeedNext == (ClientNext /\ UNCHANGED server) \/ ServerNext

\* The event loops run what is ready, and a connection that is asked for is
\* answered. A lock is held for finitely many broadcasts.
Fairness ==
    /\ WF_feedVars(ServerWork) /\ WF_feedVars(TimerFires /\ UNCHANGED server)
    /\ \A s \in Sockets : WF_feedVars((CloseEvent(s) \/ Receives(s)) /\ UNCHANGED server)

FeedSpec == FeedInit /\ [][FeedNext]_feedVars
FairSpec == FeedSpec /\ Fairness
------------------------------------------------------------------------------
(* Properties. *)

Connected == socket # NoSocket /\ up[socket] /\ readyState[socket] = "open" /\ endpoint[socket] = "registered"

\* The tab has at most one connection it has not closed, and a pool holds the
\* sockets of its own venue whose endpoint still runs, each one a broadcast has
\* not found dead: no endpoint ends and leaves its socket behind.
PoolsAreLive ==
    /\ \A s \in Sockets : Alive(s) => s = socket
    /\ \A v \in Venues, s \in Sockets : s \in pool[v] => at[s] = v /\ endpoint[s] = "registered"
    /\ \A s \in Sockets : endpoint[s] = "registered" /\ Reachable(s) => s \in pool[at[s]]

Quiet == (\A b \in Jobs : job[b].phase = "idle") /\ bus = <<>> /\ \A s \in Sockets : inbox[s] = <<>>

\* Once all is delivered, echoes through Redis included, the dashboard shows the
\* active session of its venue, whether it connected before, after or while the
\* session started, and whatever earlier messages come back in between. It may
\* go on showing a session that ended while it was not connected. (Handlers
\* broadcast one at a time here: of two that overlap either may arrive last.)
ViewIsCurrent ==
    (Quiet /\ Connected /\ at[socket] = venue) =>
        \/ view = live[venue]
        \/ live[venue] = 0 /\ socket > 1

\* A tab that stays on its venue is connected in the end and stays so, every
\* broadcast ends, and no pool keeps a dead connection, whichever connection
\* breaks at which moment of a broadcast. A tab that is closed leaves none.
Settles ==
    /\ [](switches = 0) => <>[](Connected /\ heartbeat = socket /\ at[socket] = venue)
    /\ <>[](/\ \A b \in Jobs : job[b].phase = "idle"
            /\ globalUp \/ globals = {}
            /\ \A v \in Venues : \A s \in pool[v] : up[s]
            /\ venue = NoVenue => \A v \in Venues : pool[v] = {})

\* "Clean teardown on unmount or venue switch": the connection of the tab is the
\* one of the venue that is selected.
SwitchIsClean == socket # NoSocket => at[socket] = venue
=============================================================================
