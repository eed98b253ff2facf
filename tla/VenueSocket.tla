------------------------------ MODULE VenueSocket ------------------------------
(***************************************************************************)
(* The dashboard's end of the live feed: the hook useVenueWebSocket in one *)
(* browser tab. It opens a socket to the selected venue, reconnects after  *)
(* a delay when the socket closes, and shows what arrives.                 *)
(*                                                                         *)
(* close() only asks for the close; the close event comes later, and finds *)
(* the refs of the hook as they are then. `connect' is a closure over the  *)
(* venue it was made for, and so is the timer a socket of it starts.       *)
(***************************************************************************)
EXTENDS Naturals, Sequences

CONSTANTS
    Venues,        \* the venues of the selector
    FirstVenue,    \* the one selected first
    MaxSockets,    \* bound: sockets opened
    MaxSwitches    \* bound: changes of the selection, unmounting included

ASSUME FirstIsAVenue == FirstVenue \in Venues
ASSUME SocketBounds == MaxSockets \in Nat \ {0} /\ MaxSwitches \in Nat

Sockets == 1..MaxSockets
NoSocket == 0
NoVenue == "no venue"
ASSUME NoVenueIsNone == NoVenue \notin Venues

VARIABLES
    venue,         \* venueId of the hook; NoVenue once it is unmounted
    socket,        \* socketRef
    isManuallyClosed,   \* isManuallyClosedRef
    reconnect,     \* reconnectTimeoutRef: the venue its timer connects to
    heartbeat,     \* heartbeatIntervalRef: the socket its interval pings
    readyState,    \* of each socket: unused, connecting, open, closing, closed
    at,            \* the venue in the URL of each socket
    up,            \* whether the connection under each socket is unbroken
    inbox,         \* messages on their way to each socket
    view,          \* telemetry.activeSessionId, 0 for null
    switches       \* history: changes of the selection

hook == <<venue, socket, isManuallyClosed, reconnect, heartbeat, readyState, at, view, switches>>
clientVars == <<hook, up, inbox>>

ClientInit ==
    /\ venue = FirstVenue
    /\ socket = 1 /\ isManuallyClosed = FALSE
    /\ reconnect = NoVenue /\ heartbeat = NoSocket
    /\ readyState = [s \in Sockets |-> IF s = 1 THEN "connecting" ELSE "unused"]
    /\ at = [s \in Sockets |-> venue]
    /\ up = [s \in Sockets |-> TRUE]
    /\ inbox = [s \in Sockets |-> <<>>]
    /\ view = 0 /\ switches = 0

Alive(s) == readyState[s] \in {"connecting", "open"}
Unused == {s \in Sockets : readyState[s] = "unused"}

\* socketRef.current.close(), if there is one that is not closed yet.
CurrentShut == [s \in Sockets |-> IF s = socket /\ Alive(s) THEN "closing" ELSE readyState[s]]

\* connect, as made for a venue: the flag set for the old socket is taken back
\* before its close event can come.
ConnectsTo(v) ==
    /\ Unused # {}
    /\ LET s == CHOOSE s \in Unused : \A t \in Unused : s <= t IN
       /\ socket' = s
       /\ readyState' = [CurrentShut EXCEPT ![s] = "connecting"]
       /\ at' = [at EXCEPT ![s] = v]
    /\ isManuallyClosed' = FALSE

\* The cleanup of the effect and its next run, one after the other.
Switches(v) ==
    /\ venue \notin {v, NoVenue} /\ switches < MaxSwitches
    /\ venue' = v /\ view' = 0
    /\ ConnectsTo(v)
    /\ reconnect' = NoVenue /\ heartbeat' = NoSocket
    /\ switches' = switches + 1
    /\ UNCHANGED <<up, inbox>>

Unmounts ==
    /\ venue # NoVenue /\ switches < MaxSwitches
    /\ venue' = NoVenue /\ socket' = NoSocket
    /\ isManuallyClosed' = TRUE
    /\ readyState' = CurrentShut
    /\ reconnect' = NoVenue /\ heartbeat' = NoSocket
    /\ switches' = switches + 1
    /\ UNCHANGED <<at, up, inbox, view>>

\* The timer of the last close; setTimeout with the closure of that socket.
TimerFires ==
    /\ reconnect # NoVenue
    /\ ConnectsTo(reconnect)
    /\ reconnect' = NoVenue
    /\ UNCHANGED <<venue, heartbeat, up, inbox, view, switches>>

\* onclose: an unexpected close is retried, by the connect that opened the socket.
Retries(s) == IF isManuallyClosed THEN reconnect ELSE at[s]

CloseEvent(s) ==
    /\ readyState[s] = "closing" \/ (Alive(s) /\ ~up[s])
    /\ readyState' = [readyState EXCEPT ![s] = "closed"]
    /\ inbox' = [inbox EXCEPT ![s] = <<>>]
    /\ heartbeat' = NoSocket
    /\ reconnect' = Retries(s)
    /\ UNCHANGED <<venue, socket, isManuallyClosed, at, up, view, switches>>

\* onopen.
Opened(s) ==
    IF readyState[s] = "connecting"
    THEN /\ readyState' = [readyState EXCEPT ![s] = "open"]
         /\ heartbeat' = s
         /\ UNCHANGED <<venue, socket, isManuallyClosed, reconnect, at, view, switches>>
    ELSE UNCHANGED hook

\* Mutant: the session of initial_state is not taken over.
ShownLater(message) ==
    CASE message.type = "start" -> message.session
      [] message.type = "stop" /\ message.session = view -> 0
      [] OTHER -> view

\* A message: the initial state, or a session that starts or stops.
\* initial_state keeps what was shown where it brings null.
Shown(message) ==
    CASE message.type = "initial_state" /\ message.session # 0 -> message.session
      [] message.type = "start" -> message.session
      [] message.type = "stop" /\ message.session = view -> 0
      [] OTHER -> view

Receives(s) ==
    /\ readyState[s] = "open" /\ inbox[s] # <<>>
    /\ view' = Shown(Head(inbox[s]))
    /\ inbox' = [inbox EXCEPT ![s] = Tail(@)]
    /\ UNCHANGED <<venue, socket, isManuallyClosed, reconnect, heartbeat, readyState, at, up, switches>>

ClientNext ==
    \/ \E v \in Venues : Switches(v)
    \/ Unmounts
    \/ TimerFires
    \/ \E s \in Sockets : CloseEvent(s) \/ Receives(s)
=============================================================================
