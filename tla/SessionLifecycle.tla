--------------------------- MODULE SessionLifecycle ---------------------------
(***************************************************************************)
(* What a monitoring session promises, with no service around it: a status *)
(* that moves along the transition table of                                *)
(* ai-engine/intelligence/session/session.py and a process that may lose   *)
(* every in-memory session at once. SessionService refines this module.    *)
(***************************************************************************)
CONSTANT Sessions    \* the session ids (uuid4 strings) that may be created

VARIABLE status      \* SessionManager._sessions[s].status, "ABSENT" if s is no key

LiveStatus == {"CREATED", "ACTIVE", "PAUSED", "STOPPED", "EXPIRED"}
Terminal   == {"STOPPED", "EXPIRED"}
Running    == {"ACTIVE", "PAUSED"}

\* valid_transitions of MonitoringSession.transition_to.
Allowed(from) ==
    CASE from = "CREATED" -> {"ACTIVE"}
      [] from = "ACTIVE"  -> {"PAUSED", "STOPPED", "EXPIRED"}
      [] from = "PAUSED"  -> {"ACTIVE", "STOPPED", "EXPIRED"}
      [] OTHER            -> {}

LifecycleType == status \in [Sessions -> LiveStatus \cup {"ABSENT"}]

LifecycleInit == status = [s \in Sessions |-> "ABSENT"]

Begin(s) ==
    /\ status[s] = "ABSENT"
    /\ status' = [status EXCEPT ![s] = "CREATED"]

\* transition_to(target): refused unless the table allows it.
Move(s, target) ==
    /\ target \in Allowed(status[s])
    /\ status' = [status EXCEPT ![s] = target]

\* One expiration check may end several running sessions at once.
ExpireAll(E) ==
    /\ \A s \in E : "EXPIRED" \in Allowed(status[s])
    /\ status' = [s \in Sessions |-> IF s \in E THEN "EXPIRED" ELSE status[s]]

LoseAll == status' = [s \in Sessions |-> "ABSENT"]

LifecycleNext ==
    \/ \E s \in Sessions : Begin(s)
    \/ \E s \in Sessions, target \in LiveStatus : Move(s, target)
    \/ \E E \in SUBSET Sessions : ExpireAll(E)
    \/ LoseAll

LifecycleSpec == LifecycleInit /\ [][LifecycleNext]_status
=============================================================================
