---------------------------- MODULE CameraCatalog -----------------------------
(***************************************************************************)
(* What the `cameras' collection promises to whoever reads it, with no     *)
(* runtime around it: a camera has one owner, and another venue takes its  *)
(* id over only as a camera that was never started; the statuses stored    *)
(* are those a request decided, never what a health check has guessed; and *)
(* a camera that was deleted does not come back by being switched on or    *)
(* off. CameraRuntime refines this module.                                 *)
(***************************************************************************)
CONSTANTS
    Cameras,      \* camera ids
    Venues,       \* venue ids
    NoVenue       \* owner of a camera that has no document

VARIABLE doc      \* document of each camera

NoDoc == [venue |-> NoVenue, status |-> "ABSENT"]

Switched == {"ONLINE", "OFFLINE"}

CatalogInit == doc = [c \in Cameras |-> NoDoc]

Publish(c, v) == doc' = [doc EXCEPT ![c] = [venue |-> v, status |-> "REGISTERED"]]

Switch(c, s) ==
    /\ doc[c] # NoDoc
    /\ doc' = [doc EXCEPT ![c].status = s]

Withdraw(c) == doc' = [doc EXCEPT ![c] = NoDoc]

\* Reconciliation at start-up: whatever was on is off.
Settle ==
    doc' = [c \in Cameras |-> IF doc[c].status \in {"ONLINE", "RECONNECTING"}
                              THEN [doc[c] EXCEPT !.status = "OFFLINE"] ELSE doc[c]]

CatalogNext ==
    \/ \E c \in Cameras, v \in Venues : Publish(c, v)
    \/ \E c \in Cameras, s \in Switched : Switch(c, s)
    \/ \E c \in Cameras : Withdraw(c)
    \/ Settle

CatalogSpec == CatalogInit /\ [][CatalogNext]_doc
=============================================================================
