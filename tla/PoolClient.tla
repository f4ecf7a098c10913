------------------------------ MODULE PoolClient ------------------------------
(* What a pool strategy knows of a client, and what the two may do to each    *)
(* other: the interface between StratumClient, which implements it, and       *)
(* Pools, which uses it (IClient and IClientListener,                         *)
(* src/base/kernel/interfaces/).                                              *)

VARIABLES
    phase,       \* see Phases
    wanted       \* FALSE: disconnected by the strategy (m_failures is -1)

vars == <<phase, wanted>>

(* A client is off, looks up its host, connects and logs in, is logged in,    *)
(* closes its socket, waits before it tries again, or is deleted.             *)
Phases == {"off", "lookup", "login", "in", "closing", "waiting", "deleted"}

Init == phase = "off" /\ wanted = TRUE

-----------------------------------------------------------------------------
(* The strategy                                                               *)

(* It connects a client at rest, or one that it disconnected and that still   *)
(* looks up its host: the newer lookup replaces the older.  Never one that    *)
(* has a socket, which Client::connect would overwrite.                       *)
Connect ==
    /\ phase = "off" \/ (phase = "lookup" /\ ~wanted)
    /\ phase' = "lookup" /\ wanted'

(* A lookup is not cancelled, and a socket takes its time to close.           *)
Disconnect ==
    /\ phase # "deleted"
    /\ phase' = CASE phase \in {"login", "in"} -> "closing"
                  [] phase = "waiting"         -> "off"
                  [] OTHER                     -> phase
    /\ ~wanted'

Delete == phase' = "deleted" /\ ~wanted'

-----------------------------------------------------------------------------
(* The client                                                                 *)

Resolved ==
    /\ phase = "lookup"
    /\ phase' = "login"
    /\ UNCHANGED wanted

(* The login is accepted, even of one that was disconnected during its lookup *)
LoggedIn ==
    /\ phase = "login"
    /\ phase' = "in" /\ wanted'

Dropped ==
    /\ phase \in {"login", "in"}
    /\ phase' = "closing"
    /\ UNCHANGED wanted

(* The listener hears onClose; a client it disconnected does not try again.   *)
Closed ==
    /\ phase \in {"lookup", "closing"}
    /\ phase' = IF wanted THEN "waiting" ELSE "off"
    /\ UNCHANGED wanted

Retry ==
    /\ phase = "waiting"
    /\ phase' = "lookup"
    /\ UNCHANGED wanted

Next ==
    \/ Connect \/ Disconnect \/ Delete
    \/ Resolved \/ LoggedIn \/ Dropped \/ Closed \/ Retry

Spec == Init /\ [][Next]_vars
=============================================================================
