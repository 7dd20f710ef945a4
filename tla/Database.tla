------------------------------- MODULE Database -------------------------------
(***************************************************************************)
(* The tunnels and users tables (internal/db/schema.sql) and the           *)
(* statements of internal/tunnels/repository.go, each of them atomic, as   *)
(* PostgreSQL runs one statement or one transaction.  A table is a set of  *)
(* rows.  The users table holds the ids the registration triggers made;    *)
(* an UPDATE of an absent user changes no row and is no error.             *)
(***************************************************************************)
EXTENDS Prefixes, FiniteSets

CONSTANTS
    Registered,   \* the users that have a row in the users table
    Types,        \* the tunnel types in use, among sit, gre and wg
    Statuses,     \* the statuses in use, among active and suspended
    IPs,          \* client IPv4 addresses
    Ulas,         \* ULA /64 networks of the endpoints
    Keys,         \* WireGuard client key pairs
    None          \* an absent value

VARIABLES tunnels, users

ASSUME TableAssumption ==
    /\ Registered \subseteq Users
    /\ Types \subseteq {"sit", "gre", "wg"}
    /\ "active" \in Statuses /\ Statuses \subseteq {"active", "suspended"}
    /\ Ulas \cap Nets = {}
    /\ None \notin Keys \cup Ulas \cup IPs \cup Types \cup Prefix \cup (Users \X Slots)

Ids == Users \X Slots

Row == [id : Ids, user : Users, type : Types, status : Statuses, ip : IPs,
        ula : Ulas, p1 : Prefix, p2 : Prefix, p3 : Prefix,
        key : Keys \cup {None}]

Prefixes3(row) == {row.p1, row.p2, row.p3}

-----------------------------------------------------------------------------
(* Queries *)

CountActiveTunnelsByUser(userID) ==
    Cardinality({t \in tunnels : t.user = userID /\ t.status = "active"})

TunnelIDExists(id) == \E t \in tunnels : t.id = id

IsPrefixInUse(p) == \E t \in tunnels : p \in Prefixes3(t)

GetTunnelByID(id) == {t \in tunnels : t.id = id}

-----------------------------------------------------------------------------
(* Statements that change a table *)

Greatest(a, b) == IF a >= b THEN a ELSE b

(* Mistake: the decrement without GREATEST.                                *)
AddToCountersUnfloored(userID, delta) ==
    users' = [u \in DOMAIN users |->
                IF u = userID
                THEN [created |-> users[u].created + delta, active |-> users[u].active + delta]
                ELSE users[u]]

AddToCounters(userID, delta) ==
    users' = [u \in DOMAIN users |->
                IF u = userID
                THEN [created |-> Greatest(users[u].created + delta, 0),
                      active  |-> Greatest(users[u].active + delta, 0)]
                ELSE users[u]]

(* Mistake: a tunnels table without its primary key.                       *)
InsertWithoutKey(row) ==
    /\ tunnels' = tunnels \cup {row}
    /\ AddToCounters(row.user, 1)

CreateTunnelWithTransaction(row) ==
    /\ ~TunnelIDExists(row.id)
    /\ tunnels' = tunnels \cup {row}
    /\ AddToCounters(row.user, 1)

(* Mistake: the update selects the rows of the user, not the tunnel.       *)
UpdateRowsOfUser(id, newClientIPv4) ==
    /\ tunnels' = {IF t.user = id[1] THEN [t EXCEPT !.ip = newClientIPv4] ELSE t : t \in tunnels}
    /\ UNCHANGED users

UpdateClientIPv4(id, newClientIPv4) ==
    /\ tunnels' = {IF t.id = id THEN [t EXCEPT !.ip = newClientIPv4] ELSE t : t \in tunnels}
    /\ UNCHANGED users

(* Mistake: the deletion selects the rows of the user, not the tunnel.     *)
DeleteRowsOfUser(id) ==
    /\ tunnels' = {t \in tunnels : t.user # id[1]}
    /\ UNCHANGED users

DeleteTunnel(id) ==
    /\ tunnels' = {t \in tunnels : t.id # id}
    /\ UNCHANGED users

(* Mistake: only the counter of created tunnels is decremented.            *)
DecrementCreatedOnly(userID) ==
    /\ users' = [u \in DOMAIN users |->
                   IF u = userID
                   THEN [users[u] EXCEPT !.created = Greatest(@ - 1, 0)]
                   ELSE users[u]]
    /\ UNCHANGED tunnels

DecrementUserTunnels(userID) ==
    /\ AddToCounters(userID, -1)
    /\ UNCHANGED tunnels

(* The database administrator suspends a tunnel or takes it up again: no   *)
(* code of the repository writes the column after the insertion.           *)
SetStatus(id, status) ==
    /\ tunnels' = {IF t.id = id THEN [t EXCEPT !.status = status] ELSE t : t \in tunnels}
    /\ UNCHANGED users

DatabaseInit ==
    /\ tunnels = {}
    /\ users = [u \in Registered |-> [created |-> 0, active |-> 0]]
=============================================================================
