------------------------------- MODULE Recovery -------------------------------
(***************************************************************************)
(* cmd/tunnelrecovery beside the broker: systemd runs it each time the     *)
(* service has started (ExecStartPost), after a restart, which leaves the  *)
(* kernel as it was, and after a reboot, which empties it.  It reads the   *)
(* table once through GET /tunnels, then the links, then the peers, and    *)
(* runs the creation commands of the active tunnels it found missing,      *)
(* while the broker already serves requests.                               *)
(*                                                                         *)
(* The order of the list (ORDER BY created_at DESC) is left open.  When    *)
(* the API failed three times the program dies, and the service with it:   *)
(* that systemd starts it again is one more ServiceRestart.                *)
(***************************************************************************)
EXTENDS BrokerProperties

VARIABLE rec           \* what the recovery program is doing

recoveryVars == <<vars, rec>>

Off == [pc |-> "off", tries |-> 0, left |-> {}, devs |-> {}, keys |-> {}, todo |-> <<>>]

-----------------------------------------------------------------------------
(* The service starts *)

Starting == [Off EXCEPT !.pc = "fetch", !.tries = 1]

Started == rec' = Starting

ServiceRestart == Restart /\ Started

(* The host reboots: links, routes and peers are gone, the tables stay.    *)
Reboot ==
    /\ Fault
    /\ req' = [w \in Workers |-> Idle]
    /\ links' = {} /\ routes' = {} /\ peers' = {} /\ wg0' \in WgStates
    /\ UNCHANGED dbVars
    /\ Started

-----------------------------------------------------------------------------
(* The program *)

Fetch ==
    /\ rec.pc = "fetch"
    /\ rec' = [rec EXCEPT !.pc = "links", !.left = tunnels]
    /\ UNCHANGED vars

(* The API is tried three times.                                           *)
FetchFails ==
    /\ Fault
    /\ rec.pc = "fetch" /\ rec.tries < 3
    /\ rec' = [rec EXCEPT !.tries = @ + 1]
    /\ UNCHANGED <<dbVars, kernelVars, req>>

ListLinks ==
    /\ rec.pc = "links"
    /\ rec' = [rec EXCEPT !.pc = "peers", !.devs = {l.dev : l \in links}]
    /\ UNCHANGED vars

ListPeers ==
    /\ rec.pc = "peers"
    /\ rec' = [rec EXCEPT !.pc = "loop", !.keys = IF wg0 THEN {p.key : p \in peers} ELSE {}]
    /\ UNCHANGED vars

(* Links or peers that cannot be listed are taken for none at all.         *)
ListFails ==
    /\ Fault
    /\ rec.pc \in {"links", "peers"}
    /\ rec' = [rec EXCEPT !.pc = IF @ = "links" THEN "peers" ELSE "loop"]
    /\ UNCHANGED <<dbVars, kernelVars, req>>

Missing(row) ==
    /\ row.status = "active"
    /\ IF row.type = "wg" THEN row.key \notin rec.keys ELSE row.id \notin rec.devs

(* Mistake: the route to the second prefix is left out.                    *)
RecreateFirstRoute(row) ==
    SelectSeq(CreateCommands(row), LAMBDA c : c.verb # "route add" \/ c.net # Net(row.p2))

(* Mistake: what is left of a tunnel is removed before it is recreated.    *)
RecreateFromScratch(row) == DeleteCommands(row) \o CreateCommands(row)

(* The same commands, in the same order, as for the creation.              *)
RecreateCommands(row) == CreateCommands(row)

(* Mistake: a tunnel that is in place stays in the list.                   *)
KeepPresentTunnel ==
    /\ rec.pc = "loop"
    /\ \E row \in rec.left :
         rec' = IF Missing(row)
                THEN [rec EXCEPT !.pc = "exec", !.left = @ \ {row}, !.todo = RecreateCommands(row)]
                ELSE rec
    /\ UNCHANGED vars

NextTunnel ==
    /\ rec.pc = "loop"
    /\ \E row \in rec.left :
         rec' = IF Missing(row)
                THEN [rec EXCEPT !.pc = "exec", !.left = @ \ {row}, !.todo = RecreateCommands(row)]
                ELSE [rec EXCEPT !.left = @ \ {row}]
    /\ UNCHANGED vars

Finish ==
    /\ rec.pc = "loop" /\ rec.left = {}
    /\ rec' = Off
    /\ UNCHANGED vars

(* The kernel answers "File exists" to a route to a network it has one to. *)
RouteExists(c) == c.verb = "route add" /\ IsUp(c.dev) /\ \E r \in routes : r.net = c.net

GoOn == rec' = LET rest == Tail(rec.todo) IN
               [rec EXCEPT !.todo = rest, !.pc = IF rest = <<>> THEN "loop" ELSE "exec"]

GiveUpTunnel == rec' = [rec EXCEPT !.todo = <<>>, !.pc = "loop"]

Recreate ==
    /\ rec.pc = "exec"
    /\ Run(Head(rec.todo))
    /\ GoOn
    /\ UNCHANGED <<dbVars, req, faults>>

RouteSkipped ==
    /\ rec.pc = "exec"
    /\ RouteExists(Head(rec.todo))
    /\ GoOn
    /\ UNCHANGED vars

RecreateRefused ==
    /\ rec.pc = "exec"
    /\ ~Accepts(Head(rec.todo)) /\ ~RouteExists(Head(rec.todo))
    /\ GiveUpTunnel
    /\ UNCHANGED vars

RecreateFails ==
    /\ Fault
    /\ rec.pc = "exec"
    /\ GiveUpTunnel
    /\ UNCHANGED <<dbVars, kernelVars, req>>

-----------------------------------------------------------------------------

(* The first start recovered nothing: the table was empty.                 *)
RecoveryInit == Init /\ rec = Off

RecoveryStep ==
    \/ Fetch \/ ListLinks \/ ListPeers \/ NextTunnel \/ Finish
    \/ Recreate \/ RouteSkipped \/ RecreateRefused

RecoveryFailure == FetchFails \/ ListFails \/ RecreateFails

(* The keys of the tunnels the program has yet to recreate.                *)
HeldKeys ==
    {row.key : row \in rec.left}
    \cup {rec.todo[i].key : i \in {i \in DOMAIN rec.todo : rec.todo[i].verb = "peer set"}}

(* No new key pair is one of those, and, as in module Broker, a WireGuard  *)
(* creation starts only while there are fresh ones for every worker.       *)
KeysStayFresh ==
    \A w \in Workers :
        /\ At(w, "create", "prefix3") => req'[w].row.key \notin HeldKeys \ {None}
        /\ req[w] = Idle /\ req'[w].row.type = "wg" =>
              Cardinality(FreshKeys \ HeldKeys) >= Cardinality(Workers)

Requests == (Serve \/ ChangeStatus) /\ KeysStayFresh /\ UNCHANGED rec

RecoveryNext == Requests \/ ServiceRestart \/ Reboot \/ RecoveryStep \/ RecoveryFailure

RecoverySpec == RecoveryInit /\ [][RecoveryNext]_recoveryVars
=============================================================================
