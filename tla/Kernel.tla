-------------------------------- MODULE Kernel --------------------------------
(***************************************************************************)
(* What the commands the broker runs do to the host: SIT and GRE links,    *)
(* IPv6 routes and the peers of the one WireGuard interface.  The commands *)
(* are external programs; they are modelled from how the repository uses   *)
(* them.  A command is a record, refused commands change nothing.          *)
(***************************************************************************)
EXTENDS Database

CONSTANTS
    Wg0,          \* the interface of wireguard.interface
    WgStates      \* what InitWireGuardInterface may leave: TRUE when it is ready

VARIABLES
    links,        \* [dev, mode, remote, up, ula] of each SIT or GRE link
    routes,       \* [net, dev] of each route to a delegated prefix
    peers,        \* [key, allowed] of each peer of wg0
    wg0           \* that interface exists, is configured and up

ASSUME DeviceAssumption == Wg0 \notin Ids /\ WgStates \subseteq BOOLEAN

kernelVars == <<links, routes, peers, wg0>>

Link == [dev : Ids, mode : Types \ {"wg"}, remote : IPs, up : BOOLEAN, ula : Ulas \cup {None}]
Route == [net : Nets, dev : Ids \cup {Wg0}]
Peer == [key : Keys, allowed : SUBSET (Nets \cup Ulas)]

LinkOf(dev) == {l \in links : l.dev = dev}

Exists(dev) == LinkOf(dev) # {}

IsUp(dev) == IF dev = Wg0 THEN wg0 ELSE \E l \in LinkOf(dev) : l.up

(* Two links of one mode cannot share both end points.                     *)
EndpointTaken(c) == \E l \in links : l.mode = c.mode /\ l.remote = c.remote /\ l.dev # c.dev

-----------------------------------------------------------------------------
(* The commands, as the broker writes them *)

TunnelAdd(dev, mode, remote) == [verb |-> "tunnel add", dev |-> dev, mode |-> mode, remote |-> remote]
TunnelChange(dev, mode, remote) == [verb |-> "tunnel change", dev |-> dev, mode |-> mode, remote |-> remote]
TunnelDel(dev) == [verb |-> "tunnel del", dev |-> dev]
LinkUp(dev) == [verb |-> "link up", dev |-> dev]
AddrAdd(ula, dev) == [verb |-> "addr add", dev |-> dev, ula |-> ula]
RouteAdd(net, dev) == [verb |-> "route add", net |-> net, dev |-> dev]
RouteDel(net, dev) == [verb |-> "route del", net |-> net, dev |-> dev]
PeerSet(key, allowed) == [verb |-> "peer set", key |-> key, allowed |-> allowed]
PeerRemove(key) == [verb |-> "peer remove", key |-> key]

Command ==
    [verb : {"tunnel add", "tunnel change"}, dev : Ids, mode : Types \ {"wg"}, remote : IPs]
    \cup [verb : {"tunnel del", "link up"}, dev : Ids]
    \cup [verb : {"addr add"}, dev : Ids, ula : Ulas]
    \cup [verb : {"route add", "route del"}, net : Nets, dev : Ids \cup {Wg0}]
    \cup [verb : {"peer set"}, key : Keys, allowed : SUBSET (Nets \cup Ulas)]
    \cup [verb : {"peer remove"}, key : Keys]

Accepts(c) ==
    CASE c.verb = "tunnel add"    -> ~Exists(c.dev) /\ ~EndpointTaken(c)
      [] c.verb = "tunnel change" -> (\E l \in LinkOf(c.dev) : l.mode = c.mode) /\ ~EndpointTaken(c)
      [] c.verb = "tunnel del"    -> Exists(c.dev)
      [] c.verb = "link up"       -> Exists(c.dev)
      [] c.verb = "addr add"      -> \E l \in LinkOf(c.dev) : l.ula # c.ula
      [] c.verb = "route add"     -> IsUp(c.dev) /\ ~\E r \in routes : r.net = c.net
      [] c.verb = "route del"     -> [net |-> c.net, dev |-> c.dev] \in routes
      [] OTHER                    -> wg0

Altered(l, c) ==
    CASE c.verb = "tunnel change" -> [l EXCEPT !.remote = c.remote]
      [] c.verb = "link up"       -> [l EXCEPT !.up = TRUE]
      [] c.verb = "addr add"      -> [l EXCEPT !.ula = c.ula]

RunLink(c) ==
    \/ /\ c.verb = "tunnel add"
       /\ links' = links \cup {[dev |-> c.dev, mode |-> c.mode, remote |-> c.remote,
                                up |-> FALSE, ula |-> None]}
       /\ UNCHANGED routes
    \/ /\ c.verb \in {"tunnel change", "link up", "addr add"}
       /\ links' = {IF l.dev = c.dev THEN Altered(l, c) ELSE l : l \in links}
       /\ UNCHANGED routes
    \/ /\ c.verb = "tunnel del"
       /\ links' = links \ LinkOf(c.dev)
       /\ routes' = {r \in routes : r.dev # c.dev}

RunRoute(c) ==
    \/ /\ c.verb = "route add"
       /\ routes' = routes \cup {[net |-> c.net, dev |-> c.dev]}
    \/ /\ c.verb = "route del"
       /\ routes' = routes \ {[net |-> c.net, dev |-> c.dev]}

(* WireGuard moves an allowed network from the peer that had it to the one *)
(* that asks for it.                                                       *)
RunPeer(c) ==
    LET others == {p \in peers : p.key # c.key} IN
    \/ /\ c.verb = "peer set"
       /\ peers' = {[p EXCEPT !.allowed = @ \ c.allowed] : p \in others}
                   \cup {[key |-> c.key, allowed |-> c.allowed]}
    \/ /\ c.verb = "peer remove"
       /\ peers' = others

Run(c) ==
    /\ Accepts(c)
    /\ \/ RunLink(c)  /\ UNCHANGED peers
       \/ RunRoute(c) /\ UNCHANGED <<links, peers>>
       \/ RunPeer(c)  /\ UNCHANGED <<links, routes>>
    /\ UNCHANGED wg0

KernelInit == links = {} /\ routes = {} /\ peers = {} /\ wg0 \in WgStates
=============================================================================
