------------------------------- MODULE ClientEnd -------------------------------
(***************************************************************************)
(* The client's end of a tunnel: the commands the API answers for the      *)
(* client to run (internal/tunnels/service.go and handler.go), and what    *)
(* they make of its machine.  A client runs those of the answer to its     *)
(* creation, then the one of each update, and removes its interface when   *)
(* its tunnel is deleted.  That is recorded when the handler writes the    *)
(* commands; an id met by trouble is given up, as an answer that never     *)
(* comes is.  The commands are external programs, modelled as in Kernel.   *)
(***************************************************************************)
EXTENDS BrokerIsolation

CONSTANTS
    ServerIP,     \* server.ipv4
    ServerKey     \* the public key of the server's interface

VARIABLE client   \* the interface of each tunnel on its client's machine

cvars == <<hvars, client>>

-----------------------------------------------------------------------------
(* The client's machine.  An address is its network and the last group.    *)

Broken == [mode |-> "broken"]

Interface(mode, local, remote) ==
    [mode |-> mode, local |-> local, remote |-> remote, up |-> FALSE,
     addrs |-> {}, default |-> FALSE, key |-> None, server |-> None]

Interfaces ==
    [mode : Types, local : IPs \cup {None}, remote : {ServerIP, None}, up : BOOLEAN,
     addrs : SUBSET ((Nets \cup Ulas) \X {1, 2}), default : BOOLEAN,
     key : Keys \cup {None}, server : {<<ServerKey, ServerIP>>, None}]

(* None stands for no interface.                                           *)
ASSUME InterfaceAssumption == None \notin Interfaces

LinkAdd(mode, local, remote) ==
    [verb |-> "link add", mode |-> mode, local |-> local, remote |-> remote]
LinkChange(mode, remote, local) ==
    [verb |-> "link change", mode |-> mode, local |-> local, remote |-> remote]
SetUp == [verb |-> "link up"]
Address(net, host) == [verb |-> "addr add", addr |-> <<net, host>>]
DefaultRoute(via) == [verb |-> "default route", via |-> via]
KeyFile(key) == [verb |-> "key file", key |-> key]
WgSet(server, endpoint) == [verb |-> "wg set", server |-> <<server, endpoint>>]

OnLink(e, via) == via = None \/ \E a \in e.addrs : a[1] = via[1] /\ a # via

Takes(e, c) ==
    IF c.verb = "link add"
    THEN e = None
    ELSE /\ e \notin {None, Broken}
         /\ CASE c.verb = "link change"   -> e.mode = c.mode
              [] c.verb = "addr add"      -> c.addr \notin e.addrs
              [] c.verb = "default route" -> e.up /\ ~e.default /\ OnLink(e, c.via)
              [] c.verb = "wg set"        -> e.mode = "wg" /\ e.key # None
              [] OTHER                    -> TRUE

Made(e, c) ==
    CASE c.verb = "link add"      -> Interface(c.mode, c.local, c.remote)
      [] c.verb = "link change"   -> [e EXCEPT !.local = c.local, !.remote = c.remote]
      [] c.verb = "addr add"      -> [e EXCEPT !.addrs = @ \cup {c.addr}]
      [] c.verb = "default route" -> [e EXCEPT !.default = TRUE]
      [] c.verb = "key file"      -> [e EXCEPT !.key = c.key]
      [] c.verb = "wg set"        -> [e EXCEPT !.server = c.server]
      [] c.verb = "link up"       -> [e EXCEPT !.up = TRUE]

Ran(e, c) == IF Takes(e, c) THEN Made(e, c) ELSE Broken

RanAll(e, commands) ==
    LET after[i \in 0 .. Len(commands)] == IF i = 0 THEN e ELSE Ran(after[i - 1], commands[i])
    IN  after[Len(commands)]

-----------------------------------------------------------------------------
(* The commands of the API *)

(* The endpoint address ::2, and ::1 in each delegated prefix.             *)
Addresses(row) ==
    <<Address(row.ula, 2), Address(Net(row.p1), 1), Address(Net(row.p2), 1), Address(Net(row.p3), 1)>>

Gateway(row) == <<row.ula, 1>>

WireGuardClient(row) ==
    <<LinkAdd("wg", None, None)>> \o Addresses(row)
    \o <<KeyFile(row.key), WgSet(ServerKey, ServerIP), SetUp, DefaultRoute(None)>>

(* The answer to a creation.                                               *)
CreationCommands(row) ==
    IF row.type = "wg"
    THEN WireGuardClient(row)
    ELSE <<LinkAdd(row.type, row.ip, ServerIP), SetUp>> \o Addresses(row)
         \o <<DefaultRoute(Gateway(row))>>

(* Mistake: the two ends of the link are the server's.                     *)
UpdateAsServer(row, ip) == LinkChange(row.type, ip, ServerIP)

(* The answer to an update, of a SIT or GRE tunnel.                        *)
UpdateCommand(row, ip) == LinkChange(row.type, ServerIP, ip)

(* Mistake: the interface is configured before its key is in the file.     *)
KeyAfterUse(row) ==
    [server |-> CreateCommands(row),
     client |-> <<LinkAdd("wg", None, None)>> \o Addresses(row)
                \o <<WgSet(ServerKey, ServerIP), KeyFile(row.key), SetUp, DefaultRoute(None)>>]

(* What the listings answer: the third prefix, which old rows do not have, *)
(* comes last, after the default route of a SIT or GRE client.             *)
generateTunnelCommands(row) ==
    [server |-> IF row.type = "wg"
                THEN <<PeerSet(row.key, AllowedIPs(row)), RouteAdd(Net(row.p1), Wg0),
                       RouteAdd(Net(row.p2), Wg0)>> \o <<RouteAdd(Net(row.p3), Wg0)>>
                ELSE <<TunnelAdd(row.id, row.type, row.ip), LinkUp(row.id), AddrAdd(row.ula, row.id),
                       RouteAdd(Net(row.p1), row.id), RouteAdd(Net(row.p2), row.id)>>
                     \o <<RouteAdd(Net(row.p3), row.id)>>,
     client |-> IF row.type = "wg"
                THEN WireGuardClient(row)
                ELSE <<LinkAdd(row.type, row.ip, ServerIP), SetUp>> \o SubSeq(Addresses(row), 1, 3)
                     \o <<DefaultRoute(Gateway(row)), Address(Net(row.p3), 1)>>]

-----------------------------------------------------------------------------

(* The goroutines that write their commands in this step, which then act   *)
(* on the id of the tunnel.                                                *)
Writers == {w \in Workers : req[w].pc \in {"commit", "select"} /\ req'[w].pc = "exec"}

(* What the answer of w makes of its client's interface.                   *)
Told(w, e) ==
    IF req[w].op = "create"
    THEN RanAll(None, CreationCommands(req[w].row))
    ELSE LET row == CHOOSE t \in tunnels : t.id = req[w].id
         IN  Ran(e, UpdateCommand(row, req[w].ip))

CInit == HInit /\ client = [id \in Ids |-> None]

(* Without trouble at most one goroutine acts on an id.                    *)
ClientsTold ==
    LET writers == Writers IN
    client' = [id \in Ids |->
        IF id \in troubled' THEN None
        ELSE IF \E w \in writers : req'[w].id = id
        THEN Told(CHOOSE w \in writers : req'[w].id = id, client[id])
        ELSE IF client[id] # None /\ TunnelIDExists(id)' THEN client[id]
        ELSE None]

CNext == HNext /\ ClientsTold

CSpec == CInit /\ [][CNext]_cvars

-----------------------------------------------------------------------------

(* The server's link or peer lets in what the client's end sends, and      *)
(* sends it there.                                                         *)
Meets(e, row) ==
    IF row.type = "wg"
    THEN /\ e.server = <<ServerKey, ServerIP>>
         /\ \E p \in peers : p.key = e.key /\ MainNets(row) \subseteq p.allowed
    ELSE \E l \in LinkOf(row.id) :
             /\ l.mode = e.mode /\ l.remote = e.local /\ e.remote = ServerIP
             /\ <<l.ula, 2>> \in e.addrs

(* The two ends of a tunnel whose requests ran without trouble fit: what   *)
(* the client built from the answers it was given, one after the other, is *)
(* what today's listing would have it build at once, it has an address in  *)
(* each prefix and a default route into the tunnel, and the server's end,  *)
(* whatever other requests ran, is the other end of it.                    *)
EndsAgree ==
    \A t \in tunnels : Quiet(t.id) =>
        LET e == client[t.id]
            listed == generateTunnelCommands(t)
        IN  /\ e = RanAll(None, listed.client)
            /\ e # Broken /\ e.up /\ e.default
            /\ \A net \in MainNets(t) : <<net, 1>> \in e.addrs
            /\ Meets(e, t)
            /\ listed.server = CreateCommands(t)
=============================================================================
