----------------------------- MODULE CommandProofs -----------------------------
(***************************************************************************)
(* What the commands still to be run can do, whoever runs them.  They were *)
(* computed from one row and may be executed much later: that they concern *)
(* one tunnel and its keys only, what they have still to do for it, and    *)
(* what each step of a goroutine does to the keys in use.  The proofs      *)
(* about requests on one tunnel and about the recovery build on these      *)
(* lemmas.                                                                 *)
(***************************************************************************)
EXTENDS BrokerProofs

-----------------------------------------------------------------------------
(* The networks of one row *)

LEMMA NetGroup ==
  ASSUME NEW p \in Prefix, NEW u \in Users, ParsesAsHex(u), p.group \in {u, Canonical[u]}
  PROVE  Net(p).group = Canonical[u]
  BY UserAssumption DEF Prefix, Net, ParsesAsHex

LEMMA RowGroups ==
  ASSUME NEW row \in Row, WellFormed(row)
  PROVE  /\ row.id[1] = row.user
         /\ Net(row.p1).group = Canonical[row.user]
         /\ Net(row.p2).group = Canonical[row.user]
         /\ Net(row.p3).group = Canonical[row.user]
  <1>1. row.user \in Users
    BY DEF Row
  <1> QED BY <1>1, NetGroup DEF WellFormed, OwnId, FirstFromPool, SecondFromPool, ThirdFromPool

-----------------------------------------------------------------------------
(* The commands of a sequence *)

Of(todo) == {todo[i] : i \in 1 .. Len(todo)}

Dev(t) == IF t.type = "wg" THEN Wg0 ELSE t.id

Change(t) == TunnelChange(t.id, t.type, t.ip)

OwnCommands(t) == Of(CreateCommands(t)) \cup (IF t.type = "wg" THEN {} ELSE {Change(t)})

LEMMA OfRest ==
  ASSUME NEW S, NEW s \in Seq(S), s # <<>>
  PROVE  /\ Head(s) \in S /\ Head(s) \in Of(s)
         /\ Of(Tail(s)) \subseteq Of(s) /\ Of(s) \subseteq {Head(s)} \cup Of(Tail(s))
  <1>1. /\ Head(s) = s[1] /\ Len(s) >= 1 /\ Len(s) \in Nat
        /\ Len(Tail(s)) = Len(s) - 1
        /\ \A i \in 1 .. (Len(s) - 1) : Tail(s)[i] = s[i + 1]
    OBVIOUS
  <1>2. Head(s) \in Of(s) /\ Head(s) \in S
    BY <1>1 DEF Of
  <1>3. ASSUME NEW c \in Of(Tail(s)) PROVE c \in Of(s)
    <2>1. PICK i \in 1 .. (Len(s) - 1) : c = Tail(s)[i]
      BY <1>1 DEF Of
    <2>2. i + 1 \in 1 .. Len(s) /\ c = s[i + 1]
      BY <1>1, <2>1
    <2> QED BY <2>2 DEF Of
  <1>4. ASSUME NEW c \in Of(s), c # Head(s) PROVE c \in Of(Tail(s))
    <2>1. PICK i \in 1 .. Len(s) : c = s[i]
      BY DEF Of
    <2>2. i # 1
      BY <1>1, <1>4, <2>1
    <2>3. i - 1 \in 1 .. (Len(s) - 1) /\ Tail(s)[i - 1] = s[i]
      BY <1>1, <2>2
    <2> QED BY <1>1, <2>1, <2>3 DEF Of
  <1> QED BY <1>2, <1>3, <1>4

LEMMA OfNone == Of(<<>>) = {}
  BY DEF Of

LEMMA OfOne ==
  ASSUME NEW a
  PROVE  Of(<<a>>) = {a}
  BY DEF Of

LEMMA OfFour ==
  ASSUME NEW a, NEW b, NEW c, NEW d
  PROVE  Of(<<a, b, c, d>>) = {a, b, c, d}
  BY DEF Of

LEMMA OfSix ==
  ASSUME NEW a, NEW b, NEW c, NEW d, NEW e, NEW f
  PROVE  Of(<<a, b, c, d, e, f>>) = {a, b, c, d, e, f}
  BY DEF Of

LEMMA CreateSet ==
  ASSUME NEW t
  PROVE  Of(CreateCommands(t)) =
           {RouteAdd(Net(t.p1), Dev(t)), RouteAdd(Net(t.p2), Dev(t)), RouteAdd(Net(t.p3), Dev(t))}
           \cup (IF t.type = "wg"
                 THEN {PeerSet(t.key, AllowedIPs(t))}
                 ELSE {TunnelAdd(t.id, t.type, t.ip), LinkUp(t.id), AddrAdd(t.ula, t.id)})
  BY OfFour, OfSix DEF CreateCommands, Dev

LEMMA DeleteSet ==
  ASSUME NEW t
  PROVE  Of(DeleteCommands(t)) =
           IF t.type = "wg"
           THEN {PeerRemove(t.key), RouteDel(Net(t.p1), Wg0), RouteDel(Net(t.p2), Wg0),
                 RouteDel(Net(t.p3), Wg0)}
           ELSE {TunnelDel(t.id)}
  BY OfFour, OfOne DEF DeleteCommands

-----------------------------------------------------------------------------
(* The networks of a tunnel name its id, and so do its commands *)

NetFor(n, id) ==
    /\ n.group = Canonical[id[1]]
    /\ n.pool \in {Primary[id[2]], Secondary[id[2]], Third, AltThird}

Concerns(c, id, key) ==
    /\ c.verb \in {"tunnel add", "tunnel change", "tunnel del", "link up", "addr add"} => c.dev = id
    /\ c.verb \in {"route add", "route del"} => c.dev \in {id, Wg0} /\ NetFor(c.net, id)
    /\ c.verb \in {"peer set", "peer remove"} => c.key = key
    /\ c.verb = "peer set" => \A n \in c.allowed \cap Nets : NetFor(n, id)

LEMMA OwnNets ==
  ASSUME NEW t \in Row, WellFormed(t), NEW p \in Prefixes3(t)
  PROVE  NetFor(Net(p), t.id)
  <1>1. Net(t.p1).pool = t.p1.pool /\ Net(t.p2).pool = t.p2.pool /\ Net(t.p3).pool = t.p3.pool
    BY DEF Net, Row, Prefix
  <1> QED BY <1>1, RowGroups DEF NetFor, Prefixes3, WellFormed, OwnId, FirstFromPool, SecondFromPool,
             ThirdFromPool

LEMMA NetsApart ==
  ASSUME DistinctNumbers, NEW t \in Row, WellFormed(t), NEW n \in MainNets(t),
         NEW id \in Ids, NetFor(n, id)
  PROVE  id = t.id
  <1>1. /\ t.user \in Users /\ ParsesAsHex(t.user) /\ t.id \in Ids /\ t.id[1] = t.user
        /\ n.group = Canonical[t.user]
        /\ n.pool \in {Primary[t.id[2]], Secondary[t.id[2]]}
    <2>1. Net(t.p1).pool = t.p1.pool /\ Net(t.p2).pool = t.p2.pool
      BY DEF Net, Row, Prefix
    <2> QED BY <2>1, RowGroups DEF MainNets, Row, WellFormed, OwnId, FirstFromPool, SecondFromPool
  <1>2. id[1] = t.id[1]
    BY <1>1 DEF NetFor, DistinctNumbers, Ids
  <1>3. id[2] \in Slots /\ t.id[2] \in Slots
    BY <1>1 DEF Ids
  <1>4. id[2] = t.id[2]
    <2> DEFINE i == id[2]
               j == t.id[2]
    <2>1. i \in {1, 2} /\ j \in {1, 2}
      BY <1>3 DEF Slots
    <2>2. {Primary[j], Secondary[j]} \cap {Primary[i], Secondary[i], Third, AltThird} # {}
      BY <1>1 DEF NetFor
    <2> HIDE DEF i, j
    <2>3. i = j
      BY <2>1, <2>2, PoolAssumption DEF Slots
    <2> QED BY <2>3 DEF i, j
  <1> QED BY <1>1, <1>2, <1>4 DEF Ids

LEMMA CreateConcerns ==
  ASSUME NEW t \in Row, WellFormed(t), NEW c \in OwnCommands(t)
  PROVE  Concerns(c, t.id, t.key)
  <1>1. \A p \in Prefixes3(t) : NetFor(Net(p), t.id)
    BY OwnNets
  <1>2. \A n \in AllowedIPs(t) \cap Nets : NetFor(n, t.id)
    BY <1>1, TableAssumption DEF AllowedIPs, Row
  <1>3. Concerns(PeerSet(t.key, AllowedIPs(t)), t.id, t.key)
    BY <1>2 DEF PeerSet, Concerns
  <1>4. \A p \in Prefixes3(t) : Concerns(RouteAdd(Net(p), Dev(t)), t.id, t.key)
    BY <1>1 DEF RouteAdd, Concerns, Dev
  <1>5. /\ Concerns(TunnelAdd(t.id, t.type, t.ip), t.id, t.key) /\ Concerns(Change(t), t.id, t.key)
        /\ Concerns(LinkUp(t.id), t.id, t.key) /\ Concerns(AddrAdd(t.ula, t.id), t.id, t.key)
    BY DEF TunnelAdd, Change, TunnelChange, LinkUp, AddrAdd, Concerns
  <1> QED BY <1>3, <1>4, <1>5, CreateSet DEF OwnCommands, Prefixes3

LEMMA DeleteConcerns ==
  ASSUME NEW t \in Row, WellFormed(t), NEW c \in Of(DeleteCommands(t))
  PROVE  Concerns(c, t.id, t.key)
  <1>1. \A p \in Prefixes3(t) : Concerns(RouteDel(Net(p), Wg0), t.id, t.key)
    BY OwnNets DEF RouteDel, Concerns
  <1>2. Concerns(PeerRemove(t.key), t.id, t.key) /\ Concerns(TunnelDel(t.id), t.id, t.key)
    BY DEF PeerRemove, TunnelDel, Concerns
  <1> QED BY <1>1, <1>2, DeleteSet DEF Prefixes3

-----------------------------------------------------------------------------
(* What a command does to the tunnels it does not concern, and to its own *)

(* The tunnel t is configured but for what the commands in rest, which     *)
(* somebody has yet to run, are about to do.                               *)
RoutesSettled(t, rest) ==
    \A n \in MainNets(t) : [net |-> n, dev |-> Dev(t)] \in routes \/ RouteAdd(n, Dev(t)) \in rest

PeerSettled(t, rest) ==
    \/ \E p \in peers : p.key = t.key /\ MainNets(t) \subseteq p.allowed
    \/ PeerSet(t.key, AllowedIPs(t)) \in rest

LinkSettled(t, rest) ==
    \/ /\ LinkOf(t.id) = {}
       /\ {TunnelAdd(t.id, t.type, t.ip), LinkUp(t.id), AddrAdd(t.ula, t.id)} \subseteq rest
    \/ \E l \in LinkOf(t.id) :
         /\ l.mode = t.type
         /\ l.remote = t.ip \/ Change(t) \in rest
         /\ l.up = TRUE \/ LinkUp(t.id) \in rest
         /\ l.ula = t.ula \/ AddrAdd(t.ula, t.id) \in rest

Settled(t, rest) ==
    /\ RoutesSettled(t, rest)
    /\ t.type = "wg" => PeerSettled(t, rest)
    /\ t.type # "wg" => LinkSettled(t, rest)

LEMMA AlteredDev ==
  ASSUME NEW c, c.verb \in {"tunnel change", "link up", "addr add"}
  PROVE  \A l \in Link : Altered(l, c).dev = l.dev
  BY DEF Altered, Link

LEMMA LinksElsewhere ==
  ASSUME KernelTyped, NEW c \in Command, Run(c), NEW id, NEW key, Concerns(c, id, key),
         NEW j \in Ids, j # id
  PROVE  LinkOf(j)' = LinkOf(j)
  <1>1. CASE c.verb = "tunnel add"
    <2>1. c.dev = id /\ links' = links \cup {[dev |-> c.dev, mode |-> c.mode, remote |-> c.remote,
                                              up |-> FALSE, ula |-> None]}
      BY <1>1 DEF Concerns, Run, RunLink, RunRoute, RunPeer
    <2> QED BY <2>1 DEF LinkOf
  <1>2. CASE c.verb \in {"tunnel change", "link up", "addr add"}
    <2>1. c.dev = id /\ links' = {IF l.dev = c.dev THEN Altered(l, c) ELSE l : l \in links}
      BY <1>2 DEF Concerns, Run, RunLink, RunRoute, RunPeer
    <2>2. ASSUME NEW l \in links PROVE Altered(l, c).dev = l.dev
      <3>1. l \in Link
        BY DEF KernelTyped
      <3>2. \A m \in Link : Altered(m, c).dev = m.dev
        BY <1>2 DEF Altered, Link
      <3> QED BY <3>1, <3>2
    <2> QED BY <2>1, <2>2 DEF LinkOf
  <1>3. CASE c.verb = "tunnel del"
    <2>1. c.dev = id /\ links' = links \ LinkOf(id)
      BY <1>3 DEF Concerns, Run, RunLink, RunRoute, RunPeer
    <2> QED BY <2>1 DEF LinkOf
  <1>4. CASE c.verb \notin {"tunnel add", "tunnel change", "link up", "addr add", "tunnel del"}
    BY <1>4 DEF Run, RunLink, LinkOf
  <1> QED BY <1>1, <1>2, <1>3, <1>4

LEMMA RoutesElsewhere ==
  ASSUME DistinctNumbers, NEW t \in Row, WellFormed(t), NEW c \in Command, Run(c),
         NEW id \in Ids, NEW key, Concerns(c, id, key), id # t.id, NEW n \in MainNets(t),
         [net |-> n, dev |-> Dev(t)] \in routes
  PROVE  [net |-> n, dev |-> Dev(t)] \in routes'
  <1>1. Dev(t) # id
    BY DeviceAssumption DEF Dev, Ids
  <1>2. CASE c.verb = "tunnel del"
    BY <1>1, <1>2 DEF Concerns, Run, RunLink, RunRoute, RunPeer
  <1>3. CASE c.verb = "route del"
    <2>1. NetFor(c.net, id)
      BY <1>3 DEF Concerns
    <2>2. c.net # n
      BY <2>1, NetsApart
    <2> QED BY <1>3, <2>2 DEF Run, RunLink, RunRoute, RunPeer
  <1>4. CASE c.verb \notin {"tunnel del", "route del"}
    BY <1>4 DEF Run, RunLink, RunRoute, RunPeer
  <1> QED BY <1>2, <1>3, <1>4

LEMMA MainNetsType ==
  ASSUME NEW t \in Row, WellFormed(t)
  PROVE  MainNets(t) \subseteq Nets /\ MainNets(t) \subseteq AllowedIPs(t)
  BY RowNets DEF MainNets, AllowedIPs, Prefixes3, Row

LEMMA PeerElsewhere ==
  ASSUME KernelTyped, DistinctNumbers, NEW t \in Row, WellFormed(t), NEW c \in Command, Run(c),
         NEW id \in Ids, NEW key, Concerns(c, id, key), id # t.id, key # t.key,
         NEW p \in peers, p.key = t.key, MainNets(t) \subseteq p.allowed
  PROVE  \E q \in peers' : q.key = t.key /\ MainNets(t) \subseteq q.allowed
  <1>1. CASE c.verb = "peer set"
    <2> DEFINE q == [p EXCEPT !.allowed = @ \ c.allowed]
    <2>1. c.key # p.key
      BY <1>1 DEF Concerns
    <2>2. q \in peers'
      BY <1>1, <2>1 DEF Run, RunLink, RunRoute, RunPeer
    <2>3. q.key = t.key /\ q.allowed = p.allowed \ c.allowed
      BY DEF KernelTyped, Peer
    <2>4. MainNets(t) \cap c.allowed = {}
      BY <1>1, NetsApart, MainNetsType DEF Concerns
    <2> HIDE DEF q
    <2> QED BY <2>2, <2>3, <2>4
  <1>2. CASE c.verb = "peer remove"
    BY <1>2 DEF Concerns, Run, RunLink, RunRoute, RunPeer
  <1>3. CASE c.verb \notin {"peer set", "peer remove"}
    BY <1>3 DEF Run, RunPeer
  <1> QED BY <1>1, <1>2, <1>3

LEMMA SettledElsewhere ==
  ASSUME KernelTyped, DistinctNumbers, NEW t \in Row, WellFormed(t), NEW c \in Command, Run(c),
         NEW id \in Ids, NEW key, Concerns(c, id, key), id # t.id, t.key # None => key # t.key,
         NEW rest, Settled(t, rest)
  PROVE  Settled(t, rest)'
  <1>1. RoutesSettled(t, rest)'
    BY RoutesElsewhere DEF Settled, RoutesSettled
  <1>2. ASSUME t.type = "wg" PROVE PeerSettled(t, rest)'
    <2>1. t.key # None
      BY <1>2, TableAssumption DEF WellFormed, KeyIfWg
    <2> QED BY <1>2, <2>1, PeerElsewhere DEF Settled, PeerSettled
  <1>3. ASSUME t.type # "wg" PROVE LinkSettled(t, rest)'
    <2>1. LinkOf(t.id)' = LinkOf(t.id)
      BY LinksElsewhere DEF Row
    <2> QED BY <1>3, <2>1 DEF Settled, LinkSettled
  <1> QED BY <1>1, <1>2, <1>3 DEF Settled

-----------------------------------------------------------------------------
(* What a command does to the tunnel it was made for *)

LEMMA OwnCommandKinds ==
  ASSUME NEW t, NEW c \in OwnCommands(t)
  PROVE  \/ c.verb = "route add" /\ c.dev = Dev(t)
         \/ t.type = "wg" /\ c = PeerSet(t.key, AllowedIPs(t))
         \/ t.type # "wg" /\ c \in {TunnelAdd(t.id, t.type, t.ip), LinkUp(t.id), AddrAdd(t.ula, t.id), Change(t)}
  <1>0. \A n : RouteAdd(n, Dev(t)).verb = "route add" /\ RouteAdd(n, Dev(t)).dev = Dev(t)
    BY DEF RouteAdd
  <1>1. CASE t.type = "wg"
    <2>1. \/ c = RouteAdd(Net(t.p1), Dev(t)) \/ c = RouteAdd(Net(t.p2), Dev(t))
          \/ c = RouteAdd(Net(t.p3), Dev(t)) \/ c = PeerSet(t.key, AllowedIPs(t))
      BY <1>1, CreateSet DEF OwnCommands
    <2> QED BY <1>0, <1>1, <2>1
  <1>2. CASE t.type # "wg"
    <2>1. \/ c = RouteAdd(Net(t.p1), Dev(t)) \/ c = RouteAdd(Net(t.p2), Dev(t))
          \/ c = RouteAdd(Net(t.p3), Dev(t))
          \/ c \in {TunnelAdd(t.id, t.type, t.ip), LinkUp(t.id), AddrAdd(t.ula, t.id), Change(t)}
      BY <1>2, CreateSet DEF OwnCommands
    <2> QED BY <1>0, <1>2, <2>1
  <1> QED BY <1>1, <1>2

LEMMA RoutesAdvance ==
  ASSUME NEW t, NEW c \in OwnCommands(t), Run(c), NEW rest, RoutesSettled(t, rest)
  PROVE  RoutesSettled(t, rest \ {c})'
  <1>1. c.verb \notin {"route del", "tunnel del"}
    <2>1. CASE t.type = "wg" /\ c = PeerSet(t.key, AllowedIPs(t))
      BY <2>1 DEF PeerSet
    <2>2. CASE c \in {TunnelAdd(t.id, t.type, t.ip), LinkUp(t.id), AddrAdd(t.ula, t.id), Change(t)}
      <3>1. /\ TunnelAdd(t.id, t.type, t.ip).verb = "tunnel add" /\ LinkUp(t.id).verb = "link up"
            /\ AddrAdd(t.ula, t.id).verb = "addr add" /\ Change(t).verb = "tunnel change"
        BY DEF TunnelAdd, LinkUp, AddrAdd, Change, TunnelChange
      <3> QED BY <2>2, <3>1
    <2> QED BY <2>1, <2>2, OwnCommandKinds
  <1>2. routes \subseteq routes'
    BY <1>1 DEF Run, RunLink, RunRoute, RunPeer
  <1>3. ASSUME NEW n \in MainNets(t), c = RouteAdd(n, Dev(t)) PROVE [net |-> n, dev |-> Dev(t)] \in routes'
    <2>1. c.verb = "route add" /\ c.net = n /\ c.dev = Dev(t)
      BY <1>3 DEF RouteAdd
    <2> QED BY <2>1 DEF Run, RunLink, RunRoute, RunPeer
  <1> QED BY <1>2, <1>3 DEF RoutesSettled

LEMMA PeerAdvances ==
  ASSUME NEW t \in Row, WellFormed(t), t.type = "wg", NEW c \in OwnCommands(t), Run(c),
         NEW rest, PeerSettled(t, rest)
  PROVE  PeerSettled(t, rest \ {c})'
  <1>1. CASE c.verb = "route add"
    <2>1. UNCHANGED peers
      BY <1>1 DEF Run, RunPeer
    <2>2. c # PeerSet(t.key, AllowedIPs(t))
      <3>1. PeerSet(t.key, AllowedIPs(t)).verb = "peer set"
        BY DEF PeerSet
      <3> QED BY <1>1, <3>1
    <2> QED BY <2>1, <2>2 DEF PeerSettled
  <1>2. CASE c = PeerSet(t.key, AllowedIPs(t))
    <2>1. c.verb = "peer set" /\ c.key = t.key /\ c.allowed = AllowedIPs(t)
      BY <1>2 DEF PeerSet
    <2>2. [key |-> t.key, allowed |-> AllowedIPs(t)] \in peers'
      BY <2>1 DEF Run, RunLink, RunRoute, RunPeer
    <2> QED BY <2>2, MainNetsType DEF PeerSettled
  <1> QED BY <1>1, <1>2, OwnCommandKinds

LEMMA LinkAdvances ==
  ASSUME KernelTyped, NEW t \in Row, t.type # "wg", NEW c \in OwnCommands(t), Run(c),
         NEW rest, LinkSettled(t, rest)
  PROVE  LinkSettled(t, rest \ {c})'
  <1> DEFINE add == TunnelAdd(t.id, t.type, t.ip)
             addr == AddrAdd(t.ula, t.id)
             up == LinkUp(t.id)
  <1>0. /\ add.verb = "tunnel add" /\ add.dev = t.id /\ add.mode = t.type /\ add.remote = t.ip
        /\ up.verb = "link up" /\ up.dev = t.id
        /\ addr.verb = "addr add" /\ addr.dev = t.id /\ addr.ula = t.ula
        /\ Change(t).verb = "tunnel change" /\ Change(t).dev = t.id /\ Change(t).remote = t.ip
    BY DEF TunnelAdd, AddrAdd, LinkUp, Change, TunnelChange
  <1> DEFINE Fits(l, S) == /\ l.dev = t.id /\ l.mode = t.type
                           /\ l.remote = t.ip \/ Change(t) \in S
                           /\ l.up = TRUE \/ up \in S
                           /\ l.ula = t.ula \/ addr \in S
  <1>a. LinkSettled(t, rest) <=> \/ ~Exists(t.id) /\ {add, up, addr} \subseteq rest
                                 \/ \E l \in links : Fits(l, rest)
    BY DEF LinkSettled, LinkOf, Exists
  <1>b. (\E l \in links' : Fits(l, rest \ {c})) => LinkSettled(t, rest \ {c})'
    BY DEF LinkSettled, LinkOf
  <1>c. links' = links /\ ~Exists(t.id) /\ {add, up, addr} \subseteq rest \ {c}
        => LinkSettled(t, rest \ {c})'
    BY DEF LinkSettled, LinkOf, Exists
  <1> HIDE DEF add, up, addr
  <1>1. CASE c.verb = "route add"
    <2>1. UNCHANGED links
      BY <1>1 DEF Run, RunLink
    <2>2. c \notin {add, up, addr, Change(t)}
      BY <1>0, <1>1
    <2> QED BY <1>a, <1>b, <1>c, <2>1, <2>2
  <1>2. CASE c = add
    <2>1. links' = links \cup {[dev |-> t.id, mode |-> t.type, remote |-> t.ip, up |-> FALSE, ula |-> None]}
          /\ ~Exists(t.id)
      BY <1>0, <1>2 DEF Run, RunLink, RunRoute, RunPeer, Accepts
    <2>2. {up, addr} \subseteq rest \ {c}
      <3>1. {add, up, addr} \subseteq rest
        BY <1>a, <2>1 DEF Exists, LinkOf
      <3> QED BY <1>0, <1>2, <3>1
    <2>3. Fits([dev |-> t.id, mode |-> t.type, remote |-> t.ip, up |-> FALSE, ula |-> None], rest \ {c})
      BY <2>2
    <2> HIDE DEF Fits
    <2> QED BY <1>b, <2>1, <2>3
  <1>3. CASE c \in {up, addr, Change(t)}
    <2>1. c.verb \in {"tunnel change", "link up", "addr add"} /\ c.dev = t.id
      BY <1>0, <1>3
    <2>2. links' = {IF l.dev = t.id THEN Altered(l, c) ELSE l : l \in links} /\ Exists(t.id)
      BY <2>1 DEF Run, RunLink, RunRoute, RunPeer, Accepts, Exists
    <2>3. ASSUME NEW l \in links, Fits(l, rest) PROVE LinkSettled(t, rest \ {c})'
      <3>1. l \in Link /\ Altered(l, c) \in links'
        BY <2>2, <2>3 DEF KernelTyped
      <3>2. Fits(Altered(l, c), rest \ {c})
        BY <1>0, <1>3, <2>1, <2>3, <3>1 DEF Altered, Link
      <3> HIDE DEF Fits
      <3> QED BY <1>b, <3>1, <3>2
    <2> QED BY <1>a, <2>2, <2>3
  <1> QED BY <1>1, <1>2, <1>3, OwnCommandKinds DEF add, up, addr

LEMMA SettledAdvances ==
  ASSUME KernelTyped, NEW t \in Row, WellFormed(t), NEW c \in OwnCommands(t), Run(c),
         NEW rest, Settled(t, rest), NEW left, rest \ {c} \subseteq left
  PROVE  Settled(t, left)'
  <1>1. RoutesSettled(t, left)'
    <2>1. RoutesSettled(t, rest \ {c})'
      BY RoutesAdvance DEF Settled
    <2> QED BY <2>1 DEF RoutesSettled
  <1>2. ASSUME t.type = "wg" PROVE PeerSettled(t, left)'
    <2>1. PeerSettled(t, rest \ {c})'
      BY <1>2, PeerAdvances DEF Settled
    <2> QED BY <2>1 DEF PeerSettled
  <1>3. ASSUME t.type # "wg" PROVE LinkSettled(t, left)'
    <2>1. LinkSettled(t, rest \ {c})'
      BY <1>3, LinkAdvances DEF Settled
    <2>2. \A a : a \in rest \ {c} => a \in left
      OBVIOUS
    <2> QED BY <2>1, <2>2 DEF LinkSettled
  <1> QED BY <1>1, <1>2, <1>3 DEF Settled

-----------------------------------------------------------------------------
(* What a settled tunnel amounts to *)

LEMMA SettledKept ==
  ASSUME NEW t, NEW rest, Settled(t, rest), UNCHANGED <<links, routes, peers>>
  PROVE  Settled(t, rest)'
  BY DEF Settled, RoutesSettled, PeerSettled, LinkSettled, LinkOf

(* Before its commands are run, a new tunnel has no link.                  *)
LEMMA NewSettled ==
  ASSUME NEW t, LinkOf(t.id) = {}
  PROVE  Settled(t, Of(CreateCommands(t))) /\ Of(CreateCommands(t)) \subseteq OwnCommands(t)
  <1>1. RoutesSettled(t, Of(CreateCommands(t)))
    BY CreateSet DEF RoutesSettled, MainNets
  <1>2. t.type = "wg" => PeerSettled(t, Of(CreateCommands(t)))
    BY CreateSet DEF PeerSettled
  <1>3. t.type # "wg" => LinkSettled(t, Of(CreateCommands(t)))
    BY CreateSet DEF LinkSettled
  <1> QED BY <1>1, <1>2, <1>3 DEF Settled, OwnCommands

(* An update of a WireGuard tunnel has no command to run.                  *)
LEMMA SettledWg ==
  ASSUME NEW t, t.type = "wg", Settled(t, {Change(t)})
  PROVE  Settled(t, {})
  <1>1. /\ \A n : RouteAdd(n, Dev(t)) # Change(t)
        /\ PeerSet(t.key, AllowedIPs(t)) # Change(t)
    <2>1. \A n : RouteAdd(n, Dev(t)).verb = "route add"
      BY DEF RouteAdd
    <2>2. PeerSet(t.key, AllowedIPs(t)).verb = "peer set" /\ Change(t).verb = "tunnel change"
      BY DEF PeerSet, Change, TunnelChange
    <2> QED BY <2>1, <2>2
  <1> QED BY <1>1 DEF Settled, RoutesSettled, PeerSettled

LEMMA SettledConfigured ==
  ASSUME KernelTyped, NEW t \in Row, Settled(t, {})
  PROVE  Configured(t)
  <1>1. \A n \in MainNets(t) : [net |-> n, dev |-> Dev(t)] \in routes
    BY DEF Settled, RoutesSettled
  <1>2. CASE t.type = "wg"
    <2>1. \E p \in peers : p.key = t.key /\ MainNets(t) \subseteq p.allowed
      BY <1>2 DEF Settled, PeerSettled
    <2> QED BY <1>1, <1>2, <2>1 DEF Configured, Dev
  <1>3. CASE t.type # "wg"
    <2>1. PICK l \in LinkOf(t.id) : l.mode = t.type /\ l.remote = t.ip /\ l.up = TRUE /\ l.ula = t.ula
      BY <1>3 DEF Settled, LinkSettled
    <2>2. l = [dev |-> t.id, mode |-> t.type, remote |-> t.ip, up |-> TRUE, ula |-> t.ula]
      BY <2>1 DEF LinkOf, KernelTyped, Link
    <2> QED BY <1>1, <1>3, <2>2 DEF Configured, Dev, LinkOf
  <1> QED BY <1>2, <1>3

(* The new address of a row, whose link has yet to be changed.             *)
LEMMA SettledMoved ==
  ASSUME NEW s, NEW t, Settled(s, {}), UNCHANGED <<links, routes, peers>>,
         t.id = s.id, t.type = s.type, t.ula = s.ula, t.key = s.key,
         t.p1 = s.p1, t.p2 = s.p2, t.p3 = s.p3
  PROVE  Settled(t, {Change(t)})'
  <1>1. Dev(t) = Dev(s) /\ MainNets(t) = MainNets(s)
    BY DEF Dev, MainNets
  <1>2. RoutesSettled(t, {Change(t)})'
    BY <1>1 DEF Settled, RoutesSettled
  <1>3. t.type = "wg" => PeerSettled(t, {Change(t)})'
    BY <1>1 DEF Settled, PeerSettled
  <1>4. t.type # "wg" => LinkSettled(t, {Change(t)})'
    BY DEF Settled, LinkSettled, LinkOf
  <1> QED BY <1>2, <1>3, <1>4 DEF Settled

(* The columns of a row that no command speaks of.                         *)
LEMMA SettledAlike ==
  ASSUME NEW s, NEW t, NEW rest, UNCHANGED <<links, routes, peers>>,
         t.id = s.id, t.type = s.type, t.ula = s.ula, t.key = s.key, t.ip = s.ip,
         t.p1 = s.p1, t.p2 = s.p2, t.p3 = s.p3
  PROVE  /\ Settled(s, rest) => Settled(t, rest)'
         /\ OwnCommands(t) = OwnCommands(s) /\ Change(t) = Change(s)
  <1>1. Dev(t) = Dev(s) /\ MainNets(t) = MainNets(s) /\ AllowedIPs(t) = AllowedIPs(s) /\ Change(t) = Change(s)
    BY DEF Dev, MainNets, AllowedIPs, Prefixes3, Change
  <1>2. RoutesSettled(s, rest) => RoutesSettled(t, rest)'
    BY <1>1 DEF RoutesSettled
  <1>3. PeerSettled(s, rest) => PeerSettled(t, rest)'
    BY <1>1 DEF PeerSettled
  <1>4. LinkSettled(s, rest) => LinkSettled(t, rest)'
    BY <1>1 DEF LinkSettled, LinkOf
  <1>5. OwnCommands(t) = OwnCommands(s)
    BY <1>1, CreateSet DEF OwnCommands
  <1> QED BY <1>1, <1>2, <1>3, <1>4, <1>5 DEF Settled

-----------------------------------------------------------------------------
(* Who knows which key *)

(* A request on an id names only that id, its key and its networks in the  *)
(* commands it has yet to run.                                             *)
Acting == {"update", "select", "lookup", "exec", "delete", "decrement"}

Local(r) ==
    /\ r.id \in Ids <=> r.pc \in Acting
    /\ r.pc \in {"update", "select"} => r.op = "update"
    /\ r.pc \in {"lookup", "delete", "decrement"} => r.op = "delete"
    /\ r.row.key # None => r.pc \in {"commit", "exec", "delete", "decrement"}
    /\ r.pc = "exec" => \A c \in Of(r.todo) : Concerns(c, r.id, r.row.key)
    /\ r.pc = "exec" /\ r.op = "delete" =>
         \A c \in Of(r.todo) : c.verb \in {"peer remove", "route del", "tunnel del"}

RequestsLocal == \A w \in Workers : Local(req[w])

(* No key is that of two tunnels, nor known to requests on two ids.        *)
KeysOwned ==
    /\ \A s, t \in tunnels : s.key = t.key /\ s.key # None => s.id = t.id
    /\ \A w \in Workers, t \in tunnels :
         req[w].row.key = t.key /\ t.key # None => req[w].id = t.id
    /\ \A v, w \in Workers :
         v # w /\ req[v].row.key = req[w].row.key /\ req[v].row.key # None =>
            req[v].id = req[w].id /\ req[v].id \in Ids

Removing(r) == r.op = "delete" /\ r.pc \in {"exec", "delete", "decrement"}

LEMMA Others ==
  ASSUME req \in [Workers -> Request], NEW w \in Workers, NEW r, Become(w, r)
  PROVE  req'[w] = r /\ \A v \in Workers \ {w} : req'[v] = req[v]
  BY DEF Become

LEMMA LocalKept ==
  ASSUME req \in [Workers -> Request], RequestsLocal, NEW w \in Workers, NEW r, Local(r), Become(w, r)
  PROVE  RequestsLocal'
  <1>1. ASSUME NEW v \in Workers PROVE Local(req[v])'
    <2>1. CASE v = w
      <3>1. req'[v] = r
        BY <2>1, Others
      <3> QED BY <3>1 DEF Local, Concerns, NetFor
    <2>2. CASE v # w
      <3>1. Local(req[v]) /\ req'[v] = req[v]
        BY <2>2, Others DEF RequestsLocal
      <3> QED BY <3>1 DEF Local, Concerns, NetFor
    <2> QED BY <2>1, <2>2
  <1> QED BY <1>1 DEF RequestsLocal

LEMMA KeysKept ==
  ASSUME req \in [Workers -> Request], KeysOwned, NEW w \in Workers, NEW r, Become(w, r),
         \A t \in tunnels' : \E s \in tunnels : s.id = t.id /\ s.key = t.key,
         \/ r.row.key = None
         \/ r.row.key = req[w].row.key /\ r.id = req[w].id
         \/ r.id \in Ids /\ \E s \in tunnels : s.key = r.row.key /\ s.id = r.id
  PROVE  KeysOwned'
  <1>1. req'[w] = r /\ \A v \in Workers \ {w} : req'[v] = req[v]
    BY Others
  <1>2. \A s, t \in tunnels' : s.key = t.key /\ s.key # None => s.id = t.id
    BY DEF KeysOwned
  <1>3. ASSUME NEW v \in Workers, NEW t \in tunnels', req'[v].row.key = t.key, t.key # None
        PROVE  req'[v].id = t.id
    BY <1>1, <1>3 DEF KeysOwned
  <1>4. ASSUME NEW v \in Workers \ {w}, req'[v].row.key = r.row.key, r.row.key # None
        PROVE  req'[v].id = r.id /\ r.id \in Ids
    BY <1>1, <1>4 DEF KeysOwned
  <1>5. ASSUME NEW v \in Workers, NEW x \in Workers, v # x, req'[v].row.key = req'[x].row.key,
               req'[v].row.key # None
        PROVE  req'[v].id = req'[x].id /\ req'[v].id \in Ids
    <2>1. CASE v = w
      BY <1>1, <1>4, <1>5, <2>1
    <2>2. CASE x = w
      BY <1>1, <1>4, <1>5, <2>2
    <2>3. CASE v # w /\ x # w
      BY <1>1, <1>5, <2>3 DEF KeysOwned
    <2> QED BY <2>1, <2>2, <2>3
  <1> QED BY <1>2, <1>3, <1>5 DEF KeysOwned

LEMMA IdleLocal == Local(Idle) /\ ~Removing(Idle) /\ Idle.id = None /\ Idle.row.key = None
                   /\ Idle.pc = "idle" /\ None \notin Ids
  BY TableAssumption DEF Local, Idle, NoRow, Acting, Removing, Ids

(* What a search for an id and prefixes leaves behind.                     *)
LEMMA SearchResult ==
  ASSUME LocalOK, NEW w \in Workers, req[w].row.key = None,
         \/ CountActive(w) \/ FindSlot(w) \/ FindFirstPrefix(w)
         \/ FindSecondPrefix(w) \/ FindThirdPrefix(w)
  PROVE  \/ Answer(w)
         \/ \E r : /\ Become(w, r) /\ r.id = req[w].id /\ r.op = req[w].op /\ r.pc \notin Acting
                   /\ r.row.key \in {None} \cup FreshKeys
                   /\ (r.row.key = None \/ (r.pc = "commit" /\ At(w, "create", "prefix3")))
  <1>1. req[w] \in Request /\ req[w].row \in Draft
    BY DEF LocalOK, Request
  <1> DEFINE Fit(r) == /\ r.id = req[w].id /\ r.op = req[w].op /\ r.pc \notin Acting
                       /\ r.row.key \in {None} \cup FreshKeys
                       /\ (r.row.key = None \/ (r.pc = "commit" /\ At(w, "create", "prefix3")))
             again == [req[w] EXCEPT !.tries = @ + 1]
  <1>2. req[w].pc \notin Acting => Fit(again)
    <2>1. again.id = req[w].id /\ again.op = req[w].op /\ again.pc = req[w].pc /\ again.row = req[w].row
      BY <1>1 DEF Request
    <2> HIDE DEF again
    <2> QED BY <2>1
  <1>3. ASSUME NEW p, NEW n, NEW next, Fit(next), Attempt(w, p, n, next), req[w].pc \notin Acting
        PROVE  Answer(w) \/ \E r : Become(w, r) /\ Fit(r)
    BY <1>2, <1>3 DEF Attempt
  <1>4. ASSUME CountActive(w) PROVE Answer(w) \/ \E r : Become(w, r) /\ Fit(r)
    <2> DEFINE next == [req[w] EXCEPT !.pc = "slot", !.tries = 1]
    <2>1. Fit(next)
      <3>1. next.id = req[w].id /\ next.op = req[w].op /\ next.pc = "slot" /\ next.row = req[w].row
        BY <1>1 DEF Request
      <3> HIDE DEF next
      <3> QED BY <3>1 DEF Acting
    <2>2. Answer(w) \/ Become(w, next)
      BY <1>4 DEF CountActive
    <2> QED BY <2>1, <2>2
  <1>5. ASSUME FindSlot(w) PROVE Answer(w) \/ \E r : Become(w, r) /\ Fit(r)
    <2> DEFINE next == [req[w] EXCEPT !.pc = "prefix1", !.row.id = <<req[w].row.user, req[w].tries>>,
                                      !.tries = 0]
    <2>1. Fit(next)
      <3>1. /\ next.id = req[w].id /\ next.op = req[w].op
            /\ next.pc = "prefix1" /\ next.row.key = req[w].row.key
        BY <1>1 DEF Request, Draft
      <3> HIDE DEF next
      <3> QED BY <3>1 DEF Acting
    <2>2. Answer(w) \/ Become(w, next) \/ Become(w, again)
      BY <1>5 DEF FindSlot
    <2>3. Fit(again)
      BY <1>2, <1>5 DEF FindSlot, At, Acting
    <2> QED BY <2>1, <2>2, <2>3
  <1>6. ASSUME FindFirstPrefix(w) PROVE Answer(w) \/ \E r : Become(w, r) /\ Fit(r)
    <2> DEFINE p(d) == generateDelegatedPrefix(Primary[req[w].row.id[2]], d, req[w].row.user)
               next(x) == [req[w] EXCEPT !.pc = "prefix2", !.row.p1 = x, !.tries = 0]
    <2>1. PICK digit \in Digits : Attempt(w, p(digit), MaxAttempts, next(p(digit)))
      BY <1>6 DEF FindFirstPrefix
    <2>2. \A x : Fit(next(x))
      <3>1. \A x : /\ next(x).id = req[w].id /\ next(x).op = req[w].op /\ next(x).pc = "prefix2"
                  /\ next(x).row.key = req[w].row.key
        BY <1>1 DEF Request, Draft
      <3> HIDE DEF next
      <3> QED BY <3>1 DEF Acting
    <2>3. req[w].pc \notin Acting
      BY <1>6 DEF FindFirstPrefix, At, Acting
    <2> HIDE DEF Fit, next
    <2> QED BY <1>3, <2>1, <2>2, <2>3
  <1>7. ASSUME FindSecondPrefix(w) PROVE Answer(w) \/ \E r : Become(w, r) /\ Fit(r)
    <2> DEFINE p(d) == generateDelegatedPrefix(Secondary[req[w].row.id[2]], d, req[w].row.user)
               next(x, y) == [req[w] EXCEPT !.pc = "prefix3", !.row.p2 = x, !.row.ula = y, !.tries = 0]
    <2>1. PICK digit \in Digits, ula \in Ulas : Attempt(w, p(digit), MaxAttempts, next(p(digit), ula))
      BY <1>7 DEF FindSecondPrefix
    <2>2. \A x, y : Fit(next(x, y))
      <3>1. \A x, y : /\ next(x, y).id = req[w].id /\ next(x, y).op = req[w].op /\ next(x, y).pc = "prefix3"
                  /\ next(x, y).row.key = req[w].row.key
        BY <1>1 DEF Request, Draft
      <3> HIDE DEF next
      <3> QED BY <3>1 DEF Acting
    <2>3. req[w].pc \notin Acting
      BY <1>7 DEF FindSecondPrefix, At, Acting
    <2> HIDE DEF Fit, next
    <2> QED BY <1>3, <2>1, <2>2, <2>3
  <1>8. ASSUME FindThirdPrefix(w) PROVE Answer(w) \/ \E r : Become(w, r) /\ Fit(r)
    <2> DEFINE n == req[w].row.id[2]
               p == generateThirdPrefix(ThirdPoolOfAttempt(n, req[w].tries), req[w].row.user)
               next(k) == [req[w] EXCEPT !.pc = "commit", !.row.p3 = p, !.row.key = k, !.tries = 0]
    <2>1. PICK key \in FreshKeys \cup {None} : Attempt(w, p, ThirdAttempts(n), next(key))
      BY <1>8 DEF FindThirdPrefix
    <2>2. Fit(next(key))
      <3>1. /\ next(key).id = req[w].id /\ next(key).op = req[w].op
            /\ next(key).pc = "commit" /\ next(key).row.key = key
        BY <1>1 DEF Request, Draft
      <3>2. At(w, "create", "prefix3")
        BY <1>8 DEF FindThirdPrefix
      <3> HIDE DEF next
      <3> QED BY <2>1, <3>1, <3>2 DEF Acting
    <2>3. req[w].pc \notin Acting
      BY <1>8 DEF FindThirdPrefix, At, Acting
    <2> HIDE DEF Fit, next
    <2> QED BY <1>3, <2>1, <2>2, <2>3
  <1> QED BY <1>4, <1>5, <1>6, <1>7, <1>8

(* A draft about to be inserted has a key of its own, and nobody acts on   *)
(* an id for it.                                                           *)
LEMMA DraftKey ==
  ASSUME IInv, RequestsLocal, KeysOwned, NEW w \in Workers, At(w, "create", "commit")
  PROVE  /\ req[w].row \in Row /\ WellFormed(req[w].row) /\ req[w].id \notin Ids
         /\ \A t \in tunnels : t.key = req[w].row.key => t.key = None
         /\ \A v \in Workers \ {w} : req[v].row.key = req[w].row.key => req[v].row.key = None
  <1>1. LocalOK
    BY IInvParts
  <1>2. req[w].row \in Row /\ WellFormed(req[w].row)
    BY <1>1, DraftComplete
  <1>3. req[w].id \notin Ids
    BY DEF At, RequestsLocal, Local, Acting
  <1>4. \A t \in tunnels : t.id \in Ids
    BY DEF IInv, TypeOK, Row
  <1> QED BY <1>2, <1>3, <1>4 DEF KeysOwned

LEMMA InsertKeys ==
  ASSUME IInv, RequestsLocal, KeysOwned, NEW w \in Workers, At(w, "create", "commit"), NEW r, Become(w, r),
         tunnels' = tunnels \cup {req[w].row},
         r.row.key = None \/ r.row.key = req[w].row.key,
         r.row.key # None => r.id = req[w].row.id
  PROVE  KeysOwned'
  <1>1. req'[w] = r /\ \A v \in Workers \ {w} : req'[v] = req[v]
    BY Others DEF IInv, TypeOK
  <1>2. PICK row : row = req[w].row
    OBVIOUS
  <1>3. /\ \A t \in tunnels : t.key = row.key => t.key = None
        /\ \A v \in Workers \ {w} : req[v].row.key = row.key => req[v].row.key = None
        /\ tunnels' = tunnels \cup {row}
    BY <1>2, DraftKey
  <1>4. \A s, t \in tunnels' : s.key = t.key /\ s.key # None => s.id = t.id
    BY <1>3 DEF KeysOwned
  <1>5. ASSUME NEW v \in Workers, NEW t \in tunnels', req'[v].row.key = t.key, t.key # None
        PROVE  req'[v].id = t.id
    <2>1. CASE v = w
      BY <1>1, <1>2, <1>3, <1>5, <2>1
    <2>2. CASE v # w
      BY <1>1, <1>3, <1>5, <2>2 DEF KeysOwned
    <2> QED BY <2>1, <2>2
  <1>6. ASSUME NEW v \in Workers, NEW x \in Workers, v # x, req'[v].row.key = req'[x].row.key,
               req'[v].row.key # None
        PROVE  req'[v].id = req'[x].id /\ req'[v].id \in Ids
    <2>1. CASE v = w \/ x = w
      BY <1>1, <1>2, <1>3, <1>6, <2>1
    <2>2. CASE v # w /\ x # w
      BY <1>1, <1>6, <2>2 DEF KeysOwned
    <2> QED BY <2>1, <2>2
  <1> QED BY <1>4, <1>5, <1>6 DEF KeysOwned

(* A row of an update and the row it comes from.                           *)
LEMMA UpdatedRow ==
  ASSUME tunnels \subseteq Row, NEW id, NEW ip, UpdateClientIPv4(id, ip)
  PROVE  /\ \A t \in tunnels' : \E s \in tunnels :
               /\ t.id = s.id /\ t.type = s.type /\ t.ula = s.ula /\ t.key = s.key
               /\ t.p1 = s.p1 /\ t.p2 = s.p2 /\ t.p3 = s.p3 /\ (s.id = id => t.ip = ip)
         /\ \A s \in tunnels : \E t \in tunnels' :
               t.id = s.id /\ t.type = s.type /\ t.key = s.key
         /\ \A t : t.id \notin {id} => (t \in tunnels' <=> t \in tunnels)
  <1> DEFINE new(s) == IF s.id = id THEN [s EXCEPT !.ip = ip] ELSE s
  <1>1. tunnels' = {new(s) : s \in tunnels}
    BY DEF UpdateClientIPv4
  <1>2. \A s \in tunnels :
           /\ new(s).id = s.id /\ new(s).type = s.type /\ new(s).ula = s.ula /\ new(s).key = s.key
           /\ new(s).p1 = s.p1 /\ new(s).p2 = s.p2 /\ new(s).p3 = s.p3
           /\ (s.id = id => new(s).ip = ip) /\ (s.id # id => new(s) = s)
    BY DEF Row
  <1> HIDE DEF new
  <1> QED BY <1>1, <1>2

(* The request after its first command.                                    *)
LEMMA Advanced ==
  ASSUME IInv, RequestsLocal, KeysOwned, NEW w \in Workers, req[w].pc = "exec", NextCommand(w) \/ Answer(w)
  PROVE  \E r :
           /\ Become(w, r) /\ Local(r)
           /\ \/ /\ r.id = req[w].id /\ r.op = req[w].op /\ r.row = req[w].row
                 /\ r.todo = Tail(req[w].todo)
                 /\ \/ r.pc = "exec" /\ r.todo # <<>>
                    \/ r.pc = "delete" /\ r.op = "delete" /\ r.todo = <<>>
              \/ r = Idle /\ (NextCommand(w) => req[w].op # "delete" /\ Tail(req[w].todo) = <<>>)
  <1> DEFINE more == [req[w] EXCEPT !.todo = Tail(req[w].todo)]
             last == [req[w] EXCEPT !.pc = "delete", !.todo = Tail(req[w].todo)]
  <1>1. /\ req[w] \in Request /\ Local(req[w]) /\ req[w].id \in Ids
        /\ req[w].todo \in Seq(Command) /\ req[w].todo # <<>>
    BY DEF IInv, TypeOK, RequestsLocal, Local, Acting, Request, Stages, StageOK
  <1>2. Of(Tail(req[w].todo)) \subseteq Of(req[w].todo)
    BY <1>1, OfRest
  <1>3. /\ more.id = req[w].id /\ more.op = req[w].op /\ more.row = req[w].row
        /\ more.todo = Tail(req[w].todo) /\ more.pc = "exec"
        /\ last.id = req[w].id /\ last.op = req[w].op /\ last.row = req[w].row
        /\ last.todo = Tail(req[w].todo) /\ last.pc = "delete"
    BY <1>1 DEF Request
  <1>4. \/ Become(w, more) /\ Tail(req[w].todo) # <<>>
        \/ Become(w, last) /\ req[w].op = "delete" /\ Tail(req[w].todo) = <<>>
        \/ Become(w, Idle) /\ (NextCommand(w) => req[w].op # "delete" /\ Tail(req[w].todo) = <<>>)
    BY DEF NextCommand, Answer
  <1> HIDE DEF more, last
  <1>5. Local(more)
    BY <1>1, <1>2, <1>3 DEF Local, Acting
  <1>6. req[w].op = "delete" => Local(last)
    BY <1>1, <1>3 DEF Local, Acting
  <1> QED BY <1>3, <1>4, <1>5, <1>6, IdleLocal

(* The two facts are inductive beside the invariant of the broker.         *)
KeyInv == RequestsLocal /\ KeysOwned

(* A key that was never used has no owner but the request that drew it.    *)
LEMMA DrawKeys ==
  ASSUME req \in [Workers -> Request], KeysOwned, NEW w \in Workers, NEW r, Become(w, r),
         UNCHANGED tunnels, r.row.key \in {None} \cup FreshKeys
  PROVE  KeysOwned'
  <1>1. req'[w] = r /\ \A v \in Workers \ {w} : req'[v] = req[v]
    BY Others
  <1>2. CASE r.row.key = None
    BY <1>2, KeysKept
  <1>3. CASE r.row.key \in FreshKeys
    <2>1. /\ \A t \in tunnels : t.key # r.row.key
          /\ \A v \in Workers : req[v].row.key # r.row.key
      BY <1>3 DEF FreshKeys, UsedKeys
    <2> QED BY <1>1, <2>1 DEF KeysOwned
  <1> QED BY <1>2, <1>3

(* A step of one goroutine that takes no row's key from it.                *)
LEMMA StepKeys ==
  ASSUME IInv, KeyInv, NEW w \in Workers, NEW r, Become(w, r), Local(r),
         \A t \in tunnels' : \E s \in tunnels : s.id = t.id /\ s.key = t.key,
         \/ r.row.key = None
         \/ r.row.key = req[w].row.key /\ r.id = req[w].id
         \/ r.id \in Ids /\ \E s \in tunnels : s.key = r.row.key /\ s.id = r.id
  PROVE  KeyInv'
  <1>1. req \in [Workers -> Request]
    BY DEF IInv, TypeOK
  <1> QED BY <1>1, LocalKept, KeysKept DEF KeyInv

LEMMA AnswerKeys ==
  ASSUME IInv, KeyInv, NEW w \in Workers, Answer(w),
         \A t \in tunnels' : \E s \in tunnels : s.id = t.id /\ s.key = t.key
  PROVE  KeyInv'
  BY IdleLocal, StepKeys DEF Answer

LEMMA StartKeys ==
  ASSUME IInv, KeyInv, NEW w \in Workers, Start(w)
  PROVE  KeyInv'
  <1>1. UNCHANGED tunnels
    BY DEF Start, StartCreate, StartUpdate, StartDelete, dbVars
  <1>2. PICK r : /\ Become(w, r) /\ r.row.key = None
                 /\ \/ r.id \notin Ids /\ r.pc = "count"
                    \/ r.id \in Ids /\ <<r.pc, r.op>> \in {<<"update", "update">>, <<"lookup", "delete">>}
    <2>1. CASE StartCreate(w)
      <3>1. PICK u, type, ip :
              Become(w, [Idle EXCEPT !.op = "create", !.pc = "count",
                           !.row = [NoRow EXCEPT !.user = u, !.type = type, !.ip = ip]])
        BY <2>1 DEF StartCreate
      <3> DEFINE s == [Idle EXCEPT !.op = "create", !.pc = "count",
                         !.row = [NoRow EXCEPT !.user = u, !.type = type, !.ip = ip]]
      <3>2. s.id = None /\ s.pc = "count" /\ s.row.key = None
        BY DEF Idle, NoRow
      <3> HIDE DEF s
      <3> QED BY <3>1, <3>2, IdleLocal DEF s
    <2>2. CASE StartUpdate(w)
      <3>1. PICK id \in Ids, ip \in IPs :
              Become(w, [Idle EXCEPT !.op = "update", !.pc = "update", !.id = id, !.ip = ip])
        BY <2>2 DEF StartUpdate
      <3> DEFINE s == [Idle EXCEPT !.op = "update", !.pc = "update", !.id = id, !.ip = ip]
      <3>2. s.id \in Ids /\ s.row.key = None /\ <<s.pc, s.op>> = <<"update", "update">>
        BY DEF Idle, NoRow
      <3> HIDE DEF s
      <3> QED BY <3>1, <3>2 DEF s
    <2>3. CASE StartDelete(w)
      <3>1. PICK id \in Ids : Become(w, [Idle EXCEPT !.op = "delete", !.pc = "lookup", !.id = id])
        BY <2>3 DEF StartDelete
      <3> DEFINE s == [Idle EXCEPT !.op = "delete", !.pc = "lookup", !.id = id]
      <3>2. s.id \in Ids /\ s.row.key = None /\ <<s.pc, s.op>> = <<"lookup", "delete">>
        BY DEF Idle, NoRow
      <3> HIDE DEF s
      <3> QED BY <3>1, <3>2 DEF s
    <2> QED BY <2>1, <2>2, <2>3 DEF Start
  <1>3. Local(r)
    BY <1>2 DEF Local, Acting
  <1> QED BY <1>1, <1>2, <1>3, StepKeys

LEMMA CreateKeys ==
  ASSUME IInv, KeyInv, NEW w \in Workers, CreateStep(w)
  PROVE  KeyInv'
  <1>0. LocalOK /\ req \in [Workers -> Request]
    BY IInvParts DEF IInv, TypeOK
  <1>1. /\ req[w].row.key = None \/ req[w].pc = "commit"
        /\ req[w].id \notin Ids
    BY DEF CreateStep, CountActive, FindSlot, FindFirstPrefix, FindSecondPrefix, FindThirdPrefix,
       Commit, CommitRefused, At, KeyInv, RequestsLocal, Local, Acting
  <1>2. CASE CommitRefused(w)
    BY <1>2, AnswerKeys DEF CommitRefused, dbVars
  <1>3. CASE \/ CountActive(w) \/ FindSlot(w) \/ FindFirstPrefix(w)
             \/ FindSecondPrefix(w) \/ FindThirdPrefix(w)
    <2>1. UNCHANGED tunnels /\ req[w].row.key = None
      BY <1>1, <1>3 DEF CountActive, FindSlot, FindFirstPrefix, FindSecondPrefix, FindThirdPrefix, At, dbVars
    <2>2. CASE Answer(w)
      BY <2>1, <2>2, AnswerKeys
    <2>3. ASSUME NEW r, Become(w, r), r.id = req[w].id, r.pc \notin Acting,
                 r.row.key \in {None} \cup FreshKeys /\ (r.row.key = None \/ r.pc = "commit")
          PROVE  KeyInv'
      <3>1. Local(r)
        BY <1>1, <2>3 DEF Local, Acting
      <3> QED BY <1>0, <2>1, <2>3, <3>1, LocalKept, DrawKeys DEF KeyInv
    <2> QED BY <1>0, <1>3, <2>1, <2>2, <2>3, SearchResult
  <1>4. CASE Commit(w)
    <2>1. PICK row : row = req[w].row
      OBVIOUS
    <2>2. PICK r : r = [req[w] EXCEPT !.pc = "exec", !.id = row.id, !.row = Needed(row),
                                      !.todo = CreateCommands(row)]
      OBVIOUS
    <2>3. At(w, "create", "commit") /\ req[w] \in Request /\ row \in Row /\ WellFormed(row)
      BY <1>0, <1>4, <2>1, DraftComplete DEF Commit
    <2>4. /\ Become(w, r) /\ tunnels' = tunnels \cup {row}
          /\ r.pc = "exec" /\ r.op = "create" /\ r.id = row.id /\ r.row.key = row.key
          /\ r.todo = CreateCommands(row)
      BY <1>4, <2>1, <2>2, <2>3 DEF Commit, CreateTunnelWithTransaction, At, Request, Needed, NoRow
    <2>5. \A c \in Of(CreateCommands(row)) : Concerns(c, row.id, row.key)
      BY <2>3, CreateConcerns DEF OwnCommands
    <2>6. Local(r)
      BY <2>3, <2>4, <2>5 DEF Local, Acting, Row
    <2>7. KeysOwned'
      BY <2>1, <2>3, <2>4, InsertKeys DEF KeyInv
    <2> QED BY <1>0, <2>4, <2>6, <2>7, LocalKept DEF KeyInv
  <1> QED BY <1>2, <1>3, <1>4 DEF CreateStep

LEMMA UpdateKeys ==
  ASSUME IInv, KeyInv, NEW w \in Workers, UpdateStep(w)
  PROVE  KeyInv'
  <1>0. req[w] \in Request /\ tunnels \subseteq Row /\ Local(req[w])
    BY DEF IInv, TypeOK, KeyInv, RequestsLocal
  <1>1. CASE UpdateIP(w)
    <2>1. PICK r : r = [req[w] EXCEPT !.pc = "select"]
      OBVIOUS
    <2>2. /\ Become(w, r) /\ req[w].pc = "update" /\ UpdateClientIPv4(req[w].id, req[w].ip)
          /\ r.pc = "select" /\ r.id = req[w].id /\ r.op = req[w].op /\ r.row = req[w].row
      BY <1>0, <1>1, <2>1 DEF UpdateIP, At, Request
    <2>3. Local(r)
      BY <1>0, <2>2 DEF Local, Acting
    <2>4. \A t \in tunnels' : \E s \in tunnels : s.id = t.id /\ s.key = t.key
      BY <1>0, <2>2, UpdatedRow
    <2> QED BY <2>2, <2>3, <2>4, StepKeys
  <1>2. CASE Reselect(w)
    <2>1. UNCHANGED tunnels /\ req[w].op = "update" /\ req[w].pc = "select"
      BY <1>2 DEF Reselect, At, dbVars
    <2>2. ASSUME NEW row \in GetTunnelByID(req[w].id),
                 Become(w, [req[w] EXCEPT !.pc = "exec",
                              !.todo = <<TunnelChange(row.id, row.type, req[w].ip)>>])
          PROVE  KeyInv'
      <3>1. PICK c : c = TunnelChange(row.id, row.type, req[w].ip)
        OBVIOUS
      <3>2. PICK r : r = [req[w] EXCEPT !.pc = "exec", !.todo = <<c>>]
        OBVIOUS
      <3>3. /\ r.pc = "exec" /\ r.todo = <<c>> /\ r.op = "update" /\ r.id = req[w].id
            /\ r.row = req[w].row /\ Become(w, r)
        BY <1>0, <2>1, <2>2, <3>1, <3>2 DEF Request
      <3>4. c.verb = "tunnel change" /\ c.dev = req[w].id
        BY <3>1 DEF TunnelChange, GetTunnelByID
      <3>5. Of(r.todo) = {c}
        BY <3>3, OfOne
      <3>6. Local(r)
        BY <1>0, <2>1, <3>3, <3>4, <3>5 DEF Local, Acting, Concerns
      <3> QED BY <2>1, <3>3, <3>6, StepKeys
    <2> QED BY <1>2, <2>1, <2>2, AnswerKeys DEF Reselect
  <1> QED BY <1>1, <1>2 DEF UpdateStep

LEMMA DeleteKeys ==
  ASSUME IInv, KeyInv, NEW w \in Workers, DeleteStep(w)
  PROVE  KeyInv'
  <1>0. req[w] \in Request /\ tunnels \subseteq Row /\ Local(req[w])
    BY DEF IInv, TypeOK, KeyInv, RequestsLocal
  <1>1. CASE Lookup(w)
    <2>1. UNCHANGED tunnels /\ req[w].op = "delete" /\ req[w].pc = "lookup" /\ req[w].id \in Ids
      BY <1>0, <1>1 DEF Lookup, At, dbVars, Local, Acting
    <2>2. ASSUME NEW row \in GetTunnelByID(req[w].id),
                 Become(w, [req[w] EXCEPT !.pc = "exec", !.row = Needed(row), !.todo = DeleteCommands(row)])
          PROVE  KeyInv'
      <3>1. PICK r : r = [req[w] EXCEPT !.pc = "exec", !.row = Needed(row), !.todo = DeleteCommands(row)]
        OBVIOUS
      <3>2. /\ r.pc = "exec" /\ r.todo = DeleteCommands(row) /\ r.op = "delete" /\ r.id = req[w].id
            /\ r.row.key = row.key /\ Become(w, r)
        BY <1>0, <2>1, <2>2, <3>1 DEF Request, Needed, NoRow
      <3>3. row \in tunnels /\ row.id = req[w].id /\ row \in Row /\ WellFormed(row)
        BY <1>0 DEF GetTunnelByID, IInv, RowsWellFormed
      <3>4. \A c \in Of(r.todo) : Concerns(c, r.id, r.row.key)
        BY <3>2, <3>3, DeleteConcerns
      <3>5. \A c \in Of(r.todo) : c.verb \in {"peer remove", "route del", "tunnel del"}
        <4>1. /\ PeerRemove(row.key).verb = "peer remove" /\ TunnelDel(row.id).verb = "tunnel del"
              /\ \A n : RouteDel(n, Wg0).verb = "route del"
          BY DEF PeerRemove, TunnelDel, RouteDel
        <4> QED BY <3>2, <4>1, DeleteSet
      <3>6. Local(r)
        BY <2>1, <3>2, <3>4, <3>5 DEF Local, Acting
      <3> QED BY <2>1, <3>2, <3>3, <3>6, StepKeys
    <2> QED BY <1>1, <2>1, <2>2, AnswerKeys DEF Lookup
  <1>2. CASE DeleteRow(w)
    <2>1. PICK r : r = [req[w] EXCEPT !.pc = "decrement"]
      OBVIOUS
    <2>2. /\ Become(w, r) /\ req[w].pc = "delete" /\ tunnels' \subseteq tunnels
          /\ r.pc = "decrement" /\ r.id = req[w].id /\ r.op = req[w].op /\ r.row = req[w].row
      BY <1>0, <1>2, <2>1 DEF DeleteRow, DeleteTunnel, At, Request
    <2>3. Local(r)
      BY <1>0, <2>2 DEF Local, Acting
    <2> QED BY <2>2, <2>3, StepKeys
  <1>3. CASE Decrement(w)
    BY <1>3, AnswerKeys DEF Decrement, DecrementUserTunnels
  <1> QED BY <1>1, <1>2, <1>3 DEF DeleteStep

LEMMA CommandKeys ==
  ASSUME IInv, KeyInv, NEW w \in Workers, req[w].pc = "exec", NextCommand(w) \/ Answer(w), UNCHANGED tunnels
  PROVE  KeyInv'
  <1>1. PICK r : /\ Become(w, r) /\ Local(r)
                 /\ \/ r.id = req[w].id /\ r.row = req[w].row
                    \/ r = Idle
    BY Advanced DEF KeyInv
  <1>2. \/ r.row.key = None
        \/ r.row.key = req[w].row.key /\ r.id = req[w].id
    BY <1>1, IdleLocal
  <1> QED BY <1>1, <1>2, StepKeys

LEMMA LostKeys ==
  ASSUME IInv, KeyInv, NEW w \in Workers, ConfirmationLost(w)
  PROVE  KeyInv'
  <1>0. req \in [Workers -> Request] /\ tunnels \subseteq Row /\ Answer(w)
    BY DEF IInv, TypeOK, ConfirmationLost
  <1>1. CASE At(w, "create", "commit") /\ CreateTunnelWithTransaction(req[w].row)
    <2>1. Become(w, Idle) /\ tunnels' = tunnels \cup {req[w].row}
      BY <1>0, <1>1 DEF Answer, CreateTunnelWithTransaction
    <2>2. KeysOwned'
      BY <1>1, <2>1, IdleLocal, InsertKeys DEF KeyInv
    <2> QED BY <1>0, <2>1, <2>2, IdleLocal, LocalKept DEF KeyInv
  <1>2. CASE UpdateClientIPv4(req[w].id, req[w].ip)
    <2>1. \A t \in tunnels' : \E s \in tunnels : s.id = t.id /\ s.key = t.key
      BY <1>0, <1>2, UpdatedRow
    <2> QED BY <1>0, <2>1, AnswerKeys
  <1>3. CASE DeleteTunnel(req[w].id)
    <2>1. tunnels' \subseteq tunnels
      BY <1>3 DEF DeleteTunnel
    <2> QED BY <1>0, <2>1, AnswerKeys
  <1> QED BY <1>1, <1>2, <1>3 DEF ConfirmationLost

(* All requests end at once, as when the process dies.                     *)
LEMMA AllIdleKeys ==
  ASSUME KeyInv, req' = [w \in Workers |-> Idle], UNCHANGED tunnels
  PROVE  KeyInv'
  <1>1. \A w \in Workers : req'[w] = Idle
    OBVIOUS
  <1>2. RequestsLocal'
    <2>1. \A w \in Workers : Local(req[w])'
      BY <1>1, IdleLocal DEF Local, Acting
    <2> QED BY <2>1 DEF RequestsLocal
  <1>3. KeysOwned'
    BY <1>1, IdleLocal DEF KeyInv, KeysOwned
  <1> QED BY <1>2, <1>3 DEF KeyInv

LEMMA StatusKeys ==
  ASSUME IInv, KeyInv, ChangeStatus
  PROVE  KeyInv'
  <1>1. PICK id, status : SetStatus(id, status) /\ UNCHANGED req
    BY DEF ChangeStatus
  <1> DEFINE new(s) == IF s.id = id THEN [s EXCEPT !.status = status] ELSE s
  <1>2. tunnels \subseteq Row /\ tunnels' = {new(s) : s \in tunnels}
    BY <1>1 DEF SetStatus, IInv, TypeOK
  <1>3. \A s \in tunnels : new(s).id = s.id /\ new(s).key = s.key
    BY <1>2 DEF Row
  <1> HIDE DEF new
  <1>4. \A t \in tunnels' : \E s \in tunnels : s.id = t.id /\ s.key = t.key
    BY <1>2, <1>3
  <1>5. RequestsLocal'
    <2>1. \A w \in Workers : Local(req[w])'
      BY <1>1 DEF KeyInv, RequestsLocal
    <2> QED BY <2>1 DEF RequestsLocal
  <1>6. KeysOwned'
    BY <1>1, <1>4 DEF KeyInv, KeysOwned
  <1> QED BY <1>5, <1>6 DEF KeyInv

LEMMA InitKeys == Init => KeyInv
  <1> SUFFICES ASSUME Init PROVE KeyInv
    OBVIOUS
  <1>1. tunnels = {} /\ \A w \in Workers : req[w] = Idle
    BY DEF Init, DatabaseInit
  <1> QED BY <1>1, IdleLocal DEF KeyInv, RequestsLocal, KeysOwned

LEMMA NextKeys == IInv /\ KeyInv /\ [Next]_vars => KeyInv'
  <1> SUFFICES ASSUME IInv, KeyInv, [Next]_vars PROVE KeyInv'
    OBVIOUS
  <1>1. ASSUME NEW w \in Workers, CommandStep(w) \/ CommandFails(w) PROVE KeyInv'
    <2>1. UNCHANGED tunnels /\ req[w].pc = "exec" /\ (NextCommand(w) \/ Answer(w))
      BY <1>1 DEF CommandStep, Execute, CommandRefused, CommandFails, AfterFailedCommand, dbVars
    <2> QED BY <2>1, CommandKeys
  <1>2. ASSUME NEW w \in Workers, StatementFails(w) PROVE KeyInv'
    BY <1>2, AnswerKeys DEF StatementFails, dbVars
  <1>3. ASSUME NEW w \in Workers, Start(w) \/ Step(w) \/ Failure(w) PROVE KeyInv'
    BY <1>1, <1>2, <1>3, StartKeys, CreateKeys, UpdateKeys, DeleteKeys, LostKeys DEF Step, Failure
  <1>4. CASE Restart
    BY <1>4, AllIdleKeys DEF Restart, dbVars
  <1>5. CASE UNCHANGED vars
    <2>1. UNCHANGED <<tunnels, req>>
      BY <1>5 DEF vars
    <2>2. \A w \in Workers : Local(req[w])'
      BY <2>1 DEF KeyInv, RequestsLocal
    <2> QED BY <2>1, <2>2 DEF KeyInv, RequestsLocal, KeysOwned
  <1> QED BY <1>3, <1>4, <1>5, StatusKeys DEF Next, Serve

-----------------------------------------------------------------------------
(* What a step of a goroutine does to the keys in use *)

(* It takes up no key but a fresh one or a row's, and sets only a peer of  *)
(* its own.                                                                *)
KeepsKeys(w, r) ==
    /\ \A t \in tunnels' : \E s \in tunnels : s.id = t.id /\ s.key = t.key
    /\ \/ UNCHANGED peers
       \/ (req[w].pc = "exec" /\ \E c \in Of(req[w].todo) : Run(c))
    /\ \/ r.row.key = None
       \/ (r.pc # "commit" /\ req[w].pc # "commit" /\ r.row.key = req[w].row.key /\ r.id = req[w].id)
       \/ (r.pc # "commit" /\ \E s \in tunnels : s.key = r.row.key /\ s.id = r.id)
       \/ (r.pc = "commit" /\ At(w, "create", "prefix3") /\ r.row.key \in FreshKeys)

(* It inserts the row of its draft.                                        *)
GivesKey(w, r) ==
    /\ At(w, "create", "commit") /\ tunnels' = tunnels \cup {req[w].row} /\ UNCHANGED peers
    /\ r.pc # "commit"
    /\ r.row.key = None \/ (r.row.key = req[w].row.key /\ r.id = req[w].row.id)

LEMMA SameRows ==
  ASSUME UNCHANGED tunnels
  PROVE  \A t \in tunnels' : \E s \in tunnels : s.id = t.id /\ s.key = t.key
  OBVIOUS

LEMMA StartUses ==
  ASSUME NEW w \in Workers, Start(w)
  PROVE  \E r : Become(w, r) /\ KeepsKeys(w, r)
  <1>1. \E r : Become(w, r) /\ r.row.key = None
    <2> DEFINE draft(u, type, ip) == [Idle EXCEPT !.op = "create", !.pc = "count",
                                        !.row = [NoRow EXCEPT !.user = u, !.type = type, !.ip = ip]]
    <2>1. \A u, type, ip : draft(u, type, ip).row.key = None
      BY DEF Idle, NoRow
    <2>2. ASSUME NEW id, NEW ip
          PROVE  /\ [Idle EXCEPT !.op = "update", !.pc = "update", !.id = id, !.ip = ip].row.key = None
                 /\ [Idle EXCEPT !.op = "delete", !.pc = "lookup", !.id = id].row.key = None
      BY DEF Idle, NoRow
    <2>3. StartCreate(w) => \E r : Become(w, r) /\ r.row.key = None
      <3>1. StartCreate(w) => \E u, type, ip : Become(w, draft(u, type, ip))
        BY DEF StartCreate
      <3> HIDE DEF draft
      <3> QED BY <2>1, <3>1
    <2>4. StartUpdate(w) \/ StartDelete(w) => \E r : Become(w, r) /\ r.row.key = None
      BY <2>2 DEF StartUpdate, StartDelete
    <2> QED BY <2>3, <2>4 DEF Start
  <1>2. UNCHANGED <<tunnels, peers>>
    BY DEF Start, StartCreate, StartUpdate, StartDelete, dbVars, kernelVars
  <1> QED BY <1>1, <1>2, SameRows DEF KeepsKeys

LEMMA AnswerUses ==
  ASSUME NEW w \in Workers, Answer(w), UNCHANGED peers,
         \A t \in tunnels' : \E s \in tunnels : s.id = t.id /\ s.key = t.key
  PROVE  \E r : Become(w, r) /\ KeepsKeys(w, r)
  BY IdleLocal DEF Answer, KeepsKeys

LEMMA CreateUses ==
  ASSUME IInv, KeyInv, NEW w \in Workers, CreateStep(w)
  PROVE  \E r : Become(w, r) /\ (KeepsKeys(w, r) \/ GivesKey(w, r))
  <1>0. LocalOK
    BY IInvParts
  <1>1. CASE CommitRefused(w)
    BY <1>1, AnswerUses, SameRows DEF CommitRefused, dbVars, kernelVars
  <1>2. CASE \/ CountActive(w) \/ FindSlot(w) \/ FindFirstPrefix(w)
             \/ FindSecondPrefix(w) \/ FindThirdPrefix(w)
    <2>1. UNCHANGED <<tunnels, peers>>
      BY <1>2 DEF CountActive, FindSlot, FindFirstPrefix, FindSecondPrefix, FindThirdPrefix,
         dbVars, kernelVars
    <2>2. req[w].row.key = None
      BY <1>2 DEF CountActive, FindSlot, FindFirstPrefix, FindSecondPrefix, FindThirdPrefix, At,
         KeyInv, RequestsLocal, Local
    <2>3. \/ Answer(w)
          \/ \E r : /\ Become(w, r) /\ r.row.key \in {None} \cup FreshKeys
                    /\ (r.row.key = None \/ (r.pc = "commit" /\ At(w, "create", "prefix3")))
      BY <1>0, <1>2, <2>2, SearchResult
    <2> QED BY <2>1, <2>3, AnswerUses, SameRows DEF KeepsKeys
  <1>3. CASE Commit(w)
    <2>1. PICK r : r = [req[w] EXCEPT !.pc = "exec", !.id = req[w].row.id, !.row = Needed(req[w].row),
                                      !.todo = CreateCommands(req[w].row)]
      OBVIOUS
    <2>2. Become(w, r) /\ At(w, "create", "commit") /\ tunnels' = tunnels \cup {req[w].row}
          /\ UNCHANGED peers
      BY <1>3, <2>1 DEF Commit, CreateTunnelWithTransaction, kernelVars
    <2>3. r.pc = "exec" /\ r.id = req[w].row.id /\ r.row.key = req[w].row.key
      BY <1>0, <2>1 DEF LocalOK, Request, Needed, NoRow
    <2> QED BY <2>2, <2>3 DEF GivesKey
  <1> QED BY <1>1, <1>2, <1>3 DEF CreateStep

LEMMA UpdateUses ==
  ASSUME IInv, KeyInv, NEW w \in Workers, UpdateStep(w)
  PROVE  \E r : Become(w, r) /\ KeepsKeys(w, r)
  <1>1. req[w] \in Request /\ tunnels \subseteq Row /\ req[w].op = "update"
        /\ req[w].pc \in {"update", "select"} /\ req[w].row.key = None
    BY DEF IInv, TypeOK, UpdateStep, UpdateIP, Reselect, At, KeyInv, RequestsLocal, Local
  <1>2. UNCHANGED peers
    BY DEF UpdateStep, UpdateIP, Reselect, kernelVars
  <1>3. \E r : Become(w, r) /\ r.row.key = None
    <2>1. [req[w] EXCEPT !.pc = "select"].row.key = None
      BY <1>1 DEF Request
    <2>2. ASSUME NEW todo PROVE [req[w] EXCEPT !.pc = "exec", !.todo = todo].row.key = None
      BY <1>1 DEF Request
    <2>3. UpdateIP(w) => \E r : Become(w, r) /\ r.row.key = None
      BY <2>1 DEF UpdateIP
    <2>4. Reselect(w) => \E r : Become(w, r) /\ r.row.key = None
      BY <2>2, IdleLocal DEF Reselect, Answer
    <2> QED BY <2>3, <2>4 DEF UpdateStep
  <1>4. \A t \in tunnels' : \E s \in tunnels : s.id = t.id /\ s.key = t.key
    <2>1. CASE UpdateIP(w)
      BY <1>1, <2>1, UpdatedRow DEF UpdateIP
    <2>2. CASE Reselect(w)
      BY <2>2, SameRows DEF Reselect, dbVars
    <2> QED BY <2>1, <2>2 DEF UpdateStep
  <1> QED BY <1>2, <1>3, <1>4 DEF KeepsKeys

LEMMA DeleteUses ==
  ASSUME IInv, KeyInv, NEW w \in Workers, DeleteStep(w)
  PROVE  \E r : Become(w, r) /\ KeepsKeys(w, r)
  <1>1. req[w] \in Request /\ UNCHANGED peers
    BY DEF IInv, TypeOK, DeleteStep, Lookup, DeleteRow, Decrement, kernelVars
  <1>2. CASE Lookup(w)
    <2>1. ASSUME NEW row \in GetTunnelByID(req[w].id),
                 Become(w, [req[w] EXCEPT !.pc = "exec", !.row = Needed(row), !.todo = DeleteCommands(row)])
          PROVE  \E r : Become(w, r) /\ KeepsKeys(w, r)
      <3>1. PICK r : r = [req[w] EXCEPT !.pc = "exec", !.row = Needed(row), !.todo = DeleteCommands(row)]
        OBVIOUS
      <3>2. r.pc = "exec" /\ r.row.key = row.key /\ r.id = row.id /\ row \in tunnels
        BY <1>1, <3>1 DEF Request, Needed, NoRow, GetTunnelByID
      <3>3. UNCHANGED tunnels
        BY <1>2 DEF Lookup, dbVars
      <3> QED BY <1>1, <2>1, <3>1, <3>2, <3>3, SameRows DEF KeepsKeys
    <2> QED BY <1>1, <1>2, <2>1, AnswerUses, SameRows DEF Lookup, dbVars
  <1>3. CASE DeleteRow(w)
    <2>1. PICK r : r = [req[w] EXCEPT !.pc = "decrement"]
      OBVIOUS
    <2>2. /\ Become(w, r) /\ req[w].pc = "delete" /\ tunnels' \subseteq tunnels
          /\ r.pc = "decrement" /\ r.id = req[w].id /\ r.row = req[w].row
      BY <1>1, <1>3, <2>1 DEF DeleteRow, DeleteTunnel, At, Request
    <2> QED BY <1>1, <2>2 DEF KeepsKeys
  <1>4. CASE Decrement(w)
    BY <1>1, <1>4, AnswerUses, SameRows DEF Decrement, DecrementUserTunnels
  <1> QED BY <1>2, <1>3, <1>4 DEF DeleteStep

LEMMA CommandUses ==
  ASSUME IInv, KeyInv, NEW w \in Workers, CommandStep(w) \/ CommandFails(w)
  PROVE  \E r : Become(w, r) /\ KeepsKeys(w, r)
  <1>1. UNCHANGED tunnels /\ req[w].pc = "exec" /\ (NextCommand(w) \/ Answer(w))
    BY DEF CommandStep, Execute, CommandRefused, CommandFails, AfterFailedCommand, dbVars
  <1>2. UNCHANGED peers \/ \E c \in Of(req[w].todo) : Run(c)
    <2>1. req[w].todo \in Seq(Command) /\ req[w].todo # <<>>
      BY <1>1 DEF IInv, TypeOK, Request, Stages, StageOK
    <2>2. Head(req[w].todo) \in Of(req[w].todo)
      BY <2>1, OfRest
    <2> QED BY <2>2 DEF CommandStep, Execute, CommandRefused, CommandFails, kernelVars
  <1>3. PICK r : /\ Become(w, r)
                 /\ \/ r.id = req[w].id /\ r.row = req[w].row /\ r.pc \in {"exec", "delete"}
                    \/ r = Idle
    BY <1>1, Advanced DEF KeyInv
  <1>4. r.row.key = None \/ (r.pc # "commit" /\ r.row.key = req[w].row.key /\ r.id = req[w].id)
    BY <1>3, IdleLocal
  <1> QED BY <1>1, <1>2, <1>3, <1>4, SameRows DEF KeepsKeys

LEMMA LossUses ==
  ASSUME IInv, KeyInv, NEW w \in Workers, ConfirmationLost(w) \/ StatementFails(w)
  PROVE  \E r : Become(w, r) /\ (KeepsKeys(w, r) \/ GivesKey(w, r))
  <1>1. tunnels \subseteq Row /\ Answer(w) /\ UNCHANGED peers
    BY DEF IInv, TypeOK, ConfirmationLost, StatementFails, kernelVars
  <1>2. CASE At(w, "create", "commit") /\ CreateTunnelWithTransaction(req[w].row)
    BY <1>1, <1>2, IdleLocal DEF Answer, GivesKey, CreateTunnelWithTransaction
  <1>3. CASE UpdateClientIPv4(req[w].id, req[w].ip)
    BY <1>1, <1>3, UpdatedRow, AnswerUses
  <1>4. CASE DeleteTunnel(req[w].id)
    <2>1. tunnels' \subseteq tunnels
      BY <1>4 DEF DeleteTunnel
    <2> QED BY <1>1, <2>1, AnswerUses
  <1>5. CASE StatementFails(w)
    BY <1>1, <1>5, SameRows, AnswerUses DEF StatementFails, dbVars
  <1> QED BY <1>2, <1>3, <1>4, <1>5 DEF ConfirmationLost

LEMMA RequestUses ==
  ASSUME IInv, KeyInv, NEW w \in Workers, Start(w) \/ Step(w) \/ Failure(w)
  PROVE  \E r : Become(w, r) /\ (KeepsKeys(w, r) \/ GivesKey(w, r))
  BY StartUses, CreateUses, UpdateUses, DeleteUses, CommandUses, LossUses DEF Step, Failure
=============================================================================
