----------------------------- MODULE BrokerProofs -----------------------------
(***************************************************************************)
(* Theorems about module Broker for every value of its constants: the      *)
(* inductive invariant, and what follows from it, namely the limit of two  *)
(* tunnels, the uniqueness of the first two prefixes, the implementation   *)
(* of module Registry and the bound of the counters.                       *)
(***************************************************************************)
EXTENDS BrokerProperties, TLAPS, FiniteSetTheorems

-----------------------------------------------------------------------------
(* The inductive invariant.  A row, and the draft of one, was generated    *)
(* for its owner: the id is the owner's, and each prefix comes from the    *)
(* pool of the id's slot with the owner's number.                          *)

OwnId(row) == row.id \in Ids /\ row.id[1] = row.user /\ ParsesAsHex(row.user)

FirstFromPool(row) ==
    row.p1 \in Prefix /\ row.p1.pool = Primary[row.id[2]] /\ row.p1.group = Canonical[row.user]

SecondFromPool(row) ==
    row.p2 \in Prefix /\ row.p2.pool = Secondary[row.id[2]] /\ row.p2.group = Canonical[row.user]

ThirdFromPool(row) ==
    row.p3 \in Prefix /\ row.p3.pool \in {Third, AltThird} /\ row.p3.group = row.user

KeyIfWg(row) == row.type = "wg" => row.key \in Keys

WellFormed(row) ==
    OwnId(row) /\ FirstFromPool(row) /\ SecondFromPool(row) /\ ThirdFromPool(row) /\ KeyIfWg(row)

RowsWellFormed == \A t \in tunnels : WellFormed(t)

IdsUnique == \A s, t \in tunnels : s.id = t.id => s = t

(* What a request has established when it is about to run the step pc.     *)
StageOK(r) ==
    /\ r.pc \in {"count", "slot", "prefix1", "prefix2", "prefix3", "commit"} =>
         r.row.user \in Users /\ r.row.type \in Types /\ r.row.ip \in IPs
    /\ r.pc = "slot" => r.tries \in Slots
    /\ r.pc \in {"prefix1", "prefix2", "prefix3", "commit"} => OwnId(r.row)
    /\ r.pc \in {"prefix2", "prefix3", "commit"} => FirstFromPool(r.row)
    /\ r.pc \in {"prefix3", "commit"} => SecondFromPool(r.row) /\ r.row.ula \in Ulas
    /\ r.pc = "prefix3" => r.tries < ThirdAttempts(r.row.id[2])
    /\ r.pc = "commit" => ThirdFromPool(r.row) /\ KeyIfWg(r.row)
    /\ r.pc \in {"update", "select", "lookup", "delete"} => r.id \in Ids
    /\ r.pc \in {"update", "select"} => r.ip \in IPs
    /\ r.pc = "exec" => r.todo # <<>> /\ (r.op = "delete" => r.id \in Ids)

Stages == \A w \in Workers : StageOK(req[w])

IInv == TypeOK /\ RowsWellFormed /\ IdsUnique /\ Stages

-----------------------------------------------------------------------------
(* Lemmas about the requests *)

LEMMA NoRowType == NoRow \in Draft
  BY DEF NoRow, Draft

LEMMA IdleOK == Idle \in Request /\ StageOK(Idle)
  <1>1. <<>> \in Seq(Command)
    OBVIOUS
  <1>2. Idle \in Request
    BY <1>1, NoRowType DEF Idle, Request
  <1>3. StageOK(Idle)
    BY DEF Idle, StageOK
  <1> QED BY <1>2, <1>3

LEMMA BecomeOK ==
  ASSUME req \in [Workers -> Request], Stages, NEW w \in Workers,
         NEW r \in Request, StageOK(r), Become(w, r)
  PROVE  req' \in [Workers -> Request] /\ Stages'
  <1>1. req' \in [Workers -> Request]
    BY DEF Become
  <1>2. ASSUME NEW v \in Workers PROVE StageOK(req[v])'
    <2>1. req'[v] = IF v = w THEN r ELSE req[v]
      BY DEF Become
    <2> QED BY <2>1 DEF StageOK, Stages, OwnId, FirstFromPool, SecondFromPool,
               ThirdFromPool, KeyIfWg
  <1> QED BY <1>1, <1>2 DEF Stages

LEMMA AnswerOK ==
  ASSUME req \in [Workers -> Request], Stages, NEW w \in Workers, Answer(w)
  PROVE  req' \in [Workers -> Request] /\ Stages'
  BY IdleOK, BecomeOK DEF Answer

-----------------------------------------------------------------------------
(* Lemmas about the commands *)

KernelTyped == links \subseteq Link /\ routes \subseteq Route /\ peers \subseteq Peer /\ wg0 \in BOOLEAN

(* A network in canonical spelling comes of each prefix of a row.          *)
LEMMA NetOfDelegated ==
  ASSUME NEW p \in Prefix, NEW u \in Users, ParsesAsHex(u), p.group \in {u, Canonical[u]}
  PROVE  Net(p) \in Nets
  BY UserAssumption DEF Prefix, Net, Nets, ParsesAsHex

LEMMA RowNets ==
  ASSUME NEW row, row.user \in Users, WellFormed(row)
  PROVE  Net(row.p1) \in Nets /\ Net(row.p2) \in Nets /\ Net(row.p3) \in Nets
  BY NetOfDelegated DEF WellFormed, OwnId, FirstFromPool, SecondFromPool, ThirdFromPool

LEMMA RunTyped ==
  ASSUME KernelTyped, NEW c \in Command, Run(c)
  PROVE  KernelTyped'
  <1>1. CASE RunLink(c) /\ UNCHANGED peers
    <2>1. CASE c.verb = "tunnel add"
      <3> DEFINE l == [dev |-> c.dev, mode |-> c.mode, remote |-> c.remote,
                       up |-> FALSE, ula |-> None]
      <3>1. c.dev \in Ids /\ c.mode \in Types \ {"wg"} /\ c.remote \in IPs
        BY <2>1 DEF Command
      <3>2. l \in Link
        BY <3>1 DEF Link
      <3>3. links' = links \cup {l} /\ UNCHANGED routes
        BY <1>1, <2>1 DEF RunLink
      <3> QED BY <1>1, <3>2, <3>3 DEF KernelTyped, Run
    <2>2. CASE c.verb \in {"tunnel change", "link up", "addr add"}
      <3>1. ASSUME NEW l \in links, l.dev = c.dev PROVE Altered(l, c) \in Link
        BY <2>2 DEF Altered, Command, Link, KernelTyped
      <3>2. links' = {IF l.dev = c.dev THEN Altered(l, c) ELSE l : l \in links} /\ UNCHANGED routes
        BY <1>1, <2>2 DEF RunLink
      <3> QED BY <1>1, <3>1, <3>2 DEF KernelTyped, Run
    <2>3. CASE c.verb = "tunnel del"
      BY <1>1, <2>3 DEF RunLink, Run, KernelTyped
    <2> QED BY <1>1, <2>1, <2>2, <2>3 DEF RunLink
  <1>2. CASE RunRoute(c) /\ UNCHANGED <<links, peers>>
    <2>1. c.verb = "route add" => [net |-> c.net, dev |-> c.dev] \in Route
      BY DEF Command, Route
    <2> QED BY <1>2, <2>1 DEF RunRoute, Run, KernelTyped
  <1>3. CASE RunPeer(c) /\ UNCHANGED <<links, routes>>
    <2> DEFINE others == {p \in peers : p.key # c.key}
               new == [key |-> c.key, allowed |-> c.allowed]
    <2>1. c.verb = "peer set" => new \in Peer
      BY DEF Command, Peer
    <2>2. \A p \in peers : [p EXCEPT !.allowed = @ \ c.allowed] \in Peer
      BY DEF KernelTyped, Peer
    <2>3. peers' \subseteq Peer
      BY <1>3, <2>1, <2>2 DEF RunPeer, KernelTyped
    <2> QED BY <1>3, <2>3 DEF Run, KernelTyped
  <1> QED BY <1>1, <1>2, <1>3 DEF Run

LEMMA FourCommands ==
  ASSUME NEW S, NEW a \in S, NEW b \in S, NEW c \in S, NEW d \in S
  PROVE  <<a, b, c, d>> \in Seq(S) /\ <<a, b, c, d>> # <<>>
  OBVIOUS

LEMMA SixCommands ==
  ASSUME NEW S, NEW a \in S, NEW b \in S, NEW c \in S, NEW d \in S, NEW e \in S, NEW f \in S
  PROVE  <<a, b, c, d, e, f>> \in Seq(S) /\ <<a, b, c, d, e, f>> # <<>>
  OBVIOUS

(* What creation and deletion run for a well-formed row are commands.      *)
LEMMA CreateCommandsTyped ==
  ASSUME NEW row \in Row, WellFormed(row)
  PROVE  CreateCommands(row) \in Seq(Command) /\ CreateCommands(row) # <<>>
  <1>1. row.user \in Users /\ row.id \in Ids
    BY DEF Row
  <1>2. Net(row.p1) \in Nets /\ Net(row.p2) \in Nets /\ Net(row.p3) \in Nets
    BY <1>1, RowNets
  <1>3. \A dev \in Ids \cup {Wg0}, n \in Nets : RouteAdd(n, dev) \in Command
    BY DEF RouteAdd, Command
  <1>4. CASE row.type = "wg"
    <2>1. AllowedIPs(row) \in SUBSET (Nets \cup Ulas)
      BY <1>2 DEF AllowedIPs, Prefixes3, Row
    <2>2. PeerSet(row.key, AllowedIPs(row)) \in Command
      BY <1>4, <2>1 DEF PeerSet, Command, WellFormed, KeyIfWg
    <2> QED BY <1>2, <1>3, <1>4, <2>2, FourCommands DEF CreateCommands
  <1>5. CASE row.type # "wg"
    <2>1. TunnelAdd(row.id, row.type, row.ip) \in Command
      BY <1>1, <1>5 DEF TunnelAdd, Command, Row
    <2>2. LinkUp(row.id) \in Command
      BY <1>1 DEF LinkUp, Command
    <2>3. AddrAdd(row.ula, row.id) \in Command
      BY <1>1 DEF AddrAdd, Command, Row
    <2> QED BY <1>1, <1>2, <1>3, <1>5, <2>1, <2>2, <2>3, SixCommands DEF CreateCommands
  <1> QED BY <1>4, <1>5

LEMMA DeleteCommandsTyped ==
  ASSUME NEW row \in Row, WellFormed(row)
  PROVE  DeleteCommands(row) \in Seq(Command) /\ DeleteCommands(row) # <<>>
  <1>1. row.user \in Users /\ row.id \in Ids
    BY DEF Row
  <1>2. Net(row.p1) \in Nets /\ Net(row.p2) \in Nets /\ Net(row.p3) \in Nets
    BY <1>1, RowNets
  <1>3. \A n \in Nets : RouteDel(n, Wg0) \in Command
    BY DEF RouteDel, Command
  <1>4. row.type = "wg" => PeerRemove(row.key) \in Command
    BY DEF PeerRemove, Command, WellFormed, KeyIfWg
  <1>5. TunnelDel(row.id) \in Command
    BY <1>1 DEF TunnelDel, Command
  <1>6. CASE row.type = "wg"
    BY <1>2, <1>3, <1>4, <1>6, FourCommands DEF DeleteCommands
  <1>7. CASE row.type # "wg"
    BY <1>5, <1>7 DEF DeleteCommands
  <1> QED BY <1>6, <1>7

-----------------------------------------------------------------------------
(* Lemmas about the statements *)

DatabaseOK ==
    /\ tunnels \subseteq Row
    /\ users \in [Registered -> [created : Nat, active : Nat]]
    /\ RowsWellFormed
    /\ IdsUnique

LEMMA CountersTyped ==
  ASSUME users \in [Registered -> [created : Nat, active : Nat]],
         NEW u, NEW delta \in Int, AddToCounters(u, delta)
  PROVE  users' \in [Registered -> [created : Nat, active : Nat]]
  <1>1. \A n \in Nat : Greatest(n + delta, 0) \in Nat
    BY DEF Greatest
  <1> QED BY <1>1 DEF AddToCounters

LEMMA InsertOK ==
  ASSUME DatabaseOK, NEW row \in Row, WellFormed(row), CreateTunnelWithTransaction(row)
  PROVE  DatabaseOK'
  <1>1. users' \in [Registered -> [created : Nat, active : Nat]]
    BY CountersTyped DEF DatabaseOK, CreateTunnelWithTransaction
  <1>2. tunnels' = tunnels \cup {row} /\ \A t \in tunnels : t.id # row.id
    BY DEF CreateTunnelWithTransaction, TunnelIDExists
  <1>3. RowsWellFormed' /\ IdsUnique'
    BY <1>2 DEF DatabaseOK, RowsWellFormed, IdsUnique, WellFormed, OwnId, FirstFromPool,
                SecondFromPool, ThirdFromPool, KeyIfWg
  <1> QED BY <1>1, <1>2, <1>3 DEF DatabaseOK

LEMMA UpdateOK ==
  ASSUME DatabaseOK, NEW id, NEW ip \in IPs, UpdateClientIPv4(id, ip)
  PROVE  DatabaseOK'
  <1> DEFINE new(t) == IF t.id = id THEN [t EXCEPT !.ip = ip] ELSE t
  <1>1. tunnels' = {new(t) : t \in tunnels} /\ users' = users
    BY DEF UpdateClientIPv4
  <1>2. ASSUME NEW t \in tunnels
        PROVE  /\ new(t) \in Row /\ new(t).id = t.id /\ new(t).user = t.user
               /\ new(t).type = t.type /\ new(t).key = t.key
               /\ new(t).p1 = t.p1 /\ new(t).p2 = t.p2 /\ new(t).p3 = t.p3
    <2>1. t \in Row
      BY DEF DatabaseOK
    <2>2. [t EXCEPT !.ip = ip] \in Row
      BY <2>1 DEF Row
    <2>3. new(t) \in Row
      BY <2>1, <2>2
    <2> QED BY <2>1, <2>3 DEF Row
  <1>3. \A t \in tunnels : WellFormed(new(t))
    BY <1>2 DEF DatabaseOK, RowsWellFormed, WellFormed, OwnId, FirstFromPool,
                SecondFromPool, ThirdFromPool, KeyIfWg
  <1> HIDE DEF new
  <1>4. RowsWellFormed'
    BY <1>1, <1>3 DEF RowsWellFormed
  <1>5. ASSUME NEW s \in tunnels', NEW t \in tunnels', s.id = t.id PROVE s = t
    <2>1. PICK x \in tunnels, y \in tunnels : s = new(x) /\ t = new(y)
      BY <1>1
    <2>2. x.id = y.id
      BY <1>2, <1>5, <2>1
    <2> QED BY <2>1, <2>2 DEF DatabaseOK, IdsUnique
  <1>6. tunnels' \subseteq Row
    BY <1>1, <1>2
  <1> QED BY <1>1, <1>4, <1>5, <1>6 DEF DatabaseOK, IdsUnique

LEMMA SetStatusOK ==
  ASSUME DatabaseOK, NEW id, NEW status \in Statuses, SetStatus(id, status)
  PROVE  DatabaseOK'
  <1> DEFINE new(t) == IF t.id = id THEN [t EXCEPT !.status = status] ELSE t
  <1>1. tunnels' = {new(t) : t \in tunnels} /\ users' = users
    BY DEF SetStatus
  <1>2. ASSUME NEW t \in tunnels
        PROVE  /\ new(t) \in Row /\ new(t).id = t.id /\ new(t).user = t.user
               /\ new(t).type = t.type /\ new(t).key = t.key
               /\ new(t).p1 = t.p1 /\ new(t).p2 = t.p2 /\ new(t).p3 = t.p3
    <2>1. t \in Row
      BY DEF DatabaseOK
    <2>2. [t EXCEPT !.status = status] \in Row
      BY <2>1 DEF Row
    <2>3. new(t) \in Row
      BY <2>1, <2>2
    <2> QED BY <2>1, <2>3 DEF Row
  <1>3. \A t \in tunnels : WellFormed(new(t))
    BY <1>2 DEF DatabaseOK, RowsWellFormed, WellFormed, OwnId, FirstFromPool,
                SecondFromPool, ThirdFromPool, KeyIfWg
  <1> HIDE DEF new
  <1>4. RowsWellFormed'
    BY <1>1, <1>3 DEF RowsWellFormed
  <1>5. ASSUME NEW s \in tunnels', NEW t \in tunnels', s.id = t.id PROVE s = t
    <2>1. PICK x \in tunnels, y \in tunnels : s = new(x) /\ t = new(y)
      BY <1>1
    <2>2. x.id = y.id
      BY <1>2, <1>5, <2>1
    <2> QED BY <2>1, <2>2 DEF DatabaseOK, IdsUnique
  <1>6. tunnels' \subseteq Row
    BY <1>1, <1>2
  <1> QED BY <1>1, <1>4, <1>5, <1>6 DEF DatabaseOK, IdsUnique

LEMMA DeleteOK ==
  ASSUME DatabaseOK, NEW id, DeleteTunnel(id)
  PROVE  DatabaseOK'
  BY DEF DatabaseOK, DeleteTunnel, RowsWellFormed, IdsUnique, WellFormed, OwnId,
         FirstFromPool, SecondFromPool, ThirdFromPool, KeyIfWg

LEMMA DecrementOK ==
  ASSUME DatabaseOK, NEW u, DecrementUserTunnels(u)
  PROVE  DatabaseOK'
  <1>1. users' \in [Registered -> [created : Nat, active : Nat]]
    BY CountersTyped DEF DatabaseOK, DecrementUserTunnels
  <1> QED BY <1>1 DEF DatabaseOK, DecrementUserTunnels, RowsWellFormed, IdsUnique, WellFormed,
             OwnId, FirstFromPool, SecondFromPool, ThirdFromPool, KeyIfWg

LEMMA SameDatabaseOK ==
  ASSUME DatabaseOK, UNCHANGED dbVars
  PROVE  DatabaseOK'
  BY DEF dbVars, DatabaseOK, RowsWellFormed, IdsUnique, WellFormed, OwnId,
         FirstFromPool, SecondFromPool, ThirdFromPool, KeyIfWg

-----------------------------------------------------------------------------
(* What the actions do to the requests.  LocalOK is what each must keep.   *)

LocalOK == req \in [Workers -> Request] /\ Stages

LEMMA Creating ==
  ASSUME LocalOK, NEW w \in Workers, NEW pc, At(w, "create", pc),
         pc \in {"count", "slot", "prefix1", "prefix2", "prefix3", "commit"}
  PROVE  /\ req[w] \in Request /\ StageOK(req[w]) /\ req[w].row \in Draft
         /\ req[w].op = "create" /\ req[w].pc = pc
         /\ req[w].row.user \in Users
  BY DEF LocalOK, Stages, At, StageOK, Request

LEMMA StartCreateOK ==
  ASSUME LocalOK, NEW w \in Workers, StartCreate(w)
  PROVE  LocalOK'
  <1>1. PICK u \in Users, type \in Types, ip \in IPs :
          Become(w, [Idle EXCEPT !.op = "create", !.pc = "count",
                       !.row = [NoRow EXCEPT !.user = u, !.type = type, !.ip = ip]])
    BY DEF StartCreate
  <1> DEFINE row == [NoRow EXCEPT !.user = u, !.type = type, !.ip = ip]
             r == [Idle EXCEPT !.op = "create", !.pc = "count", !.row = row]
  <1>2. row \in Draft /\ row.user = u /\ row.type = type /\ row.ip = ip
    BY NoRowType DEF Draft, NoRow
  <1> HIDE DEF row
  <1>3. r \in Request /\ r.pc = "count" /\ r.row = row
    BY <1>2, IdleOK DEF Request, Idle, StatementPcs
  <1>4. StageOK(r)
    BY <1>2, <1>3 DEF StageOK
  <1>5. Become(w, r)
    BY <1>1 DEF row
  <1> HIDE DEF r
  <1> QED BY <1>3, <1>4, <1>5, BecomeOK DEF LocalOK

LEMMA CountActiveOK ==
  ASSUME LocalOK, NEW w \in Workers, CountActive(w)
  PROVE  LocalOK'
  <1> DEFINE r == [req[w] EXCEPT !.pc = "slot", !.tries = 1]
  <1>1. At(w, "create", "count") /\ (Answer(w) \/ Become(w, r))
    BY DEF CountActive
  <1>2. req[w] \in Request /\ StageOK(req[w]) /\ req[w].pc = "count"
    BY <1>1, Creating
  <1>3. r \in Request /\ r.pc = "slot" /\ r.row = req[w].row /\ r.tries = 1
    BY <1>2 DEF Request, StatementPcs
  <1>4. StageOK(r)
    BY <1>2, <1>3 DEF StageOK, Slots
  <1> HIDE DEF r
  <1> QED BY <1>1, <1>3, <1>4, BecomeOK, AnswerOK DEF LocalOK

LEMMA FindSlotOK ==
  ASSUME LocalOK, NEW w \in Workers, FindSlot(w)
  PROVE  LocalOK'
  <1> DEFINE id == <<req[w].row.user, req[w].tries>>
             retry == [req[w] EXCEPT !.tries = @ + 1]
             found == [req[w] EXCEPT !.pc = "prefix1", !.row.id = id, !.tries = 0]
  <1>1. /\ At(w, "create", "slot")
        /\ \/ req[w].tries < 2 /\ Become(w, retry)
           \/ ParsesAsHex(req[w].row.user) /\ Become(w, found)
           \/ Answer(w)
    BY DEF FindSlot
  <1>2. /\ req[w] \in Request /\ StageOK(req[w]) /\ req[w].pc = "slot"
        /\ req[w].row \in Draft /\ req[w].row.user \in Users
    BY <1>1, Creating
  <1>3. req[w].tries \in Slots
    BY <1>2 DEF StageOK
  <1>4. CASE req[w].tries < 2 /\ Become(w, retry)
    <2>1. retry \in Request /\ retry.pc = "slot" /\ retry.row = req[w].row
          /\ retry.tries = req[w].tries + 1
      BY <1>2 DEF Request
    <2>2. StageOK(retry)
      BY <1>2, <1>3, <1>4, <2>1 DEF StageOK, Slots
    <2> HIDE DEF retry
    <2> QED BY <1>4, <2>1, <2>2, BecomeOK DEF LocalOK
  <1>5. CASE ParsesAsHex(req[w].row.user) /\ Become(w, found)
    <2>1. id \in Ids /\ id[1] = req[w].row.user
      BY <1>2, <1>3 DEF Ids
    <2> DEFINE row == [req[w].row EXCEPT !.id = id]
    <2> HIDE DEF id
    <2>2. /\ row \in Draft /\ row.id = id /\ row.user = req[w].row.user
          /\ row.type = req[w].row.type /\ row.ip = req[w].row.ip
      BY <1>2, <2>1 DEF Draft
    <2>3. found.row = row
      BY <1>2 DEF Request
    <2> HIDE DEF row
    <2>4. found \in Request /\ found.pc = "prefix1"
      BY <1>2, <2>2, <2>3 DEF Request, StatementPcs
    <2> HIDE DEF found
    <2>5. StageOK(found)
      BY <1>2, <1>5, <2>1, <2>2, <2>3, <2>4 DEF StageOK, OwnId
    <2> QED BY <1>5, <2>4, <2>5, BecomeOK DEF LocalOK
  <1> QED BY <1>1, <1>4, <1>5, AnswerOK DEF LocalOK

LEMMA AttemptOK ==
  ASSUME LocalOK, NEW w \in Workers, NEW p, NEW attempts, NEW next \in Request, StageOK(next),
         req[w].pc \in {"prefix1", "prefix2", "prefix3"},
         req[w].pc = "prefix3" => attempts = ThirdAttempts(req[w].row.id[2]),
         Attempt(w, p, attempts, next)
  PROVE  LocalOK'
  <1> DEFINE retry == [req[w] EXCEPT !.tries = @ + 1]
  <1>1. \/ Become(w, next)
        \/ req[w].tries + 1 < attempts /\ Become(w, retry)
        \/ Answer(w)
    BY DEF Attempt
  <1>2. req[w] \in Request /\ StageOK(req[w])
    BY DEF LocalOK, Stages
  <1>3. CASE req[w].tries + 1 < attempts /\ Become(w, retry)
    <2>1. retry \in Request /\ retry.pc = req[w].pc /\ retry.row = req[w].row
          /\ retry.tries = req[w].tries + 1
      BY <1>2 DEF Request
    <2> HIDE DEF retry
    <2>2. StageOK(retry)
      BY <1>2, <1>3, <2>1 DEF StageOK
    <2> QED BY <1>3, <2>1, <2>2, BecomeOK DEF LocalOK
  <1> QED BY <1>1, <1>3, BecomeOK, AnswerOK DEF LocalOK

LEMMA DigitsType == Digits \subseteq 0 .. 15
  BY AttemptAssumption DEF Digits

(* A generated prefix is a prefix.                                         *)
LEMMA DelegatedType ==
  ASSUME NEW pool \in Pools, NEW digit \in Digits, NEW u \in Users, ParsesAsHex(u)
  PROVE  LET p == generateDelegatedPrefix(pool, digit, u)
         IN  p \in Prefix /\ p.pool = pool /\ p.group = Canonical[u]
  BY DigitsType, UserAssumption DEF generateDelegatedPrefix, Prefix, ParsesAsHex

LEMMA ThirdAttemptsPositive ==
  ASSUME NEW n \in Slots
  PROVE  ThirdAttempts(n) \in Nat /\ 0 < ThirdAttempts(n)
  <1> DEFINE len == Len(ThirdPools(n))
  <1>1. len = 1 \/ len = 2
    BY DEF ThirdPools, Slots
  <1> HIDE DEF len
  <1>2. MaxAttempts * len \in Nat /\ 0 < MaxAttempts * len
    BY <1>1, AttemptAssumption
  <1> QED BY <1>2 DEF ThirdAttempts, len

LEMMA FindFirstPrefixOK ==
  ASSUME LocalOK, NEW w \in Workers, FindFirstPrefix(w)
  PROVE  LocalOK'
  <1> DEFINE old == req[w].row
  <1>1. /\ req[w] \in Request /\ StageOK(req[w]) /\ req[w].pc = "prefix1"
        /\ old \in Draft /\ old.user \in Users
    BY Creating DEF FindFirstPrefix
  <1>2. old.type \in Types /\ old.ip \in IPs /\ OwnId(old)
    BY <1>1 DEF StageOK
  <1>3. PICK digit \in Digits :
          LET p == generateDelegatedPrefix(Primary[old.id[2]], digit, old.user)
          IN  Attempt(w, p, MaxAttempts,
                      [req[w] EXCEPT !.pc = "prefix2", !.row.p1 = p, !.tries = 0])
    BY DEF FindFirstPrefix
  <1> DEFINE p == generateDelegatedPrefix(Primary[old.id[2]], digit, old.user)
             row == [old EXCEPT !.p1 = p]
             next == [req[w] EXCEPT !.pc = "prefix2", !.row.p1 = p, !.tries = 0]
  <1>4. p \in Prefix /\ p.pool = Primary[old.id[2]] /\ p.group = Canonical[old.user]
    <2>1. Primary[old.id[2]] \in Pools
      BY <1>2 DEF OwnId, Ids, Pools
    <2> QED BY <1>1, <1>2, <2>1, DelegatedType DEF OwnId
  <1>5. Attempt(w, p, MaxAttempts, next)
    BY <1>3
  <1> HIDE DEF p
  <1>6. /\ row \in Draft /\ row.id = old.id /\ row.user = old.user
        /\ row.type = old.type /\ row.ip = old.ip /\ row.p1 = p
    BY <1>1, <1>4 DEF Draft
  <1>7. next.row = row
    BY <1>1 DEF Request
  <1> HIDE DEF row
  <1>8. next \in Request /\ next.pc = "prefix2"
    BY <1>1, <1>6, <1>7 DEF Request, StatementPcs
  <1> HIDE DEF next
  <1>9. StageOK(next)
    BY <1>1, <1>2, <1>4, <1>6, <1>7, <1>8 DEF StageOK, OwnId, FirstFromPool
  <1> QED BY <1>1, <1>5, <1>8, <1>9, AttemptOK

LEMMA FindSecondPrefixOK ==
  ASSUME LocalOK, NEW w \in Workers, FindSecondPrefix(w)
  PROVE  LocalOK'
  <1> DEFINE old == req[w].row
  <1>1. /\ req[w] \in Request /\ StageOK(req[w]) /\ req[w].pc = "prefix2"
        /\ old \in Draft /\ old.user \in Users
    BY Creating DEF FindSecondPrefix
  <1>2. old.type \in Types /\ old.ip \in IPs /\ OwnId(old) /\ FirstFromPool(old)
    BY <1>1 DEF StageOK
  <1>3. PICK digit \in Digits, ula \in Ulas :
          LET p == generateDelegatedPrefix(Secondary[old.id[2]], digit, old.user)
          IN  Attempt(w, p, MaxAttempts,
                      [req[w] EXCEPT !.pc = "prefix3", !.row.p2 = p, !.row.ula = ula, !.tries = 0])
    BY DEF FindSecondPrefix
  <1> DEFINE p == generateDelegatedPrefix(Secondary[old.id[2]], digit, old.user)
             row == [old EXCEPT !.p2 = p, !.ula = ula]
             next == [req[w] EXCEPT !.pc = "prefix3", !.row.p2 = p, !.row.ula = ula, !.tries = 0]
  <1>4. p \in Prefix /\ p.pool = Secondary[old.id[2]] /\ p.group = Canonical[old.user]
    <2>1. Secondary[old.id[2]] \in Pools
      BY <1>2 DEF OwnId, Ids, Pools
    <2> QED BY <1>1, <1>2, <2>1, DelegatedType DEF OwnId
  <1>5. Attempt(w, p, MaxAttempts, next)
    BY <1>3
  <1> HIDE DEF p
  <1>6. /\ row \in Draft /\ row.id = old.id /\ row.user = old.user
        /\ row.type = old.type /\ row.ip = old.ip /\ row.p1 = old.p1
        /\ row.p2 = p /\ row.ula = ula
    BY <1>1, <1>4 DEF Draft
  <1>7. next.row = row
    BY <1>1 DEF Request
  <1> HIDE DEF row
  <1>8. next \in Request /\ next.pc = "prefix3" /\ next.tries = 0
    BY <1>1, <1>6, <1>7 DEF Request, StatementPcs
  <1> HIDE DEF next
  <1>9. 0 < ThirdAttempts(old.id[2])
    BY <1>2, ThirdAttemptsPositive DEF OwnId, Ids
  <1>10. OwnId(row) /\ FirstFromPool(row) /\ SecondFromPool(row)
    BY <1>2, <1>4, <1>6 DEF OwnId, FirstFromPool, SecondFromPool
  <1>11. StageOK(next)
    BY <1>1, <1>2, <1>6, <1>7, <1>8, <1>9, <1>10 DEF StageOK
  <1> QED BY <1>1, <1>5, <1>8, <1>11, AttemptOK

LEMMA TurnOfAttempt ==
  ASSUME NEW attempts \in Nat \ {0}, NEW t \in Nat, NEW len \in {1, 2}, t < attempts * len
  PROVE  (t \div attempts) + 1 \in 1 .. len
  <1>1. CASE len = 1
    BY <1>1
  <1>2. CASE len = 2
    BY <1>2
  <1> QED BY <1>1, <1>2

(* Every attempt at a third prefix has a pool to try.                      *)
LEMMA ThirdPoolType ==
  ASSUME NEW n \in Slots, NEW t \in Nat, t < ThirdAttempts(n)
  PROVE  ThirdPoolOfAttempt(n, t) \in {Third, AltThird} \ {NoPool}
  <1> DEFINE pools == ThirdPools(n)
  <1>1. /\ Len(pools) \in {1, 2}
        /\ \A i \in 1 .. Len(pools) : pools[i] \in {Third, AltThird} \ {NoPool}
    BY PoolAssumption DEF ThirdPools, hasAltPool, Slots
  <1>2. (t \div MaxAttempts) + 1 \in 1 .. Len(pools)
    BY <1>1, TurnOfAttempt, AttemptAssumption DEF ThirdAttempts
  <1> QED BY <1>1, <1>2 DEF ThirdPoolOfAttempt

LEMMA FindThirdPrefixOK ==
  ASSUME LocalOK, NEW w \in Workers, FindThirdPrefix(w)
  PROVE  LocalOK'
  <1> DEFINE old == req[w].row
             n == old.id[2]
             p == generateThirdPrefix(ThirdPoolOfAttempt(n, req[w].tries), old.user)
  <1>1. /\ req[w] \in Request /\ StageOK(req[w]) /\ req[w].pc = "prefix3"
        /\ old \in Draft /\ old.user \in Users
    BY Creating DEF FindThirdPrefix
  <1>2. /\ old.type \in Types /\ old.ip \in IPs /\ OwnId(old)
        /\ FirstFromPool(old) /\ SecondFromPool(old) /\ old.ula \in Ulas
        /\ req[w].tries < ThirdAttempts(n)
    BY <1>1 DEF StageOK
  <1>3. PICK key \in IF old.type = "wg" THEN FreshKeys ELSE {None} :
          Attempt(w, p, ThirdAttempts(n),
                  [req[w] EXCEPT !.pc = "commit", !.row.p3 = p, !.row.key = key, !.tries = 0])
    BY DEF FindThirdPrefix
  <1> DEFINE row == [old EXCEPT !.p3 = p, !.key = key]
             next == [req[w] EXCEPT !.pc = "commit", !.row.p3 = p, !.row.key = key, !.tries = 0]
  <1>4. p \in Prefix /\ p.pool \in {Third, AltThird} /\ p.group = old.user
    <2>1. n \in Slots /\ req[w].tries \in Nat
      BY <1>1, <1>2 DEF OwnId, Ids, Request
    <2>2. ThirdPoolOfAttempt(n, req[w].tries) \in {Third, AltThird} \ {NoPool}
      BY <1>2, <2>1, ThirdPoolType
    <2> HIDE DEF n
    <2> QED BY <1>1, <2>2 DEF generateThirdPrefix, Prefix, Pools
  <1>5. Attempt(w, p, ThirdAttempts(n), next)
    BY <1>3
  <1>6. key \in Keys \cup {None} /\ (old.type = "wg" => key \in Keys)
    BY DEF FreshKeys
  <1> HIDE DEF p
  <1>7. /\ row \in Draft /\ row.id = old.id /\ row.user = old.user
        /\ row.type = old.type /\ row.ip = old.ip /\ row.p1 = old.p1
        /\ row.p2 = old.p2 /\ row.ula = old.ula /\ row.p3 = p /\ row.key = key
    BY <1>1, <1>4, <1>6 DEF Draft
  <1>8. next.row = row
    BY <1>1 DEF Request
  <1> HIDE DEF row
  <1>9. next \in Request /\ next.pc = "commit"
    BY <1>1, <1>7, <1>8 DEF Request, StatementPcs
  <1> HIDE DEF next
  <1>10. OwnId(row) /\ FirstFromPool(row) /\ SecondFromPool(row) /\ ThirdFromPool(row) /\ KeyIfWg(row)
    BY <1>2, <1>4, <1>6, <1>7 DEF OwnId, FirstFromPool, SecondFromPool, ThirdFromPool, KeyIfWg
  <1>11. StageOK(next)
    BY <1>1, <1>2, <1>7, <1>8, <1>9, <1>10 DEF StageOK
  <1> QED BY <1>1, <1>5, <1>9, <1>11, AttemptOK

(* A draft about to be committed is a well-formed row.                     *)
LEMMA DraftComplete ==
  ASSUME LocalOK, NEW w \in Workers, At(w, "create", "commit")
  PROVE  req[w] \in Request /\ req[w].row \in Row /\ WellFormed(req[w].row)
  <1> DEFINE row == req[w].row
  <1>1. req[w] \in Request /\ StageOK(req[w]) /\ req[w].pc = "commit" /\ row \in Draft
        /\ row.user \in Users
    BY Creating
  <1>2. /\ row.type \in Types /\ row.ip \in IPs /\ OwnId(row)
        /\ FirstFromPool(row) /\ SecondFromPool(row) /\ row.ula \in Ulas
        /\ ThirdFromPool(row) /\ KeyIfWg(row)
    BY <1>1 DEF StageOK
  <1> HIDE DEF row
  <1>3. row \in Row
    BY <1>1, <1>2, TableAssumption DEF Draft, Row, OwnId, FirstFromPool, SecondFromPool, ThirdFromPool
  <1> QED BY <1>1, <1>2, <1>3 DEF WellFormed, row

LEMMA NeededType ==
  ASSUME NEW row, row.user \in Users \cup {None}, row.key \in Keys \cup {None}
  PROVE  Needed(row) \in Draft
  BY NoRowType DEF Needed, NoRow, Draft

LEMMA CommitOK ==
  ASSUME LocalOK, NEW w \in Workers, Commit(w)
  PROVE  LocalOK'
  <1> DEFINE row == req[w].row
             todo == CreateCommands(row)
             keep == Needed(row)
             next == [req[w] EXCEPT !.pc = "exec", !.id = row.id, !.row = keep, !.todo = todo]
  <1>1. /\ req[w] \in Request /\ row \in Row /\ WellFormed(row) /\ req[w].op = "create"
    BY DraftComplete DEF Commit, At
  <1>2. todo \in Seq(Command) /\ todo # <<>>
    BY <1>1, CreateCommandsTyped
  <1>3. keep \in Draft /\ row.id \in Ids
    BY <1>1, NeededType DEF Row
  <1>4. Become(w, next)
    BY DEF Commit, Needed
  <1> HIDE DEF row, todo, keep
  <1>5. next \in Request /\ next.pc = "exec" /\ next.todo = todo /\ next.op = "create"
    BY <1>1, <1>2, <1>3 DEF Request
  <1> HIDE DEF next
  <1>6. StageOK(next)
    BY <1>2, <1>5 DEF StageOK
  <1> QED BY <1>4, <1>5, <1>6, BecomeOK DEF LocalOK

LEMMA StartUpdateOK ==
  ASSUME LocalOK, NEW w \in Workers, StartUpdate(w)
  PROVE  LocalOK'
  <1>1. PICK id \in Ids, ip \in IPs :
          Become(w, [Idle EXCEPT !.op = "update", !.pc = "update", !.id = id, !.ip = ip])
    BY DEF StartUpdate
  <1> DEFINE r == [Idle EXCEPT !.op = "update", !.pc = "update", !.id = id, !.ip = ip]
  <1>2. r \in Request /\ r.pc = "update" /\ r.id = id /\ r.ip = ip
    BY IdleOK DEF Request, Idle, StatementPcs
  <1>3. StageOK(r)
    BY <1>2 DEF StageOK
  <1> HIDE DEF r
  <1> QED BY <1>1, <1>2, <1>3, BecomeOK DEF LocalOK, r

LEMMA StartDeleteOK ==
  ASSUME LocalOK, NEW w \in Workers, StartDelete(w)
  PROVE  LocalOK'
  <1>1. PICK id \in Ids :
          Become(w, [Idle EXCEPT !.op = "delete", !.pc = "lookup", !.id = id])
    BY DEF StartDelete
  <1> DEFINE r == [Idle EXCEPT !.op = "delete", !.pc = "lookup", !.id = id]
  <1>2. r \in Request /\ r.pc = "lookup" /\ r.id = id
    BY IdleOK DEF Request, Idle, StatementPcs
  <1>3. StageOK(r)
    BY <1>2 DEF StageOK
  <1> HIDE DEF r
  <1> QED BY <1>1, <1>2, <1>3, BecomeOK DEF LocalOK, r

LEMMA UpdateIPOK ==
  ASSUME LocalOK, NEW w \in Workers, UpdateIP(w)
  PROVE  LocalOK'
  <1> DEFINE next == [req[w] EXCEPT !.pc = "select"]
  <1>1. req[w] \in Request /\ StageOK(req[w]) /\ req[w].pc = "update"
    BY DEF LocalOK, Stages, UpdateIP, At
  <1>2. Become(w, next)
    BY DEF UpdateIP
  <1>3. next \in Request /\ next.pc = "select" /\ next.id = req[w].id /\ next.ip = req[w].ip
    BY <1>1 DEF Request, StatementPcs
  <1> HIDE DEF next
  <1>4. StageOK(next)
    BY <1>1, <1>3 DEF StageOK
  <1> QED BY <1>2, <1>3, <1>4, BecomeOK DEF LocalOK

LEMMA ReselectOK ==
  ASSUME LocalOK, tunnels \subseteq Row, NEW w \in Workers, Reselect(w)
  PROVE  LocalOK'
  <1>1. /\ req[w] \in Request /\ StageOK(req[w]) /\ req[w].pc = "select"
        /\ req[w].op = "update" /\ req[w].ip \in IPs
    BY DEF LocalOK, Stages, Reselect, At, StageOK
  <1>2. ASSUME NEW row \in GetTunnelByID(req[w].id), row.type # "wg",
               Become(w, [req[w] EXCEPT !.pc = "exec",
                            !.todo = <<TunnelChange(row.id, row.type, req[w].ip)>>])
        PROVE  LocalOK'
    <2> DEFINE todo == <<TunnelChange(row.id, row.type, req[w].ip)>>
               next == [req[w] EXCEPT !.pc = "exec", !.todo = todo]
    <2>1. row \in Row
      BY DEF GetTunnelByID
    <2>2. TunnelChange(row.id, row.type, req[w].ip) \in Command
      BY <1>1, <1>2, <2>1 DEF TunnelChange, Command, Row
    <2>3. todo \in Seq(Command) /\ todo # <<>>
      BY <2>2
    <2>4. Become(w, next)
      BY <1>2
    <2> HIDE DEF todo
    <2>5. next \in Request /\ next.pc = "exec" /\ next.todo = todo /\ next.op = "update"
      BY <1>1, <2>3 DEF Request
    <2> HIDE DEF next
    <2>6. StageOK(next)
      BY <2>3, <2>5 DEF StageOK
    <2> QED BY <2>4, <2>5, <2>6, BecomeOK DEF LocalOK
  <1> QED BY <1>2, AnswerOK DEF Reselect, LocalOK

LEMMA LookupOK ==
  ASSUME LocalOK, tunnels \subseteq Row, RowsWellFormed, NEW w \in Workers, Lookup(w)
  PROVE  LocalOK'
  <1>1. /\ req[w] \in Request /\ StageOK(req[w]) /\ req[w].pc = "lookup"
        /\ req[w].id \in Ids
    BY DEF LocalOK, Stages, Lookup, At, StageOK
  <1>2. ASSUME NEW row \in GetTunnelByID(req[w].id),
               Become(w, [req[w] EXCEPT !.pc = "exec", !.row = Needed(row),
                                      !.todo = DeleteCommands(row)])
        PROVE  LocalOK'
    <2> DEFINE todo == DeleteCommands(row)
               keep == Needed(row)
               next == [req[w] EXCEPT !.pc = "exec", !.row = keep, !.todo = todo]
    <2>1. row \in Row /\ WellFormed(row)
      BY DEF GetTunnelByID, RowsWellFormed
    <2>2. todo \in Seq(Command) /\ todo # <<>>
      BY <2>1, DeleteCommandsTyped
    <2>3. keep \in Draft
      BY <2>1, NeededType DEF Row
    <2>4. Become(w, next)
      BY <1>2
    <2> HIDE DEF todo, keep
    <2>5. /\ next \in Request /\ next.pc = "exec" /\ next.todo = todo
          /\ next.op = req[w].op /\ next.id = req[w].id
      BY <1>1, <2>2, <2>3 DEF Request
    <2> HIDE DEF next
    <2>6. StageOK(next)
      BY <1>1, <2>2, <2>5 DEF StageOK
    <2> QED BY <2>4, <2>5, <2>6, BecomeOK DEF LocalOK
  <1> QED BY <1>2, AnswerOK DEF Lookup, LocalOK

LEMMA DeleteRowOK ==
  ASSUME LocalOK, NEW w \in Workers, DeleteRow(w)
  PROVE  LocalOK'
  <1> DEFINE next == [req[w] EXCEPT !.pc = "decrement"]
  <1>1. req[w] \in Request /\ Become(w, next)
    BY DEF LocalOK, DeleteRow
  <1>2. next \in Request /\ next.pc = "decrement"
    BY <1>1 DEF Request, StatementPcs
  <1> HIDE DEF next
  <1>3. StageOK(next)
    BY <1>2 DEF StageOK
  <1> QED BY <1>1, <1>2, <1>3, BecomeOK DEF LocalOK

LEMMA NextCommandOK ==
  ASSUME LocalOK, NEW w \in Workers, req[w].pc = "exec", NextCommand(w)
  PROVE  LocalOK'
  <1> DEFINE rest == Tail(req[w].todo)
             more == [req[w] EXCEPT !.todo = rest]
             last == [req[w] EXCEPT !.pc = "delete", !.todo = rest]
  <1>1. req[w] \in Request /\ StageOK(req[w]) /\ req[w].todo # <<>>
    BY DEF LocalOK, Stages, StageOK
  <1>2. rest \in Seq(Command)
    <2>1. req[w].todo \in Seq(Command)
      BY <1>1 DEF Request
    <2> QED BY <1>1, <2>1
  <1>3. \/ rest # <<>> /\ Become(w, more)
        \/ req[w].op = "delete" /\ Become(w, last)
        \/ Answer(w)
    BY DEF NextCommand
  <1> HIDE DEF rest
  <1>4. CASE rest # <<>> /\ Become(w, more)
    <2>1. /\ more \in Request /\ more.pc = "exec" /\ more.todo = rest
          /\ more.op = req[w].op /\ more.id = req[w].id
      BY <1>1, <1>2 DEF Request
    <2> HIDE DEF more
    <2>2. StageOK(more)
      BY <1>1, <1>4, <2>1 DEF StageOK
    <2> QED BY <1>4, <2>1, <2>2, BecomeOK DEF LocalOK
  <1>5. CASE req[w].op = "delete" /\ Become(w, last)
    <2>1. last \in Request /\ last.pc = "delete" /\ last.id = req[w].id
      BY <1>1, <1>2 DEF Request, StatementPcs
    <2> HIDE DEF last
    <2>2. StageOK(last)
      BY <1>1, <1>5, <2>1 DEF StageOK
    <2> QED BY <1>5, <2>1, <2>2, BecomeOK DEF LocalOK
  <1> QED BY <1>3, <1>4, <1>5, AnswerOK DEF LocalOK

-----------------------------------------------------------------------------
(* The inductive invariant holds at first and every action preserves it.   *)

LEMMA IInvParts ==
  IInv <=> DatabaseOK /\ KernelTyped /\ LocalOK /\ faults \in 0 .. MaxFaults
  BY DEF IInv, TypeOK, DatabaseOK, KernelTyped, LocalOK

LEMMA SameKernel ==
  ASSUME KernelTyped, UNCHANGED kernelVars
  PROVE  KernelTyped'
  BY DEF KernelTyped, kernelVars

LEMMA InitInv == Init => IInv
  <1> SUFFICES ASSUME Init PROVE DatabaseOK /\ KernelTyped /\ LocalOK /\ faults \in 0 .. MaxFaults
    BY IInvParts
  <1>1. DatabaseOK
    BY DEF Init, DatabaseInit, DatabaseOK, RowsWellFormed, IdsUnique
  <1>2. KernelTyped
    BY DeviceAssumption DEF Init, KernelInit, KernelTyped
  <1>3. LocalOK
    BY IdleOK DEF Init, LocalOK, Stages
  <1>4. faults \in 0 .. MaxFaults
    BY FaultAssumption DEF Init
  <1> QED BY <1>1, <1>2, <1>3, <1>4

LEMMA FaultOK ==
  ASSUME faults \in 0 .. MaxFaults, Fault
  PROVE  faults' \in 0 .. MaxFaults
  BY FaultAssumption DEF Fault

LEMMA NextInv == IInv /\ [Next]_vars => IInv'
  <1> SUFFICES ASSUME IInv, [Next]_vars PROVE IInv'
    OBVIOUS
  <1> USE DEF kernelVars, dbVars
  <1>0. DatabaseOK /\ KernelTyped /\ LocalOK /\ faults \in 0 .. MaxFaults
    BY IInvParts
  <1>a. DatabaseOK' /\ KernelTyped' /\ LocalOK' /\ (faults \in 0 .. MaxFaults)' => IInv'
    BY IInvParts, PTL
  <1>1. ASSUME NEW w \in Workers, Start(w) PROVE IInv'
    <2>1. UNCHANGED <<dbVars, kernelVars, faults>>
      BY <1>1 DEF Start, StartCreate, StartUpdate, StartDelete
    <2>2. LocalOK'
      BY <1>0, <1>1, StartCreateOK, StartUpdateOK, StartDeleteOK DEF Start
    <2> QED BY <1>0, <1>a, <2>1, <2>2, SameDatabaseOK, SameKernel
  <1>2. ASSUME NEW w \in Workers, CreateStep(w) PROVE IInv'
    <2>1. CASE Commit(w)
      <3>1. DatabaseOK'
        BY <1>0, <2>1, InsertOK, DraftComplete DEF Commit
      <3>2. UNCHANGED <<kernelVars, faults>>
        BY <2>1 DEF Commit
      <3> QED BY <1>0, <1>a, <2>1, <3>1, <3>2, CommitOK, SameKernel
    <2>2. CASE ~Commit(w)
      <3>1. UNCHANGED <<dbVars, kernelVars, faults>>
        BY <1>2, <2>2 DEF CreateStep, CountActive, FindSlot, FindFirstPrefix, FindSecondPrefix,
           FindThirdPrefix, CommitRefused
      <3>2. ASSUME CommitRefused(w) PROVE LocalOK'
        BY <1>0, <3>2, AnswerOK DEF CommitRefused, LocalOK
      <3>3. LocalOK'
        BY <1>0, <1>2, <2>2, <3>2, CountActiveOK, FindSlotOK, FindFirstPrefixOK,
           FindSecondPrefixOK, FindThirdPrefixOK DEF CreateStep
      <3> QED BY <1>0, <1>a, <3>1, <3>3, SameDatabaseOK, SameKernel
    <2> QED BY <2>1, <2>2
  <1>3. ASSUME NEW w \in Workers, UpdateStep(w) PROVE IInv'
    <2>1. CASE UpdateIP(w)
      <3>1. req[w].ip \in IPs
        BY <1>0, <2>1 DEF LocalOK, Stages, StageOK, UpdateIP, At
      <3>2. DatabaseOK'
        BY <1>0, <2>1, <3>1, UpdateOK DEF UpdateIP
      <3>3. UNCHANGED <<kernelVars, faults>>
        BY <2>1 DEF UpdateIP
      <3> QED BY <1>0, <1>a, <2>1, <3>2, <3>3, UpdateIPOK, SameKernel
    <2>2. CASE Reselect(w)
      <3>1. LocalOK'
        BY <1>0, <2>2, ReselectOK DEF DatabaseOK
      <3>2. UNCHANGED <<dbVars, kernelVars, faults>>
        BY <2>2 DEF Reselect
      <3> QED BY <1>0, <1>a, <3>1, <3>2, SameDatabaseOK, SameKernel
    <2> QED BY <1>3, <2>1, <2>2 DEF UpdateStep
  <1>4. ASSUME NEW w \in Workers, DeleteStep(w) PROVE IInv'
    <2>1. CASE Lookup(w)
      <3>1. LocalOK'
        BY <1>0, <2>1, LookupOK DEF DatabaseOK
      <3>2. UNCHANGED <<dbVars, kernelVars, faults>>
        BY <2>1 DEF Lookup
      <3> QED BY <1>0, <1>a, <3>1, <3>2, SameDatabaseOK, SameKernel
    <2>2. CASE DeleteRow(w)
      <3>1. DatabaseOK'
        BY <1>0, <2>2, DeleteOK DEF DeleteRow
      <3>2. UNCHANGED <<kernelVars, faults>>
        BY <2>2 DEF DeleteRow
      <3> QED BY <1>0, <1>a, <2>2, <3>1, <3>2, DeleteRowOK, SameKernel
    <2>3. CASE Decrement(w)
      <3>1. DatabaseOK'
        BY <1>0, <2>3, DecrementOK DEF Decrement
      <3>2. LocalOK'
        BY <1>0, <2>3, AnswerOK DEF Decrement, LocalOK
      <3>3. UNCHANGED <<kernelVars, faults>>
        BY <2>3 DEF Decrement
      <3> QED BY <1>0, <1>a, <3>1, <3>2, <3>3, SameKernel
    <2> QED BY <1>4, <2>1, <2>2, <2>3 DEF DeleteStep
  <1>5. ASSUME NEW w \in Workers, CommandStep(w) PROVE IInv'
    <2>1. CASE Execute(w)
      <3>1. Head(req[w].todo) \in Command
        <4>1. req[w].todo \in Seq(Command) /\ req[w].todo # <<>>
          BY <1>0, <2>1 DEF Execute, LocalOK, Request, Stages, StageOK
        <4> QED BY <4>1
      <3>2. KernelTyped'
        BY <1>0, <2>1, <3>1, RunTyped DEF Execute
      <3>3. LocalOK'
        BY <1>0, <2>1, NextCommandOK DEF Execute
      <3>4. UNCHANGED <<dbVars, faults>>
        BY <2>1 DEF Execute
      <3> QED BY <1>0, <1>a, <3>2, <3>3, <3>4, SameDatabaseOK
    <2>2. CASE CommandRefused(w)
      <3>1. UNCHANGED <<dbVars, kernelVars, faults>>
        BY <2>2 DEF CommandRefused
      <3>2. LocalOK'
        BY <1>0, <2>2, NextCommandOK, AnswerOK DEF CommandRefused, AfterFailedCommand, LocalOK
      <3> QED BY <1>0, <1>a, <3>1, <3>2, SameDatabaseOK, SameKernel
    <2> QED BY <1>5, <2>1, <2>2 DEF CommandStep
  <1>6. ASSUME NEW w \in Workers, Failure(w) PROVE IInv'
    <2>1. CASE CommandFails(w)
      <3>1. UNCHANGED <<dbVars, kernelVars>> /\ Fault
        BY <2>1 DEF CommandFails
      <3>2. LocalOK'
        BY <1>0, <2>1, NextCommandOK, AnswerOK DEF CommandFails, AfterFailedCommand, LocalOK
      <3> QED BY <1>0, <1>a, <3>1, <3>2, SameDatabaseOK, SameKernel, FaultOK
    <2>2. CASE StatementFails(w)
      <3>1. UNCHANGED <<dbVars, kernelVars>> /\ Fault
        BY <2>2 DEF StatementFails
      <3>2. LocalOK'
        BY <1>0, <2>2, AnswerOK DEF StatementFails, LocalOK
      <3> QED BY <1>0, <1>a, <3>1, <3>2, SameDatabaseOK, SameKernel, FaultOK
    <2>3. CASE ConfirmationLost(w)
      <3>1. ASSUME At(w, "create", "commit") /\ CreateTunnelWithTransaction(req[w].row)
             PROVE  DatabaseOK'
        BY <1>0, <3>1, InsertOK, DraftComplete
      <3>2. ASSUME At(w, "update", "update") /\ UpdateClientIPv4(req[w].id, req[w].ip)
             PROVE  DatabaseOK'
        <4>1. req[w].ip \in IPs
          BY <1>0, <3>2 DEF LocalOK, Stages, StageOK, At
        <4> QED BY <1>0, <3>2, <4>1, UpdateOK
      <3>3. ASSUME At(w, "delete", "delete") /\ DeleteTunnel(req[w].id)
             PROVE  DatabaseOK'
        BY <1>0, <3>3, DeleteOK
      <3>4. DatabaseOK'
        BY <2>3, <3>1, <3>2, <3>3 DEF ConfirmationLost
      <3>5. LocalOK'
        BY <1>0, <2>3, AnswerOK DEF ConfirmationLost, LocalOK
      <3>6. UNCHANGED kernelVars /\ Fault
        BY <2>3 DEF ConfirmationLost
      <3> QED BY <1>0, <1>a, <3>4, <3>5, <3>6, SameKernel, FaultOK
    <2> QED BY <1>6, <2>1, <2>2, <2>3 DEF Failure
  <1>7. CASE Restart
    <2>1. UNCHANGED <<dbVars, links, routes, peers>> /\ Fault
      BY <1>7 DEF Restart
    <2>2. LocalOK'
      BY <1>7, IdleOK DEF Restart, LocalOK, Stages
    <2>3. KernelTyped'
      BY <1>0, <1>7, <2>1, DeviceAssumption DEF Restart, KernelTyped
    <2> QED BY <1>0, <1>a, <2>1, <2>2, <2>3, SameDatabaseOK, FaultOK
  <1>8. CASE ChangeStatus
    <2>1. DatabaseOK'
      BY <1>0, <1>8, SetStatusOK DEF ChangeStatus
    <2>2. UNCHANGED <<kernelVars, req, faults>>
      BY <1>8 DEF ChangeStatus
    <2>3. LocalOK'
      BY <1>0, <2>2 DEF LocalOK, Stages
    <2> QED BY <1>0, <1>a, <2>1, <2>2, <2>3, SameKernel
  <1>9. CASE UNCHANGED vars
    <2>1. UNCHANGED <<dbVars, kernelVars, req, faults>>
      BY <1>9 DEF vars
    <2>2. LocalOK'
      BY <1>0, <2>1 DEF LocalOK, Stages
    <2> QED BY <1>0, <1>a, <2>1, <2>2, SameDatabaseOK, SameKernel
  <1> QED BY <1>1, <1>2, <1>3, <1>4, <1>5, <1>6, <1>7, <1>8, <1>9 DEF Next, Serve, Step

THEOREM Invariance == Spec => []IInv
  BY InitInv, NextInv, PTL DEF Spec

-----------------------------------------------------------------------------
(* What follows from it *)

(* No two user ids denote one number: true of the ids the registration     *)
(* triggers make, lower case and of full width.                            *)
DistinctNumbers ==
    \A u, v \in Users : ParsesAsHex(u) /\ Canonical[u] = Canonical[v] => u = v

(* In every reachable state the tables, the kernel and the requests are    *)
(* well typed, and no counter of a user is negative.                       *)
THEOREM TypeCorrect == Spec => []TypeOK
  <1>1. IInv => TypeOK
    BY DEF IInv
  <1> QED BY <1>1, Invariance, PTL

-----------------------------------------------------------------------------
(* The slot of an id numbers the tunnels of one user.                      *)

LEMMA RowsBounded ==
  ASSUME DatabaseOK, NEW u \in Users
  PROVE  IsFiniteSet(RowsOf(u)) /\ Cardinality(RowsOf(u)) <= 2
  <1> DEFINE S == RowsOf(u)
             f == [t \in S |-> t.id[2]]
  <1>1. ASSUME NEW t \in S PROVE t \in tunnels /\ t.id \in Ids /\ t.id[1] = u
    BY DEF RowsOf, DatabaseOK, RowsWellFormed, WellFormed, OwnId
  <1>2. f \in [S -> Slots]
    BY <1>1 DEF Ids
  <1>3. ASSUME NEW s \in S, NEW t \in S, f[s] = f[t] PROVE s = t
    <2>1. s.id = <<u, s.id[2]>> /\ t.id = <<u, t.id[2]>>
      BY <1>1 DEF Ids
    <2>2. s.id = t.id
      BY <1>3, <2>1
    <2> QED BY <1>1, <2>2 DEF DatabaseOK, IdsUnique
  <1>4. f \in Injection(S, Slots)
    BY <1>2, <1>3 DEF Injection, IsInjective
  <1>5. IsFiniteSet(Slots) /\ Cardinality(Slots) = 2
    <2>1. IsFiniteSet(1 .. 2) /\ Cardinality(1 .. 2) = IF 1 > 2 THEN 0 ELSE 2 - 1 + 1
      BY FS_Interval, 1 \in Int, 2 \in Int
    <2> QED BY <2>1 DEF Slots
  <1> HIDE DEF f
  <1> QED BY <1>4, <1>5, FS_Injection, FS_CardinalityType

LEMMA SlotLimitInductive == DatabaseOK => SlotLimit
  BY RowsBounded DEF SlotLimit

(* No interleaving of requests, failures and restarts gives a user a third *)
(* tunnel.                                                                 *)
THEOREM SlotLimitHolds == Spec => []SlotLimit
  BY Invariance, SlotLimitInductive, IInvParts, PTL

-----------------------------------------------------------------------------
(* A main prefix names the slot by its pool and the user by its group.     *)

LEMMA MainPrefixesDiffer ==
  ASSUME DatabaseOK, DistinctNumbers, NEW s \in tunnels, NEW t \in tunnels, s.id # t.id
  PROVE  {s.p1, s.p2} \cap Prefixes3(t) = {}
  <1>1. WellFormed(s) /\ WellFormed(t) /\ s.user \in Users /\ t.user \in Users
    BY DEF DatabaseOK, RowsWellFormed, Row
  <1>2. s.id \in Ids /\ t.id \in Ids /\ s.id[2] \in Slots /\ t.id[2] \in Slots
    BY <1>1 DEF WellFormed, OwnId, Ids
  <1>3. /\ s.p1.pool = Primary[s.id[2]] /\ s.p2.pool = Secondary[s.id[2]]
        /\ t.p1.pool = Primary[t.id[2]] /\ t.p2.pool = Secondary[t.id[2]]
        /\ t.p3.pool \in {Third, AltThird}
    BY <1>1 DEF WellFormed, FirstFromPool, SecondFromPool, ThirdFromPool
  <1>4. t.p3 \notin {s.p1, s.p2}
    BY <1>2, <1>3, PoolAssumption
  <1>5. s.p1 # t.p2 /\ s.p2 # t.p1
    BY <1>2, <1>3, PoolAssumption
  <1>6. ASSUME s.p1 = t.p1 \/ s.p2 = t.p2 PROVE FALSE
    <2>1. s.id[2] = t.id[2]
      BY <1>2, <1>3, <1>6, PoolAssumption DEF Slots
    <2>2. Canonical[s.user] = Canonical[t.user]
      BY <1>1, <1>6 DEF WellFormed, FirstFromPool, SecondFromPool
    <2>3. s.user = t.user
      BY <1>1, <2>2 DEF DistinctNumbers, WellFormed, OwnId
    <2>4. s.id = t.id
      BY <1>1, <1>2, <2>1, <2>3 DEF WellFormed, OwnId, Ids
    <2> QED BY <2>4
  <1> QED BY <1>4, <1>5, <1>6 DEF Prefixes3

LEMMA MainPrefixesInductive == DistinctNumbers /\ DatabaseOK => MainPrefixesUnique
  BY MainPrefixesDiffer DEF MainPrefixesUnique

(* Whatever the interleaving, the first two prefixes of a tunnel are given *)
(* to no other tunnel, provided user ids denote distinct numbers.          *)
THEOREM MainPrefixesUniqueHolds == DistinctNumbers => (Spec => []MainPrefixesUnique)
  <1> SUFFICES ASSUME DistinctNumbers PROVE Spec => []MainPrefixesUnique
    OBVIOUS
  <1>1. IInv => MainPrefixesUnique
    BY MainPrefixesInductive, IInvParts
  <1> QED BY <1>1, Invariance, PTL

-----------------------------------------------------------------------------
(* The refinement of Registry.  Register is what the refinement mapping    *)
(* puts in place of its variable.                                          *)

Register == {Held(t) : t \in tunnels}

(* Distinct rows are distinct tunnels of the register.                     *)
LEMMA HeldFields ==
  ASSUME NEW t
  PROVE  Held(t).id = t.id /\ Held(t).user = t.user /\ Held(t).lease = Lease(t)
         /\ Lease(t).p1 = t.p1 /\ Lease(t).p2 = t.p2 /\ Lease(t).p3 = t.p3
  BY DEF Held, Lease

LEMMA HeldBounded ==
  ASSUME NEW u \in Users, IsFiniteSet(RowsOf(u))
  PROVE  /\ IsFiniteSet({x \in Register : x.user = u})
         /\ Cardinality({x \in Register : x.user = u}) <= Cardinality(RowsOf(u))
  <1> DEFINE S == RowsOf(u)
             T == {x \in Register : x.user = u}
             f == [t \in S |-> Held(t)]
  <1>1. f \in [S -> T]
    BY HeldFields DEF Register, RowsOf
  <1>2. ASSUME NEW x \in T PROVE \E t \in S : f[t] = x
    <2>1. PICK t \in tunnels : x = Held(t) /\ x.user = u
      BY DEF Register
    <2>2. t \in S
      BY <2>1, HeldFields DEF RowsOf
    <2> QED BY <2>1, <2>2
  <1>3. f \in Surjection(S, T)
    BY <1>1, <1>2 DEF Surjection
  <1> HIDE DEF f, T
  <1>4. IsFiniteSet(T) /\ Cardinality(T) <= Cardinality(S)
    BY <1>3, FS_Surjection
  <1> QED BY <1>4 DEF T

LEMMA InsertAllocates ==
  ASSUME DatabaseOK, DatabaseOK', DistinctNumbers, NEW row \in Row,
         CreateTunnelWithTransaction(row)
  PROVE  R!Allocate
  <1> DEFINE h == Held(row)
             u == row.user
             mine == {x \in Register : x.user = u}
  <1>1. tunnels' = tunnels \cup {row} /\ \A t \in tunnels : t.id # row.id
    BY DEF CreateTunnelWithTransaction, TunnelIDExists
  <1>2. Register' = Register \cup {h}
    BY <1>1 DEF Register
  <1>3. \A x \in Register : x.id # h.id
    BY <1>1, HeldFields DEF Register
  <1>4. h \in Register' \ Register
    BY <1>2, <1>3
  <1>5. Cardinality(mine) < 2
    <2>1. u \in Users /\ row \notin tunnels
      BY <1>1 DEF Row
    <2>2. IsFiniteSet(RowsOf(u)) /\ Cardinality(RowsOf(u)) \in Nat
      BY <2>1, RowsBounded, FS_CardinalityType
    <2>3. RowsOf(u)' = RowsOf(u) \cup {row} /\ row \notin RowsOf(u)
      BY <1>1, <2>1 DEF RowsOf
    <2>4. Cardinality(RowsOf(u)') = Cardinality(RowsOf(u)) + 1
      BY <2>2, <2>3, FS_AddElement
    <2>5. SlotLimit'
      BY SlotLimitInductive, PTL
    <2>6. Cardinality(RowsOf(u)') <= 2
      BY <2>1, <2>5 DEF SlotLimit, RowsOf
    <2>7. Cardinality(mine) <= Cardinality(RowsOf(u)) /\ Cardinality(mine) \in Nat
      BY <2>1, <2>2, HeldBounded, FS_CardinalityType
    <2> HIDE DEF mine
    <2> QED BY <2>2, <2>4, <2>6, <2>7
  <1>6. ASSUME NEW x \in Register
        PROVE  /\ {h.lease.p1, h.lease.p2} \cap {x.lease.p1, x.lease.p2, x.lease.p3} = {}
               /\ {x.lease.p1, x.lease.p2} \cap {h.lease.p1, h.lease.p2, h.lease.p3} = {}
    <2>1. PICK t \in tunnels : x = Held(t)
      BY DEF Register
    <2>a. DistinctNumbers'
      BY DEF DistinctNumbers, ParsesAsHex
    <2>2. MainPrefixesUnique'
      BY <2>a, MainPrefixesInductive, PTL
    <2>3. row.id # t.id /\ row \in tunnels' /\ t \in tunnels'
      BY <1>1, <2>1
    <2>4. /\ {row.p1, row.p2} \cap {t.p1, t.p2, t.p3} = {}
          /\ {t.p1, t.p2} \cap {row.p1, row.p2, row.p3} = {}
      BY <2>2, <2>3 DEF MainPrefixesUnique, Prefixes3
    <2> QED BY <2>1, <2>4, HeldFields
  <1> HIDE DEF h
  <1>7. /\ Register' = Register \cup {h}
        /\ Cardinality(R!HeldBy(h.user)) < 2
        /\ \A x \in Register :
             /\ x.id # h.id
             /\ R!MainPrefixes(h) \cap R!AllPrefixes(x) = {}
             /\ R!MainPrefixes(x) \cap R!AllPrefixes(h) = {}
    <2>1. h.user = u
      BY HeldFields DEF h
    <2>2. R!HeldBy(h.user) = mine
      BY <2>1 DEF R!HeldBy, Register
    <2> QED BY <1>2, <1>3, <1>5, <1>6, <2>2 DEF R!MainPrefixes, R!AllPrefixes
  <1>8. \A S : R!Cardinality(S) = Cardinality(S)
    BY DEF R!Cardinality, Cardinality
  <1> QED BY <1>4, <1>7, <1>8 DEF R!Allocate, Register

LEMMA DeleteReleases ==
  ASSUME DatabaseOK, NEW id, DeleteTunnel(id)
  PROVE  R!Release \/ Register' = Register
  <1>1. tunnels' = {t \in tunnels : t.id # id}
    BY DEF DeleteTunnel
  <1>2. CASE \A t \in tunnels : t.id # id
    BY <1>1, <1>2 DEF Register
  <1>3. ASSUME NEW t \in tunnels, t.id = id PROVE R!Release
    <2>1. Held(t) \in Register
      BY DEF Register
    <2>2. tunnels' = tunnels \ {t}
      BY <1>1, <1>3 DEF DatabaseOK, IdsUnique
    <2>3. \A x \in tunnels : x # t => Held(x) # Held(t)
      BY HeldFields DEF DatabaseOK, IdsUnique
    <2>4. Register' = Register \ {Held(t)}
      BY <2>2, <2>3 DEF Register
    <2> QED BY <2>1, <2>4 DEF R!Release, Register
  <1> QED BY <1>2, <1>3

(* Changing one column that is no part of a lease amends one tunnel.       *)
LEMMA ChangeAmends ==
  ASSUME DatabaseOK, NEW t \in tunnels, NEW new,
         tunnels' = (tunnels \ {t}) \cup {new},
         new.id = t.id, new.user = t.user, Lease(new) = Lease(t)
  PROVE  R!Amend
  <1>1. Held(t) \in Register /\ Held(new) \in Register'
    BY DEF Register
  <1>2. \A x \in tunnels : x # t => Held(x) # Held(t)
    BY HeldFields DEF DatabaseOK, IdsUnique
  <1>3. Register' = (Register \ {Held(t)}) \cup {Held(new)}
    BY <1>2 DEF Register
  <1>4. <<Held(new).id, Held(new).user, Held(new).lease>> = <<Held(t).id, Held(t).user, Held(t).lease>>
    BY HeldFields
  <1> QED BY <1>1, <1>3, <1>4 DEF R!Amend, Register

LEMMA UpdateAmends ==
  ASSUME DatabaseOK, NEW id, NEW ip, UpdateClientIPv4(id, ip)
  PROVE  R!Amend \/ Register' = Register
  <1> DEFINE new(t) == [t EXCEPT !.ip = ip]
  <1>1. tunnels' = {IF t.id = id THEN new(t) ELSE t : t \in tunnels}
    BY DEF UpdateClientIPv4
  <1>2. CASE \A t \in tunnels : t.id # id
    BY <1>1, <1>2 DEF Register
  <1>3. ASSUME NEW t \in tunnels, t.id = id PROVE R!Amend
    <2>1. \A x \in tunnels : x.id = id => x = t
      BY <1>3 DEF DatabaseOK, IdsUnique
    <2>2. new(t).id = t.id /\ new(t).user = t.user /\ Lease(new(t)) = Lease(t)
      <3>1. t \in Row
        BY DEF DatabaseOK
      <3> QED BY <3>1 DEF Row, Lease
    <2> HIDE DEF new
    <2>3. tunnels' = (tunnels \ {t}) \cup {new(t)}
      BY <1>1, <1>3, <2>1
    <2> QED BY <2>2, <2>3, ChangeAmends
  <1> QED BY <1>2, <1>3

LEMMA SetStatusAmends ==
  ASSUME DatabaseOK, NEW id, NEW status, SetStatus(id, status)
  PROVE  R!Amend \/ Register' = Register
  <1> DEFINE new(t) == [t EXCEPT !.status = status]
  <1>1. tunnels' = {IF t.id = id THEN new(t) ELSE t : t \in tunnels}
    BY DEF SetStatus
  <1>2. CASE \A t \in tunnels : t.id # id
    BY <1>1, <1>2 DEF Register
  <1>3. ASSUME NEW t \in tunnels, t.id = id PROVE R!Amend
    <2>1. \A x \in tunnels : x.id = id => x = t
      BY <1>3 DEF DatabaseOK, IdsUnique
    <2>2. new(t).id = t.id /\ new(t).user = t.user /\ Lease(new(t)) = Lease(t)
      <3>1. t \in Row
        BY DEF DatabaseOK
      <3> QED BY <3>1 DEF Row, Lease
    <2> HIDE DEF new
    <2>3. tunnels' = (tunnels \ {t}) \cup {new(t)}
      BY <1>1, <1>3, <2>1
    <2> QED BY <2>2, <2>3, ChangeAmends
  <1> QED BY <1>2, <1>3

(* A step that leaves the table alone leaves the register alone, and the   *)
(* others are one of its three operations.                                 *)
LEMMA StepSimulated ==
  ASSUME DistinctNumbers, IInv, IInv', [Next]_vars
  PROVE  [R!Next]_Register
  <1>1. DatabaseOK /\ DatabaseOK' /\ LocalOK
    BY IInvParts, PTL
  <1>2. ASSUME UNCHANGED tunnels PROVE Register' = Register
    BY <1>2 DEF Register
  <1>3. ASSUME NEW w \in Workers, At(w, "create", "commit"), CreateTunnelWithTransaction(req[w].row)
        PROVE  R!Next
    BY <1>1, <1>3, DraftComplete, InsertAllocates DEF R!Next
  <1>4. ASSUME NEW w \in Workers, Start(w) PROVE [R!Next]_Register
    BY <1>2, <1>4 DEF Start, StartCreate, StartUpdate, StartDelete, dbVars
  <1>5. ASSUME NEW w \in Workers, CreateStep(w) PROVE [R!Next]_Register
    <2>1. CASE Commit(w)
      BY <1>3, <2>1 DEF Commit
    <2>2. CASE ~Commit(w)
      BY <1>2, <1>5, <2>2 DEF CreateStep, CountActive, FindSlot, FindFirstPrefix,
         FindSecondPrefix, FindThirdPrefix, CommitRefused, dbVars
    <2> QED BY <2>1, <2>2
  <1>6. ASSUME NEW w \in Workers, UpdateStep(w) PROVE [R!Next]_Register
    BY <1>1, <1>2, <1>6, UpdateAmends DEF UpdateStep, UpdateIP, Reselect, dbVars, R!Next
  <1>7. ASSUME NEW w \in Workers, DeleteStep(w) PROVE [R!Next]_Register
    BY <1>1, <1>2, <1>7, DeleteReleases
       DEF DeleteStep, Lookup, DeleteRow, Decrement, DecrementUserTunnels, dbVars, R!Next
  <1>8. ASSUME NEW w \in Workers, CommandStep(w) PROVE [R!Next]_Register
    BY <1>2, <1>8 DEF CommandStep, Execute, CommandRefused, dbVars
  <1>9. ASSUME NEW w \in Workers, Failure(w) PROVE [R!Next]_Register
    <2>1. CASE CommandFails(w) \/ StatementFails(w)
      BY <1>2, <2>1 DEF CommandFails, StatementFails, dbVars
    <2>2. CASE ConfirmationLost(w)
      BY <1>1, <1>3, <2>2, UpdateAmends, DeleteReleases DEF ConfirmationLost, R!Next
    <2> QED BY <1>9, <2>1, <2>2 DEF Failure
  <1>10. ASSUME Restart \/ UNCHANGED vars PROVE [R!Next]_Register
    BY <1>2, <1>10 DEF Restart, dbVars, vars
  <1>11. ASSUME ChangeStatus PROVE [R!Next]_Register
    BY <1>1, <1>11, SetStatusAmends DEF ChangeStatus, R!Next
  <1> QED BY <1>4, <1>5, <1>6, <1>7, <1>8, <1>9, <1>10, <1>11 DEF Next, Serve, Step

(* The table implements the register: whatever the interleaving and the    *)
(* failures, it changes only by whole allocations, releases and amendments *)
(* that keep the limit and the main prefixes apart.                        *)
THEOREM RegistryImplemented == DistinctNumbers => (Spec => ImplementsRegistry)
  <1> SUFFICES ASSUME DistinctNumbers PROVE Spec => R!Spec
    BY DEF ImplementsRegistry
  <1>1. Init => R!Init
    BY DEF Init, DatabaseInit, R!Init
  <1>2. IInv /\ IInv' /\ [Next]_vars => [R!Next]_Register
    BY StepSimulated
  <1>3. Spec => [][R!Next]_Register
    BY <1>2, Invariance, PTL DEF Spec
  <1> QED BY <1>1, <1>3, PTL DEF Spec, R!Spec, Register

-----------------------------------------------------------------------------
(* The counters.  A counter exceeds the rows by what the deletions under   *)
(* way have yet to take off and by what the failures left on it.  A        *)
(* deletion takes off the counter of the user whose row it deletes, since  *)
(* the user it noted is the first part of the id it deletes by.            *)

Due(u) == {w \in Workers : At(w, "delete", "decrement") /\ req[w].row.user = u}

Surplus(u) == users[u].active - Cardinality(RowsOf(u))

OwnDeletion(r) ==
    r.op = "delete" /\ r.pc \in {"exec", "delete", "decrement"} => r.row.user = r.id[1]

DeletionsOwn == \A w \in Workers : OwnDeletion(req[w])

SurplusBounded ==
    \A u \in Registered : Surplus(u) <= Cardinality(Due(u)) + faults * Cardinality(Workers)

CounterInv == DeletionsOwn /\ SurplusBounded

(* A set and its image under a function that keeps the id, which tells the *)
(* members apart, have as many members.                                    *)
LEMMA SameCount ==
  ASSUME NEW S, NEW T, IsFiniteSet(S), NEW f \in [S -> T],
         \A t \in T : \E s \in S : f[s] = t,
         \A s \in S : f[s].id = s.id,
         \A s, x \in S : s.id = x.id => s = x
  PROVE  IsFiniteSet(T) /\ Cardinality(T) = Cardinality(S)
  <1>1. f \in Surjection(S, T)
    BY DEF Surjection
  <1>2. f \in Injection(S, T)
    <2>1. \A s, x \in S : f[s] = f[x] => s = x
      OBVIOUS
    <2> QED BY <2>1 DEF Injection, IsInjective
  <1> QED BY <1>1, <1>2, FS_Surjection

LEMMA SurplusTyped ==
  ASSUME DatabaseOK, NEW u \in Registered
  PROVE  /\ IsFiniteSet(RowsOf(u)) /\ Cardinality(RowsOf(u)) \in Nat
         /\ users[u].active \in Nat /\ Surplus(u) \in Int /\ Surplus(u) <= users[u].active
  <1>1. u \in Users
    BY TableAssumption
  <1>2. IsFiniteSet(RowsOf(u)) /\ Cardinality(RowsOf(u)) \in Nat
    BY <1>1, RowsBounded, FS_CardinalityType
  <1>3. users[u].active \in Nat
    BY DEF DatabaseOK
  <1> QED BY <1>2, <1>3 DEF Surplus

(* The insertion of a row and the increment are one transaction.           *)
LEMMA InsertSurplus ==
  ASSUME DatabaseOK, NEW row, CreateTunnelWithTransaction(row), NEW u \in Registered
  PROVE  Surplus(u)' = Surplus(u)
  <1>1. tunnels' = tunnels \cup {row} /\ AddToCounters(row.user, 1)
    BY DEF CreateTunnelWithTransaction
  <1>2. row \notin RowsOf(u)
    BY DEF CreateTunnelWithTransaction, TunnelIDExists, RowsOf
  <1>3. users[u].active \in Nat /\ u \in DOMAIN users
    BY DEF DatabaseOK
  <1>4. CASE row.user = u
    <2>1. RowsOf(u)' = RowsOf(u) \cup {row}
      BY <1>1, <1>4 DEF RowsOf
    <2>2. Cardinality(RowsOf(u)') = Cardinality(RowsOf(u)) + 1
      BY <1>2, <2>1, SurplusTyped, FS_AddElement
    <2>3. users'[u].active = users[u].active + 1
      BY <1>1, <1>3, <1>4 DEF AddToCounters, Greatest
    <2> QED BY <1>3, <2>2, <2>3, SurplusTyped DEF Surplus
  <1>5. CASE row.user # u
    <2>1. RowsOf(u)' = RowsOf(u)
      BY <1>1, <1>5 DEF RowsOf
    <2>2. users'[u].active = users[u].active
      BY <1>1, <1>3, <1>5 DEF AddToCounters
    <2> QED BY <2>1, <2>2 DEF Surplus
  <1> QED BY <1>4, <1>5

(* A change of the rows that keeps their ids and owners.                   *)
LEMMA ChangeSurplus ==
  ASSUME DatabaseOK, users' = users, NEW f, f \in [tunnels -> tunnels'],
         tunnels' = {f[t] : t \in tunnels},
         \A t \in tunnels : f[t].id = t.id /\ f[t].user = t.user,
         NEW u \in Registered
  PROVE  Surplus(u)' = Surplus(u)
  <1> DEFINE S == RowsOf(u)
             T == RowsOf(u)'
             g == [t \in S |-> f[t]]
  <1>1. T = {f[t] : t \in S} /\ S \subseteq tunnels
    BY DEF RowsOf
  <1>2. g \in [S -> T] /\ \A t \in T : \E s \in S : g[s] = t
    BY <1>1
  <1>3. \A s \in S : g[s].id = s.id
    BY <1>1
  <1>4. \A s, x \in S : s.id = x.id => s = x
    BY <1>1 DEF DatabaseOK, IdsUnique
  <1>5. IsFiniteSet(S)
    BY SurplusTyped
  <1> HIDE DEF S, T, g
  <1>6. Cardinality(T) = Cardinality(S)
    BY <1>2, <1>3, <1>4, <1>5, SameCount
  <1> QED BY <1>6 DEF Surplus, S, T

LEMMA UpdateSurplus ==
  ASSUME DatabaseOK, NEW id, NEW ip, UpdateClientIPv4(id, ip), NEW u \in Registered
  PROVE  Surplus(u)' = Surplus(u)
  <1> DEFINE f == [t \in tunnels |-> IF t.id = id THEN [t EXCEPT !.ip = ip] ELSE t]
  <1>1. tunnels' = {f[t] : t \in tunnels} /\ users' = users
    BY DEF UpdateClientIPv4
  <1>2. \A t \in tunnels : f[t].id = t.id /\ f[t].user = t.user
    BY DEF DatabaseOK, Row
  <1>3. f \in [tunnels -> tunnels']
    BY <1>1
  <1> HIDE DEF f
  <1> QED BY <1>1, <1>2, <1>3, ChangeSurplus

LEMMA SetStatusSurplus ==
  ASSUME DatabaseOK, NEW id, NEW status, SetStatus(id, status), NEW u \in Registered
  PROVE  Surplus(u)' = Surplus(u)
  <1> DEFINE f == [t \in tunnels |-> IF t.id = id THEN [t EXCEPT !.status = status] ELSE t]
  <1>1. tunnels' = {f[t] : t \in tunnels} /\ users' = users
    BY DEF SetStatus
  <1>2. \A t \in tunnels : f[t].id = t.id /\ f[t].user = t.user
    BY DEF DatabaseOK, Row
  <1>3. f \in [tunnels -> tunnels']
    BY <1>1
  <1> HIDE DEF f
  <1> QED BY <1>1, <1>2, <1>3, ChangeSurplus

(* A deletion takes at most one row, of the user named by the id.          *)
LEMMA DeleteSurplus ==
  ASSUME DatabaseOK, NEW id, DeleteTunnel(id), NEW u \in Registered
  PROVE  /\ Surplus(u)' \in Int /\ Surplus(u)' <= Surplus(u) + 1
         /\ u # id[1] => Surplus(u)' = Surplus(u)
  <1>1. tunnels' = {t \in tunnels : t.id # id} /\ users' = users
    BY DEF DeleteTunnel
  <1>2. RowsOf(u)' = {t \in RowsOf(u) : t.id # id}
    BY <1>1 DEF RowsOf
  <1>3. CASE \E t \in RowsOf(u) : t.id = id
    <2>1. PICK t \in RowsOf(u) : t.id = id
      BY <1>3
    <2>2. \A s \in RowsOf(u) : s.id = id => s = t
      BY <2>1 DEF RowsOf, DatabaseOK, IdsUnique
    <2>3. RowsOf(u)' = RowsOf(u) \ {t}
      BY <1>2, <2>1, <2>2
    <2>4. Cardinality(RowsOf(u)') = Cardinality(RowsOf(u)) - 1
      BY <2>1, <2>3, SurplusTyped, FS_RemoveElement
    <2>5. u = id[1]
      BY <2>1 DEF RowsOf, DatabaseOK, RowsWellFormed, WellFormed, OwnId
    <2> QED BY <1>1, <2>4, <2>5, SurplusTyped DEF Surplus
  <1>4. CASE ~\E t \in RowsOf(u) : t.id = id
    <2>1. RowsOf(u)' = RowsOf(u)
      BY <1>2, <1>4
    <2> QED BY <1>1, <2>1, SurplusTyped DEF Surplus
  <1> QED BY <1>3, <1>4

LEMMA DecrementSurplus ==
  ASSUME DatabaseOK, NEW v, DecrementUserTunnels(v), NEW u \in Registered
  PROVE  /\ Surplus(u)' \in Int
         /\ u # v => Surplus(u)' = Surplus(u)
         /\ u = v => Surplus(u)' = Surplus(u) - 1 \/ Surplus(u)' <= 0
  <1>1. AddToCounters(v, -1) /\ RowsOf(u)' = RowsOf(u)
    BY DEF DecrementUserTunnels, RowsOf
  <1>2. users[u].active \in Nat /\ u \in DOMAIN users
    BY DEF DatabaseOK
  <1>3. CASE u # v
    <2>1. users'[u].active = users[u].active
      BY <1>1, <1>2, <1>3 DEF AddToCounters
    <2> QED BY <1>1, <1>3, <2>1, SurplusTyped DEF Surplus
  <1>4. CASE u = v
    <2>1. users'[u].active = Greatest(users[u].active + (-1), 0)
      BY <1>1, <1>2, <1>4 DEF AddToCounters
    <2>2. users'[u].active = users[u].active - 1 \/ users'[u].active = 0
      BY <1>2, <2>1 DEF Greatest
    <2> QED BY <1>1, <1>2, <1>4, <2>2, SurplusTyped DEF Surplus
  <1> QED BY <1>3, <1>4
LEMMA SameSurplus ==
  ASSUME UNCHANGED dbVars, NEW u
  PROVE  Surplus(u)' = Surplus(u)
  BY DEF dbVars, Surplus, RowsOf

(* What a step of one goroutine does to the deletions about to decrement.  *)

LEMMA WorkersCounted ==
  /\ Cardinality(Workers) \in Nat
  /\ \A w \in Workers : Cardinality(Workers \ {w}) = Cardinality(Workers) - 1
  /\ \A S \in SUBSET Workers : /\ IsFiniteSet(S) /\ Cardinality(S) \in Nat
                               /\ Cardinality(S) <= Cardinality(Workers)
  <1>1. Cardinality(Workers) \in Nat
    BY WorkersAssumption, FS_CardinalityType
  <1>2. \A w \in Workers : Cardinality(Workers \ {w}) = Cardinality(Workers) - 1
    BY WorkersAssumption, FS_RemoveElement
  <1>3. ASSUME NEW S \in SUBSET Workers
        PROVE  /\ IsFiniteSet(S) /\ Cardinality(S) \in Nat
               /\ Cardinality(S) <= Cardinality(Workers)
    BY WorkersAssumption, FS_Subset, FS_CardinalityType
  <1> QED BY <1>1, <1>2, <1>3

LEMMA DueBounded ==
  ASSUME NEW u
  PROVE  /\ Due(u) \subseteq Workers /\ Due(u)' \subseteq Workers
         /\ Cardinality(Due(u)) \in Nat /\ Cardinality(Due(u)') \in Nat
         /\ Cardinality(Due(u)) <= Cardinality(Workers)
  <1>1. Due(u) \subseteq Workers /\ Due(u)' \subseteq Workers
    BY DEF Due
  <1> QED BY <1>1, WorkersCounted

(* A goroutine that was not about to decrement takes none away.            *)
LEMMA DueKept ==
  ASSUME NEW w \in Workers, ~At(w, "delete", "decrement"), NEW u,
         \A v \in Workers \ {w} : req'[v] = req[v]
  PROVE  Cardinality(Due(u)) <= Cardinality(Due(u)') /\ w \notin Due(u)
  <1>1. Due(u) \subseteq Due(u)'
    <2>1. \A v \in Due(u) : req'[v] = req[v] /\ v \in Workers
      BY DEF Due
    <2> QED BY <2>1 DEF Due, At
  <1>2. IsFiniteSet(Due(u)')
    BY DueBounded, WorkersCounted
  <1> QED BY <1>1, <1>2, FS_Subset DEF Due

(* The room left for what failures have left on a counter.                 *)
LEMMA RoomTyped ==
  ASSUME faults \in Nat
  PROVE  /\ faults * Cardinality(Workers) \in Nat
         /\ (faults + 1) * Cardinality(Workers) =
                faults * Cardinality(Workers) + Cardinality(Workers)
  <1>1. Cardinality(Workers) \in Nat
    BY WorkersCounted
  <1>2. \A m, n \in Nat : m * n \in Nat /\ (m + 1) * n = m * n + n
    OBVIOUS
  <1> QED BY <1>1, <1>2

(* A step without a failure that neither deletes a row nor decrements.     *)
LEMMA QuietStep ==
  ASSUME DatabaseOK, SurplusBounded, faults \in Nat, UNCHANGED faults,
         NEW w \in Workers, ~At(w, "delete", "decrement"),
         \A v \in Workers \ {w} : req'[v] = req[v],
         \A u \in Registered : Surplus(u)' = Surplus(u)
  PROVE  SurplusBounded'
  <1> SUFFICES ASSUME NEW u \in Registered
               PROVE  Surplus(u)' <= Cardinality(Due(u)') + faults' * Cardinality(Workers)
    BY DEF SurplusBounded
  <1>1. Surplus(u) <= Cardinality(Due(u)) + faults * Cardinality(Workers)
    BY DEF SurplusBounded
  <1>2. Cardinality(Due(u)) <= Cardinality(Due(u)')
    BY DueKept
  <1> QED BY <1>1, <1>2, SurplusTyped, DueBounded, RoomTyped

(* A failure makes room for every decrement that it may drop.              *)
LEMMA FaultyStep ==
  ASSUME DatabaseOK, SurplusBounded, faults \in Nat, Fault,
         \A u \in Registered :
            /\ Surplus(u)' \in Int
            /\ Surplus(u)' <= Surplus(u) + Cardinality(Workers) - Cardinality(Due(u))
  PROVE  SurplusBounded'
  <1> SUFFICES ASSUME NEW u \in Registered
               PROVE  Surplus(u)' <= Cardinality(Due(u)') + faults' * Cardinality(Workers)
    BY DEF SurplusBounded
  <1>1. Surplus(u) <= Cardinality(Due(u)) + faults * Cardinality(Workers)
    BY DEF SurplusBounded
  <1>2. faults' * Cardinality(Workers) = faults * Cardinality(Workers) + Cardinality(Workers)
    BY RoomTyped DEF Fault
  <1> QED BY <1>1, <1>2, SurplusTyped, DueBounded, WorkersCounted, RoomTyped
(* Only its own goroutine changes a request, and only the look-up notes    *)
(* the user of a deletion.                                                 *)
Alone(w) == \A v \in Workers \ {w} : req'[v] = req[v]

LEMMA BecomeAlone ==
  ASSUME LocalOK, NEW w \in Workers, NEW r, Become(w, r)
  PROVE  req'[w] = r /\ Alone(w)
  BY DEF LocalOK, Become, Alone

LEMMA AnswerAlone ==
  ASSUME LocalOK, NEW w \in Workers, Answer(w)
  PROVE  req'[w].op = None /\ req'[w].pc = "idle" /\ Alone(w)
  BY BecomeAlone DEF Answer, Idle

LEMMA OwnKept ==
  ASSUME DeletionsOwn, NEW w \in Workers, Alone(w), OwnDeletion(req'[w])
  PROVE  DeletionsOwn'
  <1>1. \A v \in Workers : OwnDeletion(req'[v])
    BY DEF DeletionsOwn, Alone
  <1> QED BY <1>1 DEF DeletionsOwn, OwnDeletion

LEMMA StartOwn ==
  ASSUME LocalOK, NEW w \in Workers, Start(w)
  PROVE  Alone(w) /\ OwnDeletion(req'[w])
  <1>1. Idle.op = None /\ Idle.pc = "idle"
    BY DEF Idle
  <1>2. CASE StartCreate(w)
    <2>1. \E r : r.op = "create" /\ Become(w, r)
      BY <1>2 DEF StartCreate, Idle
    <2> QED BY <2>1, BecomeAlone DEF OwnDeletion
  <1>3. CASE StartUpdate(w)
    <2>1. \E r : r.op = "update" /\ Become(w, r)
      BY <1>3 DEF StartUpdate, Idle
    <2> QED BY <2>1, BecomeAlone DEF OwnDeletion
  <1>4. CASE StartDelete(w)
    <2>1. \E r : r.pc = "lookup" /\ Become(w, r)
      BY <1>4 DEF StartDelete, Idle
    <2> QED BY <2>1, BecomeAlone DEF OwnDeletion
  <1> QED BY <1>2, <1>3, <1>4 DEF Start

LEMMA CreateOwn ==
  ASSUME LocalOK, NEW w \in Workers, CreateStep(w)
  PROVE  /\ Alone(w) /\ OwnDeletion(req'[w])
         /\ ~At(w, "delete", "decrement")
  <1>1. req[w] \in Request /\ req[w].op = "create"
    BY DEF LocalOK, CreateStep, CountActive, FindSlot, FindFirstPrefix, FindSecondPrefix,
           FindThirdPrefix, Commit, CommitRefused, At
  <1> DEFINE Kept == Alone(w) /\ OwnDeletion(req'[w])
  <1>2. Answer(w) => Kept
    BY AnswerAlone DEF OwnDeletion
  <1>3. ASSUME NEW r, r.op = "create", Become(w, r) PROVE Kept
    BY <1>3, BecomeAlone DEF OwnDeletion
  <1>4. [req[w] EXCEPT !.tries = @ + 1].op = "create"
    BY <1>1 DEF Request
  <1>5. ASSUME NEW p, NEW n, NEW next, next.op = "create", Attempt(w, p, n, next) PROVE Kept
    BY <1>2, <1>3, <1>4, <1>5 DEF Attempt
  <1> HIDE DEF Kept
  <1>6. ASSUME CountActive(w) PROVE Kept
    <2> DEFINE next == [req[w] EXCEPT !.pc = "slot", !.tries = 1]
    <2>1. next.op = "create"
      BY <1>1 DEF Request
    <2>2. Answer(w) \/ Become(w, next)
      BY <1>6 DEF CountActive
    <2> QED BY <1>2, <1>3, <2>1, <2>2
  <1>7. ASSUME FindSlot(w) PROVE Kept
    <2> DEFINE next == [req[w] EXCEPT !.pc = "prefix1",
                          !.row.id = <<req[w].row.user, req[w].tries>>, !.tries = 0]
    <2>1. next.op = "create"
      BY <1>1 DEF Request
    <2>2. Answer(w) \/ Become(w, next) \/ Become(w, [req[w] EXCEPT !.tries = @ + 1])
      BY <1>7 DEF FindSlot
    <2> QED BY <1>2, <1>3, <1>4, <2>1, <2>2
  <1>8. ASSUME FindFirstPrefix(w) PROVE Kept
    <2> DEFINE p(d) == generateDelegatedPrefix(Primary[req[w].row.id[2]], d, req[w].row.user)
               next(x) == [req[w] EXCEPT !.pc = "prefix2", !.row.p1 = x, !.tries = 0]
    <2>1. PICK digit \in Digits : Attempt(w, p(digit), MaxAttempts, next(p(digit)))
      BY <1>8 DEF FindFirstPrefix
    <2>2. \A x : next(x).op = "create"
      BY <1>1 DEF Request
    <2> QED BY <1>5, <2>1, <2>2
  <1>9. ASSUME FindSecondPrefix(w) PROVE Kept
    <2> DEFINE p(d) == generateDelegatedPrefix(Secondary[req[w].row.id[2]], d, req[w].row.user)
               next(x, y) == [req[w] EXCEPT !.pc = "prefix3", !.row.p2 = x, !.row.ula = y,
                                !.tries = 0]
    <2>1. PICK digit \in Digits, ula \in Ulas :
            Attempt(w, p(digit), MaxAttempts, next(p(digit), ula))
      BY <1>9 DEF FindSecondPrefix
    <2>2. \A x, y : next(x, y).op = "create"
      BY <1>1 DEF Request
    <2> QED BY <1>5, <2>1, <2>2
  <1>10. ASSUME FindThirdPrefix(w) PROVE Kept
    <2> DEFINE n == req[w].row.id[2]
               p == generateThirdPrefix(ThirdPoolOfAttempt(n, req[w].tries), req[w].row.user)
               next(k) == [req[w] EXCEPT !.pc = "commit", !.row.p3 = p, !.row.key = k, !.tries = 0]
    <2>1. \E key : Attempt(w, p, ThirdAttempts(n), next(key))
      BY <1>10 DEF FindThirdPrefix
    <2>2. \A key : next(key).op = "create"
      BY <1>1 DEF Request
    <2> QED BY <1>5, <2>1, <2>2
  <1>11. ASSUME Commit(w) PROVE Kept
    <2> DEFINE next == [req[w] EXCEPT !.pc = "exec", !.id = req[w].row.id,
                          !.row = Needed(req[w].row), !.todo = CreateCommands(req[w].row)]
    <2>1. next.op = "create"
      BY <1>1 DEF Request
    <2>2. Become(w, next)
      BY <1>11 DEF Commit
    <2> QED BY <1>3, <2>1, <2>2
  <1>12. Kept
    BY <1>2, <1>6, <1>7, <1>8, <1>9, <1>10, <1>11 DEF CreateStep, CommitRefused
  <1> QED BY <1>1, <1>12 DEF Kept, At
LEMMA UpdateOwn ==
  ASSUME LocalOK, NEW w \in Workers, UpdateStep(w)
  PROVE  /\ Alone(w) /\ OwnDeletion(req'[w])
         /\ ~At(w, "delete", "decrement")
  <1>1. req[w] \in Request /\ req[w].op = "update"
    BY DEF LocalOK, UpdateStep, UpdateIP, Reselect, At
  <1>2. CASE UpdateIP(w)
    <2>1. [req[w] EXCEPT !.pc = "select"].op = "update"
      BY <1>1 DEF Request
    <2> QED BY <1>1, <1>2, <2>1, BecomeAlone DEF UpdateIP, OwnDeletion, At
  <1>3. CASE Reselect(w)
    <2>1. \A c : [req[w] EXCEPT !.pc = "exec", !.todo = c].op = "update"
      BY <1>1 DEF Request
    <2>2. Answer(w) \/ \E c : Become(w, [req[w] EXCEPT !.pc = "exec", !.todo = c])
      BY <1>3 DEF Reselect
    <2> QED BY <1>1, <2>1, <2>2, BecomeAlone, AnswerAlone DEF OwnDeletion, At
  <1> QED BY <1>2, <1>3 DEF UpdateStep

LEMMA LookupOwn ==
  ASSUME LocalOK, DatabaseOK, NEW w \in Workers, Lookup(w)
  PROVE  /\ Alone(w) /\ OwnDeletion(req'[w])
         /\ ~At(w, "delete", "decrement")
  <1>1. req[w] \in Request /\ At(w, "delete", "lookup")
    BY DEF LocalOK, Lookup
  <1>2. ASSUME NEW row \in GetTunnelByID(req[w].id),
               Become(w, [req[w] EXCEPT !.pc = "exec", !.row = Needed(row),
                                      !.todo = DeleteCommands(row)])
        PROVE  Alone(w) /\ OwnDeletion(req'[w])
    <2>1. row.id = req[w].id /\ row.id[1] = row.user
      BY DEF GetTunnelByID, DatabaseOK, RowsWellFormed, WellFormed, OwnId
    <2>2. Needed(row).user = row.user
      BY DEF Needed, NoRow
    <2> DEFINE next == [req[w] EXCEPT !.pc = "exec", !.row = Needed(row),
                                      !.todo = DeleteCommands(row)]
    <2>3. next.id = req[w].id /\ next.row = Needed(row)
      BY <1>1 DEF Request
    <2>4. Become(w, next)
      BY <1>2
    <2> HIDE DEF next
    <2> QED BY <2>1, <2>2, <2>3, <2>4, BecomeAlone DEF OwnDeletion
  <1>3. Answer(w) => Alone(w) /\ OwnDeletion(req'[w])
    BY AnswerAlone DEF OwnDeletion
  <1>4. ~At(w, "delete", "decrement")
    BY <1>1 DEF At
  <1> QED BY <1>2, <1>3, <1>4 DEF Lookup

LEMMA CommandOwn ==
  ASSUME LocalOK, DeletionsOwn, NEW w \in Workers, req[w].pc = "exec",
         NextCommand(w) \/ Answer(w)
  PROVE  /\ Alone(w) /\ OwnDeletion(req'[w])
         /\ ~At(w, "delete", "decrement")
  <1> DEFINE rest == Tail(req[w].todo)
             more == [req[w] EXCEPT !.todo = rest]
             last == [req[w] EXCEPT !.pc = "delete", !.todo = rest]
  <1>1. req[w] \in Request /\ OwnDeletion(req[w])
    BY DEF LocalOK, DeletionsOwn
  <1>2. Become(w, more) \/ Become(w, last) \/ Answer(w)
    BY DEF NextCommand
  <1> HIDE DEF rest
  <1>3. more.op = req[w].op /\ more.id = req[w].id /\ more.row = req[w].row
    BY <1>1 DEF Request
  <1>4. last.op = req[w].op /\ last.id = req[w].id /\ last.row = req[w].row
    BY <1>1 DEF Request
  <1>5. OwnDeletion(more) /\ OwnDeletion(last)
    BY <1>1, <1>3, <1>4 DEF OwnDeletion
  <1> HIDE DEF more, last
  <1>6. Answer(w) => Alone(w) /\ OwnDeletion(req'[w])
    BY AnswerAlone DEF OwnDeletion
  <1> QED BY <1>2, <1>5, <1>6, BecomeAlone DEF At

LEMMA DeleteRowOwn ==
  ASSUME LocalOK, DeletionsOwn, NEW w \in Workers, DeleteRow(w)
  PROVE  /\ Alone(w) /\ OwnDeletion(req'[w]) /\ req[w].row.user = req[w].id[1]
         /\ At(w, "delete", "delete") /\ At(w, "delete", "decrement")'
         /\ req'[w].row.user = req[w].row.user
  <1> DEFINE next == [req[w] EXCEPT !.pc = "decrement"]
  <1>1. req[w] \in Request /\ At(w, "delete", "delete") /\ OwnDeletion(req[w])
    BY DEF LocalOK, DeletionsOwn, DeleteRow
  <1>2. next.op = "delete" /\ next.pc = "decrement" /\ next.id = req[w].id
        /\ next.row = req[w].row
    BY <1>1 DEF Request, At
  <1>3. Become(w, next)
    BY DEF DeleteRow
  <1> HIDE DEF next
  <1>4. req'[w] = next /\ Alone(w)
    BY <1>3, BecomeAlone
  <1>5. req[w].row.user = req[w].id[1]
    BY <1>1 DEF OwnDeletion, At
  <1> QED BY <1>1, <1>2, <1>4, <1>5 DEF OwnDeletion, At

-----------------------------------------------------------------------------
(* The steps of a deletion that the counters depend on.                    *)

LEMMA DeleteRowCounts ==
  ASSUME IInv, CounterInv, NEW w \in Workers, DeleteRow(w)
  PROVE  CounterInv'
  <1>1. DatabaseOK /\ LocalOK /\ faults \in Nat
    BY IInvParts, FaultAssumption
  <1>2. /\ Alone(w) /\ OwnDeletion(req'[w]) /\ req[w].row.user = req[w].id[1]
        /\ At(w, "delete", "delete") /\ At(w, "delete", "decrement")'
        /\ req'[w].row.user = req[w].row.user
    BY <1>1, DeleteRowOwn DEF CounterInv
  <1>3. ~At(w, "delete", "decrement")
    BY <1>2 DEF At
  <1>4. ASSUME NEW u \in Registered
        PROVE  Surplus(u)' <= Cardinality(Due(u)') + faults' * Cardinality(Workers)
    <2>1. Surplus(u) <= Cardinality(Due(u)) + faults * Cardinality(Workers)
      BY DEF CounterInv, SurplusBounded
    <2>2. /\ Surplus(u)' \in Int /\ Surplus(u)' <= Surplus(u) + 1
          /\ u # req[w].id[1] => Surplus(u)' = Surplus(u)
      BY <1>1, DeleteSurplus DEF DeleteRow
    <2>3. faults' = faults
      BY DEF DeleteRow
    <2>4. Cardinality(Due(u)) <= Cardinality(Due(u)') /\ w \notin Due(u)
      BY <1>2, <1>3, DueKept DEF Alone
    <2>5. CASE u # req[w].id[1]
      BY <1>1, <2>1, <2>2, <2>3, <2>4, <2>5, SurplusTyped, DueBounded, RoomTyped
    <2>6. CASE u = req[w].id[1]
      <3>1. Due(u)' = Due(u) \cup {w}
        <4>1. \A v \in Workers \ {w} : v \in Due(u)' <=> v \in Due(u)
          BY <1>2 DEF Due, At, Alone
        <4>2. w \in Due(u)'
          BY <1>2, <2>6 DEF Due
        <4> QED BY <4>1, <4>2, DueBounded
      <3>2. IsFiniteSet(Due(u))
        BY DueBounded, WorkersCounted
      <3>3. Cardinality(Due(u)') = Cardinality(Due(u)) + 1
        BY <2>4, <3>1, <3>2, FS_AddElement
      <3> QED BY <1>1, <2>1, <2>2, <2>3, <3>3, SurplusTyped, DueBounded, RoomTyped
    <2> QED BY <2>5, <2>6
  <1> QED BY <1>2, <1>4, OwnKept DEF CounterInv, SurplusBounded

LEMMA DecrementCounts ==
  ASSUME IInv, CounterInv, NEW w \in Workers, Decrement(w)
  PROVE  CounterInv'
  <1>1. DatabaseOK /\ LocalOK /\ faults \in Nat
    BY IInvParts, FaultAssumption
  <1>2. /\ Alone(w) /\ req'[w].op = None /\ req'[w].pc = "idle"
        /\ At(w, "delete", "decrement")
    BY <1>1, AnswerAlone DEF Decrement
  <1>3. ASSUME NEW u \in Registered
        PROVE  Surplus(u)' <= Cardinality(Due(u)') + faults' * Cardinality(Workers)
    <2>1. Surplus(u) <= Cardinality(Due(u)) + faults * Cardinality(Workers)
      BY DEF CounterInv, SurplusBounded
    <2>2. /\ Surplus(u)' \in Int
          /\ u # req[w].row.user => Surplus(u)' = Surplus(u)
          /\ u = req[w].row.user => Surplus(u)' = Surplus(u) - 1 \/ Surplus(u)' <= 0
      BY <1>1, DecrementSurplus DEF Decrement
    <2>3. faults' = faults
      BY DEF Decrement
    <2>4. Due(u)' = Due(u) \ {w}
      <3>1. \A v \in Workers \ {w} : v \in Due(u)' <=> v \in Due(u)
        BY <1>2 DEF Due, At, Alone
      <3>2. w \notin Due(u)'
        BY <1>2 DEF Due, At
      <3> QED BY <3>1, <3>2, DueBounded
    <2>5. IsFiniteSet(Due(u))
      BY DueBounded, WorkersCounted
    <2>6. Cardinality(Due(u)') = IF w \in Due(u) THEN Cardinality(Due(u)) - 1
                                 ELSE Cardinality(Due(u))
      BY <2>4, <2>5, FS_RemoveElement
    <2>7. w \in Due(u) <=> u = req[w].row.user
      BY <1>2 DEF Due
    <2> QED BY <1>1, <2>1, <2>2, <2>3, <2>6, <2>7, SurplusTyped, DueBounded, RoomTyped
  <1>4. OwnDeletion(req'[w])
    BY <1>2 DEF OwnDeletion
  <1> QED BY <1>2, <1>3, <1>4, OwnKept DEF CounterInv, SurplusBounded
(* A failure: the request is answered, or goes on to its next command; at  *)
(* worst a row is gone whose deletion was not yet due to decrement.        *)
LEMMA FailureCounts ==
  ASSUME IInv, CounterInv, NEW w \in Workers, Failure(w)
  PROVE  CounterInv'
  <1>1. DatabaseOK /\ LocalOK /\ faults \in Nat /\ DeletionsOwn /\ SurplusBounded
    BY IInvParts, FaultAssumption DEF CounterInv
  <1>2. Answer(w) => Alone(w) /\ OwnDeletion(req'[w])
    BY <1>1, AnswerAlone DEF OwnDeletion
  <1>3. Fault /\ Alone(w) /\ OwnDeletion(req'[w])
    <2>1. CASE CommandFails(w)
      BY <1>1, <2>1, CommandOwn DEF CommandFails, AfterFailedCommand
    <2>2. CASE StatementFails(w) \/ ConfirmationLost(w)
      BY <1>2, <2>2 DEF StatementFails, ConfirmationLost
    <2> QED BY <2>1, <2>2 DEF Failure
  <1>4. ASSUME NEW u \in Registered
        PROVE  /\ Surplus(u)' \in Int
               /\ Surplus(u)' <= Surplus(u) + Cardinality(Workers) - Cardinality(Due(u))
    <2>1. CASE Surplus(u)' = Surplus(u)
      BY <1>1, <2>1, SurplusTyped, DueBounded, WorkersCounted
    <2>2. CASE UNCHANGED dbVars
      BY <2>1, <2>2, SameSurplus
    <2>3. CASE At(w, "create", "commit") /\ CreateTunnelWithTransaction(req[w].row)
      BY <1>1, <2>1, <2>3, InsertSurplus
    <2>4. CASE At(w, "update", "update") /\ UpdateClientIPv4(req[w].id, req[w].ip)
      BY <1>1, <2>1, <2>4, UpdateSurplus
    <2>5. CASE At(w, "delete", "delete") /\ DeleteTunnel(req[w].id)
      <3>1. Surplus(u)' \in Int /\ Surplus(u)' <= Surplus(u) + 1
        BY <1>1, <2>5, DeleteSurplus
      <3>2. Due(u) \in SUBSET (Workers \ {w})
        BY <2>5 DEF Due, At
      <3>3. IsFiniteSet(Workers \ {w})
        BY WorkersCounted
      <3>4. Cardinality(Due(u)) <= Cardinality(Workers) - 1
        BY <3>2, <3>3, WorkersCounted, FS_Subset
      <3> QED BY <1>1, <3>1, <3>4, SurplusTyped, DueBounded, WorkersCounted
    <2> QED BY <2>2, <2>3, <2>4, <2>5 DEF Failure, CommandFails, StatementFails, ConfirmationLost
  <1>5. SurplusBounded'
    BY <1>1, <1>3, <1>4, FaultyStep
  <1> QED BY <1>1, <1>3, <1>5, OwnKept DEF CounterInv

LEMMA RestartCounts ==
  ASSUME IInv, CounterInv, Restart
  PROVE  CounterInv'
  <1>1. DatabaseOK /\ faults \in Nat /\ SurplusBounded
    BY IInvParts, FaultAssumption DEF CounterInv
  <1>2. Fault /\ UNCHANGED dbVars
    BY DEF Restart
  <1>3. ASSUME NEW u \in Registered
        PROVE  /\ Surplus(u)' \in Int
               /\ Surplus(u)' <= Surplus(u) + Cardinality(Workers) - Cardinality(Due(u))
    BY <1>1, <1>2, SameSurplus, SurplusTyped, DueBounded, WorkersCounted
  <1>4. SurplusBounded'
    BY <1>1, <1>2, <1>3, FaultyStep
  <1>5. DeletionsOwn'
    BY DEF Restart, DeletionsOwn, OwnDeletion, Idle
  <1> QED BY <1>4, <1>5 DEF CounterInv

LEMMA QuietCounts ==
  ASSUME IInv, CounterInv, NEW w \in Workers, UNCHANGED faults,
         Alone(w), OwnDeletion(req'[w]), ~At(w, "delete", "decrement"),
         \A u \in Registered : Surplus(u)' = Surplus(u)
  PROVE  CounterInv'
  <1>1. DatabaseOK /\ faults \in Nat /\ DeletionsOwn /\ SurplusBounded
    BY IInvParts, FaultAssumption DEF CounterInv
  <1>2. SurplusBounded'
    BY <1>1, QuietStep DEF Alone
  <1> QED BY <1>1, <1>2, OwnKept DEF CounterInv

LEMMA NextCounts == IInv /\ CounterInv /\ [Next]_vars => CounterInv'
  <1> SUFFICES ASSUME IInv, CounterInv, [Next]_vars PROVE CounterInv'
    OBVIOUS
  <1>0. DatabaseOK /\ LocalOK /\ DeletionsOwn
    BY IInvParts DEF CounterInv
  <1>1. ASSUME NEW w \in Workers, Start(w) PROVE CounterInv'
    <2>1. UNCHANGED <<dbVars, faults>> /\ req[w] = Idle
      BY <1>1 DEF Start, StartCreate, StartUpdate, StartDelete
    <2>2. ~At(w, "delete", "decrement")
      BY <2>1 DEF At, Idle
    <2> QED BY <1>0, <1>1, <2>1, <2>2, StartOwn, SameSurplus, QuietCounts
  <1>2. ASSUME NEW w \in Workers, CreateStep(w) PROVE CounterInv'
    <2>1. ASSUME NEW u \in Registered PROVE Surplus(u)' = Surplus(u)
      <3>1. CASE Commit(w)
        BY <1>0, <3>1, InsertSurplus DEF Commit
      <3>2. CASE ~Commit(w)
        <4>1. UNCHANGED dbVars
          BY <1>2, <3>2 DEF CreateStep, CountActive, FindSlot, FindFirstPrefix,
             FindSecondPrefix, FindThirdPrefix, CommitRefused
        <4> QED BY <4>1, SameSurplus
      <3> QED BY <3>1, <3>2
    <2>2. UNCHANGED faults
      BY <1>2 DEF CreateStep, CountActive, FindSlot, FindFirstPrefix, FindSecondPrefix,
         FindThirdPrefix, Commit, CommitRefused
    <2> QED BY <1>0, <1>2, <2>1, <2>2, CreateOwn, QuietCounts
  <1>3. ASSUME NEW w \in Workers, UpdateStep(w) PROVE CounterInv'
    <2>1. ASSUME NEW u \in Registered PROVE Surplus(u)' = Surplus(u)
      BY <1>0, <1>3, UpdateSurplus, SameSurplus DEF UpdateStep, UpdateIP, Reselect
    <2>2. UNCHANGED faults
      BY <1>3 DEF UpdateStep, UpdateIP, Reselect
    <2> QED BY <1>0, <1>3, <2>1, <2>2, UpdateOwn, QuietCounts
  <1>4. ASSUME NEW w \in Workers, Lookup(w) PROVE CounterInv'
    <2>1. UNCHANGED <<dbVars, faults>>
      BY <1>4 DEF Lookup
    <2> QED BY <1>0, <1>4, <2>1, LookupOwn, SameSurplus, QuietCounts
  <1>5. ASSUME NEW w \in Workers, CommandStep(w) PROVE CounterInv'
    <2>1. UNCHANGED <<dbVars, faults>> /\ req[w].pc = "exec" /\ (NextCommand(w) \/ Answer(w))
      BY <1>5 DEF CommandStep, Execute, CommandRefused, AfterFailedCommand
    <2> QED BY <1>0, <2>1, CommandOwn, SameSurplus, QuietCounts
  <1>6. ASSUME ChangeStatus PROVE CounterInv'
    <2>1. UNCHANGED <<req, faults>>
      BY <1>6 DEF ChangeStatus
    <2>2. ASSUME NEW u \in Registered PROVE Surplus(u)' = Surplus(u)
      BY <1>0, <1>6, SetStatusSurplus DEF ChangeStatus
    <2>3. \A u : Due(u)' = Due(u)
      BY <2>1 DEF Due, At
    <2> QED BY <2>1, <2>2, <2>3 DEF CounterInv, DeletionsOwn, OwnDeletion, SurplusBounded
  <1>7. ASSUME UNCHANGED vars PROVE CounterInv'
    <2>1. UNCHANGED <<dbVars, req, faults>>
      BY <1>7 DEF vars, dbVars
    <2>2. \A u : Due(u)' = Due(u)
      BY <2>1 DEF Due, At
    <2> QED BY <2>1, <2>2, SameSurplus DEF CounterInv, DeletionsOwn, OwnDeletion, SurplusBounded
  <1> QED BY <1>1, <1>2, <1>3, <1>4, <1>5, <1>6, <1>7, DeleteRowCounts, DecrementCounts,
             FailureCounts, RestartCounts DEF Next, Serve, Step, DeleteStep

LEMMA InitCounts == Init => CounterInv
  <1> SUFFICES ASSUME Init PROVE CounterInv
    OBVIOUS
  <1>1. DeletionsOwn
    BY DEF Init, DeletionsOwn, OwnDeletion, Idle
  <1>2. ASSUME NEW u \in Registered
        PROVE  Surplus(u) <= Cardinality(Due(u)) + faults * Cardinality(Workers)
    <2>1. RowsOf(u) = {} /\ users[u].active = 0 /\ faults = 0
      BY <1>2 DEF Init, DatabaseInit, RowsOf
    <2>2. Surplus(u) = 0
      BY <2>1, FS_EmptySet DEF Surplus
    <2> QED BY <2>1, <2>2, DueBounded, RoomTyped
  <1> QED BY <1>1, <1>2 DEF CounterInv, SurplusBounded

(* No interleaving of requests lets a user's counter run ahead of the rows *)
(* but by the decrements to come and by one for each goroutine and failure.*)
THEOREM CountersNotAheadHolds == Spec => []CountersNotAhead
  <1>1. IInv /\ CounterInv => CountersNotAhead
    <2> SUFFICES ASSUME IInv, CounterInv, NEW u \in Registered
                 PROVE  users[u].active <= Cardinality(RowsOf(u)) + Cardinality(Due(u))
                                           + faults * Cardinality(Workers)
      BY DEF CountersNotAhead, Due
    <2>1. DatabaseOK /\ faults \in Nat
      BY IInvParts, FaultAssumption
    <2>2. Surplus(u) <= Cardinality(Due(u)) + faults * Cardinality(Workers)
      BY DEF CounterInv, SurplusBounded
    <2> QED BY <2>1, <2>2, SurplusTyped, DueBounded, RoomTyped DEF Surplus
  <1> QED BY <1>1, InitCounts, NextCounts, Invariance, PTL DEF Spec
-----------------------------------------------------------------------------
(* Every step of a goroutine brings it nearer to its answer.  The loops    *)
(* over the prefixes count their attempts; the bound on what is counted is *)
(* inductive beside the invariant.                                         *)

Within(r) == r.pc \in {"prefix1", "prefix2"} => r.tries < MaxAttempts

TriesBounded == \A w \in Workers : Within(req[w])

Nearer == \A w \in Workers : req[w].pc # "idle" /\ req'[w] # req[w] =>
             StepsLeft(req'[w]) < StepsLeft(req[w])

(* StepsLeft, one value of the program counter at a time.                  *)
LEMMA LeftAt ==
  ASSUME NEW r
  PROVE  /\ r.pc = "idle" => StepsLeft(r) = 0
         /\ r.pc = "count" => StepsLeft(r) = 4 * MaxAttempts + 10
         /\ r.pc = "slot" => StepsLeft(r) = 4 * MaxAttempts + 10 - r.tries
         /\ r.pc = "prefix1" => StepsLeft(r) = 4 * MaxAttempts + 7 - r.tries
         /\ r.pc = "prefix2" => StepsLeft(r) = 3 * MaxAttempts + 7 - r.tries
         /\ r.pc = "prefix3" => StepsLeft(r) = 2 * MaxAttempts + 7 - r.tries
         /\ r.pc = "commit" => StepsLeft(r) = 7
         /\ r.pc = "exec" => StepsLeft(r) = Len(r.todo) + (IF r.op = "delete" THEN 2 ELSE 0)
         /\ r.pc = "update" => StepsLeft(r) = 3
         /\ r.pc = "select" => StepsLeft(r) = 2
         /\ r.pc = "lookup" => StepsLeft(r) = 7
         /\ r.pc = "delete" => StepsLeft(r) = 2
         /\ r.pc = "decrement" => StepsLeft(r) = 1
  BY DEF StepsLeft

LEMMA ExecLeft ==
  ASSUME NEW r, r.pc = "exec"
  PROVE  /\ r.op = "delete" => StepsLeft(r) = Len(r.todo) + 2
         /\ r.op # "delete" => StepsLeft(r) = Len(r.todo) + 0
  BY DEF StepsLeft

LEMMA IdleLeft == StepsLeft(Idle) = 0 /\ Within(Idle)
  BY LeftAt DEF Within, Idle

LEMMA ThirdAttemptsBounded ==
  ASSUME NEW n \in Slots
  PROVE  ThirdAttempts(n) \in Nat /\ ThirdAttempts(n) <= 2 * MaxAttempts
  <1> DEFINE len == Len(ThirdPools(n))
  <1>1. len = 1 \/ len = 2
    BY DEF ThirdPools, Slots
  <1> HIDE DEF len
  <1>2. MaxAttempts * len \in Nat /\ MaxAttempts * len <= 2 * MaxAttempts
    BY <1>1, AttemptAssumption
  <1> QED BY <1>2 DEF ThirdAttempts, len

(* A request has a step left.                                              *)
LEMMA LeftPositive ==
  ASSUME LocalOK, TriesBounded, NEW w \in Workers, req[w].pc # "idle"
  PROVE  StepsLeft(req[w]) \in Nat /\ 0 < StepsLeft(req[w])
  <1>0. PICK r : r = req[w]
    OBVIOUS
  <1> SUFFICES StepsLeft(r) \in Nat /\ 0 < StepsLeft(r)
    BY <1>0
  <1>1. /\ r.pc \in StatementPcs \cup {"exec"} /\ r.tries \in Nat /\ r.todo \in Seq(Command)
        /\ StageOK(r) /\ Within(r)
    BY <1>0 DEF LocalOK, Stages, Request, TriesBounded
  <1>2. MaxAttempts \in Nat /\ 0 < MaxAttempts
    BY AttemptAssumption
  <1>3. r.pc = "slot" => r.tries \in 1 .. 2
    BY <1>1 DEF StageOK, Slots
  <1>4. r.pc = "prefix3" => r.tries < 2 * MaxAttempts
    <2>1. CASE r.pc = "prefix3"
      <3>1. r.row.id[2] \in Slots /\ r.tries < ThirdAttempts(r.row.id[2])
        BY <1>1, <2>1 DEF StageOK, OwnId, Ids
      <3> QED BY <1>1, <1>2, <3>1, ThirdAttemptsBounded
    <2> QED BY <2>1
  <1>5. r.pc = "exec" => Len(r.todo) \in Nat /\ 0 < Len(r.todo)
    BY <1>1 DEF StageOK
  <1>6. CASE r.pc \in {"count", "slot", "prefix1", "prefix2", "prefix3"}
    <2>1. CASE r.pc \in {"count", "slot"}
      <3>1. StepsLeft(r) = 4 * MaxAttempts + 10 \/ StepsLeft(r) = 4 * MaxAttempts + 10 - r.tries
        BY <2>1, LeftAt
      <3>2. r.pc = "count" => StepsLeft(r) = 4 * MaxAttempts + 10
        BY LeftAt
      <3> QED BY <1>2, <1>3, <2>1, <3>1, <3>2
    <2>2. CASE r.pc = "prefix1"
      <3>1. StepsLeft(r) = 4 * MaxAttempts + 7 - r.tries
        BY <2>2, LeftAt
      <3> QED BY <1>1, <1>2, <2>2, <3>1 DEF Within
    <2>3. CASE r.pc = "prefix2"
      <3>1. StepsLeft(r) = 3 * MaxAttempts + 7 - r.tries
        BY <2>3, LeftAt
      <3> QED BY <1>1, <1>2, <2>3, <3>1 DEF Within
    <2>4. CASE r.pc = "prefix3"
      <3>1. StepsLeft(r) = 2 * MaxAttempts + 7 - r.tries
        BY <2>4, LeftAt
      <3> QED BY <1>1, <1>2, <1>4, <2>4, <3>1
    <2> QED BY <1>6, <2>1, <2>2, <2>3, <2>4
  <1>7. CASE r.pc \in {"commit", "update", "select", "lookup", "delete", "decrement"}
    <2>1. StepsLeft(r) \in {7, 3, 2, 1}
      BY <1>7, LeftAt
    <2> QED BY <2>1
  <1>8. CASE r.pc = "exec"
    <2>1. StepsLeft(r) = Len(r.todo) + 2 \/ StepsLeft(r) = Len(r.todo) + 0
      BY <1>8, ExecLeft
    <2> QED BY <1>5, <1>8, <2>1
  <1> QED BY <1>0, <1>1, <1>6, <1>7, <1>8 DEF StatementPcs

(* The ways through a creation.                                            *)
LEMMA CreationNearer ==
  ASSUME NEW r, NEW s, r.tries \in Nat,
         \/ r.pc = "count" /\ s.pc = "slot" /\ s.tries = 1
         \/ r.pc \in {"slot", "prefix1", "prefix2", "prefix3"} /\ s.pc = r.pc /\ s.tries = r.tries + 1
         \/ r.pc = "slot" /\ r.tries <= 2 /\ s.pc = "prefix1" /\ s.tries = 0
         \/ r.pc = "prefix1" /\ r.tries < MaxAttempts /\ s.pc = "prefix2" /\ s.tries = 0
         \/ r.pc = "prefix2" /\ r.tries < MaxAttempts /\ s.pc = "prefix3" /\ s.tries = 0
         \/ r.pc = "prefix3" /\ r.tries < 2 * MaxAttempts /\ s.pc = "commit"
         \/ r.pc = "commit" /\ s.pc = "exec" /\ s.op = "create" /\ Len(s.todo) \in 0 .. 6
  PROVE  StepsLeft(s) < StepsLeft(r)
  <1>0. MaxAttempts \in Nat /\ 0 < MaxAttempts
    BY AttemptAssumption
  <1>1. CASE r.pc = "count" /\ s.pc = "slot" /\ s.tries = 1
    <2>1. StepsLeft(r) = 4 * MaxAttempts + 10 /\ StepsLeft(s) = 4 * MaxAttempts + 10 - s.tries
      BY <1>1, LeftAt
    <2> QED BY <1>0, <1>1, <2>1
  <1>2. CASE r.pc = "slot" /\ s.pc = r.pc /\ s.tries = r.tries + 1
    <2>1. StepsLeft(r) = 4 * MaxAttempts + 10 - r.tries /\ StepsLeft(s) = 4 * MaxAttempts + 10 - s.tries
      BY <1>2, LeftAt
    <2> QED BY <1>0, <1>2, <2>1
  <1>3. CASE r.pc = "prefix1" /\ s.pc = r.pc /\ s.tries = r.tries + 1
    <2>1. StepsLeft(r) = 4 * MaxAttempts + 7 - r.tries /\ StepsLeft(s) = 4 * MaxAttempts + 7 - s.tries
      BY <1>3, LeftAt
    <2> QED BY <1>0, <1>3, <2>1
  <1>4. CASE r.pc = "prefix2" /\ s.pc = r.pc /\ s.tries = r.tries + 1
    <2>1. StepsLeft(r) = 3 * MaxAttempts + 7 - r.tries /\ StepsLeft(s) = 3 * MaxAttempts + 7 - s.tries
      BY <1>4, LeftAt
    <2> QED BY <1>0, <1>4, <2>1
  <1>5. CASE r.pc = "prefix3" /\ s.pc = r.pc /\ s.tries = r.tries + 1
    <2>1. StepsLeft(r) = 2 * MaxAttempts + 7 - r.tries /\ StepsLeft(s) = 2 * MaxAttempts + 7 - s.tries
      BY <1>5, LeftAt
    <2> QED BY <1>0, <1>5, <2>1
  <1>6. CASE r.pc = "slot" /\ r.tries <= 2 /\ s.pc = "prefix1" /\ s.tries = 0
    <2>1. StepsLeft(r) = 4 * MaxAttempts + 10 - r.tries /\ StepsLeft(s) = 4 * MaxAttempts + 7 - s.tries
      BY <1>6, LeftAt
    <2> QED BY <1>0, <1>6, <2>1
  <1>7. CASE r.pc = "prefix1" /\ r.tries < MaxAttempts /\ s.pc = "prefix2" /\ s.tries = 0
    <2>1. StepsLeft(r) = 4 * MaxAttempts + 7 - r.tries /\ StepsLeft(s) = 3 * MaxAttempts + 7 - s.tries
      BY <1>7, LeftAt
    <2> QED BY <1>0, <1>7, <2>1
  <1>8. CASE r.pc = "prefix2" /\ r.tries < MaxAttempts /\ s.pc = "prefix3" /\ s.tries = 0
    <2>1. StepsLeft(r) = 3 * MaxAttempts + 7 - r.tries /\ StepsLeft(s) = 2 * MaxAttempts + 7 - s.tries
      BY <1>8, LeftAt
    <2> QED BY <1>0, <1>8, <2>1
  <1>9. CASE r.pc = "prefix3" /\ r.tries < 2 * MaxAttempts /\ s.pc = "commit"
    <2>1. StepsLeft(r) = 2 * MaxAttempts + 7 - r.tries /\ StepsLeft(s) = 7
      BY <1>9, LeftAt
    <2> QED BY <1>0, <1>9, <2>1
  <1>10. CASE r.pc = "commit" /\ s.pc = "exec" /\ s.op = "create" /\ Len(s.todo) \in 0 .. 6
    <2>1. StepsLeft(r) = 7
      BY <1>10, LeftAt
    <2>2. PICK n \in 0 .. 6 : n = Len(s.todo)
      BY <1>10
    <2>3. StepsLeft(s) = n + 0
      BY <1>10, <2>2, ExecLeft
    <2>4. n + 0 < 7
      OBVIOUS
    <2> QED BY <2>1, <2>3, <2>4
  <1> QED BY <1>1, <1>2, <1>3, <1>4, <1>5, <1>6, <1>7, <1>8, <1>9, <1>10

LEMMA BecomeNearer ==
  ASSUME LocalOK, TriesBounded, NEW w \in Workers, NEW r, Become(w, r), Within(r),
         req[w].pc = "idle" \/ StepsLeft(r) < StepsLeft(req[w])
  PROVE  TriesBounded' /\ Nearer
  <1>1. req'[w] = r /\ \A v \in Workers \ {w} : req'[v] = req[v]
    BY DEF Become, LocalOK
  <1>2. \A v \in Workers : Within(req'[v])
    BY <1>1 DEF TriesBounded
  <1> QED BY <1>1, <1>2 DEF Nearer, TriesBounded, Within

LEMMA AnswerNearer ==
  ASSUME LocalOK, TriesBounded, NEW w \in Workers, Answer(w)
  PROVE  TriesBounded' /\ Nearer
  <1>1. req[w].pc = "idle" \/ StepsLeft(Idle) < StepsLeft(req[w])
    BY IdleLeft, LeftPositive
  <1> QED BY <1>1, IdleLeft, BecomeNearer DEF Answer

LEMMA StartNearer ==
  ASSUME LocalOK, TriesBounded, NEW w \in Workers, Start(w)
  PROVE  TriesBounded' /\ Nearer
  <1>1. req[w].pc = "idle"
    <2>1. req[w] = Idle /\ Idle.pc = "idle"
      BY DEF Start, StartCreate, StartUpdate, StartDelete, Idle
    <2> QED BY <2>1
  <1>2. PICK r : Become(w, r) /\ r.pc \in {"count", "update", "lookup"}
    <2>1. \A row : [Idle EXCEPT !.op = "create", !.pc = "count", !.row = row].pc = "count"
      BY DEF Idle
    <2>2. \A id, ip : [Idle EXCEPT !.op = "update", !.pc = "update", !.id = id, !.ip = ip].pc = "update"
      BY DEF Idle
    <2>3. \A id : [Idle EXCEPT !.op = "delete", !.pc = "lookup", !.id = id].pc = "lookup"
      BY DEF Idle
    <2>4. CASE StartCreate(w)
      BY <2>1, <2>4 DEF StartCreate
    <2>5. CASE StartUpdate(w)
      BY <2>2, <2>5 DEF StartUpdate
    <2>6. CASE StartDelete(w)
      BY <2>3, <2>6 DEF StartDelete
    <2> QED BY <2>4, <2>5, <2>6 DEF Start
  <1>3. Within(r)
    BY <1>2 DEF Within
  <1> QED BY <1>1, <1>2, <1>3, BecomeNearer

(* One turn of a loop: found, once more, or given up.                      *)
LEMMA AttemptNearer ==
  ASSUME LocalOK, TriesBounded, NEW w \in Workers, NEW p, NEW attempts, NEW next,
         req[w].pc \in {"prefix1", "prefix2", "prefix3"},
         req[w].pc \in {"prefix1", "prefix2"} => attempts = MaxAttempts,
         Within(next), StepsLeft(next) < StepsLeft(req[w]),
         Attempt(w, p, attempts, next)
  PROVE  TriesBounded' /\ Nearer
  <1> DEFINE retry == [req[w] EXCEPT !.tries = @ + 1]
  <1>1. \/ Become(w, next)
        \/ req[w].tries + 1 < attempts /\ Become(w, retry)
        \/ Answer(w)
    BY DEF Attempt
  <1>2. CASE req[w].tries + 1 < attempts /\ Become(w, retry)
    <2>1. req[w].tries \in Nat /\ retry.pc = req[w].pc /\ retry.tries = req[w].tries + 1
      BY DEF LocalOK, Request
    <2> HIDE DEF retry
    <2>2. Within(retry)
      BY <1>2, <2>1 DEF Within
    <2>3. StepsLeft(retry) < StepsLeft(req[w])
      BY <2>1, CreationNearer
    <2> QED BY <1>2, <2>2, <2>3, BecomeNearer
  <1> QED BY <1>1, <1>2, BecomeNearer, AnswerNearer

LEMMA CreateNearer ==
  ASSUME LocalOK, TriesBounded, NEW w \in Workers, CreateStep(w)
  PROVE  TriesBounded' /\ Nearer
  <1>1. /\ req[w] \in Request /\ req[w].tries \in Nat /\ StageOK(req[w]) /\ Within(req[w])
        /\ MaxAttempts \in Nat /\ 0 < MaxAttempts
    BY AttemptAssumption DEF LocalOK, Stages, Request, TriesBounded
  <1>2. CASE CountActive(w)
    <2> DEFINE next == [req[w] EXCEPT !.pc = "slot", !.tries = 1]
    <2>1. req[w].pc = "count" /\ (Answer(w) \/ Become(w, next))
      BY <1>2 DEF CountActive, At
    <2>2. next.pc = "slot" /\ next.tries = 1
      BY <1>1 DEF Request
    <2> HIDE DEF next
    <2>3. Within(next) /\ StepsLeft(next) < StepsLeft(req[w])
      BY <1>1, <2>1, <2>2, CreationNearer DEF Within
    <2> QED BY <2>1, <2>3, BecomeNearer, AnswerNearer
  <1>3. CASE FindSlot(w)
    <2> DEFINE retry == [req[w] EXCEPT !.tries = @ + 1]
               next == [req[w] EXCEPT !.pc = "prefix1",
                                      !.row.id = <<req[w].row.user, req[w].tries>>, !.tries = 0]
    <2>1. req[w].pc = "slot" /\ (Answer(w) \/ Become(w, retry) \/ Become(w, next))
      BY <1>3 DEF FindSlot, At
    <2>2. /\ retry.pc = "slot" /\ retry.tries = req[w].tries + 1
          /\ next.pc = "prefix1" /\ next.tries = 0 /\ req[w].tries \in 1 .. 2
      BY <1>1, <2>1 DEF Request, StageOK, Slots
    <2> HIDE DEF retry, next
    <2>3. Within(retry) /\ StepsLeft(retry) < StepsLeft(req[w])
      BY <1>1, <2>1, <2>2, CreationNearer DEF Within
    <2>4. Within(next) /\ StepsLeft(next) < StepsLeft(req[w])
      BY <1>1, <2>1, <2>2, CreationNearer DEF Within
    <2> QED BY <2>1, <2>3, <2>4, BecomeNearer, AnswerNearer
  <1>4. CASE FindFirstPrefix(w)
    <2> DEFINE p(d) == generateDelegatedPrefix(Primary[req[w].row.id[2]], d, req[w].row.user)
               next(x) == [req[w] EXCEPT !.pc = "prefix2", !.row.p1 = x, !.tries = 0]
    <2>1. PICK digit \in Digits : Attempt(w, p(digit), MaxAttempts, next(p(digit)))
      BY <1>4 DEF FindFirstPrefix
    <2>2. req[w].pc = "prefix1" /\ req[w].tries < MaxAttempts
      BY <1>1, <1>4 DEF FindFirstPrefix, At, Within
    <2>3. ASSUME NEW x PROVE Within(next(x)) /\ StepsLeft(next(x)) < StepsLeft(req[w])
      <3>1. PICK r : r = next(x)
        OBVIOUS
      <3>2. r.pc = "prefix2" /\ r.tries = 0
        BY <1>1, <3>1 DEF Request
      <3> HIDE DEF next
      <3>3. Within(r) /\ StepsLeft(r) < StepsLeft(req[w])
        BY <1>1, <2>2, <3>2, CreationNearer DEF Within
      <3> QED BY <3>1, <3>3
    <2> HIDE DEF p, next
    <2> QED BY <2>1, <2>2, <2>3, AttemptNearer
  <1>5. CASE FindSecondPrefix(w)
    <2> DEFINE p(d) == generateDelegatedPrefix(Secondary[req[w].row.id[2]], d, req[w].row.user)
               next(x, y) == [req[w] EXCEPT !.pc = "prefix3", !.row.p2 = x, !.row.ula = y, !.tries = 0]
    <2>1. PICK digit \in Digits, ula \in Ulas : Attempt(w, p(digit), MaxAttempts, next(p(digit), ula))
      BY <1>5 DEF FindSecondPrefix
    <2>2. req[w].pc = "prefix2" /\ req[w].tries < MaxAttempts
      BY <1>1, <1>5 DEF FindSecondPrefix, At, Within
    <2>3. ASSUME NEW x, NEW y
          PROVE  Within(next(x, y)) /\ StepsLeft(next(x, y)) < StepsLeft(req[w])
      <3>1. PICK r : r = next(x, y)
        OBVIOUS
      <3>2. r.pc = "prefix3" /\ r.tries = 0
        BY <1>1, <3>1 DEF Request
      <3> HIDE DEF next
      <3>3. Within(r) /\ StepsLeft(r) < StepsLeft(req[w])
        BY <1>1, <2>2, <3>2, CreationNearer DEF Within
      <3> QED BY <3>1, <3>3
    <2> HIDE DEF p, next
    <2> QED BY <2>1, <2>2, <2>3, AttemptNearer
  <1>6. CASE FindThirdPrefix(w)
    <2> DEFINE n == req[w].row.id[2]
               p == generateThirdPrefix(ThirdPoolOfAttempt(n, req[w].tries), req[w].row.user)
               next(k) == [req[w] EXCEPT !.pc = "commit", !.row.p3 = p, !.row.key = k, !.tries = 0]
    <2>1. \E key : Attempt(w, p, ThirdAttempts(n), next(key))
      BY <1>6 DEF FindThirdPrefix
    <2>2. req[w].pc = "prefix3" /\ req[w].tries < 2 * MaxAttempts
      <3>1. req[w].pc = "prefix3"
        BY <1>6 DEF FindThirdPrefix, At
      <3>2. n \in Slots /\ req[w].tries < ThirdAttempts(n)
        BY <1>1, <3>1 DEF StageOK, OwnId, Ids
      <3> HIDE DEF n
      <3> QED BY <1>1, <3>1, <3>2, ThirdAttemptsBounded
    <2>3. ASSUME NEW key PROVE Within(next(key)) /\ StepsLeft(next(key)) < StepsLeft(req[w])
      <3>1. PICK r : r = next(key)
        OBVIOUS
      <3>2. r.pc = "commit" /\ r.tries = 0
        BY <1>1, <3>1 DEF Request
      <3> HIDE DEF next
      <3>3. Within(r) /\ StepsLeft(r) < StepsLeft(req[w])
        BY <1>1, <2>2, <3>2, CreationNearer DEF Within
      <3> QED BY <3>1, <3>3
    <2> HIDE DEF p, n, next
    <2> QED BY <2>1, <2>2, <2>3, AttemptNearer
  <1>7. CASE Commit(w)
    <2> DEFINE next == [req[w] EXCEPT !.pc = "exec", !.id = req[w].row.id, !.row = Needed(req[w].row),
                                      !.todo = CreateCommands(req[w].row)]
    <2>1. Become(w, next) /\ req[w].pc = "commit" /\ req[w].op = "create"
      BY <1>7 DEF Commit, At
    <2>2. next.pc = "exec" /\ next.op = "create" /\ next.todo = CreateCommands(req[w].row)
      BY <1>1, <2>1 DEF Request
    <2> HIDE DEF next
    <2>3. Len(CreateCommands(req[w].row)) \in 0 .. 6
      BY DEF CreateCommands
    <2>4. StepsLeft(next) < StepsLeft(req[w])
      BY <1>1, <2>1, <2>2, <2>3, CreationNearer
    <2> QED BY <2>1, <2>2, <2>4, BecomeNearer DEF Within
  <1>8. CASE CommitRefused(w)
    BY <1>8, AnswerNearer DEF CommitRefused
  <1> QED BY <1>2, <1>3, <1>4, <1>5, <1>6, <1>7, <1>8 DEF CreateStep

LEMMA UpdateNearer ==
  ASSUME LocalOK, TriesBounded, NEW w \in Workers, UpdateStep(w)
  PROVE  TriesBounded' /\ Nearer
  <1>1. req[w] \in Request
    BY DEF LocalOK
  <1>2. CASE UpdateIP(w)
    <2> DEFINE next == [req[w] EXCEPT !.pc = "select"]
    <2>1. Become(w, next) /\ req[w].pc = "update"
      BY <1>2 DEF UpdateIP, At
    <2>2. next.pc = "select"
      BY <1>1 DEF Request
    <2> HIDE DEF next
    <2>3. StepsLeft(next) = 2 /\ StepsLeft(req[w]) = 3
      BY <2>1, <2>2, LeftAt
    <2> QED BY <2>1, <2>2, <2>3, BecomeNearer DEF Within
  <1>3. CASE Reselect(w)
    <2> DEFINE next(c) == [req[w] EXCEPT !.pc = "exec", !.todo = <<c>>]
    <2>1. At(w, "update", "select") /\ (Answer(w) \/ \E c : Become(w, next(c)))
      BY <1>3 DEF Reselect
    <2>2. ASSUME NEW c PROVE Within(next(c)) /\ StepsLeft(next(c)) < StepsLeft(req[w])
      <3>1. PICK r : r = next(c)
        OBVIOUS
      <3>2. r.pc = "exec" /\ r.op = "update" /\ r.todo = <<c>>
        BY <1>1, <2>1, <3>1 DEF Request, At
      <3>3. Len(r.todo) = 1
        BY <3>2
      <3> HIDE DEF next
      <3>4. StepsLeft(r) = Len(r.todo) + 0 /\ StepsLeft(req[w]) = 2
        BY <2>1, <3>2, LeftAt, ExecLeft DEF At
      <3>5. StepsLeft(r) < StepsLeft(req[w])
        BY <3>3, <3>4
      <3> QED BY <3>1, <3>2, <3>5 DEF Within
    <2> HIDE DEF next
    <2> QED BY <2>1, <2>2, BecomeNearer, AnswerNearer
  <1> QED BY <1>2, <1>3 DEF UpdateStep

LEMMA DeleteNearer ==
  ASSUME LocalOK, TriesBounded, NEW w \in Workers, DeleteStep(w)
  PROVE  TriesBounded' /\ Nearer
  <1>1. req[w] \in Request
    BY DEF LocalOK
  <1>2. CASE Lookup(w)
    <2> DEFINE next(row) == [req[w] EXCEPT !.pc = "exec", !.row = Needed(row),
                                           !.todo = DeleteCommands(row)]
    <2>1. At(w, "delete", "lookup") /\ (Answer(w) \/ \E row : Become(w, next(row)))
      BY <1>2 DEF Lookup
    <2>2. ASSUME NEW row PROVE Within(next(row)) /\ StepsLeft(next(row)) < StepsLeft(req[w])
      <3>1. PICK r : r = next(row)
        OBVIOUS
      <3>2. r.pc = "exec" /\ r.op = "delete" /\ r.todo = DeleteCommands(row)
        BY <1>1, <2>1, <3>1 DEF Request, At
      <3>3. Len(DeleteCommands(row)) \in 0 .. 4
        BY DEF DeleteCommands
      <3> HIDE DEF next
      <3>4. PICK n \in 0 .. 4 : n = Len(r.todo)
        BY <3>2, <3>3
      <3>5. StepsLeft(r) = n + 2 /\ StepsLeft(req[w]) = 7
        BY <2>1, <3>2, <3>4, LeftAt, ExecLeft DEF At
      <3>6. n + 2 < 7
        OBVIOUS
      <3>7. StepsLeft(r) < StepsLeft(req[w])
        BY <3>5, <3>6
      <3> QED BY <3>1, <3>2, <3>7 DEF Within
    <2> HIDE DEF next
    <2> QED BY <2>1, <2>2, BecomeNearer, AnswerNearer
  <1>3. CASE DeleteRow(w)
    <2> DEFINE next == [req[w] EXCEPT !.pc = "decrement"]
    <2>1. Become(w, next) /\ req[w].pc = "delete"
      BY <1>3 DEF DeleteRow, At
    <2>2. next.pc = "decrement"
      BY <1>1 DEF Request
    <2> HIDE DEF next
    <2>3. StepsLeft(next) = 1 /\ StepsLeft(req[w]) = 2
      BY <2>1, <2>2, LeftAt
    <2> QED BY <2>1, <2>2, <2>3, BecomeNearer DEF Within
  <1>4. CASE Decrement(w)
    BY <1>4, AnswerNearer DEF Decrement
  <1> QED BY <1>2, <1>3, <1>4 DEF DeleteStep

(* A command done with, successful or not.                                 *)
LEMMA NextCommandNearer ==
  ASSUME LocalOK, TriesBounded, NEW w \in Workers, req[w].pc = "exec", NextCommand(w)
  PROVE  TriesBounded' /\ Nearer
  <1> DEFINE rest == Tail(req[w].todo)
             more == [req[w] EXCEPT !.todo = rest]
             last == [req[w] EXCEPT !.pc = "delete", !.todo = rest]
  <1>1. req[w] \in Request /\ StageOK(req[w]) /\ req[w].todo \in Seq(Command) \ {<<>>}
    BY DEF LocalOK, Stages, StageOK, Request
  <1>2. PICK n \in Nat \ {0} : n = Len(req[w].todo) /\ Len(rest) = n - 1
    BY <1>1
  <1>3. \/ Become(w, more)
        \/ req[w].op = "delete" /\ Become(w, last)
        \/ Answer(w)
    BY DEF NextCommand
  <1>4. \/ req[w].op = "delete" /\ StepsLeft(req[w]) = n + 2
        \/ req[w].op # "delete" /\ StepsLeft(req[w]) = n + 0
    BY <1>2, ExecLeft
  <1> HIDE DEF rest
  <1>5. CASE Become(w, more)
    <2>1. more.pc = "exec" /\ more.op = req[w].op /\ more.todo = rest
      BY <1>1 DEF Request
    <2> HIDE DEF more
    <2>2. \/ req[w].op = "delete" /\ StepsLeft(more) = n - 1 + 2
          \/ req[w].op # "delete" /\ StepsLeft(more) = n - 1 + 0
      BY <1>2, <2>1, ExecLeft
    <2>3. StepsLeft(more) < StepsLeft(req[w])
      BY <1>4, <2>2
    <2> QED BY <1>5, <2>1, <2>3, BecomeNearer DEF Within
  <1>6. CASE req[w].op = "delete" /\ Become(w, last)
    <2>1. last.pc = "delete"
      BY <1>1 DEF Request
    <2> HIDE DEF last
    <2>2. StepsLeft(last) = 2
      BY <2>1, LeftAt
    <2>3. StepsLeft(last) < StepsLeft(req[w])
      BY <1>4, <1>6, <2>2
    <2> QED BY <1>6, <2>1, <2>3, BecomeNearer DEF Within
  <1> QED BY <1>3, <1>5, <1>6, AnswerNearer

LEMMA CommandNearer ==
  ASSUME LocalOK, TriesBounded, NEW w \in Workers,
         CommandStep(w) \/ Failure(w)
  PROVE  TriesBounded' /\ Nearer
  <1>1. \/ Answer(w)
        \/ req[w].pc = "exec" /\ NextCommand(w)
    BY DEF CommandStep, Execute, CommandRefused, Failure, CommandFails, StatementFails,
           ConfirmationLost, AfterFailedCommand
  <1> QED BY <1>1, AnswerNearer, NextCommandNearer

LEMMA RestartNearer ==
  ASSUME LocalOK, TriesBounded, Restart
  PROVE  TriesBounded' /\ Nearer
  <1>1. \A w \in Workers : req'[w] = Idle
    BY DEF Restart
  <1>2. \A w \in Workers : Within(req'[w])
    BY <1>1, IdleLeft
  <1>3. \A w \in Workers : req[w].pc # "idle" => StepsLeft(req'[w]) < StepsLeft(req[w])
    BY <1>1, IdleLeft, LeftPositive
  <1> QED BY <1>2, <1>3 DEF TriesBounded, Nearer, Within

LEMMA NextNearer == IInv /\ TriesBounded /\ [Next]_vars => TriesBounded' /\ Nearer
  <1> SUFFICES ASSUME IInv, TriesBounded, [Next]_vars
               PROVE  TriesBounded' /\ Nearer
    OBVIOUS
  <1>1. LocalOK
    BY IInvParts
  <1>2. ASSUME NEW w \in Workers, Start(w) \/ Step(w) \/ Failure(w)
        PROVE  TriesBounded' /\ Nearer
    BY <1>1, <1>2, StartNearer, CreateNearer, UpdateNearer, DeleteNearer, CommandNearer DEF Step
  <1>3. CASE UNCHANGED req
    BY <1>3 DEF TriesBounded, Within, Nearer
  <1> QED BY <1>1, <1>2, <1>3, RestartNearer DEF Next, Serve, ChangeStatus, vars

LEMMA InitBounded == Init => TriesBounded
  BY IdleLeft DEF Init, TriesBounded, Within, Idle

(* Every step of a goroutine, whatever the others do and whatever fails,   *)
(* brings it nearer its answer: the loops over ids and prefixes of         *)
(* service.go end for every MaxAttempts and any number of goroutines.      *)
THEOREM EveryStepNearerHolds == Spec => EveryStepNearer
  <1>1. IInv /\ TriesBounded /\ [Next]_vars =>
          [\A w \in Workers : req[w].pc # "idle" /\ req'[w] # req[w] =>
             StepsLeft(req'[w]) < StepsLeft(req[w])]_vars
    BY NextNearer DEF Nearer
  <1>2. Spec => []TriesBounded
    BY Invariance, InitBounded, NextNearer, PTL DEF Spec
  <1> QED BY <1>1, <1>2, Invariance, PTL DEF Spec, EveryStepNearer

=============================================================================
