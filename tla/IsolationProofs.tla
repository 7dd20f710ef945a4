---------------------------- MODULE IsolationProofs ----------------------------
(***************************************************************************)
(* The proof that requests on other tunnels, of the same user or not,      *)
(* leave a tunnel alone, and that its client's end fits: BrokerIsolation   *)
(* and ClientEnd for every value of the constants, as long as no two user  *)
(* ids denote one number.                                                  *)
(***************************************************************************)
EXTENDS ClientEnd, CommandProofs, SequenceTheorems

-----------------------------------------------------------------------------
(* The inductive invariant.  Besides what CommandProofs says of commands   *)
(* and keys: a tunnel whose id met no trouble is configured but for what   *)
(* the commands of the one request on its id are about to do.              *)

(* What the request r on the id of t has left of t.                        *)
Tended(r, t) ==
    /\ r.pc \in {"update", "lookup"} => Settled(t, {})
    /\ r.pc = "select" => t.ip = r.ip /\ Settled(t, {Change(t)})
    /\ r.pc = "exec" /\ r.op # "delete" => Of(r.todo) \subseteq OwnCommands(t) /\ Settled(t, Of(r.todo))
    /\ r.pc = "exec" /\ r.op = "delete" => (t.type # "wg" => r.todo = <<TunnelDel(t.id)>>)
    /\ r.pc = "delete" => LinkOf(t.id) = {}
    /\ r.pc # "decrement"

Cared(t) ==
    /\ t.type = "wg" => LinkOf(t.id) = {}
    /\ (\A w \in Workers : ~ActsOn(w, t.id)) => Settled(t, {})
    /\ \A w \in Workers : ActsOn(w, t.id) => Tended(req[w], t)

TunnelsCared == \A t \in tunnels : t.id \notin troubled => Cared(t)

NoLinkLeft == \A id \in Ids \ troubled : ~TunnelIDExists(id) => LinkOf(id) = {}

RowsBehind ==
    \A w \in Workers :
        req[w].pc = "exec" /\ req[w].op # "delete" /\ req[w].id \notin troubled
            => TunnelIDExists(req[w].id)

OneAtATime == \A id \in Ids \ troubled : ~Overlapping(id)

PeersOwned ==
    troubled = {} =>
        \A p \in peers : \E t \in tunnels :
            /\ t.type = "wg" /\ t.key = p.key
            /\ \A w \in Workers : ActsOn(w, t.id) /\ Removing(req[w]) =>
                  req[w].pc = "exec" /\ PeerRemove(t.key) \in Of(req[w].todo)

IsolationInv ==
    /\ RequestsLocal /\ KeysOwned
    /\ TunnelsCared /\ NoLinkLeft /\ RowsBehind /\ OneAtATime /\ PeersOwned

-----------------------------------------------------------------------------
(* A step of one goroutine, which concerns the ids of a set S only *)

(* The tunnels of the other ids, their rows and their links stay.          *)
Spares(S) ==
    /\ \A t : t.id \notin S => (t \in tunnels' <=> t \in tunnels)
    /\ \A t \in tunnels : t.id \notin S => \A rest : Settled(t, rest) => Settled(t, rest)'
    /\ \A id \in Ids \ S : LinkOf(id)' = LinkOf(id)

(* Trouble is remembered, and two requests on one id are trouble.          *)
Noted == troubled \subseteq troubled' /\ \A id \in Ids : Overlapping(id)' => id \in troubled'

LEMMA TroubleNoted ==
  ASSUME NEW ids, Trouble(ids)
  PROVE  Noted /\ ids \subseteq troubled'
  BY DEF Trouble, Noted

LEMMA CaredElsewhere ==
  ASSUME req \in [Workers -> Request], NEW w \in Workers, NEW r, Become(w, r),
         NEW t, Cared(t), req[w].id # t.id, r.id # t.id, LinkOf(t.id)' = LinkOf(t.id),
         \A rest : Settled(t, rest) => Settled(t, rest)'
  PROVE  Cared(t)'
  <1>1. req'[w] = r /\ \A v \in Workers \ {w} : req'[v] = req[v]
    BY Others
  <1>2. ASSUME NEW v \in Workers, ActsOn(v, t.id)' PROVE Tended(req[v], t)'
    <2>1. v # w /\ req'[v] = req[v] /\ ActsOn(v, t.id)
      BY <1>1, <1>2 DEF ActsOn
    <2>2. Tended(req[v], t)
      BY <2>1 DEF Cared
    <2>3. PICK x : x = req[v]
      OBVIOUS
    <2>4. Tended(x, t) /\ x = req'[v]
      BY <2>1, <2>2, <2>3
    <2>5. Tended(x, t)'
      BY <2>4 DEF Tended
    <2> QED BY <2>4, <2>5
  <1>3. ASSUME \A v \in Workers : ~ActsOn(v, t.id)' PROVE Settled(t, {})'
    <2>1. \A v \in Workers : ~ActsOn(v, t.id)
      BY <1>1, <1>3 DEF ActsOn
    <2> QED BY <2>1 DEF Cared
  <1>4. t.type = "wg" => LinkOf(t.id)' = {}
    BY DEF Cared
  <1> QED BY <1>2, <1>3, <1>4 DEF Cared

(* The request that acts on the tunnel tends it, or has just finished.     *)
LEMMA CaredHere ==
  ASSUME req \in [Workers -> Request], NEW w \in Workers, NEW r, Become(w, r), Noted,
         NEW t, t.id \in Ids \ troubled', t.type = "wg" => LinkOf(t.id)' = {},
         \/ r.id = t.id /\ Tended(r, t)'
         \/ /\ r.id # t.id /\ Settled(t, {})'
            /\ \A v \in Workers \ {w} : ~ActsOn(v, t.id)
  PROVE  Cared(t)'
  <1>1. req'[w] = r /\ \A v \in Workers \ {w} : req'[v] = req[v]
    BY Others
  <1>2. CASE r.id = t.id /\ Tended(r, t)'
    <2>1. ActsOn(w, t.id)' /\ Tended(req[w], t)'
      BY <1>1, <1>2 DEF ActsOn
    <2>2. \A v \in Workers \ {w} : ~ActsOn(v, t.id)'
      BY <2>1 DEF Noted, Overlapping
    <2> QED BY <2>1, <2>2 DEF Cared
  <1>3. CASE /\ r.id # t.id /\ Settled(t, {})'
             /\ \A v \in Workers \ {w} : ~ActsOn(v, t.id)
    <2>1. \A v \in Workers : ~ActsOn(v, t.id)'
      BY <1>1, <1>3 DEF ActsOn
    <2> QED BY <1>3, <2>1 DEF Cared
  <1> QED BY <1>2, <1>3

(* Peers keep their owners in a step that removes no tunnel of theirs.     *)
LEMMA PeersKept ==
  ASSUME req \in [Workers -> Request], PeersOwned, Noted, NEW w \in Workers, NEW r, Become(w, r),
         Removing(r) => r.id = req[w].id /\ Removing(req[w]) /\ req[w].pc # "exec",
         \A t \in tunnels : t.type = "wg" /\ ~(ActsOn(w, t.id) /\ Removing(req[w]) /\ req[w].pc # "exec")
             => \E s \in tunnels' : s.id = t.id /\ s.type = t.type /\ s.key = t.key,
         \A p \in peers' : \E q \in peers : q.key = p.key
  PROVE  PeersOwned'
  <1>1. req'[w] = r /\ \A v \in Workers \ {w} : req'[v] = req[v]
    BY Others
  <1>2. SUFFICES ASSUME troubled' = {}, NEW p \in peers'
                 PROVE  \E t \in tunnels' :
                          /\ t.type = "wg" /\ t.key = p.key
                          /\ \A v \in Workers : ActsOn(v, t.id)' /\ Removing(req[v])' =>
                                req'[v].pc = "exec" /\ PeerRemove(t.key) \in Of(req'[v].todo)
    BY DEF PeersOwned
  <1>3. troubled = {}
    BY <1>2 DEF Noted
  <1>4. PICK t \in tunnels : /\ t.type = "wg" /\ t.key = p.key
                             /\ \A v \in Workers : ActsOn(v, t.id) /\ Removing(req[v]) =>
                                   req[v].pc = "exec" /\ PeerRemove(t.key) \in Of(req[v].todo)
    BY <1>3 DEF PeersOwned
  <1>5. PICK s \in tunnels' : s.id = t.id /\ s.type = t.type /\ s.key = t.key
    BY <1>4
  <1>6. ASSUME NEW v \in Workers, ActsOn(v, s.id)', Removing(req[v])'
        PROVE  req'[v].pc = "exec" /\ PeerRemove(s.key) \in Of(req'[v].todo)
    <2>1. v # w
      BY <1>1, <1>4, <1>5, <1>6 DEF Removing, ActsOn
    <2>2. ActsOn(v, t.id) /\ Removing(req[v])
      BY <1>1, <1>5, <1>6, <2>1 DEF ActsOn, Removing
    <2> QED BY <1>1, <1>4, <1>5, <2>1, <2>2
  <1> QED BY <1>4, <1>5, <1>6

(* The step of one goroutine, put together.                                *)
LEMMA StepKept ==
  ASSUME IInv, IsolationInv, Noted, NEW w \in Workers, NEW r, Become(w, r), Local(r),
         NEW S, {req[w].id, r.id} \cap Ids \subseteq S, Spares(S),
         \A id \in S \ {req[w].id, r.id} : id \in troubled',
         KeysOwned', PeersOwned',
         \A t \in tunnels' : t.id \in S \ troubled' => Cared(t)',
         \A id \in (S \cap Ids) \ troubled' : TunnelIDExists(id)' \/ LinkOf(id)' = {},
         r.pc = "exec" /\ r.op # "delete" /\ r.id \notin troubled' => TunnelIDExists(r.id)'
  PROVE  IsolationInv'
  <1>1. req \in [Workers -> Request] /\ req'[w] = r /\ \A v \in Workers \ {w} : req'[v] = req[v]
    BY Others DEF IInv, TypeOK
  <1>2. RequestsLocal'
    BY <1>1, LocalKept DEF IsolationInv
  <1>3. OneAtATime'
    BY DEF Noted, OneAtATime
  <1>4. ASSUME NEW t \in tunnels', t.id \notin troubled', t.id \notin S PROVE Cared(t)'
    <2>1. t \in tunnels /\ t.id \in Ids /\ t.id \notin troubled
      BY <1>4 DEF Spares, IInv, TypeOK, Row, Noted
    <2>2. Cared(t)
      BY <2>1 DEF IsolationInv, TunnelsCared
    <2>3. LinkOf(t.id)' = LinkOf(t.id) /\ \A rest : Settled(t, rest) => Settled(t, rest)'
      BY <1>4, <2>1 DEF Spares
    <2>4. req[w].id # t.id /\ r.id # t.id
      BY <1>4, <2>1
    <2> QED BY <1>1, <2>2, <2>3, <2>4, CaredElsewhere
  <1>5. TunnelsCared'
    BY <1>4 DEF TunnelsCared
  <1>6. NoLinkLeft'
    <2>1. SUFFICES ASSUME NEW id \in Ids, id \notin troubled', ~TunnelIDExists(id)'
                   PROVE  LinkOf(id)' = {}
      BY DEF NoLinkLeft
    <2>2. CASE id \notin S
      <3>1. ~TunnelIDExists(id) /\ id \notin troubled
        BY <2>1, <2>2 DEF Spares, TunnelIDExists, Noted
      <3> QED BY <2>2, <3>1 DEF Spares, IsolationInv, NoLinkLeft
    <2> QED BY <2>1, <2>2
  <1>7. RowsBehind'
    <2>1. SUFFICES ASSUME NEW v \in Workers, req'[v].pc = "exec", req'[v].op # "delete",
                          req'[v].id \notin troubled'
                   PROVE  TunnelIDExists(req[v].id)'
      BY DEF RowsBehind
    <2>2. CASE v = w
      BY <1>1, <2>1, <2>2
    <2>3. CASE v # w
      <3> DEFINE id == req[v].id
      <3>1. req'[v] = req[v] /\ id \notin troubled' /\ id \notin troubled
        BY <1>1, <2>1, <2>3 DEF Noted
      <3>2. id \in Ids /\ TunnelIDExists(id)
        BY <2>1, <3>1 DEF IsolationInv, RowsBehind, RequestsLocal, Local, Acting
      <3>3. id # req[w].id
        BY <2>3, <3>1, <3>2 DEF IsolationInv, OneAtATime, Overlapping, ActsOn
      <3>4. id # r.id
        BY <1>1, <2>3, <3>1, <3>2 DEF Noted, Overlapping, ActsOn
      <3>5. id \notin S
        BY <3>1, <3>3, <3>4
      <3>6. PICK t \in tunnels : t.id = id
        BY <3>2 DEF TunnelIDExists
      <3>7. t \in tunnels'
        BY <3>5, <3>6 DEF Spares
      <3> QED BY <3>1, <3>6, <3>7 DEF TunnelIDExists
    <2> QED BY <2>2, <2>3
  <1> QED BY <1>2, <1>3, <1>5, <1>6, <1>7 DEF IsolationInv

-----------------------------------------------------------------------------
(* Steps that leave the tables and the kernel alone *)

LEMMA SparesAll ==
  ASSUME UNCHANGED <<tunnels, links, routes, peers>>, NEW S
  PROVE  Spares(S)
  <1>1. \A t : \A rest : Settled(t, rest) => Settled(t, rest)'
    BY SettledKept
  <1>2. \A id : LinkOf(id)' = LinkOf(id)
    BY DEF LinkOf
  <1> QED BY <1>1, <1>2 DEF Spares

(* The request ends, its tunnel being settled.                             *)
LEMMA AnswerKept ==
  ASSUME IInv, IsolationInv, Noted, NEW w \in Workers, Answer(w),
         UNCHANGED <<tunnels, links, routes, peers>>,
         \A t \in tunnels : t.id = req[w].id /\ t.id \notin troubled' => Settled(t, {})
  PROVE  IsolationInv'
  <1> DEFINE S == {req[w].id} \cap Ids
  <1>0. req \in [Workers -> Request] /\ tunnels \subseteq Row /\ Become(w, Idle)
    BY DEF IInv, TypeOK, Answer
  <1>1. KeysOwned'
    BY <1>0, IdleLocal, KeysKept DEF IsolationInv
  <1>2. PeersOwned'
    BY <1>0, IdleLocal, PeersKept DEF IsolationInv
  <1>3. ASSUME NEW t \in tunnels', t.id \in S \ troubled' PROVE Cared(t)'
    <2>1. t \in tunnels /\ t.id = req[w].id /\ t.id \in Ids /\ t.id \notin troubled
      BY <1>3 DEF Noted
    <2>2. \A v \in Workers \ {w} : ~ActsOn(v, t.id)
      BY <2>1 DEF IsolationInv, OneAtATime, Overlapping, ActsOn
    <2>3. Settled(t, {})'
      BY <1>3, <2>1, SettledKept
    <2>4. t.type = "wg" => LinkOf(t.id)' = {}
      BY <2>1 DEF IsolationInv, TunnelsCared, Cared, LinkOf
    <2> QED BY <1>0, <1>3, <2>1, <2>2, <2>3, <2>4, IdleLocal, CaredHere
  <1>4. \A id \in (S \cap Ids) \ troubled' : TunnelIDExists(id)' \/ LinkOf(id)' = {}
    BY DEF IsolationInv, NoLinkLeft, Noted, TunnelIDExists, LinkOf
  <1>5. Spares(S)
    BY SparesAll
  <1>6. {req[w].id, Idle.id} \cap Ids \subseteq S /\ S \subseteq {req[w].id, Idle.id}
    BY IdleLocal
  <1> HIDE DEF S
  <1> QED BY <1>0, <1>1, <1>2, <1>3, <1>4, <1>5, <1>6, IdleLocal, StepKept

(* A request on no tunnel yet goes on to its next query.                   *)
LEMMA SearchKept ==
  ASSUME IInv, IsolationInv, Noted, NEW w \in Workers, NEW r, Become(w, r),
         UNCHANGED <<tunnels, links, routes, peers>>,
         req[w].id \notin Ids, r.id = req[w].id, r.pc \notin Acting,
         r.row.key \in {None} \cup FreshKeys /\ (r.row.key = None \/ r.pc = "commit")
  PROVE  IsolationInv'
  <1>0. req \in [Workers -> Request] /\ tunnels \subseteq Row
    BY DEF IInv, TypeOK
  <1>1. req'[w] = r /\ \A v \in Workers \ {w} : req'[v] = req[v]
    BY <1>0, Others
  <1>2. Local(r) /\ ~Removing(r)
    BY DEF Local, Acting, Removing
  <1>3. KeysOwned'
    <2>1. CASE r.row.key = None
      BY <1>0, <2>1, KeysKept DEF IsolationInv
    <2>2. CASE r.row.key \in FreshKeys
      <3>1. /\ \A t \in tunnels : t.key # r.row.key
            /\ \A v \in Workers : req[v].row.key # r.row.key
        BY <2>2 DEF FreshKeys, UsedKeys
      <3> QED BY <1>1, <3>1 DEF IsolationInv, KeysOwned
    <2> QED BY <2>1, <2>2
  <1>4. PeersOwned'
    BY <1>0, <1>2, PeersKept DEF IsolationInv
  <1>5. Spares({})
    BY SparesAll
  <1> QED BY <1>2, <1>3, <1>4, <1>5, StepKept DEF Acting

(* Of the request on a tunnel without trouble.                             *)
LEMMA InCare ==
  ASSUME IInv, IsolationInv, Noted, NEW w \in Workers, NEW t \in tunnels,
         t.id = req[w].id, t.id \notin troubled'
  PROVE  /\ t \in Row /\ WellFormed(t) /\ t.id \in Ids \ troubled
         /\ Cared(t) /\ Tended(req[w], t)
         /\ \A v \in Workers \ {w} : ~ActsOn(v, t.id)
  <1>1. t \in Row /\ WellFormed(t) /\ t.id \in Ids \ troubled
    BY DEF IInv, TypeOK, RowsWellFormed, Row, Noted
  <1>2. Cared(t) /\ Tended(req[w], t)
    BY <1>1 DEF IsolationInv, TunnelsCared, Cared, ActsOn
  <1>3. \A v \in Workers \ {w} : ~ActsOn(v, t.id)
    BY <1>1 DEF IsolationInv, OneAtATime, Overlapping, ActsOn
  <1> QED BY <1>1, <1>2, <1>3

LEMMA StartKept ==
  ASSUME IInv, IsolationInv, Noted, NEW w \in Workers, req[w] = Idle, NEW r, Become(w, r),
         UNCHANGED <<tunnels, links, routes, peers>>,
         r.id \in Ids, r.row.key = None,
         <<r.pc, r.op>> \in {<<"update", "update">>, <<"lookup", "delete">>}
  PROVE  IsolationInv'
  <1>0. req \in [Workers -> Request] /\ tunnels \subseteq Row
    BY DEF IInv, TypeOK
  <1>1. req'[w] = r /\ \A v \in Workers \ {w} : req'[v] = req[v]
    BY <1>0, Others
  <1>2. Local(r) /\ ~Removing(r) /\ req[w].id \notin Ids
    BY IdleLocal DEF Local, Acting, Removing
  <1>3. KeysOwned'
    BY <1>0, KeysKept DEF IsolationInv
  <1>4. PeersOwned'
    BY <1>0, <1>2, PeersKept DEF IsolationInv
  <1>5. ASSUME NEW t \in tunnels', t.id \in {r.id} \ troubled' PROVE Cared(t)'
    <2>1. t \in tunnels /\ t.id = r.id /\ t.id \in Ids /\ t.id \notin troubled
      BY <1>5 DEF Noted
    <2>2. \A v \in Workers : ~ActsOn(v, t.id)
      BY <1>1, <1>2, <1>5, <2>1 DEF Noted, Overlapping, ActsOn
    <2>3. Cared(t) /\ Settled(t, {})
      BY <2>1, <2>2 DEF IsolationInv, TunnelsCared, Cared
    <2>4. Settled(t, {})'
      BY <2>3, SettledKept
    <2>5. Tended(r, t)'
      BY <2>4 DEF Tended
    <2>6. t.type = "wg" => LinkOf(t.id)' = {}
      BY <2>3 DEF Cared, LinkOf
    <2> QED BY <1>0, <1>5, <2>1, <2>5, <2>6, CaredHere
  <1>6. \A id \in ({r.id} \cap Ids) \ troubled' : TunnelIDExists(id)' \/ LinkOf(id)' = {}
    BY DEF IsolationInv, NoLinkLeft, Noted, TunnelIDExists, LinkOf
  <1>7. Spares({r.id})
    BY SparesAll
  <1> QED BY <1>2, <1>3, <1>4, <1>5, <1>6, <1>7, StepKept

LEMMA ReselectKept ==
  ASSUME IInv, IsolationInv, Noted, NEW w \in Workers, Reselect(w)
  PROVE  IsolationInv'
  <1>0. /\ req \in [Workers -> Request] /\ tunnels \subseteq Row /\ req[w] \in Request
        /\ UNCHANGED <<tunnels, links, routes, peers>> /\ req[w].op = "update" /\ req[w].pc = "select"
    BY DEF IInv, TypeOK, Reselect, At, dbVars, kernelVars
  <1>1. Local(req[w]) /\ req[w].id \in Ids
    BY <1>0 DEF IsolationInv, RequestsLocal, Local, Acting
  <1>2. ASSUME NEW t \in tunnels, t.id = req[w].id, t.id \notin troubled'
        PROVE  Tended(req[w], t) /\ t.ip = req[w].ip /\ Settled(t, {Change(t)})
    <2>1. Tended(req[w], t)
      BY <1>2, InCare
    <2> QED BY <1>0, <2>1 DEF Tended
  <1>3. CASE Answer(w) /\ (~TunnelIDExists(req[w].id) \/ \E row \in GetTunnelByID(req[w].id) : row.type = "wg")
    <2>1. ASSUME NEW t \in tunnels, t.id = req[w].id, t.id \notin troubled' PROVE Settled(t, {})
      <3>1. t.type = "wg"
        BY <1>3, <2>1 DEF IInv, IdsUnique, GetTunnelByID, TunnelIDExists
      <3> QED BY <1>2, <2>1, <3>1, SettledWg
    <2> QED BY <1>0, <1>3, <2>1, AnswerKept
  <1>4. ASSUME NEW row \in GetTunnelByID(req[w].id), row.type # "wg",
               Become(w, [req[w] EXCEPT !.pc = "exec",
                            !.todo = <<TunnelChange(row.id, row.type, req[w].ip)>>])
        PROVE  IsolationInv'
    <2>a. PICK c : c = TunnelChange(row.id, row.type, req[w].ip)
      OBVIOUS
    <2>b. PICK r : r = [req[w] EXCEPT !.pc = "exec", !.todo = <<c>>]
      OBVIOUS
    <2> DEFINE S == {req[w].id}
    <2>1. /\ r.pc = "exec" /\ r.todo = <<c>> /\ r.op = "update" /\ r.id = req[w].id
          /\ r.row = req[w].row /\ Become(w, r)
      BY <1>0, <1>4, <2>a, <2>b DEF Request
    <2>2. row \in tunnels /\ row.id = req[w].id
      BY DEF GetTunnelByID
    <2>3. c.verb = "tunnel change" /\ c.dev = req[w].id
      BY <2>2, <2>a DEF TunnelChange
    <2>4. row.ip = req[w].ip => c = Change(row)
      BY <2>a DEF Change
    <2>5. Of(r.todo) = {c}
      BY <2>1, OfOne
    <2>6. Local(r) /\ ~Removing(r)
      BY <1>1, <2>1, <2>3, <2>5 DEF Local, Acting, Concerns, Removing
    <2>7. KeysOwned'
      BY <1>0, <2>1, KeysKept DEF IsolationInv
    <2>8. PeersOwned'
      BY <1>0, <2>1, <2>6, PeersKept DEF IsolationInv
    <2>9. ASSUME NEW t \in tunnels', t.id \in S \ troubled' PROVE Cared(t)'
      <3>1. t \in tunnels /\ t.id = req[w].id /\ t.id \notin troubled' /\ t = row
        BY <1>0, <2>2, <2>9 DEF IInv, IdsUnique
      <3>2. Settled(t, {Change(t)}) /\ Of(r.todo) = {Change(t)}
        BY <1>2, <2>4, <2>5, <3>1
      <3>3. Settled(t, {Change(t)})'
        BY <1>0, <3>2, SettledKept
      <3>4. Tended(r, t)'
        BY <1>4, <2>1, <3>1, <3>2, <3>3 DEF Tended, OwnCommands
      <3>5. t.type = "wg" => LinkOf(t.id)' = {}
        BY <1>4, <3>1
      <3> QED BY <1>0, <1>1, <2>1, <3>1, <3>4, <3>5, CaredHere
    <2>10. \A id \in (S \cap Ids) \ troubled' : TunnelIDExists(id)' \/ LinkOf(id)' = {}
      BY <1>0 DEF IsolationInv, NoLinkLeft, Noted, TunnelIDExists, LinkOf
    <2>11. Spares(S)
      BY <1>0, SparesAll
    <2>12. TunnelIDExists(r.id)'
      BY <1>0, <2>1, <2>2 DEF TunnelIDExists
    <2> QED BY <2>1, <2>6, <2>7, <2>8, <2>9, <2>10, <2>11, <2>12, StepKept
  <1> QED BY <1>3, <1>4 DEF Reselect

LEMMA LookupKept ==
  ASSUME IInv, IsolationInv, Noted, NEW w \in Workers, Lookup(w)
  PROVE  IsolationInv'
  <1>0. /\ req \in [Workers -> Request] /\ tunnels \subseteq Row /\ req[w] \in Request
        /\ UNCHANGED <<tunnels, links, routes, peers>> /\ req[w].op = "delete" /\ req[w].pc = "lookup"
    BY DEF IInv, TypeOK, Lookup, At, dbVars, kernelVars
  <1>1. Local(req[w]) /\ req[w].id \in Ids
    BY <1>0 DEF IsolationInv, RequestsLocal, Local, Acting
  <1>2. CASE Answer(w) /\ ~TunnelIDExists(req[w].id)
    BY <1>0, <1>2, AnswerKept DEF TunnelIDExists
  <1>3. ASSUME NEW row \in GetTunnelByID(req[w].id),
               Become(w, [req[w] EXCEPT !.pc = "exec", !.row = Needed(row), !.todo = DeleteCommands(row)])
        PROVE  IsolationInv'
    <2>a. PICK r : r = [req[w] EXCEPT !.pc = "exec", !.row = Needed(row), !.todo = DeleteCommands(row)]
      OBVIOUS
    <2> DEFINE S == {req[w].id}
    <2>1. /\ r.pc = "exec" /\ r.todo = DeleteCommands(row) /\ r.op = "delete" /\ r.id = req[w].id
          /\ r.row = Needed(row) /\ Become(w, r)
      BY <1>0, <1>3, <2>a DEF Request
    <2>2. row \in tunnels /\ row.id = req[w].id /\ row \in Row /\ WellFormed(row)
      BY <1>0 DEF GetTunnelByID, IInv, RowsWellFormed
    <2>3. Needed(row).key = row.key
      BY DEF Needed, NoRow
    <2>4. Local(r)
      <3>1. \A c \in Of(r.todo) : Concerns(c, r.id, r.row.key)
        BY <2>1, <2>2, <2>3, DeleteConcerns
      <3>2. \A c \in Of(r.todo) : c.verb \in {"peer remove", "route del", "tunnel del"}
        <4>1. /\ PeerRemove(row.key).verb = "peer remove" /\ TunnelDel(row.id).verb = "tunnel del"
              /\ \A n : RouteDel(n, Wg0).verb = "route del"
          BY DEF PeerRemove, TunnelDel, RouteDel
        <4> QED BY <2>1, <4>1, DeleteSet
      <3> QED BY <1>1, <2>1, <3>1, <3>2 DEF Local, Acting
    <2>5. req'[w] = r /\ \A v \in Workers \ {w} : req'[v] = req[v]
      BY <1>0, <2>1, Others
    <2>6. KeysOwned'
      BY <1>0, <1>1, <2>1, <2>2, <2>3, KeysKept DEF IsolationInv
    <2>7. PeersOwned'
      <3>1. SUFFICES ASSUME troubled' = {}, NEW p \in peers'
                     PROVE  \E t \in tunnels' :
                              /\ t.type = "wg" /\ t.key = p.key
                              /\ \A v \in Workers : ActsOn(v, t.id)' /\ Removing(req[v])' =>
                                    req'[v].pc = "exec" /\ PeerRemove(t.key) \in Of(req'[v].todo)
        BY DEF PeersOwned
      <3>2. troubled = {} /\ p \in peers
        BY <1>0, <3>1 DEF Noted
      <3>3. PICK t \in tunnels : /\ t.type = "wg" /\ t.key = p.key
                                 /\ \A v \in Workers : ActsOn(v, t.id) /\ Removing(req[v]) =>
                                       req[v].pc = "exec" /\ PeerRemove(t.key) \in Of(req[v].todo)
        BY <3>2 DEF IsolationInv, PeersOwned
      <3>4. ASSUME NEW v \in Workers, ActsOn(v, t.id)', Removing(req[v])'
            PROVE  req'[v].pc = "exec" /\ PeerRemove(t.key) \in Of(req'[v].todo)
        <4>1. CASE v = w
          <5>1. t = row
            BY <2>1, <2>2, <2>5, <3>4, <4>1 DEF IInv, IdsUnique, ActsOn
          <5>2. PeerRemove(t.key) \in Of(r.todo)
            BY <2>1, <3>3, <5>1, DeleteSet
          <5> QED BY <2>1, <2>5, <4>1, <5>2
        <4>2. CASE v # w
          <5>1. req'[v] = req[v] /\ ActsOn(v, t.id) /\ Removing(req[v])
            BY <2>5, <3>4, <4>2 DEF ActsOn, Removing
          <5> QED BY <3>3, <5>1
        <4> QED BY <4>1, <4>2
      <3> QED BY <1>0, <3>3, <3>4
    <2>8. ASSUME NEW t \in tunnels', t.id \in S \ troubled' PROVE Cared(t)'
      <3>1. t \in tunnels /\ t.id = req[w].id /\ t.id \notin troubled' /\ t = row
        BY <1>0, <2>2, <2>8 DEF IInv, IdsUnique
      <3>2. Cared(t)
        BY <3>1, InCare
      <3>3. t.type # "wg" => r.todo = <<TunnelDel(t.id)>>
        BY <2>1, <3>1 DEF DeleteCommands
      <3>4. Tended(r, t)'
        BY <2>1, <3>3 DEF Tended
      <3>5. t.type = "wg" => LinkOf(t.id)' = {}
        BY <1>0, <3>2 DEF Cared, LinkOf
      <3> QED BY <1>0, <1>1, <2>1, <3>1, <3>4, <3>5, CaredHere
    <2>9. \A id \in (S \cap Ids) \ troubled' : TunnelIDExists(id)' \/ LinkOf(id)' = {}
      BY <1>0 DEF IsolationInv, NoLinkLeft, Noted, TunnelIDExists, LinkOf
    <2>10. Spares(S)
      BY <1>0, SparesAll
    <2> QED BY <2>1, <2>4, <2>6, <2>7, <2>8, <2>9, <2>10, StepKept
  <1> QED BY <1>2, <1>3 DEF Lookup

-----------------------------------------------------------------------------
(* The statements that change the tunnels *)

LEMMA CommitKept ==
  ASSUME IInv, IsolationInv, Noted, NEW w \in Workers, Commit(w)
  PROVE  IsolationInv'
  <1>a. PICK row : row = req[w].row
    OBVIOUS
  <1>b. PICK r : r = [req[w] EXCEPT !.pc = "exec", !.id = row.id, !.row = Needed(row),
                                    !.todo = CreateCommands(row)]
    OBVIOUS
  <1>0. /\ req \in [Workers -> Request] /\ tunnels \subseteq Row /\ req[w] \in Request
        /\ UNCHANGED <<links, routes, peers>> /\ At(w, "create", "commit")
        /\ tunnels' = tunnels \cup {row} /\ ~TunnelIDExists(row.id)
    BY <1>a DEF IInv, TypeOK, Commit, kernelVars, CreateTunnelWithTransaction
  <1>1. row \in Row /\ WellFormed(row) /\ row.id \in Ids /\ req[w].id \notin Ids
    BY <1>0, <1>a, DraftKey DEF Row, IsolationInv
  <1>2. /\ r.pc = "exec" /\ r.todo = CreateCommands(row) /\ r.op = "create" /\ r.id = row.id
        /\ r.row = Needed(row) /\ Become(w, r)
    BY <1>0, <1>a, <1>b DEF Request, Commit, At
  <1>3. Needed(row).key = row.key
    BY DEF Needed, NoRow
  <1> DEFINE S == {row.id}
  <1>4. Local(r) /\ ~Removing(r)
    <2>1. Of(r.todo) \subseteq OwnCommands(row)
      BY <1>2 DEF OwnCommands
    <2>2. \A c \in Of(r.todo) : Concerns(c, r.id, r.row.key)
      BY <1>1, <1>2, <1>3, <2>1, CreateConcerns
    <2> QED BY <1>1, <1>2, <2>2 DEF Local, Acting, Removing
  <1>5. req'[w] = r /\ \A v \in Workers \ {w} : req'[v] = req[v]
    BY <1>0, <1>2, Others
  <1>6. KeysOwned'
    BY <1>0, <1>a, <1>2, <1>3, InsertKeys DEF IsolationInv
  <1>7. PeersOwned'
    BY <1>0, <1>2, <1>4, PeersKept DEF IsolationInv
  <1>8. ASSUME NEW t \in tunnels', t.id \in S \ troubled' PROVE Cared(t)'
    <2>1. t = row /\ row.id \notin troubled' /\ row.id \notin troubled
      BY <1>0, <1>8 DEF TunnelIDExists, Noted
    <2>2. LinkOf(row.id) = {}
      BY <1>0, <1>1, <2>1 DEF IsolationInv, NoLinkLeft
    <2>3. Of(r.todo) \subseteq OwnCommands(row) /\ Settled(row, Of(r.todo))
      BY <1>2, <2>2, NewSettled
    <2>4. Settled(row, Of(r.todo))'
      BY <1>0, <2>3, SettledKept
    <2>5. Tended(r, row)'
      BY <1>2, <2>3, <2>4 DEF Tended
    <2>6. LinkOf(row.id)' = {}
      BY <1>0, <2>2 DEF LinkOf
    <2> QED BY <1>0, <1>1, <1>2, <2>1, <2>5, <2>6, CaredHere
  <1>9. row \in tunnels' /\ TunnelIDExists(row.id)'
    BY <1>0 DEF TunnelIDExists
  <1>10. Spares(S)
    <2>1. \A t : t.id \notin S => (t \in tunnels' <=> t \in tunnels)
      BY <1>0
    <2>2. \A t : \A rest : Settled(t, rest) => Settled(t, rest)'
      BY <1>0, SettledKept
    <2>3. \A id : LinkOf(id)' = LinkOf(id)
      BY <1>0 DEF LinkOf
    <2> QED BY <2>1, <2>2, <2>3 DEF Spares
  <1> QED BY <1>1, <1>2, <1>4, <1>6, <1>7, <1>8, <1>9, <1>10, StepKept

LEMMA UpdateIPKept ==
  ASSUME IInv, IsolationInv, Noted, NEW w \in Workers, UpdateIP(w)
  PROVE  IsolationInv'
  <1>a. PICK r : r = [req[w] EXCEPT !.pc = "select"]
    OBVIOUS
  <1>b. PICK id : id = req[w].id
    OBVIOUS
  <1>0. /\ req \in [Workers -> Request] /\ tunnels \subseteq Row /\ req[w] \in Request
        /\ UNCHANGED <<links, routes, peers>> /\ req[w].op = "update" /\ req[w].pc = "update"
        /\ UpdateClientIPv4(id, req[w].ip)
    BY <1>b DEF IInv, TypeOK, UpdateIP, At, kernelVars
  <1>1. Local(req[w]) /\ id \in Ids
    BY <1>0, <1>b DEF IsolationInv, RequestsLocal, Local, Acting
  <1>2. /\ r.pc = "select" /\ r.todo = req[w].todo /\ r.op = "update" /\ r.id = id /\ r.ip = req[w].ip
        /\ r.row = req[w].row /\ Become(w, r)
    BY <1>0, <1>a, <1>b DEF Request, UpdateIP
  <1>3. /\ \A t \in tunnels' : \E s \in tunnels :
               /\ t.id = s.id /\ t.type = s.type /\ t.ula = s.ula /\ t.key = s.key
               /\ t.p1 = s.p1 /\ t.p2 = s.p2 /\ t.p3 = s.p3 /\ (s.id = id => t.ip = r.ip)
        /\ \A s \in tunnels : \E t \in tunnels' :
               t.id = s.id /\ t.type = s.type /\ t.key = s.key
        /\ \A t : t.id \notin {id} => (t \in tunnels' <=> t \in tunnels)
    BY <1>0, <1>2, UpdatedRow
  <1>4. Local(r) /\ ~Removing(r)
    BY <1>0, <1>1, <1>2 DEF Local, Acting, Removing
  <1>5. KeysOwned'
    BY <1>0, <1>b, <1>2, <1>3, KeysKept DEF IsolationInv
  <1>6. PeersOwned'
    BY <1>0, <1>2, <1>3, <1>4, PeersKept DEF IsolationInv
  <1>7. ASSUME NEW t \in tunnels', t.id \in {id} \ troubled' PROVE Cared(t)'
    <2>1. PICK s \in tunnels :
               /\ t.id = s.id /\ t.type = s.type /\ t.ula = s.ula /\ t.key = s.key
               /\ t.p1 = s.p1 /\ t.p2 = s.p2 /\ t.p3 = s.p3 /\ (s.id = id => t.ip = r.ip)
      BY <1>3
    <2>2. Cared(s) /\ Tended(req[w], s)
      BY <1>b, <1>7, <2>1, InCare
    <2>3. Settled(s, {})
      BY <1>0, <2>2 DEF Tended
    <2>4. Settled(t, {Change(t)})' /\ t.ip = r.ip
      BY <1>0, <1>7, <2>1, <2>3, SettledMoved
    <2>5. Tended(r, t)'
      BY <1>2, <2>4 DEF Tended
    <2>6. t.type = "wg" => LinkOf(t.id)' = {}
      BY <1>0, <2>1, <2>2 DEF Cared, LinkOf
    <2> QED BY <1>0, <1>1, <1>2, <1>7, <2>5, <2>6, CaredHere
  <1>8. \A j : TunnelIDExists(j) => TunnelIDExists(j)'
    BY <1>3 DEF TunnelIDExists
  <1>9. \A j \in ({id} \cap Ids) \ troubled' : TunnelIDExists(j)' \/ LinkOf(j)' = {}
    BY <1>0, <1>8 DEF IsolationInv, NoLinkLeft, Noted, LinkOf
  <1>10. Spares({id})
    <2>1. \A t : \A rest : Settled(t, rest) => Settled(t, rest)'
      BY <1>0, SettledKept
    <2>2. \A j : LinkOf(j)' = LinkOf(j)
      BY <1>0 DEF LinkOf
    <2> QED BY <1>3, <2>1, <2>2 DEF Spares
  <1> QED BY <1>b, <1>1, <1>2, <1>4, <1>5, <1>6, <1>7, <1>9, <1>10, StepKept

LEMMA DeleteRowKept ==
  ASSUME IInv, IsolationInv, Noted, NEW w \in Workers, DeleteRow(w)
  PROVE  IsolationInv'
  <1>a. PICK r : r = [req[w] EXCEPT !.pc = "decrement"]
    OBVIOUS
  <1>b. PICK id : id = req[w].id
    OBVIOUS
  <1>0. /\ req \in [Workers -> Request] /\ tunnels \subseteq Row /\ req[w] \in Request
        /\ UNCHANGED <<links, routes, peers>> /\ req[w].op = "delete" /\ req[w].pc = "delete"
        /\ tunnels' = {t \in tunnels : t.id # id}
    BY <1>b DEF IInv, TypeOK, DeleteRow, At, kernelVars, DeleteTunnel
  <1>1. Local(req[w]) /\ id \in Ids
    BY <1>0, <1>b DEF IsolationInv, RequestsLocal, Local, Acting
  <1>2. /\ r.pc = "decrement" /\ r.todo = req[w].todo /\ r.op = "delete" /\ r.id = id
        /\ r.row = req[w].row /\ Become(w, r)
    BY <1>0, <1>a, <1>b DEF Request, DeleteRow
  <1>3. Local(r)
    BY <1>0, <1>1, <1>2 DEF Local, Acting
  <1>4. KeysOwned'
    BY <1>0, <1>b, <1>2, KeysKept DEF IsolationInv
  <1>5. PeersOwned'
    <2>1. Removing(req[w])
      BY <1>0 DEF Removing
    <2>2. \A t \in tunnels : ~ActsOn(w, t.id) => t \in tunnels'
      BY <1>0, <1>b DEF ActsOn
    <2> QED BY <1>0, <1>b, <1>2, <2>1, <2>2, PeersKept DEF IsolationInv
  <1>6. \A t \in tunnels' : t.id # id
    BY <1>0
  <1>7. ASSUME id \notin troubled' PROVE LinkOf(id)' = {}
    <2>1. CASE TunnelIDExists(id)
      <3>1. PICK t \in tunnels : t.id = id
        BY <2>1 DEF TunnelIDExists
      <3>2. Tended(req[w], t)
        BY <1>b, <1>7, <3>1, InCare
      <3> QED BY <1>0, <3>1, <3>2 DEF Tended, LinkOf
    <2>2. CASE ~TunnelIDExists(id)
      BY <1>0, <1>1, <1>7, <2>2 DEF IsolationInv, NoLinkLeft, Noted, LinkOf
    <2> QED BY <2>1, <2>2
  <1>8. Spares({id})
    <2>1. \A t : \A rest : Settled(t, rest) => Settled(t, rest)'
      BY <1>0, SettledKept
    <2>2. \A j : LinkOf(j)' = LinkOf(j)
      BY <1>0 DEF LinkOf
    <2>3. \A t : t.id \notin {id} => (t \in tunnels' <=> t \in tunnels)
      BY <1>0
    <2> QED BY <2>1, <2>2, <2>3 DEF Spares
  <1> QED BY <1>b, <1>1, <1>2, <1>3, <1>4, <1>5, <1>6, <1>7, <1>8, StepKept

LEMMA DecrementKept ==
  ASSUME IInv, IsolationInv, Noted, NEW w \in Workers, Decrement(w)
  PROVE  IsolationInv'
  <1>1. /\ UNCHANGED <<tunnels, links, routes, peers>> /\ req[w].pc = "decrement" /\ Answer(w)
    BY DEF Decrement, At, kernelVars, DecrementUserTunnels
  <1>2. ASSUME NEW t \in tunnels, t.id = req[w].id, t.id \notin troubled' PROVE FALSE
    <2>1. Tended(req[w], t)
      BY <1>2, InCare
    <2> QED BY <1>1, <2>1 DEF Tended
  <1> QED BY <1>1, <1>2, AnswerKept

(* A statement took effect, but its confirmation was lost: the id is       *)
(* troubled.                                                               *)
LEMMA LostKept ==
  ASSUME IInv, IsolationInv, Noted, NEW w \in Workers, ConfirmationLost(w),
         Ids \cap {req[w].id, req[w].row.id} \subseteq troubled'
  PROVE  IsolationInv'
  <1>0. /\ req \in [Workers -> Request] /\ tunnels \subseteq Row /\ req[w] \in Request
        /\ UNCHANGED <<links, routes, peers>> /\ Become(w, Idle)
    BY DEF IInv, TypeOK, ConfirmationLost, kernelVars, Answer
  <1>1. /\ \A t : \A rest : Settled(t, rest) => Settled(t, rest)'
        /\ \A j : LinkOf(j)' = LinkOf(j)
    BY <1>0, SettledKept DEF LinkOf
  <1>2. ASSUME NEW id \in Ids \cap troubled', {req[w].id} \cap Ids \subseteq {id}, KeysOwned',
               \A t : t.id \notin {id} => (t \in tunnels' <=> t \in tunnels)
        PROVE  IsolationInv'
    <2>1. Spares({id})
      BY <1>1, <1>2 DEF Spares
    <2>2. PeersOwned'
      BY DEF PeersOwned
    <2> QED BY <1>0, <1>2, <2>1, <2>2, IdleLocal, StepKept
  <1>3. CASE At(w, "create", "commit") /\ CreateTunnelWithTransaction(req[w].row)
    <2>1. PICK row : row = req[w].row
      OBVIOUS
    <2>2. row.id \in Ids /\ req[w].id \notin Ids
      BY <1>3, <2>1, DraftKey DEF Row, IsolationInv
    <2>3. tunnels' = tunnels \cup {row}
      BY <1>3, <2>1 DEF CreateTunnelWithTransaction
    <2>4. KeysOwned'
      BY <1>0, <1>3, <2>1, <2>3, InsertKeys, IdleLocal DEF IsolationInv
    <2>5. row.id \in troubled'
      BY <2>1, <2>2
    <2> QED BY <1>2, <2>2, <2>3, <2>4, <2>5
  <1>4. CASE At(w, "update", "update") /\ UpdateClientIPv4(req[w].id, req[w].ip)
    <2>1. PICK id : id = req[w].id
      OBVIOUS
    <2>2. id \in Ids
      BY <1>4, <2>1 DEF At, IsolationInv, RequestsLocal, Local, Acting
    <2>3. /\ \A t \in tunnels' : \E s \in tunnels : s.id = t.id /\ s.key = t.key
          /\ \A t : t.id \notin {id} => (t \in tunnels' <=> t \in tunnels)
      BY <1>0, <1>4, <2>1, UpdatedRow
    <2>4. KeysOwned'
      BY <1>0, <2>3, KeysKept, IdleLocal DEF IsolationInv
    <2> QED BY <1>2, <2>1, <2>2, <2>3, <2>4
  <1>5. CASE At(w, "delete", "delete") /\ DeleteTunnel(req[w].id)
    <2>1. PICK id : id = req[w].id
      OBVIOUS
    <2>2. id \in Ids
      BY <1>5, <2>1 DEF At, IsolationInv, RequestsLocal, Local, Acting
    <2>3. tunnels' = {t \in tunnels : t.id # id}
      BY <1>5, <2>1 DEF DeleteTunnel
    <2>4. KeysOwned'
      BY <1>0, <2>3, KeysKept, IdleLocal DEF IsolationInv
    <2> QED BY <1>2, <2>1, <2>2, <2>3, <2>4
  <1> QED BY <1>3, <1>4, <1>5 DEF ConfirmationLost

LEMMA ChangeStatusKept ==
  ASSUME IInv, IsolationInv, Noted, ChangeStatus
  PROVE  IsolationInv'
  <1>1. PICK id, status : SetStatus(id, status) /\ UNCHANGED <<links, routes, peers, req>>
    BY DEF ChangeStatus, kernelVars
  <1> DEFINE new(s) == IF s.id = id THEN [s EXCEPT !.status = status] ELSE s
  <1>2. tunnels \subseteq Row /\ tunnels' = {new(s) : s \in tunnels}
    BY <1>1 DEF SetStatus, IInv, TypeOK
  <1>3. \A s \in tunnels :
           /\ new(s).id = s.id /\ new(s).type = s.type /\ new(s).ula = s.ula /\ new(s).key = s.key
           /\ new(s).p1 = s.p1 /\ new(s).p2 = s.p2 /\ new(s).p3 = s.p3 /\ new(s).ip = s.ip
    BY <1>2 DEF Row
  <1> HIDE DEF new
  <1>4. RequestsLocal'
    <2>1. SUFFICES ASSUME NEW v \in Workers PROVE Local(req[v])'
      BY DEF RequestsLocal
    <2>2. Local(req[v]) /\ req'[v] = req[v]
      BY <1>1 DEF IsolationInv, RequestsLocal
    <2> QED BY <2>2 DEF Local, Concerns, NetFor
  <1>5. KeysOwned'
    BY <1>1, <1>2, <1>3 DEF IsolationInv, KeysOwned
  <1>6. OneAtATime'
    BY DEF Noted, OneAtATime
  <1>7. TunnelsCared'
    <2>1. SUFFICES ASSUME NEW t \in tunnels', t.id \notin troubled' PROVE Cared(t)'
      BY DEF TunnelsCared
    <2>2. PICK s \in tunnels : t = new(s)
      BY <1>2
    <2>3. Cared(s)
      BY <1>3, <2>1, <2>2 DEF IsolationInv, TunnelsCared, Noted
    <2>4. /\ t.id = s.id /\ t.type = s.type /\ t.ip = s.ip
          /\ \A rest : Settled(s, rest) => Settled(t, rest)'
          /\ OwnCommands(t) = OwnCommands(s) /\ Change(t) = Change(s)
      BY <1>1, <1>3, <2>2, SettledAlike
    <2>5. LinkOf(t.id)' = LinkOf(s.id)
      BY <1>1, <2>4 DEF LinkOf
    <2>6. ASSUME NEW v \in Workers, ActsOn(v, t.id)' PROVE Tended(req[v], t)'
      <3>1. PICK r : r = req[v]
        OBVIOUS
      <3>2. r = req'[v] /\ Tended(r, s)
        BY <1>1, <2>3, <2>4, <2>6, <3>1 DEF Cared, ActsOn
      <3>3. Tended(r, t)'
        BY <2>4, <2>5, <3>2 DEF Tended
      <3> QED BY <3>2, <3>3
    <2>7. (\A v \in Workers : ~ActsOn(v, t.id)') => Settled(t, {})'
      BY <1>1, <2>3, <2>4 DEF Cared, ActsOn
    <2>8. t.type = "wg" => LinkOf(t.id)' = {}
      BY <2>3, <2>4, <2>5 DEF Cared
    <2> QED BY <2>6, <2>7, <2>8 DEF Cared
  <1>8. NoLinkLeft' /\ RowsBehind'
    BY <1>1, <1>2, <1>3 DEF IsolationInv, NoLinkLeft, RowsBehind, TunnelIDExists, LinkOf, Noted
  <1>9. PeersOwned'
    BY <1>1, <1>2, <1>3 DEF IsolationInv, PeersOwned, Noted, ActsOn, Removing
  <1> QED BY <1>4, <1>5, <1>6, <1>7, <1>8, <1>9 DEF IsolationInv

-----------------------------------------------------------------------------
(* The commands *)

(* A command was refused or failed: the id is troubled.                    *)
LEMMA FailedKept ==
  ASSUME IInv, IsolationInv, Noted, NEW w \in Workers, req[w].pc = "exec",
         NextCommand(w) \/ Answer(w), UNCHANGED <<tunnels, links, routes, peers>>,
         req[w].id \in troubled'
  PROVE  IsolationInv'
  <1>0. req \in [Workers -> Request] /\ req[w].id \in Ids
    BY DEF IInv, TypeOK, IsolationInv, RequestsLocal, Local, Acting
  <1>1. PICK r : /\ Become(w, r) /\ Local(r)
                 /\ \/ r.id = req[w].id /\ r.row = req[w].row
                    \/ r = Idle
    BY Advanced DEF IsolationInv
  <1>2. \/ r.id = req[w].id /\ r.row = req[w].row
        \/ r.id \notin Ids /\ r.row.key = None /\ r.pc # "exec"
    BY <1>1, IdleLocal
  <1>3. KeysOwned'
    BY <1>0, <1>1, <1>2, KeysKept DEF IsolationInv
  <1>4. PeersOwned'
    BY DEF PeersOwned
  <1>5. PICK id : id = req[w].id
    OBVIOUS
  <1>6. Spares({id})
    BY SparesAll
  <1> QED BY <1>0, <1>1, <1>2, <1>3, <1>4, <1>5, <1>6, StepKept

(* A command of a WireGuard tunnel changes no link.                        *)
LEMMA WgLinks ==
  ASSUME NEW t, t.type = "wg", NEW c \in OwnCommands(t), Run(c)
  PROVE  links' = links
  <1>1. c.verb \in {"route add", "peer set"}
    <2>1. PeerSet(t.key, AllowedIPs(t)).verb = "peer set"
      BY DEF PeerSet
    <2> QED BY <2>1, OwnCommandKinds
  <1> QED BY <1>1 DEF Run, RunLink

LEMMA PeerFields ==
  \A key : PeerRemove(key).verb = "peer remove" /\ PeerRemove(key).key = key
  BY DEF PeerRemove

(* A command changes the peers by the one peer of the tunnel, if at all.   *)
LEMMA PeersExecuted ==
  ASSUME IInv, IsolationInv, Noted, NEW w \in Workers, req[w].pc = "exec",
         NEW c, c = Head(req[w].todo), Run(c), NEW r, Become(w, r), UNCHANGED tunnels,
         \/ /\ r.id = req[w].id /\ r.op = req[w].op /\ r.todo = Tail(req[w].todo)
            /\ r.pc = "exec" \/ r.todo = <<>>
         \/ r = Idle
  PROVE  PeersOwned'
  <1>1. /\ req \in [Workers -> Request] /\ Local(req[w]) /\ req[w].id \in Ids
        /\ req[w].todo \in Seq(Command) /\ req[w].todo # <<>>
    BY DEF IInv, TypeOK, IsolationInv, RequestsLocal, Local, Acting, Request, Stages, StageOK
  <1>2. req'[w] = r /\ \A v \in Workers \ {w} : req'[v] = req[v]
    BY <1>1, Others
  <1>3. c \in Of(req[w].todo) /\ Of(req[w].todo) \subseteq {c} \cup Of(Tail(req[w].todo))
    BY <1>1, OfRest
  <1>4. SUFFICES ASSUME troubled' = {}, NEW p \in peers'
                 PROVE  \E t \in tunnels' :
                          /\ t.type = "wg" /\ t.key = p.key
                          /\ \A v \in Workers : ActsOn(v, t.id)' /\ Removing(req[v])' =>
                                req'[v].pc = "exec" /\ PeerRemove(t.key) \in Of(req'[v].todo)
    BY DEF PeersOwned
  <1>5. troubled = {}
    BY <1>4 DEF Noted
  <1>6. ASSUME NEW t \in tunnels, t.type = "wg", t.key = p.key,
               \A v \in Workers \ {w} : ActsOn(v, t.id) /\ Removing(req[v]) =>
                    req[v].pc = "exec" /\ PeerRemove(t.key) \in Of(req[v].todo),
               ActsOn(w, t.id) /\ Removing(req[w]) =>
                    PeerRemove(t.key) \in Of(req[w].todo) \ {c}
        PROVE  \E x \in tunnels' :
                  /\ x.type = "wg" /\ x.key = p.key
                  /\ \A v \in Workers : ActsOn(v, x.id)' /\ Removing(req[v])' =>
                        req'[v].pc = "exec" /\ PeerRemove(x.key) \in Of(req'[v].todo)
    <2>1. ASSUME NEW v \in Workers, ActsOn(v, t.id)', Removing(req[v])'
          PROVE  req'[v].pc = "exec" /\ PeerRemove(t.key) \in Of(req'[v].todo)
      <3>1. CASE v = w
        <4>1. r.id = t.id /\ Removing(r) /\ r # Idle
          BY <1>2, <2>1, <3>1, IdleLocal DEF ActsOn, Removing
        <4>2. ActsOn(w, t.id) /\ Removing(req[w])
          BY <4>1 DEF ActsOn, Removing
        <4>3. PeerRemove(t.key) \in Of(r.todo)
          BY <1>3, <1>6, <4>1, <4>2
        <4>4. r.todo # <<>>
          BY <4>3, OfNone
        <4> QED BY <1>2, <3>1, <4>1, <4>3, <4>4
      <3>2. CASE v # w
        BY <1>2, <1>6, <2>1, <3>2 DEF ActsOn, Removing
      <3> QED BY <3>1, <3>2
    <2> QED BY <1>6, <2>1
  <1>7. CASE c.verb = "peer set" /\ ~\E q \in peers : q.key = p.key
    <2>1. p.key = c.key
      <3> DEFINE cut(q) == [q EXCEPT !.allowed = @ \ c.allowed]
      <3>1. \A q \in peers : cut(q).key = q.key
        BY DEF IInv, TypeOK, Peer
      <3>2. peers' = {cut(q) : q \in {x \in peers : x.key # c.key}}
                     \cup {[key |-> c.key, allowed |-> c.allowed]}
        BY <1>7 DEF Run, RunLink, RunRoute, RunPeer
      <3> HIDE DEF cut
      <3>3. CASE p = [key |-> c.key, allowed |-> c.allowed]
        BY <3>3
      <3>4. CASE p \in {cut(q) : q \in {x \in peers : x.key # c.key}}
        <4>1. PICK q \in peers : p = cut(q)
          BY <3>4
        <4> QED BY <1>7, <3>1, <4>1
      <3> QED BY <3>2, <3>3, <3>4
    <2>2. req[w].op # "delete"
      BY <1>1, <1>3, <1>7 DEF Local
    <2>3. PICK t \in tunnels : t.id = req[w].id
      BY <1>5, <2>2 DEF IsolationInv, RowsBehind, TunnelIDExists
    <2>4. Tended(req[w], t) /\ \A v \in Workers \ {w} : ~ActsOn(v, t.id)
      BY <1>4, <2>3, InCare
    <2>5. c \in OwnCommands(t)
      BY <1>3, <2>2, <2>4 DEF Tended
    <2>6. t.type = "wg" /\ c = PeerSet(t.key, AllowedIPs(t))
      <3>1. /\ TunnelAdd(t.id, t.type, t.ip).verb = "tunnel add" /\ LinkUp(t.id).verb = "link up"
            /\ AddrAdd(t.ula, t.id).verb = "addr add" /\ Change(t).verb = "tunnel change"
        BY DEF TunnelAdd, LinkUp, AddrAdd, Change, TunnelChange
      <3> QED BY <1>7, <2>5, <3>1, OwnCommandKinds
    <2>7. t.key = p.key
      <3>1. PeerSet(t.key, AllowedIPs(t)).key = t.key
        BY DEF PeerSet
      <3> QED BY <2>1, <2>6, <3>1
    <2>8. ~Removing(req[w])
      BY <2>2 DEF Removing
    <2> QED BY <1>6, <2>4, <2>6, <2>7, <2>8
  <1>8. CASE \E q \in peers : q.key = p.key
    <2>1. PICK t \in tunnels : /\ t.type = "wg" /\ t.key = p.key
                               /\ \A v \in Workers : ActsOn(v, t.id) /\ Removing(req[v]) =>
                                     req[v].pc = "exec" /\ PeerRemove(t.key) \in Of(req[v].todo)
      BY <1>5, <1>8 DEF IsolationInv, PeersOwned
    <2>2. c # PeerRemove(t.key)
      <3>1. CASE c.verb = "peer remove"
        <4>1. p.key # c.key
          BY <3>1 DEF Run, RunLink, RunRoute, RunPeer
        <4> QED BY <2>1, <4>1, PeerFields
      <3>2. CASE c.verb # "peer remove"
        BY <3>2, PeerFields
      <3> QED BY <3>1, <3>2
    <2> QED BY <1>6, <2>1, <2>2
  <1>9. CASE c.verb # "peer set"
    <2>1. p \in peers
      BY <1>9 DEF Run, RunPeer
    <2> QED BY <1>8, <2>1
  <1> QED BY <1>7, <1>8, <1>9

LEMMA ExecuteKept ==
  ASSUME IInv, IsolationInv, Noted, DistinctNumbers, NEW w \in Workers, Execute(w)
  PROVE  IsolationInv'
  <1>a. PICK c : c = Head(req[w].todo)
    OBVIOUS
  <1>b. PICK id : id = req[w].id
    OBVIOUS
  <1>c. PICK rest : rest = Of(Tail(req[w].todo))
    OBVIOUS
  <1>0. /\ req \in [Workers -> Request] /\ tunnels \subseteq Row /\ KernelTyped
        /\ UNCHANGED tunnels /\ req[w].pc = "exec" /\ Run(c) /\ NextCommand(w)
    BY <1>a, IInvParts DEF IInv, TypeOK, Execute, dbVars
  <1>1. /\ Local(req[w]) /\ id \in Ids /\ req[w].todo \in Seq(Command) /\ req[w].todo # <<>>
    BY <1>0, <1>b DEF IInv, TypeOK, IsolationInv, RequestsLocal, Local, Acting, Request, Stages, StageOK
  <1>2. /\ c \in Command /\ c \in Of(req[w].todo) /\ rest \subseteq Of(req[w].todo)
        /\ Of(req[w].todo) \subseteq {c} \cup rest
    BY <1>a, <1>c, <1>1, OfRest
  <1>3. Concerns(c, id, req[w].row.key)
    BY <1>0, <1>1, <1>2, <1>b DEF Local
  <1>4. PICK r : /\ Become(w, r) /\ Local(r)
                 /\ \/ /\ r.id = req[w].id /\ r.op = req[w].op /\ r.row = req[w].row
                       /\ r.todo = Tail(req[w].todo)
                       /\ \/ r.pc = "exec" /\ r.todo # <<>>
                          \/ r.pc = "delete" /\ r.op = "delete" /\ r.todo = <<>>
                    \/ r = Idle /\ req[w].op # "delete" /\ Tail(req[w].todo) = <<>>
    BY <1>0, Advanced DEF IsolationInv
  <1>5. \/ /\ r.id = id /\ r.row = req[w].row /\ r.op = req[w].op /\ r.todo = Tail(req[w].todo)
           /\ \/ r.pc = "exec" /\ r.todo # <<>>
              \/ r.pc = "delete" /\ r.op = "delete"
        \/ /\ r.id \notin Ids /\ r.row.key = None /\ r.pc = "idle"
           /\ req[w].op # "delete" /\ rest = {}
    BY <1>b, <1>c, <1>4, IdleLocal, OfNone
  <1>6. KeysOwned'
    BY <1>0, <1>4, <1>5, <1>b, KeysKept DEF IsolationInv
  <1>7. PeersOwned'
    BY <1>0, <1>4, <1>a, PeersExecuted
  <1>8. Spares({id})
    <2>1. ASSUME NEW t \in tunnels, t.id \notin {id}, NEW left, Settled(t, left)
          PROVE  Settled(t, left)'
      <3>1. t \in Row /\ WellFormed(t)
        BY <1>0 DEF IInv, RowsWellFormed
      <3>2. PICK key : key = req[w].row.key
        OBVIOUS
      <3>3. t.key # None => key # t.key
        BY <1>b, <2>1, <3>2 DEF IsolationInv, KeysOwned
      <3>4. Concerns(c, id, key) /\ id # t.id
        BY <1>3, <2>1, <3>2
      <3> QED BY <1>0, <1>1, <1>2, <2>1, <3>1, <3>3, <3>4, SettledElsewhere
    <2>2. ASSUME NEW j \in Ids \ {id} PROVE LinkOf(j)' = LinkOf(j)
      <3>1. PICK key : key = req[w].row.key
        OBVIOUS
      <3>2. Concerns(c, id, key) /\ j # id
        BY <1>3, <3>1
      <3> QED BY <1>0, <1>2, <3>2, LinksElsewhere
    <2> QED BY <1>0, <2>1, <2>2 DEF Spares
  <1>9. ASSUME req[w].op = "delete" PROVE c.verb \in {"peer remove", "route del", "tunnel del"}
    BY <1>0, <1>1, <1>2, <1>9 DEF Local
  <1>10. ASSUME req[w].op = "delete"
         PROVE  LinkOf(id)' \subseteq LinkOf(id) /\ (c.verb = "tunnel del" => LinkOf(id)' = {})
    <2>1. PICK key : key = req[w].row.key
      OBVIOUS
    <2>2. Concerns(c, id, key)
      BY <1>3, <2>1
    <2>3. c.verb \in {"peer remove", "route del", "tunnel del"} /\ Run(c)
      BY <1>0, <1>9, <1>10
    <2>4. LinkOf(id)' \subseteq LinkOf(id)
      BY <2>2, <2>3 DEF Run, RunLink, RunRoute, RunPeer, LinkOf, Concerns
    <2>5. c.verb = "tunnel del" => LinkOf(id)' = {}
      BY <2>2, <2>3 DEF Run, RunLink, RunRoute, RunPeer, LinkOf, Concerns
    <2> QED BY <2>4, <2>5
  <1>11. ASSUME NEW t \in tunnels', t.id \in {id} \ troubled' PROVE Cared(t)'
    <2>1. t \in tunnels /\ t.id = id /\ t.id \notin troubled'
      BY <1>0, <1>11
    <2>2. /\ t \in Row /\ WellFormed(t) /\ t.id \in Ids
          /\ Cared(t) /\ Tended(req[w], t) /\ \A v \in Workers \ {w} : ~ActsOn(v, t.id)
      BY <1>b, <2>1, InCare
    <2>3. CASE req[w].op # "delete"
      <3>1. Of(req[w].todo) \subseteq OwnCommands(t)
        BY <1>0, <2>2, <2>3 DEF Tended
      <3>2. PICK all : all = Of(req[w].todo)
        OBVIOUS
      <3>3. Settled(t, all)
        BY <1>0, <2>2, <2>3, <3>2 DEF Tended
      <3>4. c \in OwnCommands(t) /\ all \ {c} \subseteq rest /\ rest \subseteq OwnCommands(t)
        BY <1>2, <3>1, <3>2
      <3>5. Settled(t, rest)'
        BY <1>0, <2>2, <3>3, <3>4, SettledAdvances
      <3>6. t.type = "wg" => LinkOf(t.id)' = {}
        <4>1. t.type = "wg" => links' = links
          BY <1>0, <3>4, WgLinks
        <4> QED BY <2>2, <4>1 DEF Cared, LinkOf
      <3>7. CASE r.id = id /\ r.op = req[w].op /\ r.todo = Tail(req[w].todo) /\ r.pc = "exec"
        <4>1. Of(r.todo) = rest
          BY <1>c, <3>7
        <4>2. Of(r.todo) \subseteq OwnCommands(t) /\ Settled(t, Of(r.todo))'
          BY <3>4, <3>5, <4>1
        <4>3. Tended(r, t)'
          BY <2>3, <3>7, <4>2 DEF Tended
        <4> QED BY <1>0, <1>4, <2>1, <2>2, <3>6, <3>7, <4>3, CaredHere
      <3>8. CASE r.id \notin Ids /\ rest = {}
        <4>1. Settled(t, {})'
          BY <3>5, <3>8
        <4> QED BY <1>0, <1>4, <2>1, <2>2, <3>6, <3>8, <4>1, CaredHere
      <3> QED BY <1>5, <2>3, <3>7, <3>8
    <2>4. CASE req[w].op = "delete"
      <3>1. r.id = id /\ r.op = "delete" /\ r.todo = Tail(req[w].todo) /\ r.pc \in {"exec", "delete"}
            /\ (r.pc = "exec" => r.todo # <<>>)
        BY <1>5, <2>4
      <3>2. t.type = "wg" => LinkOf(t.id)' = {}
        BY <1>10, <2>1, <2>2, <2>4 DEF Cared
      <3>3. ASSUME t.type # "wg" PROVE r.pc = "delete" /\ LinkOf(t.id)' = {}
        <4>1. req[w].todo = <<TunnelDel(t.id)>>
          BY <1>0, <2>2, <2>4, <3>3 DEF Tended
        <4>2. Tail(req[w].todo) = <<>> /\ c = TunnelDel(t.id)
          BY <1>a, <4>1
        <4>3. c.verb = "tunnel del"
          BY <4>2 DEF TunnelDel
        <4> QED BY <1>10, <2>1, <2>4, <3>1, <4>2, <4>3
      <3>4. Tended(r, t)'
        BY <3>1, <3>2, <3>3 DEF Tended
      <3> QED BY <1>0, <1>4, <2>1, <2>2, <3>1, <3>2, <3>4, CaredHere
    <2> QED BY <2>3, <2>4
  <1>12. ASSUME id \notin troubled' PROVE TunnelIDExists(id)' \/ LinkOf(id)' = {}
    <2>1. id \notin troubled
      BY <1>12 DEF Noted
    <2>2. CASE TunnelIDExists(id)
      BY <1>0, <2>2 DEF TunnelIDExists
    <2>3. CASE ~TunnelIDExists(id)
      <3>1. LinkOf(id) = {}
        BY <1>1, <2>1, <2>3 DEF IsolationInv, NoLinkLeft
      <3>2. req[w].op = "delete"
        BY <1>0, <1>b, <2>1, <2>3 DEF IsolationInv, RowsBehind
      <3> QED BY <1>10, <3>1, <3>2
    <2> QED BY <2>2, <2>3
  <1>13. ASSUME r.pc = "exec", r.op # "delete", r.id \notin troubled' PROVE TunnelIDExists(r.id)'
    <2>1. r.id = id /\ req[w].op # "delete" /\ id \notin troubled
      BY <1>5, <1>13 DEF Noted
    <2>2. TunnelIDExists(id)
      BY <1>0, <1>b, <2>1 DEF IsolationInv, RowsBehind
    <2> QED BY <1>0, <2>1, <2>2 DEF TunnelIDExists
  <1> QED BY <1>b, <1>1, <1>4, <1>5, <1>6, <1>7, <1>8, <1>11, <1>12, <1>13, StepKept

-----------------------------------------------------------------------------
(* The process starts again *)

LEMMA RestartKept ==
  ASSUME IInv, IsolationInv, Noted, Restart,
         {id \in Ids : \E w \in Workers : ActsOn(w, id)} \subseteq troubled'
  PROVE  IsolationInv'
  <1>1. UNCHANGED <<tunnels, links, routes, peers>> /\ \A w \in Workers : req'[w] = Idle
    BY DEF Restart, dbVars
  <1>2. Idle.row.key = None /\ Idle.id \notin Ids /\ Idle.pc = "idle" /\ ~Removing(Idle)
    BY IdleLocal
  <1>3. RequestsLocal'
    <2>1. SUFFICES ASSUME NEW w \in Workers PROVE Local(req[w])'
      BY DEF RequestsLocal
    <2>2. Local(Idle) /\ req'[w] = Idle
      BY <1>1, IdleLocal
    <2> QED BY <2>2 DEF Local, Concerns, NetFor, Idle
  <1>4. KeysOwned'
    BY <1>1, <1>2 DEF IsolationInv, KeysOwned
  <1>5. OneAtATime'
    BY DEF Noted, OneAtATime
  <1>6. ASSUME NEW t \in tunnels', t.id \notin troubled' PROVE Cared(t)'
    <2>1. t \in tunnels /\ t.id \notin troubled /\ t.id \in Ids /\ \A w \in Workers : ~ActsOn(w, t.id)
      BY <1>1, <1>6 DEF Noted, IInv, TypeOK, Row
    <2>2. Cared(t) /\ Settled(t, {})
      BY <2>1 DEF IsolationInv, TunnelsCared, Cared
    <2>3. Settled(t, {})' /\ LinkOf(t.id)' = LinkOf(t.id)
      BY <1>1, <2>2, SettledKept DEF LinkOf
    <2>4. \A w \in Workers : ~ActsOn(w, t.id)'
      BY <1>1, <1>2, <2>1 DEF ActsOn
    <2> QED BY <2>2, <2>3, <2>4 DEF Cared
  <1>7. NoLinkLeft'
    BY <1>1 DEF IsolationInv, NoLinkLeft, TunnelIDExists, LinkOf, Noted
  <1>8. RowsBehind'
    BY <1>1, <1>2 DEF RowsBehind
  <1>9. PeersOwned'
    BY <1>1, <1>2 DEF IsolationInv, PeersOwned, Noted, Removing
  <1> QED BY <1>3, <1>4, <1>5, <1>6, <1>7, <1>8, <1>9 DEF IsolationInv, TunnelsCared

LEMMA StutterKept ==
  ASSUME IsolationInv, UNCHANGED hvars
  PROVE  IsolationInv'
  <1>1. UNCHANGED <<tunnels, links, routes, peers, req, troubled>>
    BY DEF hvars, vars
  <1>2. RequestsLocal'
    <2>1. SUFFICES ASSUME NEW v \in Workers PROVE Local(req[v])'
      BY DEF RequestsLocal
    <2>2. Local(req[v]) /\ req'[v] = req[v]
      BY <1>1 DEF IsolationInv, RequestsLocal
    <2> QED BY <2>2 DEF Local, Concerns, NetFor
  <1>3. KeysOwned'
    BY <1>1 DEF IsolationInv, KeysOwned
  <1>4. OneAtATime'
    BY <1>1 DEF IsolationInv, OneAtATime, Overlapping, ActsOn
  <1>5. ASSUME NEW t \in tunnels', t.id \notin troubled' PROVE Cared(t)'
    <2>1. Cared(t) /\ LinkOf(t.id)' = LinkOf(t.id)
      BY <1>1, <1>5 DEF IsolationInv, TunnelsCared, LinkOf
    <2>2. \A rest : Settled(t, rest) => Settled(t, rest)'
      BY <1>1, SettledKept
    <2>3. ASSUME NEW v \in Workers, ActsOn(v, t.id)' PROVE Tended(req[v], t)'
      <3>1. PICK r : r = req[v]
        OBVIOUS
      <3>2. r = req'[v] /\ Tended(r, t)
        BY <1>1, <2>1, <2>3, <3>1 DEF Cared, ActsOn
      <3>3. Tended(r, t)'
        BY <2>1, <2>2, <3>2 DEF Tended
      <3> QED BY <3>2, <3>3
    <2>4. (\A v \in Workers : ~ActsOn(v, t.id)') => Settled(t, {})'
      BY <1>1, <2>1, <2>2 DEF Cared, ActsOn
    <2> QED BY <2>1, <2>3, <2>4 DEF Cared
  <1>6. NoLinkLeft' /\ RowsBehind'
    BY <1>1 DEF IsolationInv, NoLinkLeft, RowsBehind, TunnelIDExists, LinkOf
  <1>7. PeersOwned'
    BY <1>1 DEF IsolationInv, PeersOwned, ActsOn, Removing
  <1> QED BY <1>2, <1>3, <1>4, <1>5, <1>6, <1>7 DEF IsolationInv, TunnelsCared

-----------------------------------------------------------------------------
(* The induction *)

LEMMA InitIsolation == HInit => IsolationInv
  <1> SUFFICES ASSUME HInit PROVE IsolationInv
    OBVIOUS
  <1>1. /\ tunnels = {} /\ links = {} /\ peers = {} /\ troubled = {}
        /\ \A w \in Workers : req[w] = Idle
    BY DEF HInit, Init, DatabaseInit, KernelInit
  <1>2. Local(Idle) /\ Idle.row.key = None /\ Idle.id \notin Ids /\ Idle.pc = "idle"
    BY IdleLocal
  <1>3. RequestsLocal /\ KeysOwned
    BY <1>1, <1>2 DEF RequestsLocal, KeysOwned
  <1>4. TunnelsCared /\ NoLinkLeft /\ RowsBehind /\ OneAtATime /\ PeersOwned
    BY <1>1, <1>2 DEF TunnelsCared, NoLinkLeft, RowsBehind, OneAtATime, Overlapping, ActsOn,
       PeersOwned, LinkOf
  <1> QED BY <1>3, <1>4 DEF IsolationInv

LEMMA NextIsolation == DistinctNumbers /\ IInv /\ IsolationInv /\ [HNext]_hvars => IsolationInv'
  <1> SUFFICES ASSUME DistinctNumbers, IInv, IsolationInv, [HNext]_hvars PROVE IsolationInv'
    OBVIOUS
  <1> USE DEF dbVars, kernelVars
  <1>0. LocalOK
    BY IInvParts
  <1>1. ASSUME NEW w \in Workers, Start(w), Noted PROVE IsolationInv'
    <2>1. req[w] = Idle /\ UNCHANGED <<tunnels, links, routes, peers>>
      BY <1>1 DEF Start, StartCreate, StartUpdate, StartDelete
    <2>2. CASE StartCreate(w)
      <3>1. PICK u, type, ip :
              Become(w, [Idle EXCEPT !.op = "create", !.pc = "count",
                           !.row = [NoRow EXCEPT !.user = u, !.type = type, !.ip = ip]])
        BY <2>2 DEF StartCreate
      <3> DEFINE r == [Idle EXCEPT !.op = "create", !.pc = "count",
                         !.row = [NoRow EXCEPT !.user = u, !.type = type, !.ip = ip]]
      <3>2. r.id = req[w].id /\ r.pc \notin Acting /\ r.row.key = None
        BY <2>1 DEF Idle, NoRow, Acting
      <3>3. req[w].id \notin Ids /\ Become(w, r)
        BY <2>1, <3>1, IdleLocal
      <3> HIDE DEF r
      <3> QED BY <1>1, <2>1, <3>2, <3>3, SearchKept
    <2>3. CASE StartUpdate(w)
      <3>1. PICK id \in Ids, ip \in IPs :
              Become(w, [Idle EXCEPT !.op = "update", !.pc = "update", !.id = id, !.ip = ip])
        BY <2>3 DEF StartUpdate
      <3> DEFINE r == [Idle EXCEPT !.op = "update", !.pc = "update", !.id = id, !.ip = ip]
      <3>2. r.id \in Ids /\ r.row.key = None /\ <<r.pc, r.op>> = <<"update", "update">>
        BY DEF Idle, NoRow
      <3> HIDE DEF r
      <3> QED BY <1>1, <2>1, <3>1, <3>2, StartKept DEF r
    <2>4. CASE StartDelete(w)
      <3>1. PICK id \in Ids : Become(w, [Idle EXCEPT !.op = "delete", !.pc = "lookup", !.id = id])
        BY <2>4 DEF StartDelete
      <3> DEFINE r == [Idle EXCEPT !.op = "delete", !.pc = "lookup", !.id = id]
      <3>2. r.id \in Ids /\ r.row.key = None /\ <<r.pc, r.op>> = <<"lookup", "delete">>
        BY DEF Idle, NoRow
      <3> HIDE DEF r
      <3> QED BY <1>1, <2>1, <3>1, <3>2, StartKept DEF r
    <2> QED BY <1>1, <2>2, <2>3, <2>4 DEF Start
  <1>2. ASSUME NEW w \in Workers, CreateStep(w), Noted PROVE IsolationInv'
    <2>1. /\ req[w].row.key = None \/ req[w].pc = "commit"
          /\ req[w].id \notin Ids
      BY <1>2 DEF CreateStep, CountActive, FindSlot, FindFirstPrefix, FindSecondPrefix, FindThirdPrefix,
         Commit, CommitRefused, At, IsolationInv, RequestsLocal, Local, Acting
    <2>2. \A t \in tunnels : t.id # req[w].id
      BY <2>1 DEF IInv, TypeOK, Row
    <2>3. CASE CommitRefused(w)
      BY <1>2, <2>2, <2>3, AnswerKept DEF CommitRefused
    <2>4. CASE \/ CountActive(w) \/ FindSlot(w) \/ FindFirstPrefix(w)
               \/ FindSecondPrefix(w) \/ FindThirdPrefix(w)
      <3>1. UNCHANGED <<tunnels, links, routes, peers>> /\ req[w].row.key = None
        BY <2>1, <2>4 DEF CountActive, FindSlot, FindFirstPrefix, FindSecondPrefix, FindThirdPrefix, At
      <3>2. CASE Answer(w)
        BY <1>2, <2>2, <3>1, <3>2, AnswerKept
      <3>3. ASSUME NEW r, Become(w, r), r.id = req[w].id, r.pc \notin Acting,
                   r.row.key \in {None} \cup FreshKeys /\ (r.row.key = None \/ r.pc = "commit")
            PROVE  IsolationInv'
        BY <1>2, <2>1, <3>1, <3>3, SearchKept
      <3> QED BY <1>0, <2>4, <3>1, <3>2, <3>3, SearchResult
    <2> QED BY <1>2, <2>3, <2>4, CommitKept DEF CreateStep
  <1>3. ASSUME NEW w \in Workers, UpdateStep(w), Noted PROVE IsolationInv'
    BY <1>3, UpdateIPKept, ReselectKept DEF UpdateStep
  <1>4. ASSUME NEW w \in Workers, DeleteStep(w), Noted PROVE IsolationInv'
    BY <1>4, LookupKept, DeleteRowKept, DecrementKept DEF DeleteStep
  <1>5. ASSUME NEW w \in Workers, Execute(w), Noted PROVE IsolationInv'
    BY <1>5, ExecuteKept
  <1>6. ASSUME NEW w \in Workers, CommandRefused(w) \/ CommandFails(w), Noted,
               req[w].id \in Ids => req[w].id \in troubled'
        PROVE  IsolationInv'
    <2>1. /\ UNCHANGED <<tunnels, links, routes, peers>> /\ req[w].pc = "exec"
          /\ NextCommand(w) \/ Answer(w)
      BY <1>6 DEF CommandRefused, CommandFails, AfterFailedCommand
    <2>2. req[w].id \in Ids
      BY <2>1 DEF IsolationInv, RequestsLocal, Local, Acting
    <2> QED BY <1>6, <2>1, <2>2, FailedKept
  <1>7. ASSUME NEW w \in Workers, StatementFails(w), Noted, {id \in Ids : ActsOn(w, id)} \subseteq troubled'
        PROVE  IsolationInv'
    <2>1. UNCHANGED <<tunnels, links, routes, peers>> /\ Answer(w)
      BY <1>7 DEF StatementFails
    <2>2. ASSUME NEW t \in tunnels, t.id = req[w].id PROVE t.id \in troubled'
      BY <1>7, <2>2 DEF IInv, TypeOK, Row, ActsOn
    <2> QED BY <1>7, <2>1, <2>2, AnswerKept
  <1>8. CASE UNCHANGED hvars
    BY <1>8, StutterKept
  <1>9. CASE Restart /\ Trouble({id \in Ids : \E w \in Workers : ActsOn(w, id)})
    <2>1. Noted /\ {id \in Ids : \E w \in Workers : ActsOn(w, id)} \subseteq troubled'
      BY <1>9, TroubleNoted
    <2> QED BY <1>9, <2>1, RestartKept
  <1>10. CASE ChangeStatus /\ Trouble({})
    BY <1>10, TroubleNoted, ChangeStatusKept
  <1>11. ASSUME NEW w \in Workers,
                (Start(w) \/ Step(w)) /\ Trouble({id \in Ids : ActsOn(w, id) /\ Refuses(w)})
         PROVE  IsolationInv'
    <2>1. Noted /\ {id \in Ids : ActsOn(w, id) /\ Refuses(w)} \subseteq troubled'
      BY <1>11, TroubleNoted
    <2>2. CASE CommandRefused(w)
      <3>1. req[w].id \in Ids => req[w].id \in troubled'
        BY <2>1, <2>2 DEF CommandRefused, Refuses, ActsOn
      <3> QED BY <1>6, <2>1, <2>2, <3>1
    <2> QED BY <1>1, <1>2, <1>3, <1>4, <1>5, <1>11, <2>1, <2>2 DEF Step, CommandStep
  <1>12. ASSUME NEW w \in Workers,
                (CommandFails(w) \/ StatementFails(w)) /\ Trouble({id \in Ids : ActsOn(w, id)})
         PROVE  IsolationInv'
    <2>1. Noted /\ {id \in Ids : ActsOn(w, id)} \subseteq troubled'
      BY <1>12, TroubleNoted
    <2>2. req[w].id \in Ids => req[w].id \in troubled'
      BY <2>1 DEF ActsOn
    <2> QED BY <1>6, <1>7, <1>12, <2>1, <2>2
  <1>13. ASSUME NEW w \in Workers,
                ConfirmationLost(w) /\ Trouble(Ids \cap {req[w].id, req[w].row.id})
         PROVE  IsolationInv'
    <2>1. Noted /\ Ids \cap {req[w].id, req[w].row.id} \subseteq troubled'
      BY <1>13, TroubleNoted
    <2> QED BY <1>13, <2>1, LostKept
  <1> QED BY <1>8, <1>9, <1>10, <1>11, <1>12, <1>13 DEF HNext

-----------------------------------------------------------------------------
(* The theorems *)

(* The history variable only watches.                                      *)
LEMMA HistoryRefines == HSpec => Spec
  <1>1. HInit => Init
    BY DEF HInit
  <1>2. [HNext]_hvars => [Next]_vars
    BY DEF HNext, hvars, Next, Serve, Failure
  <1> QED BY <1>1, <1>2, PTL DEF HSpec, Spec

(* Whatever the other requests, of the same user or not, do, fail to do or *)
(* leave half done, the request on an id finds and leaves it as this       *)
(* invariant says.                                                         *)
THEOREM IsolationInvariance == DistinctNumbers => (HSpec => [](IInv /\ IsolationInv))
  <1> SUFFICES ASSUME DistinctNumbers PROVE HSpec => [](IInv /\ IsolationInv)
    OBVIOUS
  <1>1. HSpec => []IInv
    BY HistoryRefines, Invariance, PTL
  <1>2. IInv /\ IsolationInv /\ [HNext]_hvars => IsolationInv'
    BY NextIsolation
  <1>3. HSpec => HInit /\ [][HNext]_hvars
    BY DEF HSpec
  <1> QED BY <1>1, <1>2, <1>3, InitIsolation, PTL

LEMMA IsolationConfigures == IInv /\ IsolationInv => ConfiguredAsStored
  <1> SUFFICES ASSUME IInv, IsolationInv, NEW t \in tunnels, Quiet(t.id) PROVE Configured(t)
    BY DEF ConfiguredAsStored
  <1>1. Settled(t, {})
    BY DEF Quiet, IsolationInv, TunnelsCared, Cared
  <1>2. t \in Row /\ KernelTyped
    BY IInvParts DEF IInv, TypeOK
  <1> QED BY <1>1, <1>2, SettledConfigured

LEMMA IsolationClears == IInv /\ IsolationInv => NothingLeftBehind
  <1> SUFFICES ASSUME IInv, IsolationInv PROVE NothingLeftBehind
    OBVIOUS
  <1>1. ASSUME NEW l \in links, Quiet(l.dev) PROVE TunnelIDExists(l.dev)
    <2>1. l.dev \in Ids \ troubled /\ l \in LinkOf(l.dev)
      BY <1>1 DEF Quiet, IInv, TypeOK, Link, LinkOf
    <2> QED BY <2>1 DEF IsolationInv, NoLinkLeft
  <1>2. ASSUME troubled = {}, NEW p \in peers PROVE \E t \in tunnels : t.key = p.key
    BY <1>2 DEF IsolationInv, PeersOwned
  <1> QED BY <1>1, <1>2 DEF NothingLeftBehind

(* A tunnel whose own requests ran one at a time and without failure is    *)
(* configured as its row says, whatever requests on other ids did.         *)
THEOREM ConfiguredHolds == DistinctNumbers => (HSpec => []ConfiguredAsStored)
  BY IsolationInvariance, IsolationConfigures, PTL

(* No link is left of a tunnel that was deleted without trouble, and no    *)
(* peer without a row as long as nothing met trouble.                      *)
THEOREM NothingLeftHolds == DistinctNumbers => (HSpec => []NothingLeftBehind)
  BY IsolationInvariance, IsolationClears, PTL

-----------------------------------------------------------------------------
(* The client's end of a tunnel.  The command lists of the API have known  *)
(* lengths, so what they make of a machine can be computed; the sequences  *)
(* are put together first.                                                 *)

LEMMA Joined ==
  ASSUME NEW S, NEW s \in Seq(S), NEW t \in Seq(S), NEW u \in Seq(S),
         Len(u) = Len(s) + Len(t),
         \A i \in 1 .. Len(s) : u[i] = s[i],
         \A i \in 1 .. Len(t) : u[Len(s) + i] = t[i]
  PROVE  s \o t = u
  <1>1. /\ s \o t \in Seq(S) /\ Len(s \o t) = Len(s) + Len(t)
        /\ \A i \in 1 .. Len(s) + Len(t) : (s \o t)[i] = IF i <= Len(s) THEN s[i] ELSE t[i - Len(s)]
    BY ConcatProperties
  <1>2. Len(s) \in Nat /\ Len(t) \in Nat
    BY LenProperties
  <1>3. ASSUME NEW i \in 1 .. Len(u) PROVE (s \o t)[i] = u[i]
    <2>1. CASE i <= Len(s)
      BY <1>1, <1>2, <1>3, <2>1
    <2>2. CASE i > Len(s)
      <3>1. i - Len(s) \in 1 .. Len(t) /\ Len(s) + (i - Len(s)) = i
        BY <1>2, <2>2
      <3>2. u[i] = t[i - Len(s)]
        BY <3>1
      <3> QED BY <1>1, <1>2, <2>2, <3>2
    <2> QED BY <1>2, <2>1, <2>2
  <1> QED BY <1>1, <1>3, SeqEqual

LEMMA TwoFourOne ==
  ASSUME NEW a, NEW b, NEW c, NEW d, NEW e, NEW f, NEW g
  PROVE  <<a, b>> \o <<c, d, e, f>> \o <<g>> = <<a, b, c, d, e, f, g>>
  <1> DEFINE S == {a, b, c, d, e, f, g}
  <1>1. PICK s, t, u, v, x :
          /\ s = <<a, b>> /\ t = <<c, d, e, f>> /\ u = <<a, b, c, d, e, f>>
          /\ v = <<g>> /\ x = <<a, b, c, d, e, f, g>>
    OBVIOUS
  <1>2. /\ s \in Seq(S) /\ t \in Seq(S) /\ u \in Seq(S) /\ v \in Seq(S) /\ x \in Seq(S)
        /\ Len(s) = 2 /\ Len(t) = 4 /\ Len(u) = 6 /\ Len(v) = 1 /\ Len(x) = 7
    BY <1>1
  <1>3. /\ \A i \in 1 .. 2 : u[i] = s[i]
        /\ \A i \in 1 .. 4 : u[2 + i] = t[i]
    BY <1>1
  <1>4. \A i \in 1 .. 6 : x[i] = u[i]
    BY <1>1
  <1>5. x[7] = v[1]
    BY <1>1
  <1> HIDE DEF S
  <1>6. s \o t = u
    <2>1. /\ Len(u) = Len(s) + Len(t)
          /\ \A i \in 1 .. Len(s) : u[i] = s[i]
          /\ \A i \in 1 .. Len(t) : u[Len(s) + i] = t[i]
      BY <1>2, <1>3
    <2> QED BY <2>1, <1>2, Joined
  <1>7. u \o v = x
    <2>1. /\ Len(x) = Len(u) + Len(v)
          /\ \A i \in 1 .. Len(u) : x[i] = u[i]
          /\ \A i \in 1 .. Len(v) : x[Len(u) + i] = v[i]
      BY <1>2, <1>4, <1>5
    <2> QED BY <2>1, <1>2, Joined
  <1> QED BY <1>1, <1>6, <1>7

LEMMA OneFourFour ==
  ASSUME NEW a, NEW b, NEW c, NEW d, NEW e, NEW f, NEW g, NEW h, NEW k
  PROVE  <<a>> \o <<b, c, d, e>> \o <<f, g, h, k>> = <<a, b, c, d, e, f, g, h, k>>
  <1> DEFINE S == {a, b, c, d, e, f, g, h, k}
  <1>1. PICK s, t, u, v, x :
          /\ s = <<a>> /\ t = <<b, c, d, e>> /\ u = <<a, b, c, d, e>>
          /\ v = <<f, g, h, k>> /\ x = <<a, b, c, d, e, f, g, h, k>>
    OBVIOUS
  <1>2. /\ s \in Seq(S) /\ t \in Seq(S) /\ u \in Seq(S) /\ v \in Seq(S) /\ x \in Seq(S)
        /\ Len(s) = 1 /\ Len(t) = 4 /\ Len(u) = 5 /\ Len(v) = 4 /\ Len(x) = 9
    BY <1>1
  <1>3. /\ \A i \in 1 .. 1 : u[i] = s[i]
        /\ \A i \in 1 .. 4 : u[1 + i] = t[i]
    BY <1>1
  <1>4. /\ \A i \in 1 .. 5 : x[i] = u[i]
        /\ \A i \in 1 .. 4 : x[5 + i] = v[i]
    BY <1>1
  <1> HIDE DEF S
  <1>6. s \o t = u
    <2>1. /\ Len(u) = Len(s) + Len(t)
          /\ \A i \in 1 .. Len(s) : u[i] = s[i]
          /\ \A i \in 1 .. Len(t) : u[Len(s) + i] = t[i]
      BY <1>2, <1>3
    <2> QED BY <2>1, <1>2, Joined
  <1>7. u \o v = x
    <2>1. /\ Len(x) = Len(u) + Len(v)
          /\ \A i \in 1 .. Len(u) : x[i] = u[i]
          /\ \A i \in 1 .. Len(v) : x[Len(u) + i] = v[i]
      BY <1>2, <1>4
    <2> QED BY <2>1, <1>2, Joined
  <1> QED BY <1>1, <1>6, <1>7

LEMMA TwoThreeTwo ==
  ASSUME NEW a, NEW b, NEW c, NEW d, NEW e, NEW f, NEW g
  PROVE  <<a, b>> \o SubSeq(<<c, d, e, f>>, 1, 3) \o <<g, f>> = <<a, b, c, d, e, g, f>>
  <1> DEFINE S == {a, b, c, d, e, f, g}
  <1>1. PICK s, r, u, v, x :
          /\ s = <<a, b>> /\ r = <<c, d, e, f>> /\ u = <<a, b, c, d, e>>
          /\ v = <<g, f>> /\ x = <<a, b, c, d, e, g, f>>
    OBVIOUS
  <1>2. PICK t : t = SubSeq(r, 1, 3)
    OBVIOUS
  <1>3. /\ s \in Seq(S) /\ u \in Seq(S) /\ v \in Seq(S) /\ x \in Seq(S)
        /\ Len(s) = 2 /\ Len(u) = 5 /\ Len(v) = 2 /\ Len(x) = 7
        /\ \A i \in 1 .. 3 : r[i] \in S
    BY <1>1
  <1>4. t \in Seq(S) /\ Len(t) = 3 /\ t[1] = r[1] /\ t[2] = r[2] /\ t[3] = r[3]
    <2> HIDE DEF S
    <2>1. /\ SubSeq(r, 1, 3) \in Seq(S) /\ Len(SubSeq(r, 1, 3)) = 3
          /\ \A i \in 1 .. 3 - 1 + 1 : SubSeq(r, 1, 3)[i] = r[1 + i - 1]
      BY <1>3, SubSeqProperties
    <2> QED BY <1>2, <2>1
  <1>5. /\ \A i \in 1 .. 2 : u[i] = s[i]
        /\ \A i \in 1 .. 3 : u[2 + i] = t[i]
    BY <1>1, <1>4
  <1>6. /\ \A i \in 1 .. 5 : x[i] = u[i]
        /\ \A i \in 1 .. 2 : x[5 + i] = v[i]
    BY <1>1
  <1> HIDE DEF S
  <1>7. s \o t = u
    <2>1. /\ Len(u) = Len(s) + Len(t)
          /\ \A i \in 1 .. Len(s) : u[i] = s[i]
          /\ \A i \in 1 .. Len(t) : u[Len(s) + i] = t[i]
      BY <1>3, <1>4, <1>5
    <2> QED BY <2>1, <1>3, <1>4, Joined
  <1>8. u \o v = x
    <2>1. /\ Len(x) = Len(u) + Len(v)
          /\ \A i \in 1 .. Len(u) : x[i] = u[i]
          /\ \A i \in 1 .. Len(v) : x[Len(u) + i] = v[i]
      BY <1>3, <1>6
    <2> QED BY <2>1, <1>3, <1>4, Joined
  <1> QED BY <1>1, <1>2, <1>7, <1>8

LEMMA ThreeAndOne ==
  ASSUME NEW a, NEW b, NEW c, NEW d
  PROVE  <<a, b, c>> \o <<d>> = <<a, b, c, d>>
  <1> DEFINE S == {a, b, c, d}
  <1>1. PICK s, v, x : s = <<a, b, c>> /\ v = <<d>> /\ x = <<a, b, c, d>>
    OBVIOUS
  <1>2. /\ s \in Seq(S) /\ v \in Seq(S) /\ x \in Seq(S)
        /\ Len(s) = 3 /\ Len(v) = 1 /\ Len(x) = 4
    BY <1>1
  <1>3. (\A i \in 1 .. 3 : x[i] = s[i]) /\ x[4] = v[1]
    BY <1>1
  <1> HIDE DEF S
  <1>4. s \o v = x
    <2>1. /\ Len(x) = Len(s) + Len(v)
          /\ \A i \in 1 .. Len(s) : x[i] = s[i]
          /\ \A i \in 1 .. Len(v) : x[Len(s) + i] = v[i]
      BY <1>2, <1>3
    <2> QED BY <2>1, <1>2, Joined
  <1> QED BY <1>1, <1>4

LEMMA FiveAndOne ==
  ASSUME NEW a, NEW b, NEW c, NEW d, NEW e, NEW f
  PROVE  <<a, b, c, d, e>> \o <<f>> = <<a, b, c, d, e, f>>
  <1> DEFINE S == {a, b, c, d, e, f}
  <1>1. PICK s, v, x : s = <<a, b, c, d, e>> /\ v = <<f>> /\ x = <<a, b, c, d, e, f>>
    OBVIOUS
  <1>2. /\ s \in Seq(S) /\ v \in Seq(S) /\ x \in Seq(S)
        /\ Len(s) = 5 /\ Len(v) = 1 /\ Len(x) = 6
    BY <1>1
  <1>3. (\A i \in 1 .. 5 : x[i] = s[i]) /\ x[6] = v[1]
    BY <1>1
  <1> HIDE DEF S
  <1>4. s \o v = x
    <2>1. /\ Len(x) = Len(s) + Len(v)
          /\ \A i \in 1 .. Len(s) : x[i] = s[i]
          /\ \A i \in 1 .. Len(v) : x[Len(s) + i] = v[i]
      BY <1>2, <1>3
    <2> QED BY <2>1, <1>2, Joined
  <1> QED BY <1>1, <1>4

-----------------------------------------------------------------------------
(* The function that RanAll chooses, which is known once one is at hand.   *)

Follows(f, e, s) == f = [i \in 0 .. Len(s) |-> IF i = 0 THEN e ELSE Ran(f[i - 1], s[i])]

LEMMA RunChosen ==
  ASSUME NEW e, NEW s, NEW g, Follows(g, e, s)
  PROVE  \E f : Follows(f, e, s) /\ RanAll(e, s) = f[Len(s)]
  <1>1. RanAll(e, s) = (CHOOSE f : Follows(f, e, s))[Len(s)]
    BY DEF RanAll, Follows
  <1>2. Follows(CHOOSE f : Follows(f, e, s), e, s)
    OBVIOUS
  <1> QED BY <1>1, <1>2

LEMMA RanSeven ==
  ASSUME NEW e, NEW c1, NEW c2, NEW c3, NEW c4, NEW c5, NEW c6, NEW c7
  PROVE  RanAll(e, <<c1, c2, c3, c4, c5, c6, c7>>)
           = Ran(Ran(Ran(Ran(Ran(Ran(Ran(e, c1), c2), c3), c4), c5), c6), c7)
  <1> DEFINE e1 == Ran(e, c1)
             e2 == Ran(e1, c2)
             e3 == Ran(e2, c3)
             e4 == Ran(e3, c4)
             e5 == Ran(e4, c5)
             e6 == Ran(e5, c6)
             e7 == Ran(e6, c7)
             g == [i \in 0 .. 7 |-> CASE i = 0 -> e [] i = 1 -> e1 [] i = 2 -> e2 [] i = 3 -> e3
                                      [] i = 4 -> e4 [] i = 5 -> e5 [] i = 6 -> e6 [] i = 7 -> e7]
  <1>1. PICK s : s = <<c1, c2, c3, c4, c5, c6, c7>>
    OBVIOUS
  <1>2. Len(s) = 7 /\ s[1] = c1 /\ s[2] = c2 /\ s[3] = c3 /\ s[4] = c4 /\ s[5] = c5 /\ s[6] = c6 /\ s[7] = c7
    BY <1>1
  <1>3. Follows(g, e, s)
    BY <1>2 DEF Follows
  <1>4. PICK f : Follows(f, e, s) /\ RanAll(e, s) = f[Len(s)]
    BY <1>3, RunChosen
  <1>5. f[0] = e /\ \A i \in 1 .. 7 : f[i] = Ran(f[i - 1], s[i])
    BY <1>4, <1>2 DEF Follows
  <1>6. f[1] = e1 /\ f[2] = e2 /\ f[3] = e3 /\ f[4] = e4
    BY <1>5, <1>2
  <1>7. f[5] = e5 /\ f[6] = e6 /\ f[7] = e7
    BY <1>5, <1>6, <1>2
  <1> QED BY <1>1, <1>2, <1>4, <1>7

LEMMA RanNine ==
  ASSUME NEW e, NEW c1, NEW c2, NEW c3, NEW c4, NEW c5, NEW c6, NEW c7, NEW c8, NEW c9
  PROVE  RanAll(e, <<c1, c2, c3, c4, c5, c6, c7, c8, c9>>)
           = Ran(Ran(Ran(Ran(Ran(Ran(Ran(Ran(Ran(e, c1), c2), c3), c4), c5), c6), c7), c8), c9)
  <1> DEFINE e1 == Ran(e, c1)
             e2 == Ran(e1, c2)
             e3 == Ran(e2, c3)
             e4 == Ran(e3, c4)
             e5 == Ran(e4, c5)
             e6 == Ran(e5, c6)
             e7 == Ran(e6, c7)
             e8 == Ran(e7, c8)
             e9 == Ran(e8, c9)
             g == [i \in 0 .. 9 |-> CASE i = 0 -> e [] i = 1 -> e1 [] i = 2 -> e2 [] i = 3 -> e3
                                      [] i = 4 -> e4 [] i = 5 -> e5 [] i = 6 -> e6 [] i = 7 -> e7
                                      [] i = 8 -> e8 [] i = 9 -> e9]
  <1>1. PICK s : s = <<c1, c2, c3, c4, c5, c6, c7, c8, c9>>
    OBVIOUS
  <1>2. /\ Len(s) = 9 /\ s[1] = c1 /\ s[2] = c2 /\ s[3] = c3 /\ s[4] = c4 /\ s[5] = c5
        /\ s[6] = c6 /\ s[7] = c7 /\ s[8] = c8 /\ s[9] = c9
    BY <1>1
  <1>3. Follows(g, e, s)
    BY <1>2 DEF Follows
  <1>4. PICK f : Follows(f, e, s) /\ RanAll(e, s) = f[Len(s)]
    BY <1>3, RunChosen
  <1>5. f[0] = e /\ \A i \in 1 .. 9 : f[i] = Ran(f[i - 1], s[i])
    BY <1>2, <1>4 DEF Follows
  <1>6. f[1] = e1 /\ f[2] = e2 /\ f[3] = e3 /\ f[4] = e4 /\ f[5] = e5
    BY <1>2, <1>5
  <1>7. f[6] = e6 /\ f[7] = e7 /\ f[8] = e8 /\ f[9] = e9
    BY <1>2, <1>5, <1>6
  <1> QED BY <1>1, <1>2, <1>4, <1>7

-----------------------------------------------------------------------------
(* What one command makes of an interface that takes it *)

LEMMA NoInterface == \A e \in Interfaces : e # None /\ e # Broken
  BY InterfaceAssumption DEF Interfaces, Broken

LEMMA LinkAdded ==
  ASSUME NEW m, NEW l, NEW r
  PROVE  Ran(None, LinkAdd(m, l, r)) = Interface(m, l, r)
  <1>1. PICK c : c = LinkAdd(m, l, r)
    OBVIOUS
  <1>2. c.verb = "link add" /\ c.mode = m /\ c.local = l /\ c.remote = r
    <2>1. /\ LinkAdd(m, l, r).verb = "link add" /\ LinkAdd(m, l, r).mode = m
          /\ LinkAdd(m, l, r).local = l /\ LinkAdd(m, l, r).remote = r
      BY DEF LinkAdd
    <2> QED BY <1>1, <2>1
  <1>3. Takes(None, c)
    BY <1>2, Zenon DEF Takes
  <1>4. Made(None, c) = Interface(c.mode, c.local, c.remote)
    BY <1>2, Zenon DEF Made
  <1>5. Ran(None, c) = Made(None, c)
    BY <1>3, Zenon DEF Ran
  <1> QED BY <1>1, <1>2, <1>4, <1>5

LEMMA UpSet ==
  ASSUME NEW e \in Interfaces
  PROVE  Ran(e, SetUp) = [e EXCEPT !.up = TRUE]
  <1>1. PICK c : c = SetUp
    OBVIOUS
  <1>2. c.verb = "link up"
    <2>1. SetUp.verb = "link up"
      BY DEF SetUp
    <2> QED BY <1>1, <2>1
  <1>3. Takes(e, c)
    BY <1>2, NoInterface, Zenon DEF Takes
  <1>4. Made(e, c) = [e EXCEPT !.up = TRUE]
    BY <1>2, Zenon DEF Made
  <1>5. Ran(e, c) = Made(e, c)
    BY <1>3, Zenon DEF Ran
  <1> QED BY <1>1, <1>2, <1>4, <1>5

LEMMA AddressAdded ==
  ASSUME NEW e \in Interfaces, NEW net, NEW host, <<net, host>> \notin e.addrs
  PROVE  Ran(e, Address(net, host)) = [e EXCEPT !.addrs = @ \cup {<<net, host>>}]
  <1>1. PICK c : c = Address(net, host)
    OBVIOUS
  <1>2. c.verb = "addr add" /\ c.addr = <<net, host>>
    <2>1. Address(net, host).verb = "addr add" /\ Address(net, host).addr = <<net, host>>
      BY DEF Address
    <2> QED BY <1>1, <2>1
  <1>3. Takes(e, c)
    BY <1>2, NoInterface, Zenon DEF Takes
  <1>4. Made(e, c) = [e EXCEPT !.addrs = @ \cup {c.addr}]
    BY <1>2, Zenon DEF Made
  <1>5. Ran(e, c) = Made(e, c)
    BY <1>3, Zenon DEF Ran
  <1> QED BY <1>1, <1>2, <1>4, <1>5

LEMMA RouteAdded ==
  ASSUME NEW e \in Interfaces, NEW via, e.up, ~e.default, OnLink(e, via)
  PROVE  Ran(e, DefaultRoute(via)) = [e EXCEPT !.default = TRUE]
  <1>1. PICK c : c = DefaultRoute(via)
    OBVIOUS
  <1>2. c.verb = "default route" /\ c.via = via
    <2>1. DefaultRoute(via).verb = "default route" /\ DefaultRoute(via).via = via
      BY DEF DefaultRoute
    <2> QED BY <1>1, <2>1
  <1>3. Takes(e, c)
    BY <1>2, NoInterface, Zenon DEF Takes
  <1>4. Made(e, c) = [e EXCEPT !.default = TRUE]
    BY <1>2, Zenon DEF Made
  <1>5. Ran(e, c) = Made(e, c)
    BY <1>3, Zenon DEF Ran
  <1> QED BY <1>1, <1>2, <1>4, <1>5

LEMMA KeySet ==
  ASSUME NEW e \in Interfaces, NEW key
  PROVE  Ran(e, KeyFile(key)) = [e EXCEPT !.key = key]
  <1>1. PICK c : c = KeyFile(key)
    OBVIOUS
  <1>2. c.verb = "key file" /\ c.key = key
    <2>1. KeyFile(key).verb = "key file" /\ KeyFile(key).key = key
      BY DEF KeyFile
    <2> QED BY <1>1, <2>1
  <1>3. Takes(e, c)
    BY <1>2, NoInterface, Zenon DEF Takes
  <1>4. Made(e, c) = [e EXCEPT !.key = c.key]
    BY <1>2, Zenon DEF Made
  <1>5. Ran(e, c) = Made(e, c)
    BY <1>3, Zenon DEF Ran
  <1> QED BY <1>1, <1>2, <1>4, <1>5

LEMMA ServerSet ==
  ASSUME NEW e \in Interfaces, NEW k, NEW ip, e.mode = "wg", e.key # None
  PROVE  Ran(e, WgSet(k, ip)) = [e EXCEPT !.server = <<k, ip>>]
  <1>1. PICK c : c = WgSet(k, ip)
    OBVIOUS
  <1>2. c.verb = "wg set" /\ c.server = <<k, ip>>
    <2>1. WgSet(k, ip).verb = "wg set" /\ WgSet(k, ip).server = <<k, ip>>
      BY DEF WgSet
    <2> QED BY <1>1, <2>1
  <1>3. Takes(e, c)
    BY <1>2, NoInterface, Zenon DEF Takes
  <1>4. Made(e, c) = [e EXCEPT !.server = c.server]
    BY <1>2, Zenon DEF Made
  <1>5. Ran(e, c) = Made(e, c)
    BY <1>3, Zenon DEF Ran
  <1> QED BY <1>1, <1>2, <1>4, <1>5

Moved(e, l, r) == [e EXCEPT !.local = l, !.remote = r]

LEMMA LinkChanged ==
  ASSUME NEW e \in Interfaces, NEW m, NEW l, NEW r, e.mode = m
  PROVE  Ran(e, LinkChange(m, r, l)) = Moved(e, l, r)
  <1>1. PICK c : c = LinkChange(m, r, l)
    OBVIOUS
  <1>2. c.verb = "link change" /\ c.mode = m /\ c.local = l /\ c.remote = r
    <2>1. LinkChange(m, r, l).verb = "link change" /\ LinkChange(m, r, l).mode = m /\ LinkChange(m, r, l).local = l /\ LinkChange(m, r, l).remote = r
      BY DEF LinkChange
    <2> QED BY <1>1, <2>1
  <1>3. Takes(e, c)
    BY <1>2, NoInterface, Zenon DEF Takes
  <1>4. Made(e, c) = Moved(e, c.local, c.remote)
    BY <1>2, Zenon DEF Made, Moved
  <1>5. Ran(e, c) = Made(e, c)
    BY <1>3, Zenon DEF Ran
  <1> QED BY <1>1, <1>2, <1>4, <1>5

-----------------------------------------------------------------------------
(* The interface of a tunnel on its way: which addresses it has got, and   *)
(* the end of a tunnel, whose link leaves from the address local.          *)
AddrsOf(t) == {<<t.ula, 2>>, <<Net(t.p1), 1>>, <<Net(t.p2), 1>>, <<Net(t.p3), 1>>}

LinkAt(t, local, up, addrs, default) ==
    [mode |-> t.type, local |-> local, remote |-> ServerIP, up |-> up,
     addrs |-> addrs, default |-> default, key |-> None, server |-> None]

WgAt(up, addrs, default, key, server) ==
    [mode |-> "wg", local |-> None, remote |-> None, up |-> up,
     addrs |-> addrs, default |-> default, key |-> key, server |-> server]

LinkEnd(t, local) == LinkAt(t, local, TRUE, AddrsOf(t), TRUE)

WgEnd(t) == WgAt(TRUE, AddrsOf(t), TRUE, t.key, <<ServerKey, ServerIP>>)

End(t, local) == IF t.type = "wg" THEN WgEnd(t) ELSE LinkEnd(t, local)

(* One address more.                                                       *)
With(addrs, net, host) == addrs \cup {<<net, host>>}

Addrs == SUBSET ((Nets \cup Ulas) \X {1, 2})

LEMMA LinkAtTyped ==
  ASSUME NEW t \in Row, NEW ip \in IPs, NEW up \in BOOLEAN, NEW addrs \in Addrs, NEW default \in BOOLEAN
  PROVE  LinkAt(t, ip, up, addrs, default) \in Interfaces
  BY DEF LinkAt, Interfaces, Row, Addrs

LEMMA WgAtTyped ==
  ASSUME NEW up \in BOOLEAN, NEW addrs \in Addrs, NEW default \in BOOLEAN, "wg" \in Types,
         NEW key \in Keys \cup {None}, NEW server \in {<<ServerKey, ServerIP>>, None}
  PROVE  WgAt(up, addrs, default, key, server) \in Interfaces
  BY DEF WgAt, Interfaces, Addrs

LEMMA LinkRoute ==
  ASSUME NEW t \in Row, NEW ip \in IPs, NEW addrs \in Addrs, <<t.ula, 2>> \in addrs
  PROVE  Ran(LinkAt(t, ip, TRUE, addrs, FALSE), DefaultRoute(Gateway(t)))
           = LinkAt(t, ip, TRUE, addrs, TRUE)
  <1>1. PICK e, f : e = LinkAt(t, ip, TRUE, addrs, FALSE) /\ f = LinkAt(t, ip, TRUE, addrs, TRUE)
    OBVIOUS
  <1>2. e \in Interfaces
    BY <1>1, LinkAtTyped
  <1>3. e.addrs = addrs /\ e.up = TRUE /\ e.default = FALSE
    BY <1>1 DEF LinkAt
  <1>4. OnLink(e, Gateway(t))
    BY <1>3 DEF OnLink, Gateway
  <1>5. Ran(e, DefaultRoute(Gateway(t))) = [e EXCEPT !.default = TRUE]
    BY <1>2, <1>3, <1>4, RouteAdded
  <1>6. Ran(e, DefaultRoute(Gateway(t))) = f
    BY <1>1, <1>5 DEF LinkAt
  <1> QED BY <1>1, <1>6

LEMMA LinkStarted ==
  ASSUME NEW t \in Row, NEW ip \in IPs
  PROVE  Ran(Ran(None, LinkAdd(t.type, ip, ServerIP)), SetUp) = LinkAt(t, ip, TRUE, {}, FALSE)
  <1>1. PICK e, f : e = LinkAt(t, ip, FALSE, {}, FALSE) /\ f = LinkAt(t, ip, TRUE, {}, FALSE)
    OBVIOUS
  <1>2. e \in Interfaces
    BY <1>1, LinkAtTyped DEF Addrs
  <1>3. Ran(None, LinkAdd(t.type, ip, ServerIP)) = e
    BY <1>1, LinkAdded DEF LinkAt, Interface
  <1>4. Ran(e, SetUp) = [e EXCEPT !.up = TRUE]
    BY <1>2, UpSet
  <1>5. Ran(e, SetUp) = f
    BY <1>1, <1>4 DEF LinkAt
  <1> QED BY <1>1, <1>3, <1>5

LEMMA WgAddress ==
  ASSUME NEW addrs \in Addrs, "wg" \in Types, NEW net, NEW host, <<net, host>> \notin addrs
  PROVE  Ran(WgAt(FALSE, addrs, FALSE, None, None), Address(net, host))
           = WgAt(FALSE, With(addrs, net, host), FALSE, None, None)
  <1>1. PICK e, f : e = WgAt(FALSE, addrs, FALSE, None, None) /\ f = WgAt(FALSE, With(addrs, net, host), FALSE, None, None)
    OBVIOUS
  <1>2. e \in Interfaces
    BY <1>1, WgAtTyped
  <1>3. e.addrs = addrs
    BY <1>1 DEF WgAt
  <1>4. Ran(e, Address(net, host)) = [e EXCEPT !.addrs = @ \cup {<<net, host>>}]
    BY <1>2, <1>3, AddressAdded
  <1>5. Ran(e, Address(net, host)) = f
    BY <1>1, <1>4 DEF WgAt, With
  <1> QED BY <1>1, <1>5

(* The last four commands of a WireGuard client.                           *)
LEMMA WgFinished ==
  ASSUME NEW addrs \in Addrs, "wg" \in Types, NEW key \in Keys
  PROVE  Ran(Ran(Ran(Ran(WgAt(FALSE, addrs, FALSE, None, None), KeyFile(key)),
                 WgSet(ServerKey, ServerIP)), SetUp), DefaultRoute(None))
           = WgAt(TRUE, addrs, TRUE, key, <<ServerKey, ServerIP>>)
  <1>1. PICK s : s = <<ServerKey, ServerIP>>
    OBVIOUS
  <1>2. PICK e, f, g, h : /\ e = WgAt(FALSE, addrs, FALSE, None, None)
                          /\ f = WgAt(FALSE, addrs, FALSE, key, None)
                          /\ g = WgAt(FALSE, addrs, FALSE, key, s)
                          /\ h = WgAt(TRUE, addrs, FALSE, key, s)
    OBVIOUS
  <1>3. e \in Interfaces /\ f \in Interfaces /\ g \in Interfaces /\ h \in Interfaces
    BY <1>1, <1>2, WgAtTyped
  <1>4. f.mode = "wg" /\ f.key # None /\ h.up = TRUE /\ h.default = FALSE
    BY <1>2, TableAssumption DEF WgAt
  <1>5. Ran(e, KeyFile(key)) = f
    <2>1. Ran(e, KeyFile(key)) = [e EXCEPT !.key = key]
      BY <1>3, KeySet
    <2> QED BY <1>2, <2>1 DEF WgAt
  <1>6. Ran(f, WgSet(ServerKey, ServerIP)) = g
    <2>1. Ran(f, WgSet(ServerKey, ServerIP)) = [f EXCEPT !.server = s]
      BY <1>1, <1>3, <1>4, ServerSet
    <2> QED BY <1>2, <2>1 DEF WgAt
  <1>7. Ran(g, SetUp) = h
    <2>1. Ran(g, SetUp) = [g EXCEPT !.up = TRUE]
      BY <1>3, UpSet
    <2> QED BY <1>2, <2>1 DEF WgAt
  <1>8. Ran(h, DefaultRoute(None)) = WgAt(TRUE, addrs, TRUE, key, s)
    <2>1. OnLink(h, None)
      BY DEF OnLink
    <2>2. Ran(h, DefaultRoute(None)) = [h EXCEPT !.default = TRUE]
      BY <1>3, <1>4, <2>1, RouteAdded
    <2> QED BY <1>2, <2>2 DEF WgAt
  <1> QED BY <1>1, <1>2, <1>5, <1>6, <1>7, <1>8

LEMMA AddressesApart ==
  ASSUME NEW t \in Row, WellFormed(t)
  PROVE  /\ {t.ula, Net(t.p1), Net(t.p2), Net(t.p3)} \subseteq Nets \cup Ulas
         /\ Net(t.p1) # Net(t.p2) /\ Net(t.p1) # Net(t.p3) /\ Net(t.p2) # Net(t.p3)
  <1>1. /\ Net(t.p1).pool = Primary[t.id[2]] /\ Net(t.p2).pool = Secondary[t.id[2]]
        /\ Net(t.p3).pool \in {Third, AltThird}
    BY DEF Net, Row, Prefix, WellFormed, FirstFromPool, SecondFromPool, ThirdFromPool
  <1>2. t.id[2] \in Slots
    BY DEF Row, Ids
  <1>3. PICK n : n = t.id[2]
    OBVIOUS
  <1>4. /\ Primary[n] # Secondary[n] /\ Primary[n] \notin {Third, AltThird}
        /\ Secondary[n] \notin {Third, AltThird}
    BY <1>2, <1>3, PoolAssumption
  <1>5. {t.ula, Net(t.p1), Net(t.p2), Net(t.p3)} \subseteq Nets \cup Ulas
    BY RowNets DEF Row
  <1> QED BY <1>1, <1>3, <1>4, <1>5

(* The four addresses, one after the other.                                *)
Stages4(t, s1, s2, s3, s4) ==
    /\ s1 = With({}, t.ula, 2) /\ s2 = With(s1, Net(t.p1), 1)
    /\ s3 = With(s2, Net(t.p2), 1) /\ s4 = With(s3, Net(t.p3), 1)
    /\ <<Net(t.p1), 1>> \notin s1 /\ <<Net(t.p2), 1>> \notin s2 /\ <<Net(t.p3), 1>> \notin s3
    /\ <<t.ula, 2>> \in s3 /\ <<t.ula, 2>> \in s4
    /\ {} \in Addrs /\ s1 \in Addrs /\ s2 \in Addrs /\ s3 \in Addrs /\ s4 \in Addrs
    /\ s4 = AddrsOf(t)

LEMMA FourAddresses ==
  ASSUME NEW t \in Row, WellFormed(t)
  PROVE  \E s1, s2, s3, s4 : Stages4(t, s1, s2, s3, s4)
  <1>1. PICK a1, a2, a3, a4 :
           a1 = <<t.ula, 2>> /\ a2 = <<Net(t.p1), 1>> /\ a3 = <<Net(t.p2), 1>> /\ a4 = <<Net(t.p3), 1>>
    OBVIOUS
  <1>2. /\ {a1, a2, a3, a4} \subseteq (Nets \cup Ulas) \X {1, 2}
        /\ a1 # a2 /\ a1 # a3 /\ a1 # a4 /\ a2 # a3 /\ a2 # a4 /\ a3 # a4
    BY <1>1, AddressesApart
  <1>3. PICK s1, s2, s3, s4 :
           s1 = {} \cup {a1} /\ s2 = s1 \cup {a2} /\ s3 = s2 \cup {a3} /\ s4 = s3 \cup {a4}
    OBVIOUS
  <1>4. {} \in Addrs /\ s1 \in Addrs /\ s2 \in Addrs /\ s3 \in Addrs /\ s4 \in Addrs
    BY <1>2, <1>3 DEF Addrs
  <1>5. a2 \notin s1 /\ a3 \notin s2 /\ a4 \notin s3 /\ a1 \in s3 /\ a1 \in s4
    BY <1>2, <1>3
  <1>6. s4 = AddrsOf(t)
    BY <1>1, <1>3 DEF AddrsOf
  <1>7. /\ s1 = With({}, t.ula, 2) /\ s2 = With(s1, Net(t.p1), 1)
        /\ s3 = With(s2, Net(t.p2), 1) /\ s4 = With(s3, Net(t.p3), 1)
    BY <1>1, <1>3 DEF With
  <1> QED BY <1>1, <1>4, <1>5, <1>6, <1>7 DEF Stages4

(* An address more on the client's link.                                   *)
LEMMA LinkAddresses ==
  ASSUME NEW t \in Row
  PROVE  \A addrs \in Addrs : \A net, host : <<net, host>> \notin addrs =>
           /\ Ran(LinkAt(t, t.ip, TRUE, addrs, FALSE), Address(net, host))
                = LinkAt(t, t.ip, TRUE, With(addrs, net, host), FALSE)
           /\ Ran(LinkAt(t, t.ip, TRUE, addrs, TRUE), Address(net, host))
                = LinkAt(t, t.ip, TRUE, With(addrs, net, host), TRUE)
  <1> SUFFICES ASSUME NEW addrs \in Addrs, NEW net, NEW host, <<net, host>> \notin addrs
               PROVE  /\ Ran(LinkAt(t, t.ip, TRUE, addrs, FALSE), Address(net, host))
                            = LinkAt(t, t.ip, TRUE, With(addrs, net, host), FALSE)
                      /\ Ran(LinkAt(t, t.ip, TRUE, addrs, TRUE), Address(net, host))
                            = LinkAt(t, t.ip, TRUE, With(addrs, net, host), TRUE)
    OBVIOUS
  <1>1. PICK ip \in IPs : ip = t.ip
    BY DEF Row
  <1>2. Ran(LinkAt(t, ip, TRUE, addrs, FALSE), Address(net, host))
          = LinkAt(t, ip, TRUE, With(addrs, net, host), FALSE)
    <2>1. PICK e, f : e = LinkAt(t, ip, TRUE, addrs, FALSE) /\ f = LinkAt(t, ip, TRUE, With(addrs, net, host), FALSE)
      OBVIOUS
    <2>2. e \in Interfaces
      BY <2>1, LinkAtTyped
    <2>3. e.addrs = addrs
      BY <2>1 DEF LinkAt
    <2>4. Ran(e, Address(net, host)) = [e EXCEPT !.addrs = @ \cup {<<net, host>>}]
      BY <2>2, <2>3, AddressAdded
    <2>5. Ran(e, Address(net, host)) = f
      BY <2>1, <2>4 DEF LinkAt, With
    <2> QED BY <2>1, <2>5
  <1>3. Ran(LinkAt(t, ip, TRUE, addrs, TRUE), Address(net, host))
          = LinkAt(t, ip, TRUE, With(addrs, net, host), TRUE)
    <2>1. PICK e, f : e = LinkAt(t, ip, TRUE, addrs, TRUE) /\ f = LinkAt(t, ip, TRUE, With(addrs, net, host), TRUE)
      OBVIOUS
    <2>2. e \in Interfaces
      BY <2>1, LinkAtTyped
    <2>3. e.addrs = addrs
      BY <2>1 DEF LinkAt
    <2>4. Ran(e, Address(net, host)) = [e EXCEPT !.addrs = @ \cup {<<net, host>>}]
      BY <2>2, <2>3, AddressAdded
    <2>5. Ran(e, Address(net, host)) = f
      BY <2>1, <2>4 DEF LinkAt, With
    <2> QED BY <2>1, <2>5
  <1> QED BY <1>1, <1>2, <1>3

LEMMA LinkBuilt ==
  ASSUME NEW t \in Row, WellFormed(t), t.type # "wg"
  PROVE  /\ RanAll(None, CreationCommands(t)) = LinkEnd(t, t.ip)
         /\ RanAll(None, generateTunnelCommands(t).client) = LinkEnd(t, t.ip)
  <1> DEFINE e(addrs) == LinkAt(t, t.ip, TRUE, addrs, FALSE)
             d(addrs) == LinkAt(t, t.ip, TRUE, addrs, TRUE)
  <1>1. PICK s1, s2, s3, s4 : Stages4(t, s1, s2, s3, s4)
    BY FourAddresses
  <1>2. t.ip \in IPs
    BY DEF Row
  <1>3. Ran(Ran(None, LinkAdd(t.type, t.ip, ServerIP)), SetUp) = e({})
    BY <1>2, LinkStarted
  <1>4. \A addrs \in Addrs : \A net, host : <<net, host>> \notin addrs =>
          /\ Ran(e(addrs), Address(net, host)) = e(With(addrs, net, host))
          /\ Ran(d(addrs), Address(net, host)) = d(With(addrs, net, host))
    BY LinkAddresses
  <1>5. Ran(e(s4), DefaultRoute(Gateway(t))) = d(s4)
    <2>1. <<t.ula, 2>> \in s4
      BY <1>1 DEF Stages4
    <2> QED BY <1>1, <1>2, <2>1, LinkRoute DEF Stages4
  <1>6. Ran(e(s3), DefaultRoute(Gateway(t))) = d(s3)
    <2>1. <<t.ula, 2>> \in s3
      BY <1>1 DEF Stages4
    <2> QED BY <1>1, <1>2, <2>1, LinkRoute DEF Stages4
  <1>7. CreationCommands(t) = <<LinkAdd(t.type, t.ip, ServerIP), SetUp, Address(t.ula, 2), Address(Net(t.p1), 1),
                                Address(Net(t.p2), 1), Address(Net(t.p3), 1), DefaultRoute(Gateway(t))>>
    BY TwoFourOne DEF CreationCommands, Addresses
  <1>8. generateTunnelCommands(t).client =
          <<LinkAdd(t.type, t.ip, ServerIP), SetUp, Address(t.ula, 2), Address(Net(t.p1), 1),
            Address(Net(t.p2), 1), DefaultRoute(Gateway(t)), Address(Net(t.p3), 1)>>
    BY TwoThreeTwo DEF generateTunnelCommands, Addresses
  <1>9. LinkEnd(t, t.ip) = d(s4)
    BY <1>1 DEF LinkEnd, Stages4
  <1> HIDE DEF e, d
  <1>10. /\ Ran(e({}), Address(t.ula, 2)) = e(s1)
        /\ Ran(e(s1), Address(Net(t.p1), 1)) = e(s2)
        /\ Ran(e(s2), Address(Net(t.p2), 1)) = e(s3)
        /\ Ran(e(s3), Address(Net(t.p3), 1)) = e(s4)
        /\ Ran(d(s3), Address(Net(t.p3), 1)) = d(s4)
    BY <1>1, <1>4 DEF Stages4
  <1>11. RanAll(None, CreationCommands(t)) = d(s4)
    BY <1>3, <1>10, <1>5, <1>7, RanSeven
  <1>12. RanAll(None, generateTunnelCommands(t).client) = d(s4)
    BY <1>3, <1>10, <1>6, <1>8, RanSeven
  <1> QED BY <1>9, <1>11, <1>12

LEMMA WgBuilt ==
  ASSUME NEW t \in Row, WellFormed(t), t.type = "wg"
  PROVE  RanAll(None, WireGuardClient(t)) = WgEnd(t)
  <1> DEFINE e(addrs) == WgAt(FALSE, addrs, FALSE, None, None)
  <1>1. PICK s1, s2, s3, s4 : Stages4(t, s1, s2, s3, s4)
    BY FourAddresses
  <1>2. t.key \in Keys /\ "wg" \in Types
    BY DEF WellFormed, KeyIfWg, Row
  <1>3. Ran(None, LinkAdd("wg", None, None)) = e({})
    BY LinkAdded DEF Interface, WgAt
  <1>4. /\ Ran(e({}), Address(t.ula, 2)) = e(s1)
        /\ Ran(e(s1), Address(Net(t.p1), 1)) = e(s2)
        /\ Ran(e(s2), Address(Net(t.p2), 1)) = e(s3)
        /\ Ran(e(s3), Address(Net(t.p3), 1)) = e(s4)
    <2>2. Ran(e({}), Address(t.ula, 2)) = e(s1)
      <3>1. /\ {} \in Addrs /\ s1 = With({}, t.ula, 2) /\ <<t.ula, 2>> \notin {}
        BY <1>1 DEF Stages4
      <3> QED BY <1>2, <3>1, WgAddress
    <2>3. Ran(e(s1), Address(Net(t.p1), 1)) = e(s2)
      <3>1. /\ s1 \in Addrs /\ s2 = With(s1, Net(t.p1), 1) /\ <<Net(t.p1), 1>> \notin s1
        BY <1>1 DEF Stages4
      <3> QED BY <1>2, <3>1, WgAddress
    <2>4. Ran(e(s2), Address(Net(t.p2), 1)) = e(s3)
      <3>1. /\ s2 \in Addrs /\ s3 = With(s2, Net(t.p2), 1) /\ <<Net(t.p2), 1>> \notin s2
        BY <1>1 DEF Stages4
      <3> QED BY <1>2, <3>1, WgAddress
    <2>5. Ran(e(s3), Address(Net(t.p3), 1)) = e(s4)
      <3>1. /\ s3 \in Addrs /\ s4 = With(s3, Net(t.p3), 1) /\ <<Net(t.p3), 1>> \notin s3
        BY <1>1 DEF Stages4
      <3> QED BY <1>2, <3>1, WgAddress
    <2> QED BY <2>2, <2>3, <2>4, <2>5
  <1>5. Ran(Ran(Ran(Ran(e(s4), KeyFile(t.key)), WgSet(ServerKey, ServerIP)), SetUp),
            DefaultRoute(None)) = WgEnd(t)
    BY <1>1, <1>2, WgFinished DEF WgEnd, Stages4
  <1>6. WireGuardClient(t) =
           <<LinkAdd("wg", None, None), Address(t.ula, 2), Address(Net(t.p1), 1), Address(Net(t.p2), 1),
             Address(Net(t.p3), 1), KeyFile(t.key), WgSet(ServerKey, ServerIP), SetUp, DefaultRoute(None)>>
    BY OneFourFour DEF WireGuardClient, Addresses
  <1> HIDE DEF e
  <1> QED BY <1>3, <1>4, <1>5, <1>6, RanNine

-----------------------------------------------------------------------------
(* The invariant: the client of a tunnel without trouble has its end, from *)
(* the stored address or from an earlier one while its update is not told. *)

Owed(id) == \E w \in Workers : ActsOn(w, id) /\ req[w].pc = "select"

AtEnd(t) == \E ip \in IPs : client[t.id] = End(t, ip) /\ (ip = t.ip \/ Owed(t.id))

ClientInv == \A t \in tunnels : t.id \notin troubled => AtEnd(t)

LEMMA EndTyped ==
  ASSUME NEW t \in Row, WellFormed(t), NEW ip \in IPs
  PROVE  End(t, ip) \in Interfaces
  <1>1. AddrsOf(t) \in Addrs
    BY FourAddresses DEF Stages4
  <1>2. CASE t.type = "wg"
    <2>1. t.key \in Keys /\ "wg" \in Types
      BY <1>2 DEF WellFormed, KeyIfWg, Row
    <2>2. WgEnd(t) \in Interfaces
      BY <1>1, <2>1, WgAtTyped DEF WgEnd
    <2> QED BY <1>2, <2>2 DEF End
  <1>3. CASE t.type # "wg"
    BY <1>1, <1>3, LinkAtTyped DEF End, LinkEnd
  <1> QED BY <1>2, <1>3

(* Two rows with the same fields, but for the address, have the same end.  *)
SameEnd(s, t) ==
    /\ s.id = t.id /\ s.type = t.type /\ s.ula = t.ula /\ s.key = t.key
    /\ s.p1 = t.p1 /\ s.p2 = t.p2 /\ s.p3 = t.p3

LEMMA EndKept ==
  ASSUME NEW s, NEW t, SameEnd(s, t), NEW ip
  PROVE  End(s, ip) = End(t, ip)
  BY DEF SameEnd, End, WgEnd, LinkEnd, WgAt, LinkAt, AddrsOf

LEMMA WgEndFixed ==
  ASSUME NEW t, t.type = "wg", NEW ip, NEW other
  PROVE  End(t, ip) = End(t, other)
  BY DEF End

(* The client of a tunnel that this step tells nothing.                    *)
LEMMA Untold ==
  ASSUME ClientsTold, NEW t \in Row, WellFormed(t), AtEnd(t),
         NEW s \in tunnels', s \in Row, SameEnd(s, t), s.id \notin troubled',
         \A w \in Writers : req'[w].id # s.id,
         s.type = "wg" \/ ((s.ip = t.ip \/ Owed(s.id)') /\ (Owed(t.id) => Owed(t.id)'))
  PROVE  AtEnd(s)'
  <1>1. PICK ip \in IPs : client[t.id] = End(t, ip) /\ (ip = t.ip \/ Owed(t.id))
    BY DEF AtEnd
  <1>2. client[t.id] # None
    BY <1>1, EndTyped, NoInterface
  <1>3. s.id = t.id /\ s.type = t.type /\ s.id \in Ids /\ s.ip \in IPs
    BY DEF SameEnd, Row
  <1>4. client'[s.id] = client[s.id]
    <2>1. TunnelIDExists(s.id)'
      BY DEF TunnelIDExists
    <2>2. PICK id : id = s.id
      OBVIOUS
    <2>3. TunnelIDExists(id)' /\ client[id] # None /\ id \in Ids
      BY <1>2, <1>3, <2>1, <2>2
    <2> QED BY <2>2, <2>3 DEF ClientsTold
  <1>5. client'[s.id] = End(s, ip)
    BY <1>1, <1>3, <1>4, EndKept
  <1>6. CASE s.type = "wg"
    <2>1. End(s, ip) = End(s, s.ip)
      BY <1>6, WgEndFixed
    <2> QED BY <1>3, <1>5, <2>1 DEF AtEnd
  <1>7. CASE (s.ip = t.ip \/ Owed(s.id)') /\ (Owed(t.id) => Owed(t.id)')
    <2>1. ip = s.ip \/ Owed(s.id)'
      BY <1>1, <1>3, <1>7
    <2> QED BY <1>5, <2>1 DEF AtEnd
  <1> QED BY <1>6, <1>7

(* The client of a tunnel that this step tells something.                  *)
LEMMA OneTold ==
  ASSUME ClientsTold, Noted, NEW w \in Writers, NEW id \in Ids, id \notin troubled', req'[w].id = id
  PROVE  client'[id] = Told(w, client[id])
  <1>1. \A v \in Writers : req'[v].id = id => v = w
    BY DEF Writers, Noted, Overlapping, ActsOn
  <1>2. (CHOOSE v \in Writers : req'[v].id = id) = w
    BY <1>1
  <1> QED BY <1>2 DEF ClientsTold

(* A row that stays as it is, of a tunnel that this step tells nothing.    *)
LEMMA RowStays ==
  ASSUME IInv, ClientInv, ClientsTold, Noted, NEW s \in tunnels \cap tunnels', s.id \notin troubled',
         \A w \in Writers : req'[w].id # s.id,
         s.type = "wg" \/ (Owed(s.id) => Owed(s.id)')
  PROVE  AtEnd(s)'
  <1>1. s \in Row /\ WellFormed(s) /\ AtEnd(s)
    BY DEF IInv, TypeOK, RowsWellFormed, ClientInv, Noted
  <1>2. SameEnd(s, s)
    BY DEF SameEnd
  <1> QED BY <1>1, <1>2, Untold

(* A step that tells nobody anything.                                      *)
LEMMA QuietClients ==
  ASSUME IInv, ClientInv, ClientsTold, Noted, NEW w \in Workers, NEW r, Become(w, r),
         \A s \in tunnels' : s.id \notin troubled' => s \in tunnels,
         req[w].pc \in {"commit", "select"} => r.pc # "exec",
         req[w].pc = "select" =>
             \A t \in tunnels : t.id = req[w].id /\ t.id \notin troubled' => t.type = "wg"
  PROVE  ClientInv'
  <1>1. req'[w] = r /\ \A v \in Workers \ {w} : req'[v] = req[v]
    BY Others DEF IInv, TypeOK
  <1>2. Writers = {}
    BY <1>1 DEF Writers
  <1>3. ASSUME NEW s \in tunnels', s.id \notin troubled' PROVE AtEnd(s)'
    <2>1. s \in tunnels
      BY <1>3
    <2>2. s.type = "wg" \/ (Owed(s.id) => Owed(s.id)')
      BY <1>1, <1>3, <2>1 DEF Owed, ActsOn
    <2> QED BY <1>2, <1>3, <2>1, <2>2, RowStays
  <1> QED BY <1>3 DEF ClientInv

LEMMA CommitClients ==
  ASSUME IInv, ClientInv, ClientsTold, Noted, NEW w \in Workers, Commit(w)
  PROVE  ClientInv'
  <1>a. PICK row : row = req[w].row
    OBVIOUS
  <1>b. PICK r : r = [req[w] EXCEPT !.pc = "exec", !.id = row.id, !.row = Needed(row),
                                    !.todo = CreateCommands(row)]
    OBVIOUS
  <1>0. /\ req[w] \in Request /\ LocalOK
        /\ At(w, "create", "commit") /\ tunnels' = tunnels \cup {row} /\ ~TunnelIDExists(row.id)
    BY <1>a, IInvParts DEF IInv, TypeOK, Commit, CreateTunnelWithTransaction
  <1>1. row \in Row /\ WellFormed(row) /\ row.id \in Ids /\ row.ip \in IPs
    BY <1>0, <1>a, DraftComplete DEF Row
  <1>2. r.pc = "exec" /\ r.id = row.id /\ Become(w, r)
    BY <1>0, <1>a, <1>b DEF Request, Commit
  <1>3. req'[w] = r /\ \A v \in Workers \ {w} : req'[v] = req[v]
    BY <1>2, Others DEF IInv, TypeOK
  <1>4. w \in Writers /\ \A v \in Writers : v = w
    BY <1>0, <1>2, <1>3 DEF Writers, At
  <1>5. ASSUME NEW s \in tunnels', s.id \notin troubled' PROVE AtEnd(s)'
    <2>1. CASE s = row
      <3>1. client'[row.id] = Told(w, client[row.id])
        BY <1>1, <1>2, <1>3, <1>4, <1>5, <2>1, OneTold
      <3>2. client'[row.id] = RanAll(None, CreationCommands(row))
        BY <1>0, <1>a, <3>1 DEF Told, At
      <3>3. RanAll(None, CreationCommands(row)) = End(row, row.ip)
        BY <1>1, LinkBuilt, WgBuilt DEF End, CreationCommands
      <3> QED BY <1>1, <2>1, <3>2, <3>3 DEF AtEnd
    <2>2. CASE s # row
      <3>1. s \in tunnels /\ s.id # row.id
        BY <1>0, <2>2 DEF TunnelIDExists
      <3>2. \A v \in Writers : req'[v].id # s.id
        BY <1>2, <1>3, <1>4, <3>1
      <3>3. Owed(s.id) => Owed(s.id)'
        BY <1>0, <1>3 DEF Owed, ActsOn, At
      <3> QED BY <1>5, <3>1, <3>2, <3>3, RowStays
    <2> QED BY <2>1, <2>2
  <1> QED BY <1>5 DEF ClientInv

LEMMA UpdateClients ==
  ASSUME IInv, IInv', ClientInv, ClientsTold, Noted, NEW w \in Workers, UpdateIP(w)
  PROVE  ClientInv'
  <1>a. PICK r : r = [req[w] EXCEPT !.pc = "select"]
    OBVIOUS
  <1>b. PICK id : id = req[w].id
    OBVIOUS
  <1>0. /\ req[w] \in Request /\ tunnels \subseteq Row /\ tunnels' \subseteq Row
        /\ req[w].pc = "update" /\ UpdateClientIPv4(id, req[w].ip)
    BY <1>b DEF IInv, TypeOK, UpdateIP, At
  <1>1. r.pc = "select" /\ r.id = id /\ r.ip = req[w].ip /\ Become(w, r)
    BY <1>0, <1>a, <1>b DEF Request, UpdateIP
  <1>2. req'[w] = r /\ \A v \in Workers \ {w} : req'[v] = req[v]
    BY <1>1, Others DEF IInv, TypeOK
  <1>3. Writers = {} /\ \A i : Owed(i) => Owed(i)'
    BY <1>0, <1>1, <1>2 DEF Writers, Owed, ActsOn
  <1>4. /\ \A t \in tunnels' : \E s \in tunnels :
               /\ t.id = s.id /\ t.type = s.type /\ t.ula = s.ula /\ t.key = s.key
               /\ t.p1 = s.p1 /\ t.p2 = s.p2 /\ t.p3 = s.p3
        /\ \A t : t.id \notin {id} => (t \in tunnels' <=> t \in tunnels)
    BY <1>0, UpdatedRow
  <1>5. ASSUME NEW s \in tunnels', s.id \notin troubled' PROVE AtEnd(s)'
    <2>1. CASE s.id = id
      <3>1. PICK t \in tunnels : SameEnd(s, t)
        BY <1>4 DEF SameEnd
      <3>2. t \in Row /\ WellFormed(t) /\ AtEnd(t) /\ s \in Row /\ s.id = t.id
        BY <1>0, <1>5, <3>1 DEF IInv, RowsWellFormed, ClientInv, Noted, SameEnd
      <3>3. Owed(s.id)'
        BY <1>1, <1>2, <2>1 DEF Owed, ActsOn
      <3> QED BY <1>3, <1>5, <3>1, <3>2, <3>3, Untold
    <2>2. CASE s.id # id
      BY <1>3, <1>4, <1>5, <2>2, RowStays
    <2> QED BY <2>1, <2>2
  <1> QED BY <1>5 DEF ClientInv

LEMMA EndMoved ==
  ASSUME NEW t \in Row, WellFormed(t), t.type # "wg", NEW old \in IPs, NEW ip \in IPs
  PROVE  Ran(End(t, old), UpdateCommand(t, ip)) = End(t, ip)
  <1>1. PICK e, f : e = End(t, old) /\ f = End(t, ip)
    OBVIOUS
  <1>2. e \in Interfaces
    BY <1>1, EndTyped
  <1>3. e.mode = t.type
    BY <1>1 DEF End, LinkEnd, LinkAt
  <1>4. Ran(e, UpdateCommand(t, ip)) = Moved(e, ip, ServerIP)
    <2>1. PICK m : m = t.type
      OBVIOUS
    <2>2. Ran(e, LinkChange(m, ServerIP, ip)) = Moved(e, ip, ServerIP)
      BY <1>2, <1>3, <2>1, LinkChanged
    <2> QED BY <2>1, <2>2 DEF UpdateCommand
  <1>5. Ran(e, UpdateCommand(t, ip)) = f
    BY <1>1, <1>4 DEF End, LinkEnd, LinkAt, Moved
  <1> QED BY <1>1, <1>5

LEMMA ReselectClients ==
  ASSUME IInv, IsolationInv, ClientInv, ClientsTold, Noted, NEW w \in Workers, Reselect(w)
  PROVE  ClientInv'
  <1>b. PICK id : id = req[w].id
    OBVIOUS
  <1>0. /\ req[w] \in Request /\ tunnels \subseteq Row /\ tunnels' = tunnels
        /\ req[w].pc = "select" /\ req[w].op = "update" /\ StageOK(req[w])
    BY DEF IInv, TypeOK, Stages, Reselect, At, dbVars
  <1>1. id \in Ids /\ req[w].ip \in IPs
    BY <1>0, <1>b DEF StageOK
  <1>2. CASE Answer(w) /\ (~TunnelIDExists(req[w].id) \/ \E row \in GetTunnelByID(req[w].id) : row.type = "wg")
    <2>1. \A t \in tunnels : t.id = req[w].id => t.type = "wg"
      BY <1>2 DEF IInv, IdsUnique, GetTunnelByID, TunnelIDExists
    <2>2. Become(w, Idle) /\ Idle.pc # "exec"
      BY <1>2, IdleLocal DEF Answer
    <2> QED BY <1>0, <2>1, <2>2, QuietClients
  <1>3. ASSUME NEW row \in GetTunnelByID(req[w].id), row.type # "wg",
               Become(w, [req[w] EXCEPT !.pc = "exec",
                            !.todo = <<TunnelChange(row.id, row.type, req[w].ip)>>])
        PROVE  ClientInv'
    <2>b. PICK r : r = [req[w] EXCEPT !.pc = "exec", !.todo = <<TunnelChange(row.id, row.type, req[w].ip)>>]
      OBVIOUS
    <2>1. r.pc = "exec" /\ r.id = id /\ Become(w, r)
      BY <1>0, <1>3, <1>b, <2>b DEF Request
    <2>2. req'[w] = r /\ \A v \in Workers \ {w} : req'[v] = req[v]
      BY <2>1, Others DEF IInv, TypeOK
    <2>3. w \in Writers /\ \A v \in Writers : v = w
      BY <1>0, <2>1, <2>2 DEF Writers
    <2>4. row \in tunnels /\ row.id = id /\ row \in Row /\ WellFormed(row)
      BY <1>0, <1>b DEF GetTunnelByID, IInv, RowsWellFormed
    <2>5. ASSUME NEW s \in tunnels', s.id \notin troubled' PROVE AtEnd(s)'
      <3>1. CASE s.id = id
        <4>1. s = row /\ s \in tunnels
          BY <1>0, <2>4, <3>1 DEF IInv, IdsUnique
        <4>2. client'[id] = Told(w, client[id])
          BY <1>1, <2>1, <2>2, <2>3, <2>5, <3>1, OneTold
        <4>3. (CHOOSE t \in tunnels : t.id = id) = row
          BY <2>4 DEF IInv, IdsUnique
        <4>4. client'[id] = Ran(client[id], UpdateCommand(row, req[w].ip))
          BY <1>0, <1>b, <4>2, <4>3 DEF Told
        <4>5. PICK old \in IPs : client[id] = End(row, old)
          BY <2>4, <2>5, <4>1 DEF ClientInv, AtEnd, Noted
        <4>6. client'[id] = End(row, req[w].ip)
          BY <1>1, <1>3, <2>4, <4>4, <4>5, EndMoved
        <4>7. row.ip = req[w].ip
          BY <1>0, <1>b, <2>4, <2>5, <4>1, InCare DEF Tended
        <4> QED BY <1>1, <2>4, <4>1, <4>6, <4>7 DEF AtEnd
      <3>2. CASE s.id # id
        <4>1. \A v \in Writers : req'[v].id # s.id
          BY <2>1, <2>2, <2>3, <3>2
        <4>2. Owed(s.id) => Owed(s.id)'
          BY <1>b, <2>2, <3>2 DEF Owed, ActsOn
        <4> QED BY <1>0, <2>5, <4>1, <4>2, RowStays
      <3> QED BY <3>1, <3>2
    <2> QED BY <2>5 DEF ClientInv
  <1> QED BY <1>2, <1>3 DEF Reselect

LEMMA LostClients ==
  ASSUME IInv, IsolationInv, ClientInv, ClientsTold, Noted, NEW w \in Workers, ConfirmationLost(w),
         Ids \cap {req[w].id, req[w].row.id} \subseteq troubled'
  PROVE  ClientInv'
  <1>0. /\ tunnels \subseteq Row /\ LocalOK /\ Become(w, Idle) /\ Idle.pc # "exec"
        /\ req[w].pc # "select"
    BY IInvParts, IdleLocal DEF IInv, TypeOK, ConfirmationLost, Answer, At
  <1>1. ASSUME NEW s \in tunnels', s.id \notin troubled' PROVE s \in tunnels
    <2>1. CASE At(w, "create", "commit") /\ CreateTunnelWithTransaction(req[w].row)
      <3>1. req[w].row.id \in Ids
        BY <1>0, <2>1, DraftComplete DEF Row
      <3> QED BY <1>1, <2>1, <3>1 DEF CreateTunnelWithTransaction
    <2>2. CASE At(w, "update", "update") /\ UpdateClientIPv4(req[w].id, req[w].ip)
      <3>1. PICK id : id = req[w].id
        OBVIOUS
      <3>2. id \in Ids
        BY <2>2, <3>1 DEF At, IsolationInv, RequestsLocal, Local, Acting
      <3>3. s.id # id
        BY <1>1, <3>1, <3>2
      <3>4. \A t : t.id \notin {id} => (t \in tunnels' <=> t \in tunnels)
        BY <1>0, <2>2, <3>1, UpdatedRow
      <3> QED BY <1>1, <3>3, <3>4
    <2>3. CASE At(w, "delete", "delete") /\ DeleteTunnel(req[w].id)
      BY <1>1, <2>3 DEF DeleteTunnel
    <2> QED BY <2>1, <2>2, <2>3 DEF ConfirmationLost
  <1> QED BY <1>0, <1>1, QuietClients

LEMMA RestartClients ==
  ASSUME IInv, ClientInv, ClientsTold, Noted, Restart,
         {id \in Ids : \E w \in Workers : ActsOn(w, id)} \subseteq troubled'
  PROVE  ClientInv'
  <1>1. tunnels' = tunnels /\ tunnels \subseteq Row /\ \A w \in Workers : req'[w] = Idle
    BY DEF Restart, dbVars, IInv, TypeOK
  <1>2. Writers = {}
    BY <1>1, IdleLocal DEF Writers
  <1>3. ASSUME NEW s \in tunnels', s.id \notin troubled' PROVE AtEnd(s)'
    <2>1. s \in tunnels /\ ~Owed(s.id)
      BY <1>1, <1>3 DEF Owed, Row
    <2> QED BY <1>2, <1>3, <2>1, RowStays
  <1> QED BY <1>3 DEF ClientInv

LEMMA StatusClients ==
  ASSUME IInv, IInv', ClientInv, ClientsTold, Noted, ChangeStatus
  PROVE  ClientInv'
  <1>1. PICK id, status : SetStatus(id, status) /\ req' = req
    BY DEF ChangeStatus
  <1> DEFINE new(s) == IF s.id = id THEN [s EXCEPT !.status = status] ELSE s
  <1>2. tunnels \subseteq Row /\ tunnels' \subseteq Row /\ tunnels' = {new(s) : s \in tunnels}
    BY <1>1 DEF SetStatus, IInv, TypeOK
  <1>3. \A s \in tunnels : SameEnd(new(s), s) /\ new(s).ip = s.ip
    BY <1>2 DEF Row, SameEnd
  <1> HIDE DEF new
  <1>4. Writers = {} /\ \A i : Owed(i) => Owed(i)'
    BY <1>1 DEF Writers, Owed, ActsOn
  <1>5. ASSUME NEW s \in tunnels', s.id \notin troubled' PROVE AtEnd(s)'
    <2>1. PICK t \in tunnels : s = new(t)
      BY <1>2
    <2>2. SameEnd(s, t) /\ s.ip = t.ip /\ s \in Row
      BY <1>2, <1>3, <2>1
    <2>3. t \in Row /\ WellFormed(t) /\ AtEnd(t)
      BY <1>5, <2>2 DEF IInv, TypeOK, RowsWellFormed, ClientInv, Noted, SameEnd
    <2> QED BY <1>4, <1>5, <2>2, <2>3, Untold
  <1> QED BY <1>5 DEF ClientInv

LEMMA StutterClients ==
  ASSUME ClientInv, UNCHANGED cvars
  PROVE  ClientInv'
  <1>1. UNCHANGED <<tunnels, req, troubled, client>>
    BY DEF cvars, hvars, vars
  <1> QED BY <1>1 DEF ClientInv, AtEnd, Owed, ActsOn

LEMMA InitClients == CInit => ClientInv
  BY DEF CInit, HInit, Init, DatabaseInit, ClientInv

(* A statement or command that leaves the rows alone, and is not the last  *)
(* one before the answer is written.                                       *)
LEMMA PassClients ==
  ASSUME IInv, IsolationInv, ClientInv, ClientsTold, Noted, NEW w \in Workers,
         \/ Start(w) \/ CountActive(w) \/ FindSlot(w) \/ FindFirstPrefix(w) \/ FindSecondPrefix(w)
         \/ FindThirdPrefix(w) \/ CommitRefused(w) \/ Lookup(w) \/ DeleteRow(w) \/ Decrement(w)
         \/ Execute(w) \/ CommandRefused(w) \/ CommandFails(w)
  PROVE  ClientInv'
  <1>1. req[w] \in Request /\ LocalOK
    BY IInvParts DEF IInv, TypeOK
  <1>2. ASSUME NEW r, Become(w, r), tunnels' \subseteq tunnels, req[w].pc # "select",
               req[w].pc = "commit" => r.pc # "exec"
        PROVE  ClientInv'
    BY <1>2, QuietClients
  <1>3. ASSUME Answer(w), tunnels' \subseteq tunnels, req[w].pc # "select" PROVE ClientInv'
    BY <1>2, <1>3, IdleLocal DEF Answer
  <1>4. CASE Start(w)
    <2>1. tunnels' = tunnels /\ req[w].pc = "idle"
      BY <1>4, IdleLocal DEF Start, StartCreate, StartUpdate, StartDelete, dbVars
    <2>2. \E r : Become(w, r)
      BY <1>4 DEF Start, StartCreate, StartUpdate, StartDelete
    <2> QED BY <1>2, <2>1, <2>2
  <1>5. CASE \/ CountActive(w) \/ FindSlot(w) \/ FindFirstPrefix(w)
             \/ FindSecondPrefix(w) \/ FindThirdPrefix(w)
    <2>1. tunnels' = tunnels /\ req[w].pc \notin {"select", "commit"}
      BY <1>5 DEF CountActive, FindSlot, FindFirstPrefix, FindSecondPrefix, FindThirdPrefix, At, dbVars
    <2>2. Answer(w) \/ \E r : Become(w, r)
      BY <1>5 DEF CountActive, FindSlot, FindFirstPrefix, FindSecondPrefix, FindThirdPrefix, Attempt
    <2> QED BY <1>2, <1>3, <2>1, <2>2
  <1>6. CASE CommitRefused(w)
    BY <1>3, <1>6 DEF CommitRefused, At, dbVars
  <1>7. CASE Lookup(w)
    <2>1. tunnels' = tunnels /\ req[w].pc = "lookup"
      BY <1>7 DEF Lookup, At, dbVars
    <2>2. Answer(w) \/ \E r : Become(w, r)
      BY <1>7 DEF Lookup
    <2> QED BY <1>2, <1>3, <2>1, <2>2
  <1>8. CASE DeleteRow(w)
    <2>1. tunnels' \subseteq tunnels /\ req[w].pc = "delete"
      BY <1>8 DEF DeleteRow, DeleteTunnel, At
    <2>2. \E r : Become(w, r)
      BY <1>8 DEF DeleteRow
    <2> QED BY <1>2, <2>1, <2>2
  <1>9. CASE Decrement(w)
    BY <1>3, <1>9 DEF Decrement, DecrementUserTunnels, At
  <1>10. CASE Execute(w) \/ CommandRefused(w) \/ CommandFails(w)
    <2>1. tunnels' = tunnels /\ req[w].pc = "exec" /\ (Answer(w) \/ NextCommand(w))
      BY <1>10 DEF Execute, CommandRefused, CommandFails, AfterFailedCommand, dbVars
    <2>2. Answer(w) \/ \E r : Become(w, r)
      BY <2>1 DEF NextCommand
    <2> QED BY <1>2, <1>3, <2>1, <2>2
  <1> QED BY <1>4, <1>5, <1>6, <1>7, <1>8, <1>9, <1>10

LEMMA NextClients == IInv /\ IInv' /\ IsolationInv /\ ClientInv /\ [CNext]_cvars => ClientInv'
  <1> SUFFICES ASSUME IInv, IInv', IsolationInv, ClientInv, [CNext]_cvars PROVE ClientInv'
    OBVIOUS
  <1>1. CASE UNCHANGED cvars
    BY <1>1, StutterClients
  <1>2. CASE CNext
    <2>0. ClientsTold
      BY <1>2 DEF CNext
    <2>1. CASE Restart /\ Trouble({id \in Ids : \E w \in Workers : ActsOn(w, id)})
      <3>1. Noted /\ {id \in Ids : \E w \in Workers : ActsOn(w, id)} \subseteq troubled'
        BY <2>1, TroubleNoted
      <3> QED BY <2>0, <2>1, <3>1, RestartClients
    <2>2. CASE ChangeStatus /\ Trouble({})
      BY <2>0, <2>2, TroubleNoted, StatusClients
    <2>3. ASSUME NEW w \in Workers,
                 (Start(w) \/ Step(w)) /\ Trouble({id \in Ids : ActsOn(w, id) /\ Refuses(w)})
          PROVE  ClientInv'
      <3>1. Noted
        BY <2>3, TroubleNoted
      <3>2. Commit(w) \/ UpdateIP(w) \/ Reselect(w) => ClientInv'
        BY <2>0, <3>1, CommitClients, UpdateClients, ReselectClients
      <3> QED BY <2>0, <2>3, <3>1, <3>2, PassClients DEF Step, CreateStep, UpdateStep, DeleteStep, CommandStep
    <2>4. ASSUME NEW w \in Workers,
                 (CommandFails(w) \/ StatementFails(w)) /\ Trouble({id \in Ids : ActsOn(w, id)})
          PROVE  ClientInv'
      <3>1. Noted /\ {id \in Ids : ActsOn(w, id)} \subseteq troubled'
        BY <2>4, TroubleNoted
      <3>2. CASE StatementFails(w)
        <4>1. tunnels' = tunnels /\ Become(w, Idle) /\ Idle.pc # "exec"
          BY <3>2, IdleLocal DEF StatementFails, Answer, dbVars
        <4>2. \A t \in tunnels : t.id = req[w].id => t.id \in troubled'
          BY <3>1 DEF IInv, TypeOK, Row, ActsOn
        <4> QED BY <2>0, <3>1, <4>1, <4>2, QuietClients
      <3> QED BY <2>0, <2>4, <3>1, <3>2, PassClients
    <2>5. ASSUME NEW w \in Workers,
                 ConfirmationLost(w) /\ Trouble(Ids \cap {req[w].id, req[w].row.id})
          PROVE  ClientInv'
      <3>1. Noted /\ Ids \cap {req[w].id, req[w].row.id} \subseteq troubled'
        BY <2>5, TroubleNoted
      <3> QED BY <2>0, <2>5, <3>1, LostClients
    <2>6. HNext
      BY <1>2 DEF CNext
    <2> QED BY <2>1, <2>2, <2>3, <2>4, <2>5, <2>6 DEF HNext
  <1> QED BY <1>1, <1>2

-----------------------------------------------------------------------------
(* The clients only watch.                                                 *)
LEMMA ClientsRefine == CSpec => HSpec
  <1>1. CInit => HInit
    BY DEF CInit
  <1>2. [CNext]_cvars => [HNext]_hvars
    BY DEF CNext, cvars
  <1> QED BY <1>1, <1>2, PTL DEF CSpec, HSpec

LEMMA ClientInvariance == DistinctNumbers => (CSpec => [](IInv /\ IsolationInv /\ ClientInv))
  <1> SUFFICES ASSUME DistinctNumbers PROVE CSpec => [](IInv /\ IsolationInv /\ ClientInv)
    OBVIOUS
  <1>1. HSpec => [](IInv /\ IsolationInv)
    BY IsolationInvariance
  <1>2. IInv /\ IInv' /\ IsolationInv /\ ClientInv /\ [CNext]_cvars => ClientInv'
    BY NextClients
  <1>3. CSpec => CInit /\ [][CNext]_cvars
    BY DEF CSpec
  <1> QED BY <1>1, <1>2, <1>3, InitClients, ClientsRefine, PTL

LEMMA EndFits ==
  ASSUME NEW t \in Row, WellFormed(t), NEW e, e = End(t, t.ip)
  PROVE  /\ e = RanAll(None, generateTunnelCommands(t).client)
         /\ e # Broken /\ e.up /\ e.default
         /\ \A net \in MainNets(t) : <<net, 1>> \in e.addrs
         /\ generateTunnelCommands(t).server = CreateCommands(t)
  <1>1. e = RanAll(None, generateTunnelCommands(t).client)
    <2>1. t.type = "wg" => generateTunnelCommands(t).client = WireGuardClient(t)
      BY DEF generateTunnelCommands
    <2> QED BY <2>1, LinkBuilt, WgBuilt DEF End
  <1>2. e # Broken
    BY EndTyped, NoInterface DEF Row
  <1>3. e.up /\ e.default /\ e.addrs = AddrsOf(t)
    BY DEF End, LinkEnd, WgEnd, LinkAt, WgAt
  <1>4. \A net \in MainNets(t) : <<net, 1>> \in e.addrs
    BY <1>3 DEF MainNets, AddrsOf
  <1>5. generateTunnelCommands(t).server = CreateCommands(t)
    BY ThreeAndOne, FiveAndOne DEF generateTunnelCommands, CreateCommands
  <1> QED BY <1>1, <1>2, <1>3, <1>4, <1>5

LEMMA EndMeets ==
  ASSUME NEW t \in Row, WellFormed(t), Configured(t)
  PROVE  Meets(End(t, t.ip), t)
  <1>1. PICK e : e = End(t, t.ip)
    OBVIOUS
  <1>2. CASE t.type = "wg"
    <2>1. e.server = <<ServerKey, ServerIP>> /\ e.key = t.key
      BY <1>1, <1>2 DEF End, WgEnd, WgAt
    <2>2. \E p \in peers : p.key = t.key /\ MainNets(t) \subseteq p.allowed
      BY <1>2 DEF Configured
    <2> QED BY <1>1, <1>2, <2>1, <2>2 DEF Meets
  <1>3. CASE t.type # "wg"
    <2>1. e.mode = t.type /\ e.local = t.ip /\ e.remote = ServerIP /\ <<t.ula, 2>> \in e.addrs
      BY <1>1, <1>3 DEF End, LinkEnd, LinkAt, AddrsOf
    <2>2. PICK l : l = [dev |-> t.id, mode |-> t.type, remote |-> t.ip, up |-> TRUE, ula |-> t.ula]
      OBVIOUS
    <2>3. l \in LinkOf(t.id) /\ l.mode = t.type /\ l.remote = t.ip /\ l.ula = t.ula
      BY <1>3, <2>2 DEF Configured, LinkOf
    <2> QED BY <1>1, <1>3, <2>1, <2>3 DEF Meets
  <1> QED BY <1>2, <1>3

LEMMA ClientsAgree == IInv /\ IsolationInv /\ ClientInv => EndsAgree
  <1> SUFFICES ASSUME IInv, IsolationInv, ClientInv, NEW t \in tunnels, Quiet(t.id)
               PROVE  LET e == client[t.id]
                          listed == generateTunnelCommands(t)
                      IN  /\ e = RanAll(None, listed.client)
                          /\ e # Broken /\ e.up /\ e.default
                          /\ \A net \in MainNets(t) : <<net, 1>> \in e.addrs
                          /\ Meets(e, t)
                          /\ listed.server = CreateCommands(t)
    BY DEF EndsAgree
  <1>1. t \in Row /\ WellFormed(t)
    BY DEF IInv, TypeOK, RowsWellFormed
  <1>2. Configured(t)
    BY IsolationConfigures DEF ConfiguredAsStored
  <1>3. client[t.id] = End(t, t.ip)
    BY DEF ClientInv, AtEnd, Owed, Quiet
  <1> QED BY <1>1, <1>2, <1>3, EndFits, EndMeets

(* The two ends of a tunnel whose requests ran without trouble fit: what   *)
(* the answers to its creation and its updates made of the client is what  *)
(* the listing would make of it today, and the other end of what the       *)
(* server has, whatever requests on other tunnels did.                     *)
THEOREM EndsAgreeHolds == DistinctNumbers => (CSpec => []EndsAgree)
  BY ClientInvariance, ClientsAgree, PTL
=============================================================================
