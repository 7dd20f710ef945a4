---------------------------- MODULE RecoveryProofs ----------------------------
(***************************************************************************)
(* Theorems about module Recovery for every value of its constants: the    *)
(* broker keeps its invariants beside the recovery program, traffic stays  *)
(* with its user, recovery disturbs no tunnel, and after a reboot it       *)
(* brings every tunnel back.                                               *)
(***************************************************************************)
EXTENDS RecoveryProperties, CommandProofs, SequenceTheorems

-----------------------------------------------------------------------------
(* The broker's invariants, and what the recovery program holds: rows that *)
(* were in the table, and commands.                                        *)

RecState == [pc : {"off", "fetch", "links", "peers", "loop", "exec"}, tries : Nat,
             left : SUBSET Row, devs : SUBSET Ids, keys : SUBSET Keys, todo : Seq(Command)]

RecOK ==
    /\ rec \in RecState
    /\ \A t \in rec.left : WellFormed(t)
    /\ rec.pc = "exec" => rec.todo # <<>>

BrokerInv == IInv /\ KeyInv

CommonInv == BrokerInv /\ RecOK

LEMMA OffOK == Off \in RecState /\ Off.todo = <<>> /\ Off.left = {} /\ Off.pc = "off"
  <1>1. <<>> \in Seq(Command)
    OBVIOUS
  <1> QED BY <1>1 DEF Off, RecState

LEMMA StartingOK ==
  /\ Starting \in RecState /\ Starting.pc = "fetch" /\ Starting.todo = <<>>
  /\ Starting.left = {} /\ Starting.devs = {} /\ Starting.keys = {}
  <1>1. <<>> \in Seq(Command)
    OBVIOUS
  <1> QED BY <1>1 DEF Starting, Off, RecState

(* The rows and the keys of the tables and the kernel, for the lists.      *)
LEMMA TypedParts ==
  ASSUME IInv
  PROVE  /\ tunnels \subseteq Row /\ \A t \in tunnels : WellFormed(t)
         /\ KernelTyped /\ req \in [Workers -> Request] /\ LocalOK /\ DatabaseOK
         /\ \A s, t \in tunnels : s.id = t.id => s = t
  BY IInvParts DEF IInv, TypeOK, RowsWellFormed, IdsUnique

-----------------------------------------------------------------------------
(* The steps of the recovery program, field by field *)

LEMMA FetchResult ==
  ASSUME RecOK, tunnels \subseteq Row, Fetch
  PROVE  /\ rec' \in RecState /\ rec'.pc = "links" /\ rec'.left = tunnels /\ rec'.todo = rec.todo
         /\ rec'.devs = rec.devs /\ rec'.keys = rec.keys
  BY DEF RecOK, RecState, Fetch

LEMMA ListResult ==
  ASSUME RecOK, KernelTyped, ListLinks \/ ListPeers \/ ListFails
  PROVE  /\ rec' \in RecState /\ rec'.left = rec.left /\ rec'.todo = rec.todo
         /\ rec.pc \in {"links", "peers"} /\ rec'.pc \in {"peers", "loop"}
         /\ ListLinks => rec'.devs = {l.dev : l \in links} /\ rec'.keys = rec.keys
         /\ ListPeers => rec'.devs = rec.devs /\ rec'.keys = IF wg0 THEN {p.key : p \in peers} ELSE {}
  <1>1. {l.dev : l \in links} \subseteq Ids /\ {p.key : p \in peers} \subseteq Keys
    BY DEF KernelTyped, Link, Peer
  <1>2. rec \in RecState
    BY DEF RecOK
  <1>3. CASE ListLinks
    BY <1>1, <1>2, <1>3 DEF RecState, ListLinks, ListPeers
  <1>4. CASE ListPeers
    BY <1>1, <1>2, <1>4 DEF RecState, ListLinks, ListPeers
  <1>5. CASE ListFails
    <2>1. rec' = [rec EXCEPT !.pc = IF @ = "links" THEN "peers" ELSE "loop"] /\ rec.pc \in {"links", "peers"}
      BY <1>5 DEF ListFails
    <2>2. CASE ListLinks \/ ListPeers
      BY <1>3, <1>4, <2>2
    <2>3. /\ rec' \in RecState /\ rec'.left = rec.left /\ rec'.todo = rec.todo
          /\ rec'.pc \in {"peers", "loop"}
      BY <1>2, <2>1 DEF RecState
    <2> QED BY <2>1, <2>2, <2>3
  <1> QED BY <1>3, <1>4, <1>5

LEMMA NextTunnelResult ==
  ASSUME RecOK, NextTunnel
  PROVE  \E row \in rec.left :
           /\ rec.pc = "loop" /\ rec' \in RecState /\ rec'.left = rec.left \ {row}
           /\ rec'.devs = rec.devs /\ rec'.keys = rec.keys
           /\ \/ Missing(row) /\ rec'.pc = "exec" /\ rec'.todo = CreateCommands(row)
              \/ ~Missing(row) /\ rec'.pc = "loop" /\ rec'.todo = rec.todo
  <1>0. rec \in RecState
    BY DEF RecOK
  <1>1. PICK row \in rec.left :
          rec' = IF Missing(row)
                 THEN [rec EXCEPT !.pc = "exec", !.left = @ \ {row}, !.todo = RecreateCommands(row)]
                 ELSE [rec EXCEPT !.left = @ \ {row}]
    BY DEF NextTunnel
  <1>2. CASE Missing(row)
    <2>1. CreateCommands(row) \in Seq(Command)
      BY <1>0, CreateCommandsTyped DEF RecOK, RecState
    <2>2. rec' = [rec EXCEPT !.pc = "exec", !.left = @ \ {row}, !.todo = CreateCommands(row)]
      BY <1>1, <1>2 DEF RecreateCommands
    <2>3. rec' \in RecState /\ rec'.left = rec.left \ {row} /\ rec'.pc = "exec"
          /\ rec'.todo = CreateCommands(row) /\ rec'.devs = rec.devs /\ rec'.keys = rec.keys
      BY <1>0, <2>1, <2>2 DEF RecState
    <2> QED BY <1>2, <2>3 DEF NextTunnel
  <1>3. CASE ~Missing(row)
    <2>1. rec' = [rec EXCEPT !.left = @ \ {row}] /\ rec.pc = "loop"
      BY <1>1, <1>3 DEF NextTunnel
    <2>2. rec' \in RecState /\ rec'.left = rec.left \ {row} /\ rec'.pc = "loop"
          /\ rec'.todo = rec.todo /\ rec'.devs = rec.devs /\ rec'.keys = rec.keys
      BY <1>0, <2>1 DEF RecState
    <2> QED BY <1>3, <2>1, <2>2
  <1> QED BY <1>2, <1>3

(* The program goes on with the next command, or with the next tunnel.     *)
LEMMA GoOnResult ==
  ASSUME RecOK, rec.pc = "exec", GoOn
  PROVE  /\ rec' \in RecState /\ rec'.left = rec.left /\ rec'.todo = Tail(rec.todo)
         /\ rec'.devs = rec.devs /\ rec'.keys = rec.keys
         /\ rec'.pc = IF Tail(rec.todo) = <<>> THEN "loop" ELSE "exec"
  <1>1. rec \in RecState /\ rec.todo # <<>> /\ Tail(rec.todo) \in Seq(Command)
    BY DEF RecOK, RecState
  <1>2. rec' = [rec EXCEPT !.todo = Tail(rec.todo), !.pc = IF Tail(rec.todo) = <<>> THEN "loop" ELSE "exec"]
    BY DEF GoOn
  <1> QED BY <1>1, <1>2 DEF RecState

LEMMA GiveUpResult ==
  ASSUME RecOK, GiveUpTunnel
  PROVE  /\ rec' \in RecState /\ rec'.left = rec.left /\ rec'.todo = <<>> /\ rec'.pc = "loop"
         /\ rec'.devs = rec.devs /\ rec'.keys = rec.keys
  <1>1. <<>> \in Seq(Command)
    OBVIOUS
  <1> QED BY <1>1 DEF RecOK, RecState, GiveUpTunnel

LEMMA RecoveryTyped ==
  ASSUME IInv, RecOK, RecoveryStep \/ RecoveryFailure
  PROVE  RecOK'
  <1>0. rec \in RecState /\ rec.todo \in Seq(Command)
    BY DEF RecOK, RecState
  <1>a. ASSUME rec' \in RecState, \A t \in rec'.left : WellFormed(t), rec'.pc = "exec" => rec'.todo # <<>>
        PROVE  RecOK'
    <2>2. (\A t \in rec.left : WellFormed(t))'
      BY <1>a DEF WellFormed, OwnId, FirstFromPool, SecondFromPool, ThirdFromPool, KeyIfWg
    <2> QED BY <1>a, <2>2 DEF RecOK
  <1>1. CASE Fetch
    BY <1>0, <1>1, <1>a, TypedParts, FetchResult DEF Fetch
  <1>2. CASE ListLinks \/ ListPeers \/ ListFails
    <2>1. /\ rec' \in RecState /\ rec'.left = rec.left /\ rec'.todo = rec.todo
          /\ rec'.pc \in {"peers", "loop"}
      BY <1>2, TypedParts, ListResult
    <2> QED BY <1>0, <1>a, <2>1 DEF RecOK
  <1>3. CASE NextTunnel
    <2>1. PICK row \in rec.left :
           /\ rec.pc = "loop" /\ rec' \in RecState /\ rec'.left = rec.left \ {row}
           /\ \/ rec'.pc = "exec" /\ rec'.todo = CreateCommands(row)
              \/ rec'.pc = "loop" /\ rec'.todo = rec.todo
      BY <1>3, NextTunnelResult
    <2>2. row \in Row /\ WellFormed(row)
      BY <1>0 DEF RecOK, RecState
    <2> QED BY <1>0, <1>a, <2>1, <2>2, CreateCommandsTyped DEF RecOK
  <1>4. CASE Finish
    BY <1>4, <1>a, OffOK DEF Finish
  <1>5. CASE Recreate \/ RouteSkipped
    <2>1. rec.pc = "exec" /\ GoOn
      BY <1>5 DEF Recreate, RouteSkipped
    <2> QED BY <1>0, <1>a, <2>1, GoOnResult DEF RecOK
  <1>6. CASE RecreateRefused \/ RecreateFails
    <2>1. GiveUpTunnel
      BY <1>6 DEF RecreateRefused, RecreateFails
    <2> QED BY <1>a, <2>1, GiveUpResult DEF RecOK
  <1>7. CASE FetchFails
    <2>1. rec' = [rec EXCEPT !.tries = @ + 1] /\ rec.pc = "fetch"
      BY <1>7 DEF FetchFails
    <2>2. rec' \in RecState /\ rec'.left = rec.left /\ rec'.todo = rec.todo /\ rec'.pc = "fetch"
      BY <1>0, <2>1 DEF RecState
    <2> QED BY <1>0, <1>a, <2>2 DEF RecOK
  <1> QED BY <1>1, <1>2, <1>3, <1>4, <1>5, <1>6, <1>7 DEF RecoveryStep, RecoveryFailure

-----------------------------------------------------------------------------
(* The broker beside the recovery program *)

LEMMA RebootBroker ==
  ASSUME BrokerInv, Reboot
  PROVE  BrokerInv'
  <1>1. /\ req' = [w \in Workers |-> Idle] /\ links' = {} /\ routes' = {} /\ peers' = {}
        /\ wg0' \in BOOLEAN /\ UNCHANGED dbVars /\ Fault
    BY DeviceAssumption DEF Reboot
  <1>2. IInv'
    <2>1. DatabaseOK' /\ (faults \in 0 .. MaxFaults)'
      BY <1>1, IInvParts, SameDatabaseOK, FaultOK DEF BrokerInv
    <2>2. KernelTyped'
      BY <1>1 DEF KernelTyped
    <2>3. LocalOK'
      <3>1. \A w \in Workers : req'[w] = Idle
        BY <1>1
      <3>2. \A w \in Workers : StageOK(req[w])'
        BY <3>1, IdleOK DEF StageOK, OwnId, FirstFromPool, SecondFromPool, ThirdFromPool, KeyIfWg
      <3> QED BY <1>1, <3>2, IdleOK DEF LocalOK, Stages
    <2>4. (DatabaseOK /\ KernelTyped /\ LocalOK /\ faults \in 0 .. MaxFaults)' => IInv'
      BY IInvParts, PTL
    <2> QED BY <2>1, <2>2, <2>3, <2>4
  <1>3. KeyInv'
    BY <1>1, AllIdleKeys DEF BrokerInv, dbVars
  <1> QED BY <1>2, <1>3 DEF BrokerInv

(* A command of the program, which is one the broker could have run.       *)
LEMMA RecreateBroker ==
  ASSUME BrokerInv, RecOK, Recreate
  PROVE  BrokerInv'
  <1> DEFINE c == Head(rec.todo)
  <1>1. /\ rec.todo \in Seq(Command) /\ rec.todo # <<>>
        /\ UNCHANGED <<dbVars, req, faults>> /\ Run(c)
    BY DEF RecOK, RecState, Recreate
  <1>2. c \in Command
    BY <1>1
  <1> HIDE DEF c
  <1>3. KernelTyped'
    BY <1>1, <1>2, TypedParts, RunTyped DEF BrokerInv
  <1>4. IInv'
    BY <1>1, <1>3 DEF BrokerInv, IInv, TypeOK, KernelTyped, dbVars, RowsWellFormed, IdsUnique, WellFormed,
       OwnId, FirstFromPool, SecondFromPool, ThirdFromPool, KeyIfWg, Stages, StageOK
  <1>5. KeyInv'
    <2>1. \A w \in Workers : Local(req[w])'
      BY <1>1 DEF BrokerInv, KeyInv, RequestsLocal
    <2> QED BY <1>1, <2>1 DEF BrokerInv, KeyInv, RequestsLocal, KeysOwned, dbVars
  <1> QED BY <1>4, <1>5 DEF BrokerInv

(* The broker takes no notice of the failures of the program.              *)
LEMMA FailureBroker ==
  ASSUME BrokerInv, Fault, UNCHANGED <<dbVars, kernelVars, req>>
  PROVE  BrokerInv'
  <1>1. (faults \in 0 .. MaxFaults)'
    BY IInvParts, FaultOK DEF BrokerInv
  <1>2. IInv'
    BY <1>1 DEF BrokerInv, IInv, TypeOK, dbVars, kernelVars, RowsWellFormed, IdsUnique, WellFormed,
       OwnId, FirstFromPool, SecondFromPool, ThirdFromPool, KeyIfWg, Stages, StageOK
  <1>3. KeyInv'
    <2>1. \A w \in Workers : Local(req[w])'
      BY DEF BrokerInv, KeyInv, RequestsLocal
    <2> QED BY <2>1 DEF BrokerInv, KeyInv, RequestsLocal, KeysOwned, dbVars
  <1> QED BY <1>2, <1>3 DEF BrokerInv

LEMMA SameRecOK ==
  ASSUME RecOK, UNCHANGED rec
  PROVE  RecOK'
  <1>1. (\A t \in rec.left : WellFormed(t))'
    BY DEF RecOK, WellFormed, OwnId, FirstFromPool, SecondFromPool, ThirdFromPool, KeyIfWg
  <1> QED BY <1>1 DEF RecOK

LEMMA InitCommon == RecoveryInit => CommonInv
  <1> SUFFICES ASSUME RecoveryInit PROVE CommonInv
    OBVIOUS
  <1>1. BrokerInv
    BY InitInv, InitKeys DEF RecoveryInit, BrokerInv
  <1> QED BY <1>1, OffOK DEF RecoveryInit, CommonInv, RecOK

LEMMA NextBroker ==
  ASSUME BrokerInv, [Next]_vars
  PROVE  BrokerInv'
  BY NextInv, NextKeys DEF BrokerInv

LEMMA NextCommon == CommonInv /\ [RecoveryNext]_recoveryVars => CommonInv'
  <1> SUFFICES ASSUME BrokerInv, RecOK, [RecoveryNext]_recoveryVars PROVE BrokerInv' /\ RecOK'
    BY DEF CommonInv
  <1>1. CASE Requests
    BY <1>1, NextBroker, SameRecOK DEF Requests, Next
  <1>2. CASE ServiceRestart \/ Reboot
    <2>1. rec' = Starting
      BY <1>2 DEF ServiceRestart, Reboot, Started
    <2>2. RecOK'
      BY <2>1, StartingOK DEF RecOK
    <2>3. BrokerInv'
      BY <1>2, NextBroker, RebootBroker DEF ServiceRestart, Next
    <2> QED BY <2>2, <2>3
  <1>3. CASE RecoveryStep \/ RecoveryFailure
    <2>1. RecOK'
      BY <1>3, RecoveryTyped DEF BrokerInv
    <2>2. \/ UNCHANGED vars
          \/ Fault /\ UNCHANGED <<dbVars, kernelVars, req>>
          \/ Recreate
      BY <1>3 DEF RecoveryStep, RecoveryFailure, Fetch, ListLinks, ListPeers, NextTunnel, Finish,
         RouteSkipped, RecreateRefused, FetchFails, ListFails, RecreateFails
    <2> QED BY <2>1, <2>2, NextBroker, FailureBroker, RecreateBroker
  <1>4. CASE UNCHANGED recoveryVars
    BY <1>4, NextBroker, SameRecOK DEF recoveryVars
  <1> QED BY <1>1, <1>2, <1>3, <1>4 DEF RecoveryNext

LEMMA PropertyStep == [PropertyNext]_propertyVars => [RecoveryNext]_recoveryVars
  BY DEF PropertyNext, propertyVars, RecoveryNext, Recover

(* The broker's invariants, and the program's own, hold while the service  *)
(* and the host are restarted and the program works beside the broker.     *)
THEOREM CommonInvariance == PropertySpec => []CommonInv
  BY InitCommon, NextCommon, PropertyStep, PTL DEF PropertySpec, PropertyInit

-----------------------------------------------------------------------------
(* Traffic stays with its user: whoever knows a key, a row, a request or   *)
(* the recovery program, knows it for the user it was given to, and a key  *)
(* about to be given is known to nobody else.                              *)

HeldBy(left, todo, k) ==
    \/ \E row \in left : row.key = k
    \/ \E c \in Of(todo) : c.verb = "peer set" /\ c.key = k

Grants(c) ==
    c.verb = "peer set" =>
        c.key \in Keys /\ \A n \in c.allowed \cap Nets : n.group = Canonical[holder[c.key]]

RowsGiven == \A t \in tunnels \cup rec.left : t.key # None => holder[t.key] = t.id[1]

RequestsGiven ==
    \A w \in Workers : req[w].pc # "commit" /\ req[w].row.key # None =>
        holder[req[w].row.key] = req[w].id[1]

CommandsGiven == \A c \in Of(rec.todo) : Grants(c)

DraftsUnknown ==
    \A w \in Workers : At(w, "create", "commit") /\ req[w].row.key # None =>
        /\ ~HeldBy(rec.left, rec.todo, req[w].row.key)
        /\ \A p \in peers : p.key # req[w].row.key

GivenInv == RowsGiven /\ RequestsGiven /\ CommandsGiven /\ DraftsUnknown /\ TrafficStaysWithUser

LEMMA HeldKeysAre ==
  ASSUME RecOK, NEW k
  PROVE  k \in HeldKeys <=> HeldBy(rec.left, rec.todo, k)
  <1>1. DOMAIN rec.todo = 1 .. Len(rec.todo)
    BY DEF RecOK, RecState
  <1> QED BY <1>1 DEF HeldKeys, HeldBy, Of

LEMMA RowGiven ==
  ASSUME BrokerInv', GivenKeys, NEW t \in tunnels', t.key # None
  PROVE  t.key \in Keys /\ holder'[t.key] = t.id[1]
  <1>1. /\ t.key \in Keys
        /\ \A s \in tunnels' : s.key = t.key => s.id = t.id
        /\ \A s \in tunnels' : s.user = s.id[1]
    BY DEF BrokerInv, IInv, TypeOK, Row, KeyInv, KeysOwned, RowsWellFormed, WellFormed, OwnId
  <1>2. PICK s : s = CHOOSE x \in tunnels' : x.key = t.key
    OBVIOUS
  <1>3. s \in tunnels' /\ s.key = t.key
    BY <1>2
  <1>4. holder'[t.key] = s.user
    BY <1>1, <1>2 DEF GivenKeys
  <1> QED BY <1>1, <1>3, <1>4

(* Only the key of a row that is new can change hands.                     *)
LEMMA HolderKept ==
  ASSUME BrokerInv', GivenKeys, RowsGiven, NEW k \in Keys,
         \A t \in tunnels' : t.key = k => \E s \in tunnels : s.id = t.id /\ s.key = t.key
  PROVE  holder'[k] = holder[k]
  <1>0. k # None
    BY TableAssumption
  <1>1. CASE \E t \in tunnels' : t.key = k
    <2>1. PICK t \in tunnels' : t.key = k
      BY <1>1
    <2>2. PICK s \in tunnels : s.id = t.id /\ s.key = t.key
      BY <2>1
    <2>3. holder[k] = s.id[1]
      BY <1>0, <2>1, <2>2 DEF RowsGiven
    <2> QED BY <1>0, <2>1, <2>2, <2>3, RowGiven
  <1>2. CASE ~\E t \in tunnels' : t.key = k
    BY <1>2 DEF GivenKeys
  <1> QED BY <1>1, <1>2

(* A command moves networks only to the peer of its own key.               *)
LEMMA RunGiven ==
  ASSUME KernelTyped, TrafficStaysWithUser, NEW c, Run(c), Grants(c),
         \A p \in peers : holder'[p.key] = holder[p.key],
         c.verb = "peer set" => holder'[c.key] = holder[c.key]
  PROVE  /\ TrafficStaysWithUser'
         /\ \A p \in peers' : (\E q \in peers : q.key = p.key) \/ (c.verb = "peer set" /\ p.key = c.key)
  <1>1. ASSUME NEW p \in peers'
        PROVE  \/ \E q \in peers : q.key = p.key /\ p.allowed \subseteq q.allowed
               \/ c.verb = "peer set" /\ p.key = c.key /\ p.allowed = c.allowed
    <2>1. CASE UNCHANGED peers
      BY <2>1
    <2>2. CASE RunPeer(c)
      <3> DEFINE less(q) == [q EXCEPT !.allowed = @ \ c.allowed]
                 new == [key |-> c.key, allowed |-> c.allowed]
      <3>1. \/ p \in peers
            \/ c.verb = "peer set" /\ (p = new \/ \E q \in peers : p = less(q))
        BY <2>2 DEF RunPeer
      <3>2. \A q \in peers : less(q).key = q.key /\ less(q).allowed \subseteq q.allowed
        BY DEF KernelTyped, Peer
      <3>3. new.key = c.key /\ new.allowed = c.allowed
        OBVIOUS
      <3> HIDE DEF less, new
      <3> QED BY <3>1, <3>2, <3>3
    <2> QED BY <2>1, <2>2 DEF Run
  <1>2. ASSUME NEW p \in peers', NEW n \in p.allowed \cap Nets
        PROVE  n.group = Canonical[holder'[p.key]]
    <2>1. CASE \E q \in peers : q.key = p.key /\ p.allowed \subseteq q.allowed
      BY <2>1 DEF TrafficStaysWithUser
    <2>2. CASE c.verb = "peer set" /\ p.key = c.key /\ p.allowed = c.allowed
      BY <2>2 DEF Grants
    <2> QED BY <1>1, <2>1, <2>2
  <1>3. TrafficStaysWithUser'
    BY <1>2 DEF TrafficStaysWithUser
  <1> QED BY <1>1, <1>3

(* The keys in sight are keys.                                             *)
LEMMA KeysTyped ==
  ASSUME CommonInv
  PROVE  /\ \A t \in tunnels \cup rec.left : t.key # None => t.key \in Keys
         /\ \A w \in Workers : req[w].row.key # None => req[w].row.key \in Keys
         /\ \A p \in peers : p.key \in Keys
         /\ None \notin Keys
  BY TypedParts, TableAssumption DEF CommonInv, BrokerInv, Row, RecOK, RecState, Request, Draft, KernelTyped, Peer

LEMMA SameGiven ==
  ASSUME CommonInv, GivenInv, UNCHANGED <<req, peers, rec>>,
         \A t \in tunnels' : \E s \in tunnels : s.id = t.id /\ s.key = t.key,
         \A k \in Keys : holder'[k] = holder[k]
  PROVE  GivenInv'
  <1>1. RowsGiven'
    <2>1. ASSUME NEW t \in tunnels', t.key # None PROVE holder'[t.key] = t.id[1]
      <3>1. PICK s \in tunnels : s.id = t.id /\ s.key = t.key
        OBVIOUS
      <3> QED BY <2>1, <3>1, KeysTyped DEF GivenInv, RowsGiven
    <2>2. ASSUME NEW t \in rec.left, t.key # None PROVE holder'[t.key] = t.id[1]
      BY <2>2, KeysTyped DEF GivenInv, RowsGiven
    <2> QED BY <2>1, <2>2 DEF RowsGiven
  <1>2. RequestsGiven'
    BY KeysTyped DEF GivenInv, RequestsGiven
  <1>3. CommandsGiven'
    BY DEF GivenInv, CommandsGiven, Grants
  <1>4. DraftsUnknown'
    BY DEF GivenInv, DraftsUnknown, At
  <1>5. TrafficStaysWithUser'
    BY KeysTyped DEF GivenInv, TrafficStaysWithUser
  <1> QED BY <1>1, <1>2, <1>3, <1>4, <1>5 DEF GivenInv

(* A step that gives nobody a key.                                         *)
LEMMA KeepsGiven ==
  ASSUME CommonInv, BrokerInv', GivenInv, KeysStayFresh, GivenKeys, UNCHANGED rec,
         NEW w \in Workers, NEW r, Become(w, r), KeepsKeys(w, r)
  PROVE  GivenInv'
  <1>0. /\ req'[w] = r /\ \A v \in Workers \ {w} : req'[v] = req[v]
        /\ RowsGiven /\ RequestsGiven /\ CommandsGiven /\ DraftsUnknown /\ TrafficStaysWithUser
        /\ KernelTyped
    BY TypedParts, Others DEF CommonInv, BrokerInv, GivenInv
  <1>1. ASSUME NEW k \in Keys PROVE holder'[k] = holder[k]
    BY <1>0, HolderKept DEF KeepsKeys
  <1>2. RowsGiven'
    <2>1. \A t \in tunnels' : t.key # None => holder'[t.key] = t.id[1]
      BY RowGiven
    <2>2. \A t \in rec.left : t.key # None => holder'[t.key] = t.id[1]
      BY <1>0, <1>1, KeysTyped DEF RowsGiven
    <2> QED BY <2>1, <2>2 DEF RowsGiven
  <1>3. RequestsGiven'
    <2>1. \A v \in Workers : req[v].pc # "commit" /\ req[v].row.key # None =>
             holder'[req[v].row.key] = req[v].id[1]
      BY <1>0, <1>1, KeysTyped DEF RequestsGiven
    <2>2. ASSUME r.pc # "commit", r.row.key # None PROVE holder'[r.row.key] = r.id[1]
      <3>1. CASE req[w].pc # "commit" /\ r.row.key = req[w].row.key /\ r.id = req[w].id
        BY <2>1, <2>2, <3>1
      <3>2. CASE \E s \in tunnels : s.key = r.row.key /\ s.id = r.id
        BY <1>0, <1>1, <2>2, <3>2, KeysTyped DEF RowsGiven
      <3> QED BY <2>2, <3>1, <3>2 DEF KeepsKeys
    <2> QED BY <1>0, <2>1, <2>2 DEF RequestsGiven
  <1>4. CommandsGiven'
    BY <1>0, <1>1 DEF CommandsGiven, Grants
  <1>5. /\ TrafficStaysWithUser'
        /\ \A p \in peers' : (\E q \in peers : q.key = p.key)
                            \/ (req[w].pc = "exec" /\ p.key = req[w].row.key)
    <2>0. \A p \in peers : holder'[p.key] = holder[p.key]
      BY <1>1, KeysTyped
    <2>1. CASE UNCHANGED peers
      <3>1. TrafficStaysWithUser'
        BY <1>0, <2>0, <2>1 DEF TrafficStaysWithUser
      <3>2. \A p \in peers' : p \in peers
        BY <2>1
      <3> QED BY <3>1, <3>2
    <2>2. ASSUME req[w].pc = "exec", NEW c \in Of(req[w].todo), Run(c)
          PROVE  /\ TrafficStaysWithUser'
                 /\ \A p \in peers' : (\E q \in peers : q.key = p.key) \/ p.key = req[w].row.key
      <3>1. Concerns(c, req[w].id, req[w].row.key)
        BY <2>2 DEF CommonInv, BrokerInv, KeyInv, RequestsLocal, Local
      <3>2. c \in Command
        BY DEF Of, CommonInv, BrokerInv, IInv, TypeOK, Request
      <3>3. c.verb = "peer set" => c.key = req[w].row.key /\ c.key \in Keys
        BY <3>1, <3>2 DEF Concerns, Command
      <3>4. c.verb = "peer set" => holder[c.key] = req[w].id[1]
        BY <1>0, <2>2, <3>3, KeysTyped DEF RequestsGiven
      <3>5. Grants(c)
        BY <3>1, <3>3, <3>4 DEF Grants, Concerns, NetFor
      <3>6. c.verb = "peer set" => holder'[c.key] = holder[c.key]
        BY <1>1, <3>3
      <3>7. /\ TrafficStaysWithUser'
            /\ \A p \in peers' : (\E q \in peers : q.key = p.key)
                                \/ (c.verb = "peer set" /\ p.key = c.key)
        BY <1>0, <2>0, <2>2, <3>5, <3>6, RunGiven
      <3> QED BY <3>3, <3>7
    <2>3. CASE req[w].pc = "exec" /\ \E c \in Of(req[w].todo) : Run(c)
      <3>1. PICK c \in Of(req[w].todo) : Run(c)
        BY <2>3
      <3> QED BY <2>2, <2>3, <3>1
    <2> QED BY <2>1, <2>3 DEF KeepsKeys
  <1>6. ASSUME NEW v \in Workers, At(v, "create", "commit")', req'[v].row.key # None
        PROVE  /\ ~HeldBy(rec'.left, rec'.todo, req'[v].row.key)
               /\ \A p \in peers' : p.key # req'[v].row.key
    <2>1. CASE v # w
      <3>1. At(v, "create", "commit") /\ req'[v] = req[v]
        BY <1>0, <1>6, <2>1 DEF At
      <3>2. req[w].row.key # req[v].row.key
        BY <1>6, <2>1, <3>1, DraftKey DEF CommonInv, BrokerInv, KeyInv
      <3> QED BY <1>0, <1>5, <1>6, <3>1, <3>2 DEF DraftsUnknown
    <2>2. CASE v = w
      <3>1. At(w, "create", "prefix3") /\ r.row.key \in FreshKeys /\ r.row.key # None
        BY <1>0, <1>6, <2>2 DEF KeepsKeys, At
      <3>2. UNCHANGED peers
        BY <3>1 DEF KeepsKeys, At
      <3>3. r.row.key \notin HeldKeys
        BY <1>0, <3>1 DEF KeysStayFresh
      <3>4. \A p \in peers : p.key # r.row.key
        BY <3>1 DEF FreshKeys, UsedKeys
      <3> QED BY <1>0, <2>2, <3>2, <3>3, <3>4, HeldKeysAre DEF CommonInv
    <2> QED BY <2>1, <2>2
  <1>7. DraftsUnknown'
    BY <1>6 DEF DraftsUnknown
  <1> QED BY <1>2, <1>3, <1>4, <1>5, <1>7 DEF GivenInv

(* The insertion of a row gives its owner a key nobody knew.               *)
LEMMA GivesGiven ==
  ASSUME CommonInv, BrokerInv', GivenInv, GivenKeys, UNCHANGED rec,
         NEW w \in Workers, NEW r, Become(w, r), GivesKey(w, r)
  PROVE  GivenInv'
  <1>0. /\ req'[w] = r /\ \A v \in Workers \ {w} : req'[v] = req[v]
        /\ RowsGiven /\ RequestsGiven /\ CommandsGiven /\ DraftsUnknown /\ TrafficStaysWithUser
    BY TypedParts, Others DEF CommonInv, BrokerInv, GivenInv
  <1>1. PICK row : row = req[w].row
    OBVIOUS
  <1>2. /\ At(w, "create", "commit") /\ tunnels' = tunnels \cup {row} /\ UNCHANGED peers
        /\ r.pc # "commit" /\ (r.row.key = None \/ (r.row.key = row.key /\ r.id = row.id))
    BY <1>1 DEF GivesKey
  <1>3. \A v \in Workers \ {w} : req[v].row.key # None => req[v].row.key # row.key
    BY <1>1, <1>2, DraftKey DEF CommonInv, BrokerInv, KeyInv
  <1>4. row.key # None => /\ ~HeldBy(rec.left, rec.todo, row.key)
                          /\ \A p \in peers : p.key # row.key
    BY <1>0, <1>1, <1>2 DEF DraftsUnknown
  <1>5. ASSUME NEW k \in Keys, k # row.key PROVE holder'[k] = holder[k]
    <2>1. \A t \in tunnels' : t.key = k => \E s \in tunnels : s.id = t.id /\ s.key = t.key
      BY <1>2, <1>5
    <2> QED BY <1>0, <2>1, HolderKept
  <1>6. RowsGiven'
    <2>1. \A t \in tunnels' : t.key # None => holder'[t.key] = t.id[1]
      BY RowGiven
    <2>2. ASSUME NEW t \in rec.left, t.key # None PROVE holder'[t.key] = t.id[1]
      <3>1. t.key # row.key /\ t.key \in Keys
        BY <1>4, <2>2, KeysTyped DEF HeldBy
      <3> QED BY <1>0, <1>5, <2>2, <3>1 DEF RowsGiven
    <2> QED BY <2>1, <2>2 DEF RowsGiven
  <1>7. RequestsGiven'
    <2>1. \A v \in Workers \ {w} : req[v].pc # "commit" /\ req[v].row.key # None =>
             holder'[req[v].row.key] = req[v].id[1]
      BY <1>0, <1>3, <1>5, KeysTyped DEF RequestsGiven
    <2>2. r.row.key # None => holder'[r.row.key] = r.id[1]
      BY <1>2, RowGiven
    <2> QED BY <1>0, <2>1, <2>2 DEF RequestsGiven
  <1>8. CommandsGiven'
    <2>1. ASSUME NEW c \in Of(rec.todo), c.verb = "peer set"
          PROVE  c.key \in Keys /\ \A n \in c.allowed \cap Nets : n.group = Canonical[holder'[c.key]]
      <3>1. c.key \in Keys /\ \A n \in c.allowed \cap Nets : n.group = Canonical[holder[c.key]]
        BY <1>0, <2>1 DEF CommandsGiven, Grants
      <3>2. c.key # row.key
        BY <1>4, <2>1, <3>1, KeysTyped DEF HeldBy
      <3> QED BY <1>5, <3>1, <3>2
    <2> QED BY <2>1 DEF CommandsGiven, Grants
  <1>9. TrafficStaysWithUser'
    <2>1. \A p \in peers : holder'[p.key] = holder[p.key]
      BY <1>4, <1>5, KeysTyped
    <2> QED BY <1>0, <1>2, <2>1 DEF TrafficStaysWithUser
  <1>10. DraftsUnknown'
    <2>1. ASSUME NEW v \in Workers, At(v, "create", "commit")', req'[v].row.key # None
          PROVE  /\ ~HeldBy(rec'.left, rec'.todo, req'[v].row.key)
                 /\ \A p \in peers' : p.key # req'[v].row.key
      <3>1. v # w /\ req'[v] = req[v] /\ At(v, "create", "commit")
        BY <1>0, <1>2, <2>1 DEF At
      <3> QED BY <1>0, <1>2, <2>1, <3>1 DEF DraftsUnknown
    <2> QED BY <2>1 DEF DraftsUnknown
  <1> QED BY <1>6, <1>7, <1>8, <1>9, <1>10 DEF GivenInv

LEMMA RequestsGive ==
  ASSUME CommonInv, BrokerInv', GivenInv, Requests, GivenKeys
  PROVE  GivenInv'
  <1>1. ASSUME NEW w \in Workers, Start(w) \/ Step(w) \/ Failure(w) PROVE GivenInv'
    <2>1. PICK r : Become(w, r) /\ (KeepsKeys(w, r) \/ GivesKey(w, r))
      BY <1>1, RequestUses DEF CommonInv, BrokerInv
    <2> QED BY <2>1, KeepsGiven, GivesGiven DEF Requests
  <1>2. CASE ChangeStatus
    <2>1. PICK id, status : SetStatus(id, status)
      BY <1>2 DEF ChangeStatus
    <2>2. \A t \in tunnels' : \E s \in tunnels : s.id = t.id /\ s.key = t.key
      <3> DEFINE new(s) == IF s.id = id THEN [s EXCEPT !.status = status] ELSE s
      <3>1. tunnels \subseteq Row /\ tunnels' = {new(s) : s \in tunnels}
        BY <2>1, TypedParts DEF SetStatus, CommonInv, BrokerInv
      <3>2. \A s \in tunnels : new(s).id = s.id /\ new(s).key = s.key
        BY <3>1 DEF Row
      <3> HIDE DEF new
      <3> QED BY <3>1, <3>2
    <2>3. \A k \in Keys : holder'[k] = holder[k]
      BY <2>2, HolderKept DEF GivenInv
    <2> QED BY <1>2, <2>2, <2>3, SameGiven DEF ChangeStatus, Requests, kernelVars
  <1> QED BY <1>1, <1>2 DEF Requests, Serve

(* The service starts again, and all its requests are gone.                *)
LEMMA RestartGiven ==
  ASSUME CommonInv, GivenInv, req' = [w \in Workers |-> Idle], UNCHANGED <<tunnels, holder>>,
         peers' \subseteq peers, rec' = Starting
  PROVE  GivenInv'
  <1>1. /\ \A w \in Workers : req'[w] = Idle
        /\ Idle.row.key = None /\ Idle.pc = "idle" /\ Starting.left = {} /\ Of(Starting.todo) = {}
    BY IdleLocal, StartingOK, OfNone
  <1>2. RowsGiven' /\ CommandsGiven'
    BY <1>1 DEF GivenInv, RowsGiven, CommandsGiven
  <1>3. RequestsGiven' /\ DraftsUnknown'
    BY <1>1 DEF RequestsGiven, DraftsUnknown, At
  <1>4. TrafficStaysWithUser'
    BY DEF GivenInv, TrafficStaysWithUser
  <1> QED BY <1>2, <1>3, <1>4 DEF GivenInv

(* A step of the program that learns of no key but a row's.                *)
LEMMA ProgramGiven ==
  ASSUME CommonInv, GivenInv, UNCHANGED <<tunnels, req, holder>>,
         rec'.left \subseteq rec.left \cup tunnels,
         \A c \in Of(rec'.todo) :
            c.verb = "peer set" => c \in Of(rec.todo) \/ (Grants(c) /\ \E t \in rec.left : t.key = c.key),
         \A p \in peers' : (\E q \in peers : q.key = p.key)
                          \/ (\E c \in Of(rec.todo) : c.verb = "peer set" /\ p.key = c.key),
         TrafficStaysWithUser'
  PROVE  GivenInv'
  <1>1. RowsGiven'
    BY DEF GivenInv, RowsGiven
  <1>2. RequestsGiven'
    BY DEF GivenInv, RequestsGiven
  <1>3. CommandsGiven'
    <2>1. \A c \in Of(rec'.todo) : Grants(c)
      BY DEF GivenInv, CommandsGiven, Grants
    <2> QED BY <2>1 DEF CommandsGiven, Grants
  <1>4. ASSUME NEW w \in Workers, At(w, "create", "commit"), req[w].row.key # None
        PROVE  /\ ~HeldBy(rec'.left, rec'.todo, req[w].row.key)
               /\ \A p \in peers' : p.key # req[w].row.key
    <2>1. /\ ~HeldBy(rec.left, rec.todo, req[w].row.key)
          /\ \A p \in peers : p.key # req[w].row.key
      BY <1>4 DEF GivenInv, DraftsUnknown
    <2>2. \A t \in tunnels : t.key # req[w].row.key
      BY <1>4, DraftKey DEF CommonInv, BrokerInv, KeyInv
    <2> QED BY <2>1, <2>2 DEF HeldBy
  <1>5. DraftsUnknown'
    BY <1>4 DEF DraftsUnknown, At
  <1> QED BY <1>1, <1>2, <1>3, <1>5 DEF GivenInv

LEMMA OfTyped ==
  ASSUME NEW S, NEW s \in Seq(S), NEW c \in Of(s)
  PROVE  c \in S
  BY DEF Of

(* What the program is to run for a row is for the user of the row.        *)
LEMMA CreationGrants ==
  ASSUME CommonInv, GivenInv, NEW t \in rec.left, NEW c \in Of(CreateCommands(t)), c.verb = "peer set"
  PROVE  Grants(c) /\ t.key = c.key
  <1>1. t \in Row /\ WellFormed(t)
    BY DEF CommonInv, RecOK, RecState
  <1>2. Concerns(c, t.id, t.key)
    BY <1>1, CreateConcerns DEF OwnCommands
  <1>3. CreateCommands(t) \in Seq(Command)
    BY <1>1, CreateCommandsTyped
  <1>4. c \in Command
    BY <1>3, OfTyped
  <1>5. c.key = t.key /\ c.key \in Keys
    BY <1>2, <1>4 DEF Concerns, Command
  <1>6. holder[t.key] = t.id[1]
    BY <1>5, KeysTyped DEF GivenInv, RowsGiven
  <1> QED BY <1>2, <1>5, <1>6 DEF Grants, Concerns, NetFor

LEMMA SamePeers ==
  ASSUME GivenInv, UNCHANGED <<peers, holder>>
  PROVE  TrafficStaysWithUser' /\ \A p \in peers' : \E q \in peers : q.key = p.key
  BY DEF GivenInv, TrafficStaysWithUser

LEMMA RecoveryGives ==
  ASSUME CommonInv, GivenInv, RecoveryStep \/ RecoveryFailure, UNCHANGED holder
  PROVE  GivenInv'
  <1>0. /\ RecOK /\ KernelTyped /\ tunnels \subseteq Row /\ rec.todo \in Seq(Command)
        /\ UNCHANGED <<tunnels, req>>
    BY TypedParts DEF CommonInv, BrokerInv, RecOK, RecState, RecoveryStep, RecoveryFailure, Fetch, ListLinks,
       ListPeers, NextTunnel, Finish, Recreate, RouteSkipped, RecreateRefused, FetchFails, ListFails,
       RecreateFails, vars, dbVars
  <1>1. CASE Recreate
    <2> DEFINE c == Head(rec.todo)
    <2>1. /\ rec.todo # <<>> /\ Run(c) /\ c \in Of(rec.todo)
          /\ rec'.left = rec.left /\ Of(rec'.todo) \subseteq Of(rec.todo)
      BY <1>0, <1>1, GoOnResult, OfRest DEF Recreate, RecOK
    <2>2. Grants(c)
      BY <2>1 DEF GivenInv, CommandsGiven
    <2> HIDE DEF c
    <2>3. /\ TrafficStaysWithUser'
          /\ \A p \in peers' : (\E q \in peers : q.key = p.key)
                              \/ (c.verb = "peer set" /\ p.key = c.key)
      BY <1>0, <2>1, <2>2, RunGiven DEF GivenInv
    <2>4. \A p \in peers' : (\E q \in peers : q.key = p.key)
                           \/ (\E d \in Of(rec.todo) : d.verb = "peer set" /\ p.key = d.key)
      BY <2>1, <2>3
    <2>5. rec'.left \subseteq rec.left \cup tunnels /\ \A d \in Of(rec'.todo) : d \in Of(rec.todo)
      BY <2>1
    <2> QED BY <1>0, <2>3, <2>4, <2>5, ProgramGiven
  <1>2. CASE ~Recreate
    <2>1. UNCHANGED peers
      BY <1>2 DEF RecoveryStep, RecoveryFailure, Fetch, ListLinks, ListPeers, NextTunnel, Finish,
         RouteSkipped, RecreateRefused, FetchFails, ListFails, RecreateFails, vars, kernelVars
    <2>2. /\ rec'.left \subseteq rec.left \cup tunnels
          /\ \A c \in Of(rec'.todo) :
                c.verb = "peer set" => c \in Of(rec.todo) \/ (Grants(c) /\ \E t \in rec.left : t.key = c.key)
      <3>1. CASE NextTunnel
        <4>1. PICK row \in rec.left :
                /\ rec'.left = rec.left \ {row}
                /\ rec'.todo = CreateCommands(row) \/ rec'.todo = rec.todo
          BY <1>0, <3>1, NextTunnelResult
        <4>2. \A c \in Of(CreateCommands(row)) : c.verb = "peer set" => Grants(c) /\ row.key = c.key
          BY CreationGrants
        <4>3. rec'.left \subseteq rec.left \cup tunnels
          BY <4>1
        <4> QED BY <4>1, <4>2, <4>3
      <3>2. CASE ~NextTunnel
        <4>1. rec'.left \subseteq rec.left \cup tunnels /\ Of(rec'.todo) \subseteq Of(rec.todo)
          <5>1. CASE Fetch
            BY <1>0, <5>1, FetchResult
          <5>2. CASE ListLinks \/ ListPeers \/ ListFails
            BY <1>0, <5>2, ListResult
          <5>3. CASE Finish
            BY <5>3, OffOK, OfNone DEF Finish
          <5>4. CASE RouteSkipped
            <6>1. rec.todo # <<>> /\ rec'.left = rec.left /\ rec'.todo = Tail(rec.todo)
              BY <1>0, <5>4, GoOnResult DEF RouteSkipped, RecOK
            <6> QED BY <1>0, <6>1, OfRest
          <5>5. CASE RecreateRefused \/ RecreateFails
            <6>1. rec'.left = rec.left /\ rec'.todo = <<>>
              BY <1>0, <5>5, GiveUpResult DEF RecreateRefused, RecreateFails
            <6> QED BY <6>1, OfNone
          <5>6. CASE FetchFails
            <6>1. rec'.left = rec.left /\ rec'.todo = rec.todo
              BY <1>0, <5>6 DEF FetchFails, RecOK, RecState
            <6> QED BY <6>1
          <5> QED BY <1>2, <3>2, <5>1, <5>2, <5>3, <5>4, <5>5, <5>6 DEF RecoveryStep, RecoveryFailure
        <4> QED BY <4>1
      <3> QED BY <3>1, <3>2
    <2>3. TrafficStaysWithUser' /\ \A p \in peers' : \E q \in peers : q.key = p.key
      BY <2>1, SamePeers
    <2> QED BY <1>0, <2>2, <2>3, ProgramGiven
  <1> QED BY <1>1, <1>2

LEMMA InitGiven == PropertyInit => GivenInv
  <1> SUFFICES ASSUME PropertyInit PROVE GivenInv
    OBVIOUS
  <1>1. /\ tunnels = {} /\ peers = {} /\ rec.left = {} /\ Of(rec.todo) = {}
        /\ \A w \in Workers : req[w] = Idle
    BY OffOK, OfNone DEF PropertyInit, RecoveryInit, Init, DatabaseInit, KernelInit
  <1> QED BY <1>1, IdleLocal DEF GivenInv, RowsGiven, RequestsGiven, CommandsGiven, DraftsUnknown, At,
             TrafficStaysWithUser

LEMMA NextGiven == CommonInv /\ CommonInv' /\ GivenInv /\ [PropertyNext]_propertyVars => GivenInv'
  <1> SUFFICES ASSUME CommonInv, CommonInv', GivenInv, [PropertyNext]_propertyVars PROVE GivenInv'
    OBVIOUS
  <1>1. CASE Requests /\ GivenKeys
    BY <1>1, RequestsGive DEF CommonInv
  <1>2. CASE (Reboot \/ ServiceRestart) /\ UNCHANGED holder
    <2>1. /\ req' = [w \in Workers |-> Idle] /\ UNCHANGED tunnels /\ peers' \subseteq peers /\ rec' = Starting
      BY <1>2 DEF Reboot, ServiceRestart, Restart, Started, dbVars
    <2> QED BY <1>2, <2>1, RestartGiven
  <1>3. CASE (RecoveryStep \/ RecoveryFailure) /\ UNCHANGED holder
    BY <1>3, RecoveryGives
  <1>4. CASE UNCHANGED propertyVars
    <2>1. UNCHANGED <<tunnels, req, peers, rec, holder>>
      BY <1>4 DEF propertyVars, recoveryVars, vars
    <2> QED BY <2>1, SameRows, SameGiven
  <1> QED BY <1>1, <1>2, <1>3, <1>4 DEF PropertyNext, Recover

(* No peer is ever allowed a network of another user than the one its keys *)
(* were given to, whatever the program recreates from rows and the broker  *)
(* runs late, for every number of goroutines and failures.                 *)
THEOREM RecoveredTrafficStays == PropertySpec => []TrafficStaysWithUser
  <1>1. GivenInv => TrafficStaysWithUser
    BY DEF GivenInv
  <1>2. PropertySpec => []GivenInv
    BY CommonInvariance, InitGiven, NextGiven, PTL DEF PropertySpec
  <1> QED BY <1>1, <1>2, PTL

-----------------------------------------------------------------------------
(* What is left to be run of a creation *)

Ends(s) == {SubSeq(s, k, Len(s)) : k \in 1 .. Len(s)}

First(t) == Head(CreateCommands(t))

LastRoute(t) == RouteAdd(Net(t.p3), Dev(t))

LEMMA EndsFour ==
  ASSUME NEW a, NEW b, NEW c, NEW d
  PROVE  Ends(<<a, b, c, d>>) = {<<a, b, c, d>>, <<b, c, d>>, <<c, d>>, <<d>>}
  <1> DEFINE s == <<a, b, c, d>>
  <1>1. Len(s) = 4 /\ 1 .. 4 = {1, 2, 3, 4}
    OBVIOUS
  <1>2. s \in Seq({a, b, c, d})
    OBVIOUS
  <1> HIDE DEF s
  <1>a. ASSUME NEW k \in 1 .. 3 PROVE SubSeq(s, k + 1, 4) = Tail(SubSeq(s, k, 4))
    <2>1. k \in 1 .. Len(s) /\ 4 \in k .. Len(s)
      BY <1>1
    <2> QED BY <1>2, <2>1, HeadTailOfSubSeq
  <1>b. SubSeq(s, 1, 4) = s
    BY <1>1, <1>2, SubSeqFull
  <1>c. /\ SubSeq(s, 2, 4) = Tail(s) /\ SubSeq(s, 3, 4) = Tail(Tail(s))
        /\ SubSeq(s, 4, 4) = Tail(Tail(Tail(s)))
    <2>1. 1 + 1 = 2 /\ 2 + 1 = 3 /\ 3 + 1 = 4 /\ {1, 2, 3} \subseteq 1 .. 3
      OBVIOUS
    <2> QED BY <1>a, <1>b, <2>1
  <1>d. Tail(s) = <<b, c, d>> /\ Tail(Tail(s)) = <<c, d>> /\ Tail(Tail(Tail(s))) = <<d>>
    BY DEF s
  <1>3. Ends(s) = {SubSeq(s, 1, 4), SubSeq(s, 2, 4), SubSeq(s, 3, 4), SubSeq(s, 4, 4)}
    BY <1>1 DEF Ends
  <1> QED BY <1>b, <1>c, <1>d, <1>3 DEF s

LEMMA EndsSix ==
  ASSUME NEW a, NEW b, NEW c, NEW d, NEW e, NEW f
  PROVE  Ends(<<a, b, c, d, e, f>>) =
           {<<a, b, c, d, e, f>>, <<b, c, d, e, f>>, <<c, d, e, f>>, <<d, e, f>>, <<e, f>>, <<f>>}
  <1> DEFINE s == <<a, b, c, d, e, f>>
  <1>1. Len(s) = 6 /\ 1 .. 6 = {1, 2, 3, 4, 5, 6}
    OBVIOUS
  <1>2. s \in Seq({a, b, c, d, e, f})
    OBVIOUS
  <1> HIDE DEF s
  <1>a. ASSUME NEW k \in 1 .. 5 PROVE SubSeq(s, k + 1, 6) = Tail(SubSeq(s, k, 6))
    <2>1. k \in 1 .. Len(s) /\ 6 \in k .. Len(s)
      BY <1>1
    <2> QED BY <1>2, <2>1, HeadTailOfSubSeq
  <1>b. SubSeq(s, 1, 6) = s
    BY <1>1, <1>2, SubSeqFull
  <1>c. /\ SubSeq(s, 2, 6) = Tail(s) /\ SubSeq(s, 3, 6) = Tail(Tail(s))
        /\ SubSeq(s, 4, 6) = Tail(Tail(Tail(s))) /\ SubSeq(s, 5, 6) = Tail(Tail(Tail(Tail(s))))
        /\ SubSeq(s, 6, 6) = Tail(Tail(Tail(Tail(Tail(s)))))
    <2>1. 1 + 1 = 2 /\ 2 + 1 = 3 /\ 3 + 1 = 4 /\ 4 + 1 = 5 /\ 5 + 1 = 6 /\ {1, 2, 3, 4, 5} \subseteq 1 .. 5
      OBVIOUS
    <2> QED BY <1>a, <1>b, <2>1
  <1>d. /\ Tail(s) = <<b, c, d, e, f>> /\ Tail(Tail(s)) = <<c, d, e, f>>
        /\ Tail(Tail(Tail(s))) = <<d, e, f>> /\ Tail(Tail(Tail(Tail(s)))) = <<e, f>>
        /\ Tail(Tail(Tail(Tail(Tail(s))))) = <<f>>
    BY DEF s
  <1>3. Ends(s) = {SubSeq(s, 1, 6), SubSeq(s, 2, 6), SubSeq(s, 3, 6),
                   SubSeq(s, 4, 6), SubSeq(s, 5, 6), SubSeq(s, 6, 6)}
    BY <1>1 DEF Ends
  <1> QED BY <1>b, <1>c, <1>d, <1>3 DEF s

(* The commands of one creation are all different.                         *)
LEMMA CreationDistinct ==
  ASSUME NEW t \in Row, WellFormed(t), NEW d
  PROVE  /\ RouteAdd(Net(t.p1), d) # RouteAdd(Net(t.p2), d)
         /\ RouteAdd(Net(t.p1), d) # RouteAdd(Net(t.p3), d)
         /\ RouteAdd(Net(t.p2), d) # RouteAdd(Net(t.p3), d)
         /\ Net(t.p3) \notin MainNets(t)
  <1>1. Net(t.p1).pool = t.p1.pool /\ Net(t.p2).pool = t.p2.pool /\ Net(t.p3).pool = t.p3.pool
    BY DEF WellFormed, FirstFromPool, SecondFromPool, ThirdFromPool, Net, Prefix
  <1>2. t.p1.pool # t.p2.pool /\ t.p1.pool # t.p3.pool /\ t.p2.pool # t.p3.pool
    <2>1. t.id[2] \in Slots
      BY DEF WellFormed, OwnId, Ids
    <2> QED BY <2>1, PoolAssumption DEF WellFormed, FirstFromPool, SecondFromPool, ThirdFromPool
  <1>3. \A n : RouteAdd(n, d).net = n
    BY DEF RouteAdd
  <1> QED BY <1>1, <1>2, <1>3 DEF MainNets

LEMMA CreateVerbs ==
  ASSUME NEW t
  PROVE  /\ \A n, d : RouteAdd(n, d).verb = "route add" /\ RouteAdd(n, d).net = n /\ RouteAdd(n, d).dev = d
         /\ PeerSet(t.key, AllowedIPs(t)).verb = "peer set"
         /\ TunnelAdd(t.id, t.type, t.ip).verb = "tunnel add"
         /\ LinkUp(t.id).verb = "link up" /\ AddrAdd(t.ula, t.id).verb = "addr add"
         /\ First(t) = IF t.type = "wg" THEN PeerSet(t.key, AllowedIPs(t))
                       ELSE TunnelAdd(t.id, t.type, t.ip)
  BY DEF RouteAdd, PeerSet, TunnelAdd, LinkUp, AddrAdd, First, CreateCommands

(* Any end of a creation's commands: its first command and the others.     *)
EndShape(q, t) ==
    /\ q # <<>>
    /\ Tail(q) = <<>> \/ Tail(q) \in Ends(CreateCommands(t))
    /\ Of(q) = {Head(q)} \cup Of(Tail(q)) /\ Head(q) \notin Of(Tail(q))
    /\ Of(q) \subseteq Of(CreateCommands(t))
    /\ First(t) \notin Of(Tail(q))
    /\ Head(q).verb = "route add" => \A c \in Of(q) : c.verb = "route add"
    /\ Head(q) = LastRoute(t) => Of(q) = {LastRoute(t)}
    /\ LastRoute(t) \in Of(q)

LEMMA OfTwo ==
  ASSUME NEW a, NEW b
  PROVE  Of(<<a, b>>) = {a, b}
  BY DEF Of

LEMMA OfThree ==
  ASSUME NEW a, NEW b, NEW c
  PROVE  Of(<<a, b, c>>) = {a, b, c}
  BY DEF Of

LEMMA OfFive ==
  ASSUME NEW a, NEW b, NEW c, NEW d, NEW e
  PROVE  Of(<<a, b, c, d, e>>) = {a, b, c, d, e}
  BY DEF Of

LEMMA EndOfPeer ==
  ASSUME NEW t \in Row, WellFormed(t), t.type = "wg", NEW q \in Ends(CreateCommands(t))
  PROVE  EndShape(q, t)
  <1> DEFINE p == PeerSet(t.key, AllowedIPs(t))
             r1 == RouteAdd(Net(t.p1), Wg0)
             r2 == RouteAdd(Net(t.p2), Wg0)
             r3 == RouteAdd(Net(t.p3), Wg0)
  <1>1. r1 # r2 /\ r1 # r3 /\ r2 # r3
    BY CreationDistinct
  <1>a. p.verb = "peer set" /\ r1.verb = "route add" /\ r2.verb = "route add" /\ r3.verb = "route add"
    BY DEF PeerSet, RouteAdd
  <1>b. First(t) = p /\ LastRoute(t) = r3
    BY CreateVerbs DEF LastRoute, Dev
  <1>2. CreateCommands(t) = <<p, r1, r2, r3>>
    BY DEF CreateCommands
  <1> HIDE DEF p, r1, r2, r3
  <1>3. /\ Ends(CreateCommands(t)) = {<<p, r1, r2, r3>>, <<r1, r2, r3>>, <<r2, r3>>, <<r3>>}
        /\ Of(CreateCommands(t)) = {p, r1, r2, r3}
    BY <1>2, EndsFour, OfFour
  <1>4. CASE q = <<p, r1, r2, r3>>
    <2>1. Head(q) = p /\ Tail(q) = <<r1, r2, r3>> /\ q # <<>>
      BY <1>4
    <2>2. Of(q) = {p, r1, r2, r3} /\ Of(Tail(q)) = {r1, r2, r3}
      BY <1>4, <2>1, OfFour, OfThree
    <2> QED BY <1>1, <1>a, <1>b, <1>3, <1>4, <2>1, <2>2 DEF EndShape
  <1>5. CASE q = <<r1, r2, r3>>
    <2>1. Head(q) = r1 /\ Tail(q) = <<r2, r3>> /\ q # <<>>
      BY <1>5
    <2>2. Of(q) = {r1, r2, r3} /\ Of(Tail(q)) = {r2, r3}
      BY <1>5, <2>1, OfThree, OfTwo
    <2> QED BY <1>1, <1>a, <1>b, <1>3, <1>5, <2>1, <2>2 DEF EndShape
  <1>6. CASE q = <<r2, r3>>
    <2>1. Head(q) = r2 /\ Tail(q) = <<r3>> /\ q # <<>>
      BY <1>6
    <2>2. Of(q) = {r2, r3} /\ Of(Tail(q)) = {r3}
      BY <1>6, <2>1, OfTwo, OfOne
    <2> QED BY <1>1, <1>a, <1>b, <1>3, <1>6, <2>1, <2>2 DEF EndShape
  <1>7. CASE q = <<r3>>
    <2>1. Head(q) = r3 /\ Tail(q) = <<>> /\ q # <<>>
      BY <1>7
    <2>2. Of(q) = {r3} /\ Of(Tail(q)) = {}
      BY <1>7, <2>1, OfOne, OfNone
    <2> QED BY <1>1, <1>a, <1>b, <1>3, <1>7, <2>1, <2>2 DEF EndShape
  <1> QED BY <1>3, <1>4, <1>5, <1>6, <1>7

LEMMA EndOfLink ==
  ASSUME NEW t \in Row, WellFormed(t), t.type # "wg", NEW q \in Ends(CreateCommands(t))
  PROVE  EndShape(q, t)
  <1> DEFINE a == TunnelAdd(t.id, t.type, t.ip)
             u == LinkUp(t.id)
             d == AddrAdd(t.ula, t.id)
             r1 == RouteAdd(Net(t.p1), t.id)
             r2 == RouteAdd(Net(t.p2), t.id)
             r3 == RouteAdd(Net(t.p3), t.id)
  <1>1. r1 # r2 /\ r1 # r3 /\ r2 # r3
    BY CreationDistinct
  <1>a. /\ a.verb = "tunnel add" /\ u.verb = "link up" /\ d.verb = "addr add"
        /\ r1.verb = "route add" /\ r2.verb = "route add" /\ r3.verb = "route add"
    BY DEF TunnelAdd, LinkUp, AddrAdd, RouteAdd
  <1>b. First(t) = a /\ LastRoute(t) = r3
    BY CreateVerbs DEF LastRoute, Dev
  <1>2. CreateCommands(t) = <<a, u, d, r1, r2, r3>>
    BY DEF CreateCommands
  <1> HIDE DEF a, u, d, r1, r2, r3
  <1>3. /\ Ends(CreateCommands(t)) = {<<a, u, d, r1, r2, r3>>, <<u, d, r1, r2, r3>>, <<d, r1, r2, r3>>,
                                      <<r1, r2, r3>>, <<r2, r3>>, <<r3>>}
        /\ Of(CreateCommands(t)) = {a, u, d, r1, r2, r3}
    BY <1>2, EndsSix, OfSix
  <1>4. CASE q = <<a, u, d, r1, r2, r3>>
    <2>1. Head(q) = a /\ Tail(q) = <<u, d, r1, r2, r3>> /\ q # <<>>
      BY <1>4
    <2>2. Of(q) = {a, u, d, r1, r2, r3} /\ Of(Tail(q)) = {u, d, r1, r2, r3}
      BY <1>4, <2>1, OfSix, OfFive
    <2> QED BY <1>1, <1>a, <1>b, <1>3, <1>4, <2>1, <2>2 DEF EndShape
  <1>5. CASE q = <<u, d, r1, r2, r3>>
    <2>1. Head(q) = u /\ Tail(q) = <<d, r1, r2, r3>> /\ q # <<>>
      BY <1>5
    <2>2. Of(q) = {u, d, r1, r2, r3} /\ Of(Tail(q)) = {d, r1, r2, r3}
      BY <1>5, <2>1, OfFive, OfFour
    <2> QED BY <1>1, <1>a, <1>b, <1>3, <1>5, <2>1, <2>2 DEF EndShape
  <1>6. CASE q = <<d, r1, r2, r3>>
    <2>1. Head(q) = d /\ Tail(q) = <<r1, r2, r3>> /\ q # <<>>
      BY <1>6
    <2>2. Of(q) = {d, r1, r2, r3} /\ Of(Tail(q)) = {r1, r2, r3}
      BY <1>6, <2>1, OfFour, OfThree
    <2> QED BY <1>1, <1>a, <1>b, <1>3, <1>6, <2>1, <2>2 DEF EndShape
  <1>7. CASE q = <<r1, r2, r3>>
    <2>1. Head(q) = r1 /\ Tail(q) = <<r2, r3>> /\ q # <<>>
      BY <1>7
    <2>2. Of(q) = {r1, r2, r3} /\ Of(Tail(q)) = {r2, r3}
      BY <1>7, <2>1, OfThree, OfTwo
    <2> QED BY <1>1, <1>a, <1>b, <1>3, <1>7, <2>1, <2>2 DEF EndShape
  <1>8. CASE q = <<r2, r3>>
    <2>1. Head(q) = r2 /\ Tail(q) = <<r3>> /\ q # <<>>
      BY <1>8
    <2>2. Of(q) = {r2, r3} /\ Of(Tail(q)) = {r3}
      BY <1>8, <2>1, OfTwo, OfOne
    <2> QED BY <1>1, <1>a, <1>b, <1>3, <1>8, <2>1, <2>2 DEF EndShape
  <1>9. CASE q = <<r3>>
    <2>1. Head(q) = r3 /\ Tail(q) = <<>> /\ q # <<>>
      BY <1>9
    <2>2. Of(q) = {r3} /\ Of(Tail(q)) = {}
      BY <1>9, <2>1, OfOne, OfNone
    <2> QED BY <1>1, <1>a, <1>b, <1>3, <1>9, <2>1, <2>2 DEF EndShape
  <1> QED BY <1>3, <1>4, <1>5, <1>6, <1>7, <1>8, <1>9

LEMMA EndOfCreation ==
  ASSUME NEW t \in Row, WellFormed(t), NEW q \in Ends(CreateCommands(t))
  PROVE  EndShape(q, t)
  BY EndOfPeer, EndOfLink

LEMMA WholeEnd ==
  ASSUME NEW t
  PROVE  CreateCommands(t) \in Ends(CreateCommands(t))
  BY EndsFour, EndsSix DEF CreateCommands

-----------------------------------------------------------------------------
(* The steps since a start, as long as nothing but creations and the       *)
(* recovery happened.  Requests are creations, each on an id of its own,   *)
(* and what they and the program have yet to run is the end of the         *)
(* commands of an active tunnel.                                           *)

Creations ==
    /\ \A w \in Workers : req[w].pc \in Acting => req[w].pc = "exec" /\ req[w].op = "create"
    /\ \A w \in Workers : req[w].pc = "exec" =>
         \E t \in tunnels : t.id = req[w].id /\ t.status = "active" /\ req[w].todo \in Ends(CreateCommands(t))
    /\ \A v, w \in Workers :
         v # w /\ req[v].pc = "exec" /\ req[w].pc = "exec" => req[v].id # req[w].id
    /\ rec.left \subseteq tunnels
    /\ rec.pc \in {"off", "fetch"} => rec.left = {} /\ rec.devs = {} /\ rec.keys = {}
    /\ rec.pc = "exec" =>
         \E t \in tunnels : t.status = "active" /\ rec.todo \in Ends(CreateCommands(t))

Searching(w) ==
    /\ UNCHANGED <<tunnels, kernelVars, rec>>
    /\ req[w].pc # "exec"
    /\ \E r : Become(w, r) /\ r.pc \notin Acting

Inserting(w, row) ==
    /\ UNCHANGED <<kernelVars, rec>>
    /\ row \in Row /\ WellFormed(row) /\ row.status = "active"
    /\ \A t \in tunnels : t.id # row.id /\ (row.key # None => t.key # row.key)
    /\ tunnels' = tunnels \cup {row}
    /\ req[w].pc # "exec"
    /\ \E r : /\ Become(w, r) /\ r.op = "create" /\ r.pc = "exec" /\ r.id = row.id
              /\ r.todo = CreateCommands(row)

Running(w) ==
    /\ UNCHANGED <<tunnels, rec>>
    /\ req[w].pc = "exec" /\ Run(Head(req[w].todo))
    /\ \E r : /\ Become(w, r)
              /\ \/ r = Idle /\ Tail(req[w].todo) = <<>>
                 \/ /\ Tail(req[w].todo) # <<>> /\ r.todo = Tail(req[w].todo)
                    /\ r.pc = "exec" /\ r.op = req[w].op /\ r.id = req[w].id

Refused(w) ==
    /\ UNCHANGED <<tunnels, kernelVars, rec>>
    /\ req[w].pc = "exec" /\ ~Accepts(Head(req[w].todo))
    /\ Become(w, Idle)

Restarting ==
    /\ rec' = Starting /\ tunnels' = tunnels
    /\ req' = [w \in Workers |-> Idle]
    /\ since' = "reboot" => links' = {} /\ routes' = {} /\ peers' = {}

Quiet == \* what a step is while since stays what it was
    \/ \E w \in Workers : Searching(w) \/ Running(w) \/ Refused(w)
    \/ \E w \in Workers : \E row : Inserting(w, row)
    \/ RecoveryStep /\ UNCHANGED <<tunnels, req>>
    \/ UNCHANGED <<tunnels, kernelVars, rec, req>>

LEMMA InsertResult ==
  ASSUME BrokerInv, NEW w \in Workers, Commit(w), UNCHANGED rec
  PROVE  \E row : Inserting(w, row)
  <1>1. PICK row : row = req[w].row
    OBVIOUS
  <1>2. PICK r : r = [req[w] EXCEPT !.pc = "exec", !.id = row.id, !.row = Needed(row),
                                    !.todo = CreateCommands(row)]
    OBVIOUS
  <1>3. At(w, "create", "commit") /\ req[w] \in Request /\ row \in Row /\ WellFormed(row)
    BY <1>1, DraftComplete, TypedParts DEF BrokerInv, Commit
  <1>4. /\ Become(w, r) /\ CreateTunnelWithTransaction(row) /\ UNCHANGED kernelVars
        /\ r.pc = "exec" /\ r.op = "create" /\ r.id = row.id /\ r.todo = CreateCommands(row)
    BY <1>1, <1>2, <1>3 DEF Commit, At, Request, Needed, NoRow
  <1>5. row.status = "active" /\ req[w].pc = "commit"
    BY <1>1, <1>3 DEF Request, Draft, At
  <1>6. \A t \in tunnels : t.key = row.key => t.key = None
    BY <1>1, <1>3, DraftKey DEF BrokerInv, KeyInv
  <1> QED BY <1>3, <1>4, <1>5, <1>6 DEF Inserting, CreateTunnelWithTransaction, TunnelIDExists

LEMMA ExecuteResult ==
  ASSUME BrokerInv, NEW w \in Workers, req[w].op = "create", Execute(w), UNCHANGED rec
  PROVE  Running(w)
  <1>1. /\ req[w].pc = "exec" /\ Run(Head(req[w].todo)) /\ NextCommand(w) /\ UNCHANGED tunnels
    BY DEF Execute, dbVars
  <1>2. PICK r :
           /\ Become(w, r)
           /\ \/ /\ r.id = req[w].id /\ r.op = req[w].op /\ r.row = req[w].row
                 /\ r.todo = Tail(req[w].todo)
                 /\ \/ r.pc = "exec" /\ r.todo # <<>>
                    \/ r.pc = "delete" /\ r.op = "delete" /\ r.todo = <<>>
              \/ r = Idle /\ (NextCommand(w) => req[w].op # "delete" /\ Tail(req[w].todo) = <<>>)
    BY <1>1, Advanced DEF BrokerInv, KeyInv
  <1> QED BY <1>1, <1>2 DEF Running

(* A worker of a creation that is not running commands.                    *)
LEMMA StepResult ==
  ASSUME BrokerInv, Creations, NEW w \in Workers, StartCreate(w) \/ Step(w), UNCHANGED rec
  PROVE  \/ Searching(w) \/ Running(w) \/ Refused(w)
         \/ \E row : Inserting(w, row)
  <1>0. /\ req[w].pc \in Acting => req[w].pc = "exec" /\ req[w].op = "create"
        /\ Idle.pc = "idle" /\ LocalOK /\ Local(req[w])
    BY TypedParts DEF Creations, Idle, BrokerInv, KeyInv, RequestsLocal
  <1>1. CASE StartCreate(w)
    <2>1. PICK u, type, ip :
              Become(w, [Idle EXCEPT !.op = "create", !.pc = "count",
                           !.row = [NoRow EXCEPT !.user = u, !.type = type, !.ip = ip]])
      BY <1>1 DEF StartCreate
    <2> DEFINE s == [Idle EXCEPT !.op = "create", !.pc = "count",
                       !.row = [NoRow EXCEPT !.user = u, !.type = type, !.ip = ip]]
    <2>2. s.op = "create" /\ s.pc = "count"
      BY DEF Idle
    <2>3. UNCHANGED <<tunnels, kernelVars>> /\ req[w].pc # "exec"
      BY <1>0, <1>1 DEF StartCreate, dbVars
    <2> HIDE DEF s
    <2> QED BY <2>1, <2>2, <2>3 DEF Searching, Acting, s
  <1>2. CASE CommitRefused(w)
    <2>1. UNCHANGED <<tunnels, kernelVars>> /\ req[w].pc # "exec" /\ Become(w, Idle)
      BY <1>2 DEF CommitRefused, dbVars, At, Answer
    <2> QED BY <1>0, <2>1 DEF Searching, Acting
  <1>3. CASE \/ CountActive(w) \/ FindSlot(w) \/ FindFirstPrefix(w)
             \/ FindSecondPrefix(w) \/ FindThirdPrefix(w)
    <2>1. /\ UNCHANGED <<tunnels, kernelVars>>
          /\ req[w].pc \in {"count", "slot", "prefix1", "prefix2", "prefix3"}
      BY <1>3 DEF CountActive, FindSlot, FindFirstPrefix, FindSecondPrefix, FindThirdPrefix, At, dbVars
    <2>2. req[w].row.key = None
      BY <1>0, <2>1 DEF Local
    <2>3. CASE Answer(w)
      BY <1>0, <2>1, <2>3 DEF Answer, Searching, Acting
    <2>4. CASE \E r : Become(w, r) /\ r.op = req[w].op /\ r.pc \notin Acting
      BY <1>0, <2>1, <2>4 DEF Searching, Acting
    <2> QED BY <1>0, <1>3, <2>2, <2>3, <2>4, SearchResult
  <1>4. CASE UpdateStep(w) \/ DeleteStep(w)
    BY <1>0, <1>4 DEF UpdateStep, UpdateIP, Reselect, DeleteStep, Lookup, DeleteRow, Decrement, At, Acting
  <1>5. CASE Execute(w)
    BY <1>0, <1>5, ExecuteResult DEF Execute, Acting
  <1>6. CASE CommandRefused(w)
    BY <1>0, <1>6 DEF CommandRefused, AfterFailedCommand, Answer, Refused, Acting, dbVars
  <1> QED BY <1>1, <1>2, <1>3, <1>4, <1>5, <1>6, InsertResult DEF Step, CreateStep, CommandStep

LEMMA StepKinds ==
  ASSUME CommonInv, since # "other" => Creations, [PropertyNext]_propertyVars, since' # "other"
  PROVE  \/ Restarting /\ since' \in {"reboot", "restart"}
         \/ since # "other" /\ since' = since /\ Creations /\ UNCHANGED wg0 /\ Quiet
  <1>1. CASE Reboot /\ since' = "reboot"
    BY <1>1 DEF Reboot, Restarting, Started, dbVars
  <1>2. CASE ServiceRestart /\ since' = "restart"
    BY <1>2 DEF ServiceRestart, Restart, Restarting, Started, dbVars
  <1>3. CASE Requests /\ since' = IF Meddling THEN "other" ELSE since
    <2>1. ~Meddling /\ since # "other" /\ since' = since /\ Creations
      BY <1>3
    <2>2. PICK w \in Workers : StartCreate(w) \/ Step(w)
      BY <1>3, <2>1 DEF Requests, Serve, Meddling, Start
    <2>3. UNCHANGED rec
      BY <1>3 DEF Requests
    <2>4. Searching(w) \/ Running(w) \/ Refused(w) \/ \E row : Inserting(w, row)
      BY <2>1, <2>2, <2>3, StepResult DEF CommonInv
    <2>5. UNCHANGED wg0
      BY <2>4 DEF Searching, Running, Refused, Inserting, kernelVars, Run
    <2> QED BY <2>1, <2>4, <2>5 DEF Quiet
  <1>4. CASE Recover
    <2>1. UNCHANGED <<tunnels, req, wg0>>
      BY <1>4 DEF Recover, RecoveryStep, Fetch, ListLinks, ListPeers, NextTunnel, Finish, Recreate,
         RouteSkipped, RecreateRefused, vars, dbVars, Run
    <2> QED BY <1>4, <2>1 DEF Recover, Quiet
  <1>5. CASE UNCHANGED propertyVars
    BY <1>5 DEF propertyVars, recoveryVars, vars, Quiet, kernelVars
  <1> QED BY <1>1, <1>2, <1>3, <1>4, <1>5 DEF PropertyNext

-----------------------------------------------------------------------------

(* The requests change by one that runs no command, or the next one.       *)
LEMMA RequestsCreate ==
  ASSUME BrokerInv, Creations, NEW w \in Workers, NEW r, Become(w, r), tunnels \subseteq tunnels',
         r.pc \in Acting =>
           /\ r.pc = "exec" /\ r.op = "create"
           /\ \E t \in tunnels' : t.id = r.id /\ t.status = "active" /\ r.todo \in Ends(CreateCommands(t))
           /\ \/ r.id = req[w].id /\ req[w].pc = "exec"
              \/ \A t \in tunnels : t.id # r.id
  PROVE  /\ \A v \in Workers : req'[v].pc \in Acting => req'[v].pc = "exec" /\ req'[v].op = "create"
         /\ \A v \in Workers : req'[v].pc = "exec" =>
              \E t \in tunnels' : t.id = req'[v].id /\ t.status = "active"
                                  /\ req'[v].todo \in Ends(CreateCommands(t))
         /\ \A u, v \in Workers :
              u # v /\ req'[u].pc = "exec" /\ req'[v].pc = "exec" => req'[u].id # req'[v].id
  <1>1. req'[w] = r /\ \A v \in Workers \ {w} : req'[v] = req[v]
    BY Others, TypedParts DEF BrokerInv
  <1>2. "exec" \in Acting
    BY DEF Acting
  <1>3. ASSUME NEW v \in Workers \ {w}, req[v].pc = "exec", r.pc = "exec" PROVE req[v].id # r.id
    BY <1>2, <1>3 DEF Creations
  <1>4. \A v \in Workers : req'[v].pc \in Acting => req'[v].pc = "exec" /\ req'[v].op = "create"
    BY <1>1 DEF Creations
  <1>5. ASSUME NEW v \in Workers, req'[v].pc = "exec"
        PROVE  \E t \in tunnels' : t.id = req'[v].id /\ t.status = "active"
                                   /\ req'[v].todo \in Ends(CreateCommands(t))
    BY <1>1, <1>2, <1>5 DEF Creations
  <1>6. ASSUME NEW u \in Workers, NEW v \in Workers, u # v, req'[u].pc = "exec", req'[v].pc = "exec"
        PROVE  req'[u].id # req'[v].id
    BY <1>1, <1>3, <1>6 DEF Creations
  <1> QED BY <1>4, <1>5, <1>6

(* The program takes up an active tunnel of the table, or goes on.         *)
LEMMA ProgramCreates ==
  ASSUME CommonInv, Creations, RecoveryStep, UNCHANGED <<tunnels, req>>
  PROVE  Creations'
  <1>0. RecOK /\ tunnels \subseteq Row /\ KernelTyped /\ \A t \in tunnels : WellFormed(t)
    BY TypedParts DEF CommonInv, BrokerInv
  <1>a. ASSUME rec'.left \subseteq tunnels,
               rec'.pc \in {"off", "fetch"} => rec'.left = {} /\ rec'.devs = {} /\ rec'.keys = {},
               rec'.pc = "exec" =>
                 \E t \in tunnels : t.status = "active" /\ rec'.todo \in Ends(CreateCommands(t))
        PROVE  Creations'
    BY <1>a DEF Creations
  <1>1. CASE Fetch
    BY <1>0, <1>1, <1>a, FetchResult
  <1>2. CASE ListLinks \/ ListPeers
    <2>1. rec'.left = rec.left /\ rec'.pc \in {"peers", "loop"}
      BY <1>0, <1>2, ListResult
    <2> QED BY <1>a, <2>1 DEF Creations
  <1>3. CASE NextTunnel
    <2>1. PICK row \in rec.left :
           /\ rec'.left = rec.left \ {row}
           /\ \/ Missing(row) /\ rec'.pc = "exec" /\ rec'.todo = CreateCommands(row)
              \/ rec'.pc = "loop"
      BY <1>0, <1>3, NextTunnelResult
    <2>2. row \in tunnels /\ (Missing(row) => row.status = "active")
      BY DEF Creations, Missing
    <2> QED BY <1>a, <2>1, <2>2, WholeEnd DEF Creations
  <1>4. CASE Finish
    BY <1>4, <1>a DEF Finish, Off
  <1>5. CASE Recreate \/ RouteSkipped
    <2>1. rec.pc = "exec" /\ GoOn
      BY <1>5 DEF Recreate, RouteSkipped
    <2>2. PICK t \in tunnels : t.status = "active" /\ rec.todo \in Ends(CreateCommands(t))
      BY <2>1 DEF Creations
    <2>3. Tail(rec.todo) = <<>> \/ Tail(rec.todo) \in Ends(CreateCommands(t))
      BY <1>0, <2>2, EndOfCreation DEF EndShape
    <2>4. /\ rec'.left = rec.left /\ rec'.todo = Tail(rec.todo)
          /\ rec'.pc = IF Tail(rec.todo) = <<>> THEN "loop" ELSE "exec"
      BY <1>0, <2>1, GoOnResult
    <2> QED BY <1>a, <2>2, <2>3, <2>4 DEF Creations
  <1>6. CASE RecreateRefused
    <2>1. rec'.left = rec.left /\ rec'.pc = "loop"
      BY <1>0, <1>6, GiveUpResult DEF RecreateRefused
    <2> QED BY <1>a, <2>1 DEF Creations
  <1> QED BY <1>1, <1>2, <1>3, <1>4, <1>5, <1>6 DEF RecoveryStep

LEMMA NextCreations ==
  ASSUME CommonInv, since # "other" => Creations, [PropertyNext]_propertyVars, since' # "other"
  PROVE  Creations'
  <1>0. /\ req \in [Workers -> Request] /\ tunnels \subseteq Row /\ \A t \in tunnels : WellFormed(t)
        /\ Idle.pc \notin Acting /\ "exec" \in Acting
    BY TypedParts, IdleLocal DEF CommonInv, BrokerInv, Acting
  <1>1. CASE Restarting
    <2>1. \A w \in Workers : req'[w].pc \notin Acting /\ req'[w].pc # "exec"
      BY <1>0, <1>1 DEF Restarting
    <2> QED BY <1>1, <2>1, StartingOK DEF Restarting, Creations
  <1>2. ASSUME Creations, NEW w \in Workers, Searching(w) \/ Refused(w) PROVE Creations'
    <2>1. PICK r : Become(w, r) /\ r.pc \notin Acting
      BY <1>0, <1>2 DEF Searching, Refused
    <2>2. UNCHANGED <<tunnels, rec>>
      BY <1>2 DEF Searching, Refused
    <2> QED BY <1>2, <2>1, <2>2, RequestsCreate DEF Creations, CommonInv
  <1>3. ASSUME Creations, NEW w \in Workers, Running(w) PROVE Creations'
    <2>1. PICK r : /\ Become(w, r)
                   /\ \/ r = Idle
                      \/ /\ Tail(req[w].todo) # <<>> /\ r.todo = Tail(req[w].todo)
                         /\ r.pc = "exec" /\ r.op = req[w].op /\ r.id = req[w].id
      BY <1>3 DEF Running
    <2>2. UNCHANGED <<tunnels, rec>> /\ req[w].pc = "exec"
      BY <1>3 DEF Running
    <2>3. PICK t \in tunnels : t.id = req[w].id /\ t.status = "active" /\ req[w].todo \in Ends(CreateCommands(t))
      BY <1>3, <2>2 DEF Creations
    <2>4. Tail(req[w].todo) = <<>> \/ Tail(req[w].todo) \in Ends(CreateCommands(t))
      BY <1>0, <2>3, EndOfCreation DEF EndShape
    <2>5. req[w].op = "create"
      BY <1>0, <1>3, <2>2 DEF Creations
    <2>6. r.pc \in Acting =>
            /\ r.pc = "exec" /\ r.op = "create"
            /\ \E s \in tunnels' : s.id = r.id /\ s.status = "active" /\ r.todo \in Ends(CreateCommands(s))
            /\ r.id = req[w].id /\ req[w].pc = "exec"
      BY <1>0, <2>1, <2>2, <2>3, <2>4, <2>5
    <2> QED BY <1>3, <2>1, <2>2, <2>6, RequestsCreate DEF Creations, CommonInv
  <1>4. ASSUME Creations, NEW w \in Workers, NEW row, Inserting(w, row) PROVE Creations'
    <2>1. PICK r : /\ Become(w, r) /\ r.op = "create" /\ r.pc = "exec" /\ r.id = row.id
                   /\ r.todo = CreateCommands(row)
      BY <1>4 DEF Inserting
    <2>2. /\ UNCHANGED rec /\ row.status = "active" /\ tunnels' = tunnels \cup {row}
          /\ \A t \in tunnels : t.id # r.id
      BY <1>4, <2>1 DEF Inserting
    <2>3. \E t \in tunnels' : t.id = r.id /\ t.status = "active" /\ r.todo \in Ends(CreateCommands(t))
      BY <2>1, <2>2, WholeEnd
    <2>4. tunnels \subseteq tunnels'
      BY <2>2
    <2> QED BY <1>4, <2>1, <2>2, <2>3, <2>4, RequestsCreate DEF Creations, CommonInv
  <1>5. ASSUME Creations, RecoveryStep, UNCHANGED <<tunnels, req>> PROVE Creations'
    BY <1>5, ProgramCreates
  <1>6. ASSUME Creations, UNCHANGED <<tunnels, kernelVars, rec, req>> PROVE Creations'
    BY <1>6 DEF Creations
  <1> QED BY <1>1, <1>2, <1>3, <1>4, <1>5, <1>6, StepKinds DEF Quiet

-----------------------------------------------------------------------------
(* A command of one tunnel and what the other tunnels have                 *)

(* A command that somebody runs is one of a tunnel's creation.             *)
RunsFor(c, t) == t \in tunnels /\ c \in Of(CreateCommands(t)) /\ Run(c)

LEMMA RunsForTyped ==
  ASSUME BrokerInv, NEW t, NEW c, RunsFor(c, t)
  PROVE  /\ t \in Row /\ WellFormed(t) /\ t.id \in Ids /\ c \in Command
         /\ Concerns(c, t.id, t.key) /\ c \in OwnCommands(t)
  <1>1. t \in Row /\ WellFormed(t) /\ c \in Of(CreateCommands(t))
    BY TypedParts DEF BrokerInv, RunsFor
  <1>2. c \in OwnCommands(t) /\ t.id \in Ids
    BY <1>1 DEF OwnCommands, Row
  <1>3. c \in Command
    <2>1. CreateCommands(t) \in Seq(Command)
      BY <1>1, CreateCommandsTyped
    <2> QED BY <1>1, <2>1 DEF Of
  <1> QED BY <1>1, <1>2, <1>3, CreateConcerns

(* No tunnel of the table loses anything by it.                            *)
LEMMA RunSettles ==
  ASSUME BrokerInv, DistinctNumbers, NEW t, NEW c, RunsFor(c, t), NEW s \in tunnels,
         NEW rest, Settled(s, rest)
  PROVE  /\ Settled(s, rest)'
         /\ s = t => Settled(s, rest \ {c})'
  <1>0. /\ s \in Row /\ WellFormed(s) /\ KernelTyped /\ t \in tunnels
        /\ \A x, y \in tunnels : x.id = y.id => x = y
    BY TypedParts DEF BrokerInv, RunsFor
  <1>1. CASE s = t
    BY <1>0, <1>1, RunsForTyped, SettledAdvances DEF RunsFor
  <1>2. CASE s # t
    <2>1. s.id # t.id
      BY <1>0, <1>2
    <2>2. s.key # None => t.key # s.key
      BY <1>0, <2>1 DEF BrokerInv, KeyInv, KeysOwned
    <2> QED BY <1>0, <1>2, <2>1, <2>2, RunsForTyped, SettledElsewhere DEF RunsFor
  <1> QED BY <1>1, <1>2

(* What runs in a quiet step: a request's next command or the program's.   *)
LEMMA WorkerRuns ==
  ASSUME CommonInv, Creations, NEW w \in Workers, Running(w)
  PROVE  \E t : /\ RunsFor(Head(req[w].todo), t) /\ t.id = req[w].id /\ t.status = "active"
                /\ req[w].todo \in Ends(CreateCommands(t))
  <1>1. req[w].pc = "exec" /\ Run(Head(req[w].todo))
    BY DEF Running
  <1>2. PICK t \in tunnels : t.id = req[w].id /\ t.status = "active" /\ req[w].todo \in Ends(CreateCommands(t))
    BY <1>1 DEF Creations
  <1>3. Head(req[w].todo) \in Of(CreateCommands(t))
    BY <1>2, EndOfCreation, TypedParts DEF EndShape, CommonInv, BrokerInv
  <1> QED BY <1>1, <1>2, <1>3 DEF RunsFor

LEMMA ProgramRuns ==
  ASSUME CommonInv, Creations, Recreate
  PROVE  \E t : /\ RunsFor(Head(rec.todo), t) /\ t.status = "active"
                /\ rec.todo \in Ends(CreateCommands(t))
  <1>1. rec.pc = "exec" /\ Run(Head(rec.todo))
    BY DEF Recreate
  <1>2. PICK t \in tunnels : t.status = "active" /\ rec.todo \in Ends(CreateCommands(t))
    BY <1>1 DEF Creations
  <1>3. Head(rec.todo) \in Of(CreateCommands(t))
    BY <1>2, EndOfCreation, TypedParts DEF EndShape, CommonInv, BrokerInv
  <1> QED BY <1>1, <1>2, <1>3 DEF RunsFor

(* A quiet step runs a command of an active tunnel's creation, or leaves   *)
(* the kernel alone.                                                       *)
LEMMA QuietKernel ==
  ASSUME CommonInv, Creations, Quiet
  PROVE  /\ tunnels \subseteq tunnels'
         /\ \/ UNCHANGED <<links, routes, peers>>
            \/ \E c, t : RunsFor(c, t) /\ t.status = "active" /\ UNCHANGED tunnels
  <1>1. ASSUME NEW w \in Workers, Running(w)
        PROVE  \E c, t : RunsFor(c, t) /\ t.status = "active" /\ UNCHANGED tunnels
    BY <1>1, WorkerRuns DEF Running
  <1>2. ASSUME Recreate PROVE \E c, t : RunsFor(c, t) /\ t.status = "active" /\ UNCHANGED tunnels
    BY <1>2, ProgramRuns DEF Recreate, dbVars
  <1>3. ASSUME RecoveryStep, ~Recreate PROVE UNCHANGED <<links, routes, peers>>
    BY <1>3 DEF RecoveryStep, Fetch, ListLinks, ListPeers, NextTunnel, Finish,
       RouteSkipped, RecreateRefused, vars
  <1> QED BY <1>1, <1>2, <1>3 DEF Quiet, Searching, Refused, Inserting, kernelVars

-----------------------------------------------------------------------------
(* Recovery disturbs nothing *)

CreationsInv == since # "other" => Creations

LEMMA ConfiguredSettled ==
  ASSUME NEW t, Configured(t)
  PROVE  Settled(t, {})
  <1>1. RoutesSettled(t, {})
    BY DEF Configured, RoutesSettled, Dev
  <1>2. t.type = "wg" => PeerSettled(t, {})
    BY DEF Configured, PeerSettled
  <1>3. ASSUME t.type # "wg" PROVE LinkSettled(t, {})
    <2> DEFINE l == [dev |-> t.id, mode |-> t.type, remote |-> t.ip, up |-> TRUE, ula |-> t.ula]
    <2>1. l \in links
      BY <1>3 DEF Configured
    <2>2. l.dev = t.id /\ l.mode = t.type /\ l.remote = t.ip /\ l.up = TRUE /\ l.ula = t.ula
      OBVIOUS
    <2> HIDE DEF l
    <2> QED BY <2>1, <2>2 DEF LinkSettled, LinkOf
  <1> QED BY <1>1, <1>2, <1>3 DEF Settled

(* A quiet step takes nothing from any tunnel of the table.                *)
LEMMA QuietSettles ==
  ASSUME CommonInv, DistinctNumbers, Creations, Quiet, NEW t \in tunnels, NEW rest, Settled(t, rest)
  PROVE  Settled(t, rest)'
  BY QuietKernel, RunSettles, SettledKept DEF CommonInv

LEMMA CommonKernel == CommonInv => KernelTyped
  BY TypedParts DEF CommonInv, BrokerInv

LEMMA ConfiguredNext ==
  ASSUME KernelTyped', NEW t, Settled(t, {})'
  PROVE  Configured(t)'
  <1>1. \A n \in MainNets(t) : [net |-> n, dev |-> Dev(t)] \in routes'
    BY DEF Settled, RoutesSettled
  <1>2. CASE t.type = "wg"
    <2>1. \E p \in peers' : p.key = t.key /\ MainNets(t) \subseteq p.allowed
      BY <1>2 DEF Settled, PeerSettled
    <2> QED BY <1>1, <1>2, <2>1 DEF Configured, Dev
  <1>3. CASE t.type # "wg"
    <2>1. PICK l \in links' : l.dev = t.id /\ l.mode = t.type /\ l.remote = t.ip /\ l.up = TRUE /\ l.ula = t.ula
      BY <1>3 DEF Settled, LinkSettled, LinkOf
    <2>2. l = [dev |-> t.id, mode |-> t.type, remote |-> t.ip, up |-> TRUE, ula |-> t.ula]
      BY <2>1 DEF KernelTyped, Link
    <2> QED BY <1>1, <1>3, <2>1, <2>2 DEF Configured, Dev
  <1> QED BY <1>2, <1>3

LEMMA NextUndisturbed ==
  ASSUME DistinctNumbers, CommonInv, CommonInv', CreationsInv, [PropertyNext]_propertyVars,
         rec' # Starting, since' # "other", NEW t \in tunnels, Configured(t)
  PROVE  Configured(t)'
  <1>1. Creations /\ Quiet
    BY StepKinds DEF CreationsInv, Restarting
  <1>2. Settled(t, {})'
    BY <1>1, ConfiguredSettled, QuietSettles
  <1>3. KernelTyped'
    BY CommonKernel, PTL
  <1> QED BY <1>2, <1>3, ConfiguredNext

LEMMA InitCreations == PropertyInit => CreationsInv
  BY DEF PropertyInit, CreationsInv

LEMMA StepCreations == CommonInv /\ CreationsInv /\ [PropertyNext]_propertyVars => CreationsInv'
  BY NextCreations DEF CreationsInv

(* Since a start that only creations followed, every request and the       *)
(* program itself have but the end of an active tunnel's creation to run.  *)
THEOREM CreationsHold == PropertySpec => []CreationsInv
  BY InitCreations, StepCreations, CommonInvariance, PTL DEF PropertySpec

(* A tunnel that is configured stays so while the program recovers others  *)
(* beside it and requests create more of them.                             *)
THEOREM RecoveryDisturbs == DistinctNumbers => (PropertySpec => RecoveryDisturbsNothing)
  <1> SUFFICES ASSUME DistinctNumbers PROVE PropertySpec => RecoveryDisturbsNothing
    OBVIOUS
  <1> DEFINE Undisturbed == rec.pc # "off" /\ rec' # Starting /\ since' # "other" =>
                               \A t \in tunnels : Configured(t) => Configured(t)'
  <1>1. CommonInv /\ CommonInv' /\ CreationsInv /\ [PropertyNext]_propertyVars => [Undisturbed]_propertyVars
    BY NextUndisturbed
  <1> HIDE DEF Undisturbed
  <1>2. PropertySpec => [][Undisturbed]_propertyVars
    BY <1>1, CommonInvariance, CreationsHold, PTL DEF PropertySpec
  <1> QED BY <1>2 DEF RecoveryDisturbsNothing, Undisturbed

-----------------------------------------------------------------------------
(* Recovery after a reboot.  The kernel was emptied, and every tunnel of   *)
(* the table is brought back by the program or by the request that is      *)
(* creating it; the difficulty is that both may run the commands of one    *)
(* tunnel, and each gives up when the other was first.                     *)

(* Whoever is about to run q has done the rest of what t needs.            *)
Under(q, t) == q \in Ends(CreateCommands(t)) /\ Settled(t, Of(q))

(* The same once the peer or the link is there.                            *)
Past(q, t) == Under(q, t) /\ First(t) \notin Of(q)

RecoveryPast(t) == rec.pc = "exec" /\ Past(rec.todo, t)

(* Nothing can keep t from being configured any more.                      *)
Secured(t) == Settled(t, {}) \/ RecoveryPast(t)

Builds(w, t) == req[w].pc = "exec" /\ req[w].id = t.id

(* The command c of t would be refused, as it has been run already.        *)
Done(c, t) ==
    \/ c = First(t) /\ t.type # "wg" /\ Exists(t.id)
    \/ c = AddrAdd(t.ula, t.id) /\ \E l \in LinkOf(t.id) : l.ula = t.ula
    \/ \E n \in MainNets(t) : c = RouteAdd(n, Dev(t)) /\ [net |-> n, dev |-> Dev(t)] \in routes

Begun(t) == IF t.type = "wg" THEN \E p \in peers : p.key = t.key ELSE Exists(t.id)

(* All that is in the kernel comes of the rows of the table.               *)
Origins ==
    /\ \A l \in links : \E t \in tunnels :
         t.status = "active" /\ t.type # "wg" /\ l.dev = t.id /\ l.mode = t.type /\ l.remote = t.ip
    /\ \A r \in routes : \E t \in tunnels : r.dev = Dev(t) /\ \E p \in Prefixes3(t) : r.net = Net(p)
    /\ \A p \in peers : \E t \in tunnels : t.type = "wg" /\ p.key = t.key
    /\ peers # {} => wg0
    /\ rec.devs \subseteq {l.dev : l \in links}
    /\ rec.keys \subseteq {p.key : p \in peers}

(* Who is at work on a tunnel has done what came before.                   *)
Agents ==
    /\ \A w \in Workers, t \in tunnels : Builds(w, t) => Under(req[w].todo, t)
    /\ rec.pc = "exec" => \E t \in tunnels : t.status = "active" /\ Under(rec.todo, t)

(* A request will find a command done already only when the program has    *)
(* overtaken it for good.                                                  *)
DoneSecured ==
    \A w \in Workers, t \in tunnels :
        Builds(w, t) => \A c \in Of(req[w].todo) : Done(c, t) => Secured(t)

(* A tunnel the program does not miss is secured or in the hands of a      *)
(* request that has passed its first command.                              *)
BegunSecured ==
    \A t \in tunnels :
        Begun(t) => Secured(t) \/ \E w \in Workers : Builds(w, t) /\ Past(req[w].todo, t)

(* When the program has made a link, no request gets past its first        *)
(* command on it, and none gives it the address.                           *)
OneOnLink ==
    \A t \in tunnels : t.type # "wg" /\ RecoveryPast(t) =>
        /\ \A w \in Workers : Builds(w, t) => First(t) \in Of(req[w].todo)
        /\ AddrAdd(t.ula, t.id) \in Of(rec.todo) => \A l \in LinkOf(t.id) : l.ula # t.ula

(* Every tunnel that can be recovered is configured, or somebody will see  *)
(* to it.                                                                  *)
Covered ==
    \A t \in tunnels : Recoverable(t) =>
        \/ Settled(t, {})
        \/ \E w \in Workers : Builds(w, t)
        \/ rec.pc = "fetch" \/ t \in rec.left
        \/ rec.pc = "exec" /\ Under(rec.todo, t)

RebootInv == Origins /\ Agents /\ DoneSecured /\ BegunSecured /\ OneOnLink /\ Covered

-----------------------------------------------------------------------------
(* The ends of a creation *)

LEMMA HeadOfEnd ==
  ASSUME CommonInv, NEW t \in tunnels, NEW q \in Ends(CreateCommands(t))
  PROVE  /\ EndShape(q, t) /\ t \in Row /\ WellFormed(t) /\ t.id \in Ids
         /\ Head(q) \in Of(q) /\ Head(q) \in Of(CreateCommands(t))
         /\ First(t) \in Of(q) => Head(q) = First(t)
  <1>1. t \in Row /\ WellFormed(t) /\ t.id \in Ids
    BY TypedParts DEF CommonInv, BrokerInv, Row
  <1>2. EndShape(q, t)
    BY <1>1, EndOfCreation
  <1> QED BY <1>1, <1>2 DEF EndShape

(* Two links have no end of their creations in common.                     *)
LEMMA EndsApart ==
  ASSUME CommonInv, NEW s \in tunnels, NEW t, t \in Row, WellFormed(t), t.type # "wg",
         NEW q \in Ends(CreateCommands(s)), q \in Ends(CreateCommands(t))
  PROVE  s.id = t.id
  <1>1. LastRoute(t) \in Of(q) /\ Of(q) \subseteq Of(CreateCommands(s))
    BY HeadOfEnd, EndOfCreation DEF EndShape
  <1>2. LastRoute(t).dev = t.id /\ LastRoute(t).verb = "route add"
    BY DEF LastRoute, RouteAdd, Dev
  <1>3. LastRoute(t) \in OwnCommands(s)
    BY <1>1 DEF OwnCommands
  <1>4. LastRoute(t).dev = Dev(s)
    <2>1. /\ PeerSet(s.key, AllowedIPs(s)).verb = "peer set" /\ TunnelAdd(s.id, s.type, s.ip).verb = "tunnel add"
          /\ LinkUp(s.id).verb = "link up" /\ AddrAdd(s.ula, s.id).verb = "addr add"
          /\ Change(s).verb = "tunnel change"
      BY CreateVerbs DEF Change, TunnelChange
    <2> QED BY <1>2, <1>3, <2>1, OwnCommandKinds
  <1> QED BY <1>2, <1>4, DeviceAssumption DEF Dev, Row

(* Past its first command, a tunnel has its peer or its link.              *)
LEMMA PastBegun ==
  ASSUME NEW t, NEW q, Past(q, t)
  PROVE  /\ t.type = "wg" => \E p \in peers : p.key = t.key
         /\ t.type # "wg" => Exists(t.id) /\ LinkOf(t.id) # {}
                             /\ \E l \in LinkOf(t.id) : l.up = TRUE \/ LinkUp(t.id) \in Of(q)
  <1>1. Settled(t, Of(q)) /\ First(t) \notin Of(q)
    BY DEF Past, Under
  <1>2. First(t) = IF t.type = "wg" THEN PeerSet(t.key, AllowedIPs(t)) ELSE TunnelAdd(t.id, t.type, t.ip)
    BY CreateVerbs
  <1>3. CASE t.type = "wg"
    BY <1>1, <1>2, <1>3 DEF Settled, PeerSettled
  <1>4. CASE t.type # "wg"
    <2>1. \E l \in LinkOf(t.id) : l.up = TRUE \/ LinkUp(t.id) \in Of(q)
      BY <1>1, <1>2, <1>4 DEF Settled, LinkSettled
    <2> QED BY <1>4, <2>1 DEF Exists
  <1> QED BY <1>3, <1>4

(* A command that is run leaves the end after it, and gets past the first. *)
LEMMA Advance ==
  ASSUME CommonInv, DistinctNumbers, NEW t \in tunnels, NEW q, Under(q, t), Run(Head(q))
  PROVE  IF Tail(q) = <<>> THEN Settled(t, {})' ELSE Past(Tail(q), t)'
  <1>1. /\ EndShape(q, t) /\ RunsFor(Head(q), t)
    BY HeadOfEnd DEF Under, RunsFor
  <1>2. Settled(t, Of(q) \ {Head(q)})'
    BY <1>1, RunSettles DEF CommonInv, Under
  <1>3. Of(q) \ {Head(q)} = Of(Tail(q)) /\ First(t) \notin Of(Tail(q))
    BY <1>1 DEF EndShape
  <1>4. Tail(q) = <<>> => Of(Tail(q)) = {}
    BY OfNone
  <1>5. Tail(q) = <<>> \/ Tail(q) \in Ends(CreateCommands(t))
    BY <1>1 DEF EndShape
  <1> QED BY <1>2, <1>3, <1>4, <1>5 DEF Past, Under

-----------------------------------------------------------------------------
(* What a command of a creation changes, item by item *)

LEMMA CreationKinds ==
  ASSUME NEW t, NEW c \in Of(CreateCommands(t))
  PROVE  \/ \E p \in Prefixes3(t) : c = RouteAdd(Net(p), Dev(t))
         \/ t.type = "wg" /\ c = PeerSet(t.key, AllowedIPs(t)) /\ c = First(t)
         \/ t.type # "wg" /\ c = TunnelAdd(t.id, t.type, t.ip) /\ c = First(t)
         \/ t.type # "wg" /\ c = LinkUp(t.id)
         \/ t.type # "wg" /\ c = AddrAdd(t.ula, t.id)
  <1>1. First(t) = IF t.type = "wg" THEN PeerSet(t.key, AllowedIPs(t)) ELSE TunnelAdd(t.id, t.type, t.ip)
    BY CreateVerbs
  <1>2. \/ c \in {RouteAdd(Net(t.p1), Dev(t)), RouteAdd(Net(t.p2), Dev(t)), RouteAdd(Net(t.p3), Dev(t))}
        \/ c \in IF t.type = "wg"
                 THEN {PeerSet(t.key, AllowedIPs(t))}
                 ELSE {TunnelAdd(t.id, t.type, t.ip), LinkUp(t.id), AddrAdd(t.ula, t.id)}
    BY CreateSet
  <1> QED BY <1>1, <1>2 DEF Prefixes3

(* The same, by the verb.                                                  *)
LEMMA CreationVerbs ==
  ASSUME NEW t, NEW c \in Of(CreateCommands(t))
  PROVE  \/ c.verb = "route add" /\ \E p \in Prefixes3(t) : c = RouteAdd(Net(p), Dev(t))
         \/ t.type = "wg" /\ c.verb = "peer set" /\ c = PeerSet(t.key, AllowedIPs(t)) /\ c = First(t)
         \/ t.type # "wg" /\ c.verb = "tunnel add" /\ c = TunnelAdd(t.id, t.type, t.ip) /\ c = First(t)
         \/ t.type # "wg" /\ c.verb = "link up" /\ c = LinkUp(t.id)
         \/ t.type # "wg" /\ c.verb = "addr add" /\ c = AddrAdd(t.ula, t.id)
  <1>1. /\ \A n, d : RouteAdd(n, d).verb = "route add"
        /\ PeerSet(t.key, AllowedIPs(t)).verb = "peer set"
        /\ TunnelAdd(t.id, t.type, t.ip).verb = "tunnel add"
        /\ LinkUp(t.id).verb = "link up" /\ AddrAdd(t.ula, t.id).verb = "addr add"
    BY DEF RouteAdd, PeerSet, TunnelAdd, LinkUp, AddrAdd
  <1>2. CASE \E p \in Prefixes3(t) : c = RouteAdd(Net(p), Dev(t))
    <2>1. c.verb = "route add"
      BY <1>1, <1>2
    <2> QED BY <1>2, <2>1
  <1>3. CASE t.type = "wg" /\ c = PeerSet(t.key, AllowedIPs(t)) /\ c = First(t)
    BY <1>1, <1>3
  <1>4. CASE t.type # "wg" /\ c = TunnelAdd(t.id, t.type, t.ip) /\ c = First(t)
    BY <1>1, <1>4
  <1>5. CASE t.type # "wg" /\ c = LinkUp(t.id)
    BY <1>1, <1>5
  <1>6. CASE t.type # "wg" /\ c = AddrAdd(t.ula, t.id)
    BY <1>1, <1>6
  <1> QED BY <1>2, <1>3, <1>4, <1>5, <1>6, CreationKinds

LEMMA RunLinks ==
  ASSUME BrokerInv, NEW t, NEW c, RunsFor(c, t)
  PROVE  /\ \A l \in links : \E m \in links' : m.dev = l.dev
         /\ \A m \in links' :
              \/ \E l \in links :
                   /\ m.dev = l.dev /\ m.mode = l.mode /\ m.remote = l.remote
                   /\ m.ula = l.ula \/ (c = AddrAdd(t.ula, t.id) /\ m.dev = t.id)
              \/ /\ c = First(t) /\ t.type # "wg" /\ ~Exists(t.id)
                 /\ m.dev = t.id /\ m.mode = t.type /\ m.remote = t.ip /\ m.ula = None
  <1>1. Run(c) /\ c \in Of(CreateCommands(t)) /\ links \subseteq Link
    BY TypedParts DEF RunsFor, BrokerInv, KernelTyped
  <1>2. CASE c.verb \in {"route add", "peer set"}
    <2>1. links' = links
      BY <1>1, <1>2 DEF Run, RunLink, RunRoute, RunPeer
    <2> QED BY <2>1
  <1>3. CASE t.type # "wg" /\ c = TunnelAdd(t.id, t.type, t.ip) /\ c = First(t)
    <2>1. c.verb = "tunnel add" /\ c.dev = t.id /\ c.mode = t.type /\ c.remote = t.ip
      <3>1. /\ TunnelAdd(t.id, t.type, t.ip).verb = "tunnel add" /\ TunnelAdd(t.id, t.type, t.ip).dev = t.id
            /\ TunnelAdd(t.id, t.type, t.ip).mode = t.type /\ TunnelAdd(t.id, t.type, t.ip).remote = t.ip
        BY DEF TunnelAdd
      <3> QED BY <1>3, <3>1
    <2> DEFINE new == [dev |-> c.dev, mode |-> c.mode, remote |-> c.remote, up |-> FALSE, ula |-> None]
    <2>2. links' = links \cup {new}
      BY <1>1, <2>1 DEF Run, RunLink, RunRoute, RunPeer
    <2>3. new.dev = t.id /\ new.mode = t.type /\ new.remote = t.ip /\ new.ula = None
      BY <2>1
    <2>4. ~Exists(t.id)
      BY <1>1, <2>1 DEF Run, Accepts
    <2> HIDE DEF new
    <2> QED BY <1>3, <2>2, <2>3, <2>4
  <1>4. CASE t.type # "wg" /\ c \in {LinkUp(t.id), AddrAdd(t.ula, t.id)}
    <2>1. c.dev = t.id /\ \/ c.verb = "link up"
                          \/ c.verb = "addr add" /\ c = AddrAdd(t.ula, t.id)
      <3>1. /\ LinkUp(t.id).verb = "link up" /\ LinkUp(t.id).dev = t.id
            /\ AddrAdd(t.ula, t.id).verb = "addr add" /\ AddrAdd(t.ula, t.id).dev = t.id
        BY DEF LinkUp, AddrAdd
      <3> QED BY <1>4, <3>1
    <2> DEFINE new(l) == IF l.dev = c.dev THEN Altered(l, c) ELSE l
    <2>2. links' = {new(l) : l \in links}
      BY <1>1, <2>1 DEF Run, RunLink, RunRoute, RunPeer
    <2>3. ASSUME NEW l \in links
          PROVE  /\ new(l).dev = l.dev /\ new(l).mode = l.mode /\ new(l).remote = l.remote
                 /\ new(l).ula = l.ula \/ (c = AddrAdd(t.ula, t.id) /\ new(l).dev = t.id)
      <3>1. l \in Link
        BY <1>1
      <3> QED BY <2>1, <3>1 DEF Altered, Link
    <2> HIDE DEF new
    <2> QED BY <2>2, <2>3
  <1> QED BY <1>1, <1>2, <1>3, <1>4, CreationVerbs

LEMMA RunRoutes ==
  ASSUME BrokerInv, NEW t, NEW c, RunsFor(c, t)
  PROVE  /\ routes \subseteq routes'
         /\ \A r \in routes' \ routes : \E p \in Prefixes3(t) :
              c = RouteAdd(Net(p), Dev(t)) /\ r = [net |-> Net(p), dev |-> Dev(t)]
  <1>1. Run(c) /\ c \in Of(CreateCommands(t))
    BY DEF RunsFor
  <1>2. ASSUME NEW p \in Prefixes3(t), c = RouteAdd(Net(p), Dev(t))
        PROVE  routes' = routes \cup {[net |-> Net(p), dev |-> Dev(t)]}
    <2>1. c.verb = "route add" /\ c.net = Net(p) /\ c.dev = Dev(t)
      BY <1>2 DEF RouteAdd
    <2> QED BY <1>1, <2>1 DEF Run, RunLink, RunRoute, RunPeer
  <1>3. CASE c.verb \in {"peer set", "tunnel add", "link up", "addr add"}
    <2>1. routes' = routes
      BY <1>1, <1>3 DEF Run, RunLink, RunRoute, RunPeer
    <2> QED BY <2>1
  <1> QED BY <1>1, <1>2, <1>3, CreationVerbs

LEMMA RunPeers ==
  ASSUME BrokerInv, NEW t, NEW c, RunsFor(c, t)
  PROVE  /\ \A p \in peers : \E q \in peers' : q.key = p.key
         /\ \A q \in peers' : \/ \E p \in peers : q.key = p.key
                              \/ t.type = "wg" /\ q.key = t.key /\ wg0
  <1>1. Run(c) /\ c \in Of(CreateCommands(t)) /\ peers \subseteq Peer
    BY TypedParts DEF RunsFor, BrokerInv, KernelTyped
  <1>2. CASE c.verb \in {"route add", "tunnel add", "link up", "addr add"}
    <2>1. peers' = peers
      BY <1>1, <1>2 DEF Run, RunPeer
    <2> QED BY <2>1
  <1>3. CASE t.type = "wg" /\ c = PeerSet(t.key, AllowedIPs(t))
    <2>1. c.verb = "peer set" /\ c.key = t.key
      BY <1>3 DEF PeerSet
    <2> DEFINE new(p) == [p EXCEPT !.allowed = @ \ c.allowed]
               own == [key |-> c.key, allowed |-> c.allowed]
    <2>2. peers' = {new(p) : p \in {p \in peers : p.key # c.key}} \cup {own}
      BY <1>1, <2>1 DEF Run, RunLink, RunRoute, RunPeer
    <2>3. own.key = t.key /\ \A p \in peers : new(p).key = p.key
      BY <1>1, <2>1 DEF Peer
    <2>4. wg0
      BY <1>1, <2>1 DEF Run, Accepts
    <2> HIDE DEF new, own
    <2> QED BY <1>3, <2>1, <2>2, <2>3, <2>4
  <1> QED BY <1>1, <1>2, <1>3, CreationVerbs

(* What a command does, seen from any tunnel t of the table: a command of  *)
(* t is done only by being run, and its peer or link comes only with one.  *)
LEMMA NetOwner ==
  ASSUME CommonInv, DistinctNumbers, Origins, NEW t, t \in Row, WellFormed(t), NEW n \in MainNets(t),
         NEW r \in routes, r.net = n
  PROVE  \E s \in tunnels : s.id = t.id /\ r = [net |-> n, dev |-> Dev(s)]
  <1>1. PICK s \in tunnels : r.dev = Dev(s) /\ \E p \in Prefixes3(s) : r.net = Net(p)
    BY DEF Origins
  <1>2. s \in Row /\ WellFormed(s) /\ s.id \in Ids /\ r \in Route
    BY TypedParts DEF CommonInv, BrokerInv, Row, KernelTyped
  <1>3. NetFor(n, s.id)
    BY <1>1, <1>2, OwnNets
  <1>4. s.id = t.id
    BY <1>2, <1>3, NetsApart
  <1>5. r = [net |-> n, dev |-> Dev(s)]
    BY <1>1, <1>2 DEF Route
  <1> QED BY <1>4, <1>5

LEMMA SameTunnel ==
  ASSUME CommonInv, NEW s \in tunnels, NEW t \in tunnels, s.id = t.id
  PROVE  s = t
  BY TypedParts DEF CommonInv, BrokerInv

LEMMA DoneCause ==
  ASSUME CommonInv, DistinctNumbers, NEW s, NEW x, RunsFor(x, s), NEW t \in tunnels, NEW c,
         ~Done(c, t), Done(c, t)'
  PROVE  s = t /\ x = c
  <1>0. /\ s \in tunnels /\ s \in Row /\ WellFormed(s) /\ s.id \in Ids /\ t \in Row /\ WellFormed(t)
        /\ BrokerInv
    BY TypedParts, RunsForTyped DEF CommonInv, BrokerInv, RunsFor
  <1>1. CASE c = First(t) /\ t.type # "wg" /\ Exists(t.id)'
    <2>1. PICK m \in links' : m.dev = t.id
      BY <1>1 DEF Exists, LinkOf
    <2>2. ~\E l \in links : l.dev = t.id
      BY <1>1 DEF Done, Exists, LinkOf
    <2>3. x = First(s) /\ m.dev = s.id
      BY <1>0, <2>1, <2>2, RunLinks
    <2> QED BY <1>0, <1>1, <2>1, <2>3, SameTunnel
  <1>2. CASE c = AddrAdd(t.ula, t.id) /\ \E l \in LinkOf(t.id)' : l.ula = t.ula
    <2>1. PICK m \in links' : m.dev = t.id /\ m.ula = t.ula
      BY <1>2 DEF LinkOf
    <2>2. ~\E l \in links : l.dev = t.id /\ l.ula = t.ula
      BY <1>2 DEF Done, LinkOf
    <2>3. t.ula # None
      BY <1>0, TableAssumption DEF Row
    <2>4. x = AddrAdd(s.ula, s.id) /\ m.dev = s.id
      BY <1>0, <2>1, <2>2, <2>3, RunLinks
    <2> QED BY <1>0, <1>2, <2>1, <2>4, SameTunnel
  <1>3. ASSUME NEW n \in MainNets(t), c = RouteAdd(n, Dev(t)), [net |-> n, dev |-> Dev(t)] \in routes'
        PROVE  s = t /\ x = c
    <2>1. [net |-> n, dev |-> Dev(t)] \notin routes
      BY <1>3 DEF Done
    <2>2. PICK p \in Prefixes3(s) : /\ x = RouteAdd(Net(p), Dev(s))
                                    /\ [net |-> n, dev |-> Dev(t)] = [net |-> Net(p), dev |-> Dev(s)]
      BY <1>0, <1>3, <2>1, RunRoutes
    <2>3. n = Net(p) /\ Dev(t) = Dev(s)
      BY <2>2
    <2>4. NetFor(n, s.id)
      BY <1>0, <2>3, OwnNets
    <2>5. s.id = t.id
      BY <1>0, <2>4, NetsApart
    <2> QED BY <1>0, <1>3, <2>2, <2>3, <2>5, SameTunnel
  <1> QED BY <1>1, <1>2, <1>3 DEF Done

LEMMA BegunCause ==
  ASSUME CommonInv, NEW s, NEW x, RunsFor(x, s), NEW t \in tunnels, ~Begun(t), Begun(t)'
  PROVE  s = t
  <1>0. /\ s \in tunnels /\ s \in Row /\ t \in Row /\ WellFormed(t) /\ BrokerInv
    BY TypedParts, RunsForTyped DEF CommonInv, BrokerInv, RunsFor
  <1>1. CASE t.type = "wg"
    <2>1. PICK q \in peers' : q.key = t.key
      BY <1>1 DEF Begun
    <2>2. ~\E p \in peers : p.key = t.key
      BY <1>1 DEF Begun
    <2>3. s.key = t.key
      BY <1>0, <2>1, <2>2, RunPeers
    <2>4. t.key # None
      BY <1>0, <1>1, TableAssumption DEF WellFormed, KeyIfWg
    <2>5. s.id = t.id
      BY <1>0, <2>3, <2>4 DEF BrokerInv, KeyInv, KeysOwned
    <2> QED BY <1>0, <2>5, SameTunnel
  <1>2. CASE t.type # "wg"
    <2>1. PICK m \in links' : m.dev = t.id
      BY <1>2 DEF Begun, Exists, LinkOf
    <2>2. ~\E l \in links : l.dev = t.id
      BY <1>2 DEF Begun, Exists, LinkOf
    <2>3. m.dev = s.id
      BY <1>0, <2>1, <2>2, RunLinks
    <2> QED BY <1>0, <2>1, <2>3, SameTunnel
  <1> QED BY <1>1, <1>2

-----------------------------------------------------------------------------
(* Commands that are refused *)

LEMMA SettledMore ==
  ASSUME NEW t, NEW rest, Settled(t, rest), NEW more, rest \subseteq more
  PROVE  Settled(t, more)
  BY DEF Settled, RoutesSettled, PeerSettled, LinkSettled

(* The kernel has a route of t that the command would add.                 *)
LEMMA RouteDone ==
  ASSUME CommonInv, DistinctNumbers, Origins, NEW t \in tunnels, NEW q, Under(q, t), RouteExists(Head(q))
  PROVE  /\ Settled(t, Of(Tail(q)))
         /\ Settled(t, {}) \/ Done(Head(q), t)
  <1>0. /\ EndShape(q, t) /\ t \in Row /\ WellFormed(t) /\ Head(q) \in Of(CreateCommands(t))
        /\ Settled(t, Of(q)) /\ Of(q) = {Head(q)} \cup Of(Tail(q))
    BY HeadOfEnd DEF Under, EndShape
  <1>1. PICK p \in Prefixes3(t) : Head(q) = RouteAdd(Net(p), Dev(t))
    BY <1>0, CreationVerbs DEF RouteExists
  <1>2. \E r \in routes : r.net = Net(p)
    <2>1. RouteAdd(Net(p), Dev(t)).net = Net(p)
      BY DEF RouteAdd
    <2> QED BY <1>1, <2>1 DEF RouteExists
  <1>3. /\ PeerSet(t.key, AllowedIPs(t)) # Head(q) /\ TunnelAdd(t.id, t.type, t.ip) # Head(q)
        /\ LinkUp(t.id) # Head(q) /\ AddrAdd(t.ula, t.id) # Head(q) /\ Change(t) # Head(q)
    <2>1. /\ PeerSet(t.key, AllowedIPs(t)).verb = "peer set" /\ TunnelAdd(t.id, t.type, t.ip).verb = "tunnel add"
          /\ LinkUp(t.id).verb = "link up" /\ AddrAdd(t.ula, t.id).verb = "addr add"
          /\ Change(t).verb = "tunnel change"
      BY DEF PeerSet, TunnelAdd, LinkUp, AddrAdd, Change, TunnelChange
    <2> QED BY <2>1 DEF RouteExists
  <1>a. ASSUME NEW rest, Of(q) \subseteq rest \cup {Head(q)}, RoutesSettled(t, rest)
        PROVE  Settled(t, rest)
    <2>1. t.type = "wg" => PeerSettled(t, rest)
      BY <1>0, <1>3, <1>a DEF Settled, PeerSettled
    <2>2. t.type # "wg" => LinkSettled(t, rest)
      BY <1>0, <1>3, <1>a DEF Settled, LinkSettled
    <2> QED BY <1>a, <2>1, <2>2 DEF Settled
  <1>4. CASE Net(p) \in MainNets(t)
    <2>1. PICK s \in tunnels : s.id = t.id /\ [net |-> Net(p), dev |-> Dev(s)] \in routes
      BY <1>0, <1>2, <1>4, NetOwner
    <2>2. [net |-> Net(p), dev |-> Dev(t)] \in routes
      BY <2>1, SameTunnel
    <2>3. RoutesSettled(t, Of(Tail(q)))
      <3>1. ASSUME NEW n \in MainNets(t), RouteAdd(n, Dev(t)) = Head(q) PROVE n = Net(p)
        <4>1. RouteAdd(n, Dev(t)).net = n /\ RouteAdd(Net(p), Dev(t)).net = Net(p)
          BY DEF RouteAdd
        <4> QED BY <1>1, <3>1, <4>1
      <3> QED BY <1>0, <2>2, <3>1 DEF Settled, RoutesSettled
    <2>4. Done(Head(q), t)
      BY <1>1, <1>4, <2>2 DEF Done
    <2> QED BY <1>0, <1>a, <2>3, <2>4
  <1>5. CASE Net(p) \notin MainNets(t)
    <2>1. Head(q) = LastRoute(t)
      BY <1>1, <1>5 DEF Prefixes3, MainNets, LastRoute
    <2>2. Of(q) = {LastRoute(t)}
      BY <1>0, <2>1 DEF EndShape
    <2>3. ASSUME NEW n \in MainNets(t) PROVE RouteAdd(n, Dev(t)) # LastRoute(t)
      <3>1. RouteAdd(n, Dev(t)).net = n /\ LastRoute(t).net = Net(t.p3)
        BY DEF RouteAdd, LastRoute
      <3> QED BY <1>0, <3>1, CreationDistinct
    <2>4. RoutesSettled(t, {})
      BY <1>0, <2>2, <2>3 DEF Settled, RoutesSettled
    <2>5. Settled(t, {})
      BY <1>a, <2>1, <2>2, <2>4
    <2> QED BY <2>5, SettledMore
  <1> QED BY <1>4, <1>5

(* Past the first command, only the address can be refused, and routes.    *)
LEMMA PastAccepted ==
  ASSUME CommonInv, Origins, NEW t \in tunnels, NEW q, Past(q, t)
  PROVE  \/ Accepts(Head(q)) \/ RouteExists(Head(q))
         \/ /\ t.type # "wg" /\ Head(q) = AddrAdd(t.ula, t.id)
            /\ \E l \in LinkOf(t.id) : l.ula = t.ula
  <1> DEFINE c == Head(q)
  <1>0. /\ EndShape(q, t) /\ t \in Row /\ c \in Of(CreateCommands(t)) /\ c \in Of(q)
        /\ First(t) \notin Of(q) /\ t.id \in Ids
    BY HeadOfEnd DEF Past, Under
  <1>1. /\ t.type = "wg" => \E p \in peers : p.key = t.key
        /\ t.type # "wg" => Exists(t.id) /\ LinkOf(t.id) # {}
                            /\ \E l \in LinkOf(t.id) : l.up = TRUE \/ LinkUp(t.id) \in Of(q)
    BY PastBegun
  <1>2. CASE c.verb = "route add"
    <2>1. PICK p \in Prefixes3(t) : c = RouteAdd(Net(p), Dev(t))
      BY <1>0, <1>2, CreationVerbs
    <2>2. RouteAdd(Net(p), Dev(t)).dev = Dev(t)
      BY DEF RouteAdd
    <2>3. IsUp(Dev(t))
      <3>1. CASE t.type = "wg"
        BY <1>1, <3>1 DEF Origins, IsUp, Dev
      <3>2. CASE t.type # "wg"
        <4>1. LinkUp(t.id) \notin Of(q)
          <5>1. LinkUp(t.id).verb = "link up"
            BY DEF LinkUp
          <5> QED BY <1>0, <1>2, <5>1 DEF EndShape
        <4>2. Dev(t) = t.id /\ t.id # Wg0
          BY <1>0, <3>2, DeviceAssumption DEF Dev
        <4> QED BY <1>1, <3>2, <4>1, <4>2 DEF IsUp
      <3> QED BY <3>1, <3>2
    <2> QED BY <1>2, <2>1, <2>2, <2>3 DEF RouteExists, Accepts
  <1>3. CASE t.type # "wg" /\ c.verb = "link up" /\ c = LinkUp(t.id)
    <2>1. LinkUp(t.id).dev = t.id
      BY DEF LinkUp
    <2> QED BY <1>1, <1>3, <2>1 DEF Accepts
  <1>4. CASE t.type # "wg" /\ c.verb = "addr add" /\ c = AddrAdd(t.ula, t.id)
    <2>1. AddrAdd(t.ula, t.id).dev = t.id /\ AddrAdd(t.ula, t.id).ula = t.ula
      BY DEF AddrAdd
    <2>2. PICK l \in LinkOf(t.id) : TRUE
      BY <1>1, <1>4
    <2>3. CASE l.ula = t.ula
      BY <1>4, <2>2, <2>3
    <2>4. CASE l.ula # t.ula
      BY <1>4, <2>1, <2>2, <2>4 DEF Accepts
    <2> QED BY <2>3, <2>4
  <1> QED BY <1>0, <1>2, <1>3, <1>4, CreationVerbs

(* The first command of a tunnel that can be recovered is refused only     *)
(* because it was run before.                                              *)
LEMMA FirstRefused ==
  ASSUME CommonInv, Origins, NEW t \in tunnels, Recoverable(t), ~Accepts(First(t))
  PROVE  t.type # "wg" /\ Exists(t.id) /\ Begun(t) /\ Done(First(t), t)
  <1>1. CASE t.type = "wg"
    <2>1. First(t) = PeerSet(t.key, AllowedIPs(t)) /\ wg0
      BY <1>1, CreateVerbs DEF Recoverable
    <2>2. PeerSet(t.key, AllowedIPs(t)).verb = "peer set"
      BY DEF PeerSet
    <2> QED BY <2>1, <2>2 DEF Accepts
  <1>2. CASE t.type # "wg"
    <2> DEFINE c == TunnelAdd(t.id, t.type, t.ip)
    <2>1. First(t) = c
      BY <1>2, CreateVerbs
    <2>2. c.verb = "tunnel add" /\ c.dev = t.id /\ c.mode = t.type /\ c.remote = t.ip
      BY DEF TunnelAdd
    <2> HIDE DEF c
    <2>3. ~EndpointTaken(c)
      <3>1. SUFFICES ASSUME NEW l \in links, l.mode = t.type, l.remote = t.ip, l.dev # t.id PROVE FALSE
        BY <2>2 DEF EndpointTaken
      <3>2. PICK s \in tunnels : /\ s.status = "active" /\ s.type # "wg" /\ l.dev = s.id
                                 /\ l.mode = s.type /\ l.remote = s.ip
        BY DEF Origins
      <3> QED BY <1>2, <3>1, <3>2 DEF Recoverable, Rivals
    <2>4. Exists(t.id)
      BY <2>1, <2>2, <2>3 DEF Accepts
    <2> QED BY <1>2, <2>4 DEF Begun, Done
  <1> QED BY <1>1, <1>2

-----------------------------------------------------------------------------
(* A quiet step since the reboot *)

RebootStep ==
    CommonInv /\ DistinctNumbers /\ Creations /\ RebootInv /\ Quiet /\ UNCHANGED wg0

LEMMA QuietTables ==
  ASSUME Quiet
  PROVE  /\ tunnels \subseteq tunnels'
         /\ \A t \in tunnels' : t \in tunnels \/ \E w \in Workers : Inserting(w, t)
         /\ rec' = rec \/ (RecoveryStep /\ UNCHANGED <<tunnels, req>>)
  BY DEF Quiet, Searching, Running, Refused, Inserting

(* Who is at work on a tunnel after a step was before it, or has just made *)
(* it.                                                                     *)
LEMMA BuildsAfter ==
  ASSUME CommonInv, Creations, Quiet, NEW w \in Workers, NEW t \in tunnels', Builds(w, t)'
  PROVE  \/ t \in tunnels /\ Builds(w, t) /\ ~Running(w) /\ req'[w].todo = req[w].todo
         \/ /\ t \in tunnels /\ Builds(w, t) /\ Running(w)
            /\ Tail(req[w].todo) # <<>> /\ req'[w].todo = Tail(req[w].todo)
         \/ Inserting(w, t) /\ t \notin tunnels /\ req'[w].todo = CreateCommands(t)
  <1>0. /\ req \in [Workers -> Request] /\ Idle.pc # "exec" /\ "exec" \in Acting
        /\ req'[w].pc = "exec" /\ req'[w].id = t.id
        /\ (req[w].pc = "exec" => \E s \in tunnels : s.id = req[w].id)
    BY TypedParts DEF CommonInv, BrokerInv, Idle, Acting, Builds, Creations
  <1>a. ASSUME req[w].pc = "exec", req[w].id = t.id PROVE t \in tunnels /\ Builds(w, t)
    <2>1. ASSUME NEW v \in Workers, Inserting(v, t) PROVE FALSE
      BY <1>0, <1>a, <2>1 DEF Inserting
    <2> QED BY <1>a, <2>1, QuietTables DEF Builds
  <1>1. CASE Running(w)
    <2>1. PICK r : /\ Become(w, r)
                   /\ \/ r = Idle /\ Tail(req[w].todo) = <<>>
                      \/ /\ Tail(req[w].todo) # <<>> /\ r.todo = Tail(req[w].todo)
                         /\ r.pc = "exec" /\ r.op = req[w].op /\ r.id = req[w].id
      BY <1>1 DEF Running
    <2>2. req'[w] = r
      BY <1>0, <2>1, Others
    <2>3. req[w].pc = "exec"
      BY <1>1 DEF Running
    <2> QED BY <1>0, <1>1, <1>a, <2>1, <2>2, <2>3
  <1>2. CASE \E row : Inserting(w, row)
    <2>1. PICK row : Inserting(w, row)
      BY <1>2
    <2>2. PICK r : Become(w, r) /\ r.id = row.id /\ r.todo = CreateCommands(row)
      BY <2>1 DEF Inserting
    <2>3. req'[w] = r /\ row.id = t.id
      BY <1>0, <2>2, Others
    <2>4. t = row /\ t \notin tunnels
      BY <2>1, <2>3 DEF Inserting
    <2> QED BY <2>1, <2>2, <2>3, <2>4
  <1>3. CASE Searching(w) \/ Refused(w)
    <2>1. PICK r : Become(w, r) /\ r.pc \notin Acting
      BY <1>3, IdleLocal DEF Searching, Refused, Acting
    <2>2. req'[w] = r
      BY <1>0, <2>1, Others
    <2> QED BY <1>0, <2>1, <2>2
  <1>4. CASE ~Running(w) /\ req'[w] = req[w]
    BY <1>0, <1>4, <1>a
  <1>5. ASSUME NEW v \in Workers \ {w}, Searching(v) \/ Running(v) \/ Refused(v) \/ \E row : Inserting(v, row)
        PROVE  req'[w] = req[w]
    <2>1. PICK r : Become(v, r)
      BY <1>5 DEF Searching, Running, Refused, Inserting
    <2> QED BY <1>0, <2>1, Others
  <1> QED BY <1>1, <1>2, <1>3, <1>4, <1>5 DEF Quiet

(* Who is at work on a tunnel goes on, ends, or is refused a command.      *)
LEMMA BuildsBefore ==
  ASSUME CommonInv, Quiet, NEW w \in Workers, NEW t \in tunnels, Builds(w, t)
  PROVE  \/ Builds(w, t)' /\ req'[w].todo = req[w].todo
         \/ Running(w) /\ Tail(req[w].todo) = <<>>
         \/ /\ Running(w) /\ Tail(req[w].todo) # <<>> /\ Builds(w, t)'
            /\ req'[w].todo = Tail(req[w].todo)
         \/ Refused(w)
  <1>0. req \in [Workers -> Request] /\ req[w].pc = "exec" /\ req[w].id = t.id
    BY TypedParts DEF CommonInv, BrokerInv, Builds
  <1>1. CASE Running(w)
    <2>1. PICK r : /\ Become(w, r)
                   /\ \/ r = Idle /\ Tail(req[w].todo) = <<>>
                      \/ /\ Tail(req[w].todo) # <<>> /\ r.todo = Tail(req[w].todo)
                         /\ r.pc = "exec" /\ r.op = req[w].op /\ r.id = req[w].id
      BY <1>1 DEF Running
    <2>2. req'[w] = r
      BY <1>0, <2>1, Others
    <2> QED BY <1>0, <1>1, <2>1, <2>2 DEF Builds
  <1>2. ~Searching(w) /\ \A row : ~Inserting(w, row)
    BY <1>0 DEF Searching, Inserting
  <1>3. ASSUME NEW v \in Workers \ {w}, Searching(v) \/ Running(v) \/ Refused(v) \/ \E row : Inserting(v, row)
        PROVE  req'[w] = req[w]
    <2>1. PICK r : Become(v, r)
      BY <1>3 DEF Searching, Running, Refused, Inserting
    <2> QED BY <1>0, <2>1, Others
  <1>4. CASE req'[w] = req[w]
    BY <1>0, <1>4 DEF Builds
  <1> QED BY <1>1, <1>2, <1>3, <1>4 DEF Quiet

LEMMA UnderKept ==
  ASSUME RebootStep, NEW t \in tunnels, NEW q, Under(q, t)
  PROVE  Under(q, t)' /\ (Past(q, t) => Past(q, t)')
  <1>1. Settled(t, Of(q))'
    BY QuietSettles DEF RebootStep, Under
  <1> QED BY <1>1 DEF Under, Past

LEMMA StartUnder ==
  ASSUME CommonInv, Origins, NEW t \in tunnels
  PROVE  Under(CreateCommands(t), t)
  <1>1. CASE LinkOf(t.id) = {}
    BY <1>1, NewSettled, WholeEnd DEF Under
  <1>2. CASE LinkOf(t.id) # {}
    <2>1. PICK l \in links : l.dev = t.id
      BY <1>2 DEF LinkOf
    <2>2. PICK s \in tunnels : s.type # "wg" /\ l.dev = s.id /\ l.mode = s.type /\ l.remote = s.ip
      BY DEF Origins
    <2>3. s = t
      BY <2>1, <2>2, SameTunnel
    <2>4. LinkSettled(t, Of(CreateCommands(t)))
      BY <2>1, <2>2, <2>3, CreateSet DEF LinkSettled, LinkOf
    <2>5. RoutesSettled(t, Of(CreateCommands(t)))
      BY CreateSet DEF RoutesSettled, MainNets
    <2> QED BY <2>2, <2>3, <2>4, <2>5, WholeEnd DEF Under, Settled
  <1> QED BY <1>1, <1>2

(* The program goes on with the commands of t.                             *)
LEMMA ProgramGoesOn ==
  ASSUME RebootStep, Recreate \/ RouteSkipped, NEW t \in tunnels, Under(rec.todo, t)
  PROVE  /\ Secured(t)'
         /\ IF Tail(rec.todo) = <<>> THEN Settled(t, {})'
            ELSE rec'.pc = "exec" /\ rec'.todo = Tail(rec.todo) /\ Past(rec.todo, t)'
  <1>0. /\ CommonInv /\ DistinctNumbers /\ Origins /\ RecOK /\ rec.pc = "exec" /\ GoOn
    BY DEF RebootStep, RebootInv, CommonInv, Recreate, RouteSkipped
  <1>q. PICK q : q = rec.todo
    OBVIOUS
  <1>1. rec'.todo = Tail(q) /\ rec'.pc = IF Tail(q) = <<>> THEN "loop" ELSE "exec"
    BY <1>0, <1>q, GoOnResult
  <1>2. IF Tail(q) = <<>> THEN Settled(t, {})' ELSE Past(Tail(q), t)'
    <2>0. Under(q, t)
      BY <1>q
    <2>1. CASE Recreate
      BY <1>0, <1>q, <2>0, <2>1, Advance DEF Recreate
    <2>2. CASE RouteSkipped
      <3>1. Settled(t, Of(Tail(q)))
        BY <1>0, <1>q, <2>0, <2>2, RouteDone DEF RouteSkipped
      <3>2. Settled(t, Of(Tail(q)))'
        BY <3>1, QuietSettles DEF RebootStep
      <3>3. /\ First(t) \notin Of(Tail(q))
            /\ Tail(q) = <<>> \/ Tail(q) \in Ends(CreateCommands(t))
        BY <1>0, <2>0, HeadOfEnd DEF Under, EndShape
      <3>4. CASE Tail(q) = <<>>
        BY <3>2, <3>4, OfNone
      <3>5. CASE Tail(q) # <<>>
        BY <3>2, <3>3, <3>5 DEF Past, Under
      <3> QED BY <3>4, <3>5
    <2> QED BY <2>1, <2>2
  <1>3. CASE Tail(q) = <<>>
    BY <1>q, <1>2, <1>3 DEF Secured
  <1>4. CASE Tail(q) # <<>>
    <2>1. Past(rec.todo, t)'
      BY <1>1, <1>2, <1>4
    <2> QED BY <1>q, <1>1, <1>4, <2>1 DEF Secured, RecoveryPast
  <1> QED BY <1>3, <1>4

(* The program, once past the first command of a tunnel, is not refused.   *)
LEMMA PastNotRefused ==
  ASSUME CommonInv, RebootInv, NEW t \in tunnels, RecoveryPast(t)
  PROVE  ~RecreateRefused
  <1>1. SUFFICES ASSUME RecreateRefused PROVE FALSE
    OBVIOUS
  <1>2. /\ t.type # "wg" /\ Head(rec.todo) = AddrAdd(t.ula, t.id)
        /\ \E l \in LinkOf(t.id) : l.ula = t.ula
    BY <1>1, PastAccepted DEF RecreateRefused, RecoveryPast, RebootInv
  <1>3. Head(rec.todo) \in Of(rec.todo)
    BY HeadOfEnd DEF RecoveryPast, Past, Under
  <1> QED BY <1>2, <1>3 DEF RebootInv, OneOnLink

LEMMA SecuredKept ==
  ASSUME RebootStep, NEW t \in tunnels, Secured(t)
  PROVE  Secured(t)'
  <1>1. CASE Settled(t, {})
    <2>1. Settled(t, {})'
      BY <1>1, QuietSettles DEF RebootStep
    <2> QED BY <2>1 DEF Secured
  <1>2. CASE RecoveryPast(t)
    <2>0. rec.pc = "exec" /\ Past(rec.todo, t) /\ Under(rec.todo, t)
      BY <1>2 DEF RecoveryPast, Past
    <2>1. CASE rec' = rec
      <3>1. PICK q : q = rec.todo
        OBVIOUS
      <3>2. Past(q, t)' /\ rec'.todo = q
        BY <2>0, <2>1, <3>1, UnderKept
      <3>3. Past(rec.todo, t)'
        BY <3>2
      <3> QED BY <2>0, <2>1, <3>3 DEF Secured, RecoveryPast
    <2>2. CASE RecoveryStep
      <3>1. ~RecreateRefused
        BY <1>2, PastNotRefused DEF RebootStep
      <3>2. Recreate \/ RouteSkipped
        BY <2>0, <2>2, <3>1 DEF RecoveryStep, Fetch, ListLinks, ListPeers, NextTunnel, Finish
      <3> QED BY <2>0, <3>2, ProgramGoesOn
    <2> QED BY <2>1, <2>2, QuietTables DEF RebootStep
  <1> QED BY <1>1, <1>2 DEF Secured

(* A request that is refused a command leaves the tunnel to the program.   *)
LEMMA RefusedSecured ==
  ASSUME RebootStep, NEW w \in Workers, NEW t \in tunnels, Builds(w, t), Refused(w),
         First(t) \notin Of(req[w].todo) \/ Recoverable(t)
  PROVE  Secured(t)
  <1> DEFINE q == req[w].todo
  <1>0. /\ CommonInv /\ DistinctNumbers /\ Origins /\ Under(q, t) /\ ~Accepts(Head(q))
        /\ \A c \in Of(q) : Done(c, t) => Secured(t)
    BY DEF RebootStep, RebootInv, Agents, DoneSecured, Refused
  <1>1. Head(q) \in Of(q) /\ (First(t) \in Of(q) => Head(q) = First(t))
    BY <1>0, HeadOfEnd DEF Under
  <1>2. CASE First(t) \notin Of(q)
    <2>1. \/ RouteExists(Head(q))
          \/ /\ Head(q) = AddrAdd(t.ula, t.id)
             /\ \E l \in LinkOf(t.id) : l.ula = t.ula
      BY <1>0, <1>2, PastAccepted DEF Past
    <2>2. CASE RouteExists(Head(q))
      BY <1>0, <1>1, <2>2, RouteDone DEF Secured
    <2>3. CASE /\ Head(q) = AddrAdd(t.ula, t.id)
               /\ \E l \in LinkOf(t.id) : l.ula = t.ula
      <3>1. Done(Head(q), t)
        BY <2>3 DEF Done
      <3> QED BY <1>0, <1>1, <3>1
    <2> QED BY <2>1, <2>2, <2>3
  <1>3. CASE First(t) \in Of(q)
    <2>1. Recoverable(t) /\ ~Accepts(First(t))
      BY <1>0, <1>1, <1>3
    <2>2. Done(First(t), t)
      BY <1>0, <2>1, FirstRefused
    <2> QED BY <1>0, <1>3, <2>2
  <1> QED BY <1>2, <1>3

-----------------------------------------------------------------------------
(* What a quiet step keeps *)

(* What is in the kernel comes from there or from a tunnel of the table.   *)
LEMMA QuietItems ==
  ASSUME CommonInv, Creations, Quiet
  PROVE  /\ \A l \in links : \E m \in links' : m.dev = l.dev
         /\ \A p \in peers : \E q \in peers' : q.key = p.key
         /\ \A m \in links' :
              \/ \E l \in links : m.dev = l.dev /\ m.mode = l.mode /\ m.remote = l.remote
              \/ \E t \in tunnels : /\ t.status = "active" /\ t.type # "wg" /\ m.dev = t.id
                                    /\ m.mode = t.type /\ m.remote = t.ip
         /\ \A r \in routes' :
              r \in routes \/ \E t \in tunnels : r.dev = Dev(t) /\ \E p \in Prefixes3(t) : r.net = Net(p)
         /\ \A q \in peers' :
              \/ \E p \in peers : q.key = p.key
              \/ wg0 /\ \E t \in tunnels : t.type = "wg" /\ q.key = t.key
  <1>1. CASE UNCHANGED <<links, routes, peers>>
    BY <1>1
  <1>2. ASSUME NEW c, NEW t, RunsFor(c, t), t.status = "active"
        PROVE  /\ \A l \in links : \E m \in links' : m.dev = l.dev
               /\ \A p \in peers : \E q \in peers' : q.key = p.key
               /\ \A m \in links' :
                    \/ \E l \in links : m.dev = l.dev /\ m.mode = l.mode /\ m.remote = l.remote
                    \/ /\ t.status = "active" /\ t.type # "wg" /\ m.dev = t.id
                       /\ m.mode = t.type /\ m.remote = t.ip
               /\ \A r \in routes' :
                    r \in routes \/ (r.dev = Dev(t) /\ \E p \in Prefixes3(t) : r.net = Net(p))
               /\ \A q \in peers' :
                    (\E p \in peers : q.key = p.key) \/ (wg0 /\ t.type = "wg" /\ q.key = t.key)
               /\ t \in tunnels
    <2>0. BrokerInv /\ t \in tunnels
      BY <1>2 DEF CommonInv, RunsFor
    <2>1. ASSUME NEW r \in routes', r \notin routes
          PROVE  r.dev = Dev(t) /\ \E p \in Prefixes3(t) : r.net = Net(p)
      <3>1. PICK p \in Prefixes3(t) : r = [net |-> Net(p), dev |-> Dev(t)]
        BY <1>2, <2>0, <2>1, RunRoutes
      <3>2. r.dev = Dev(t) /\ r.net = Net(p)
        BY <3>1
      <3> QED BY <3>2
    <2>2. /\ \A l \in links : \E m \in links' : m.dev = l.dev
          /\ \A m \in links' :
               \/ \E l \in links : m.dev = l.dev /\ m.mode = l.mode /\ m.remote = l.remote
               \/ /\ t.type # "wg" /\ m.dev = t.id /\ m.mode = t.type /\ m.remote = t.ip
      BY <1>2, <2>0, RunLinks
    <2>3. /\ \A p \in peers : \E q \in peers' : q.key = p.key
          /\ \A q \in peers' :
               (\E p \in peers : q.key = p.key) \/ (wg0 /\ t.type = "wg" /\ q.key = t.key)
      BY <1>2, <2>0, RunPeers
    <2> QED BY <1>2, <2>0, <2>1, <2>2, <2>3
  <1>3. CASE \E c, t : RunsFor(c, t) /\ t.status = "active"
    <2>1. PICK c, t : RunsFor(c, t) /\ t.status = "active"
      BY <1>3
    <2> HIDE <1>2
    <2> QED BY <1>2, <2>1
  <1> QED BY <1>1, <1>3, QuietKernel

LEMMA OriginsKept ==
  ASSUME RebootStep
  PROVE  Origins'
  <1>0. /\ CommonInv /\ Creations /\ Quiet /\ Origins /\ wg0' = wg0 /\ RecOK /\ KernelTyped
        /\ tunnels \subseteq tunnels'
    BY CommonKernel, QuietTables DEF RebootStep, RebootInv, CommonInv
  <1>1. ASSUME NEW m \in links'
        PROVE  \E t \in tunnels' : t.status = "active" /\ t.type # "wg" /\ m.dev = t.id
                                   /\ m.mode = t.type /\ m.remote = t.ip
    <2>1. CASE \E l \in links : m.dev = l.dev /\ m.mode = l.mode /\ m.remote = l.remote
      <3>1. PICK l \in links : m.dev = l.dev /\ m.mode = l.mode /\ m.remote = l.remote
        BY <2>1
      <3>2. PICK t \in tunnels : t.status = "active" /\ t.type # "wg" /\ l.dev = t.id
                                 /\ l.mode = t.type /\ l.remote = t.ip
        BY <1>0 DEF Origins
      <3> QED BY <1>0, <3>1, <3>2
    <2> QED BY <1>0, <2>1, QuietItems
  <1>2. ASSUME NEW r \in routes'
        PROVE  \E t \in tunnels' : r.dev = Dev(t) /\ \E p \in Prefixes3(t) : r.net = Net(p)
    BY <1>0, QuietItems DEF Origins
  <1>3. ASSUME NEW q \in peers'
        PROVE  wg0 /\ \E t \in tunnels' : t.type = "wg" /\ q.key = t.key
    <2>1. CASE \E p \in peers : q.key = p.key
      <3>1. PICK p \in peers : q.key = p.key
        BY <2>1
      <3>2. PICK t \in tunnels : t.type = "wg" /\ p.key = t.key
        BY <1>0 DEF Origins
      <3> QED BY <1>0, <3>1, <3>2 DEF Origins
    <2> QED BY <1>0, <2>1, QuietItems
  <1>4. /\ rec'.devs \subseteq rec.devs \cup {l.dev : l \in links}
        /\ rec'.keys \subseteq rec.keys \cup {p.key : p \in peers}
    <2>1. CASE rec' = rec
      BY <2>1
    <2>2. CASE RecoveryStep
      <3>1. CASE Fetch
        BY <1>0, <3>1, FetchResult, TypedParts DEF CommonInv, BrokerInv
      <3>2. CASE ListLinks \/ ListPeers
        BY <1>0, <3>2, ListResult
      <3>3. CASE NextTunnel
        BY <1>0, <3>3, NextTunnelResult
      <3>4. CASE Finish
        BY <3>4 DEF Finish, Off
      <3>5. CASE Recreate \/ RouteSkipped
        BY <1>0, <3>5, GoOnResult DEF Recreate, RouteSkipped
      <3>6. CASE RecreateRefused
        BY <1>0, <3>6, GiveUpResult DEF RecreateRefused
      <3> QED BY <2>2, <3>1, <3>2, <3>3, <3>4, <3>5, <3>6 DEF RecoveryStep
    <2> QED BY <1>0, <2>1, <2>2, QuietTables
  <1>5. rec'.devs \subseteq {l.dev : l \in links'} /\ rec'.keys \subseteq {p.key : p \in peers'}
    <2>1. {l.dev : l \in links} \subseteq {l.dev : l \in links'}
      BY <1>0, QuietItems
    <2>2. {p.key : p \in peers} \subseteq {p.key : p \in peers'}
      BY <1>0, QuietItems
    <2>3. rec.devs \subseteq {l.dev : l \in links} /\ rec.keys \subseteq {p.key : p \in peers}
      BY <1>0 DEF Origins
    <2> QED BY <1>4, <2>1, <2>2, <2>3
  <1> QED BY <1>0, <1>1, <1>2, <1>3, <1>5 DEF Origins, Dev, Prefixes3, Net

(* A request goes on with the commands of t, or ends.                      *)
LEMMA RequestGoesOn ==
  ASSUME RebootStep, NEW w \in Workers, NEW t \in tunnels, Builds(w, t), Running(w)
  PROVE  /\ Tail(req[w].todo) = <<>> => Settled(t, {})'
         /\ Tail(req[w].todo) # <<>> => Builds(w, t)' /\ Past(req[w].todo, t)'
  <1>1. PICK q : q = req[w].todo
    OBVIOUS
  <1>2. CommonInv /\ DistinctNumbers /\ Quiet /\ Under(q, t) /\ Run(Head(q))
    BY <1>1 DEF RebootStep, RebootInv, Agents, Running
  <1>3. IF Tail(q) = <<>> THEN Settled(t, {})' ELSE Past(Tail(q), t)'
    BY <1>2, Advance
  <1>4. ASSUME Tail(q) # <<>> PROVE Builds(w, t)' /\ Past(req[w].todo, t)'
    <2>1. ~Refused(w)
      BY DEF Running, Refused, Run
    <2>2. Builds(w, t)'
      BY <1>1, <1>2, <1>4, <2>1, BuildsBefore
    <2>3. t \in tunnels'
      BY <1>2, QuietTables
    <2>4. req'[w].todo = Tail(q)
      BY <1>1, <1>2, <2>2, <2>3, BuildsAfter DEF RebootStep
    <2> QED BY <1>3, <1>4, <2>2, <2>4
  <1> QED BY <1>1, <1>3, <1>4

(* A new tunnel finds nothing of its own in the kernel.                    *)
LEMMA NewTunnel ==
  ASSUME CommonInv, DistinctNumbers, Origins, NEW w \in Workers, NEW t, Inserting(w, t)
  PROVE  /\ t \in Row /\ WellFormed(t) /\ LinkOf(t.id) = {} /\ ~Exists(t.id)
         /\ \A r \in routes, n \in MainNets(t) : r.net # n
         /\ t.type = "wg" => \A p \in peers : p.key # t.key
         /\ Settled(t, Of(CreateCommands(t))) /\ UNCHANGED <<links, routes, peers, rec>>
  <1>1. /\ t \in Row /\ WellFormed(t) /\ UNCHANGED <<links, routes, peers, rec>>
        /\ \A s \in tunnels : s.id # t.id /\ (t.key # None => s.key # t.key)
    BY DEF Inserting, kernelVars
  <1>2. LinkOf(t.id) = {}
    BY <1>1 DEF Origins, LinkOf
  <1>3. \A r \in routes, n \in MainNets(t) : r.net # n
    BY <1>1, NetOwner
  <1>4. t.type = "wg" => \A p \in peers : p.key # t.key
    <2>1. t.type = "wg" => t.key # None
      BY <1>1, TableAssumption DEF WellFormed, KeyIfWg
    <2> QED BY <1>1, <2>1 DEF Origins
  <1>5. Settled(t, Of(CreateCommands(t)))
    BY <1>2, NewSettled
  <1> QED BY <1>1, <1>2, <1>3, <1>4, <1>5 DEF Exists

LEMMA AgentsKept ==
  ASSUME RebootStep
  PROVE  Agents'
  <1>0. /\ CommonInv /\ DistinctNumbers /\ Creations /\ Quiet /\ Origins /\ Agents /\ RecOK
        /\ tunnels \subseteq tunnels'
    BY QuietTables DEF RebootStep, RebootInv, CommonInv
  <1>1. ASSUME NEW w \in Workers, NEW t \in tunnels', Builds(w, t)'
        PROVE  Under(req[w].todo, t)'
    <2>1. PICK q : q = req[w].todo
      OBVIOUS
    <2>2. CASE t \in tunnels /\ Builds(w, t) /\ ~Running(w) /\ req'[w].todo = req[w].todo
      <3>1. Under(q, t)' /\ req'[w].todo = q
        BY <1>0, <2>1, <2>2, UnderKept DEF Agents
      <3> QED BY <3>1
    <2>3. CASE t \in tunnels /\ Builds(w, t) /\ Running(w) /\ Tail(req[w].todo) # <<>>
      BY <2>3, RequestGoesOn DEF Past
    <2>4. CASE Inserting(w, t) /\ req'[w].todo = CreateCommands(t)
      <3>1. Settled(t, Of(CreateCommands(t)))'
        BY <1>0, <2>4, NewTunnel, SettledKept
      <3>2. Under(CreateCommands(t), t)'
        BY <3>1, WholeEnd DEF Under
      <3> QED BY <2>4, <3>2
    <2> QED BY <1>0, <1>1, <2>2, <2>3, <2>4, BuildsAfter
  <1>2. ASSUME rec'.pc = "exec"
        PROVE  \E t \in tunnels' : t.status = "active" /\ Under(rec.todo, t)'
    <2>1. CASE rec' = rec
      <3>1. PICK q : q = rec.todo
        OBVIOUS
      <3>2. PICK t \in tunnels : t.status = "active" /\ Under(q, t)
        BY <1>0, <1>2, <2>1, <3>1 DEF Agents
      <3>3. Under(q, t)' /\ rec'.todo = q
        BY <2>1, <3>1, <3>2, UnderKept
      <3>4. Under(rec.todo, t)'
        BY <3>3
      <3> QED BY <1>0, <3>2, <3>4
    <2>2. CASE NextTunnel
      <3>1. PICK row \in rec.left : \/ Missing(row) /\ rec'.todo = CreateCommands(row)
                                    \/ rec'.pc = "loop"
        BY <1>0, <2>2, NextTunnelResult
      <3>2. row \in tunnels /\ row.status = "active" /\ rec'.todo = CreateCommands(row)
        BY <1>0, <1>2, <3>1 DEF Creations, Missing
      <3>3. Under(CreateCommands(row), row)
        BY <1>0, <3>2, StartUnder
      <3>4. Under(CreateCommands(row), row)'
        BY <3>2, <3>3, UnderKept
      <3>5. Under(rec.todo, row)'
        BY <3>2, <3>4
      <3> QED BY <1>0, <3>2, <3>5
    <2>3. CASE Recreate \/ RouteSkipped
      <3>1. PICK t \in tunnels : t.status = "active" /\ Under(rec.todo, t)
        BY <1>0, <2>3 DEF Agents, Recreate, RouteSkipped
      <3>2. IF Tail(rec.todo) = <<>> THEN Settled(t, {})'
            ELSE rec'.pc = "exec" /\ rec'.todo = Tail(rec.todo) /\ Past(rec.todo, t)'
        BY <2>3, <3>1, ProgramGoesOn
      <3>3. Tail(rec.todo) # <<>>
        BY <1>0, <1>2, <2>3, GoOnResult DEF Recreate, RouteSkipped
      <3>4. Under(rec.todo, t)'
        BY <3>2, <3>3 DEF Past
      <3> QED BY <1>0, <3>1, <3>4
    <2>4. ASSUME Fetch \/ ListLinks \/ ListPeers \/ Finish \/ RecreateRefused
          PROVE  rec'.pc # "exec"
      <3>1. CASE Fetch
        BY <1>0, <3>1, FetchResult, TypedParts DEF CommonInv, BrokerInv
      <3>2. CASE ListLinks \/ ListPeers
        BY <1>0, <3>2, ListResult, CommonKernel
      <3>3. CASE Finish
        BY <3>3 DEF Finish, Off
      <3>4. CASE RecreateRefused
        BY <1>0, <3>4, GiveUpResult DEF RecreateRefused
      <3> QED BY <2>4, <3>1, <3>2, <3>3, <3>4
    <2> QED BY <1>0, <1>2, <2>1, <2>2, <2>3, <2>4, QuietTables DEF RecoveryStep
  <1> QED BY <1>1, <1>2 DEF Agents

(* Who runs a command in a quiet step, if anybody does.                    *)
LEMMA WhoRuns ==
  ASSUME RebootStep
  PROVE  \/ UNCHANGED <<links, routes, peers>>
         \/ \E w \in Workers : \E t \in tunnels :
              /\ Running(w) /\ RunsFor(Head(req[w].todo), t) /\ Builds(w, t)
              /\ UNCHANGED <<tunnels, rec>>
         \/ /\ Recreate /\ UNCHANGED <<tunnels, req>>
            /\ \E t \in tunnels : RunsFor(Head(rec.todo), t) /\ Under(rec.todo, t)
  <1>0. CommonInv /\ Creations /\ Quiet /\ Agents
    BY DEF RebootStep, RebootInv
  <1>1. ASSUME NEW w \in Workers, Running(w)
        PROVE  \E t \in tunnels : /\ RunsFor(Head(req[w].todo), t) /\ Builds(w, t)
                                  /\ UNCHANGED <<tunnels, rec>>
    BY <1>0, <1>1, WorkerRuns DEF Running, Builds, RunsFor
  <1>2. CASE RecoveryStep /\ Recreate /\ UNCHANGED <<tunnels, req>>
    <2>1. PICK t \in tunnels : Under(rec.todo, t)
      BY <1>0, <1>2 DEF Agents, Recreate
    <2>2. Run(Head(rec.todo)) /\ Head(rec.todo) \in Of(CreateCommands(t))
      BY <1>0, <1>2, <2>1, HeadOfEnd DEF Recreate, Under
    <2> QED BY <1>2, <2>1, <2>2 DEF RunsFor
  <1>3. ASSUME RecoveryStep, ~Recreate PROVE UNCHANGED <<links, routes, peers>>
    BY <1>3 DEF RecoveryStep, Fetch, ListLinks, ListPeers, NextTunnel, Finish,
       RouteSkipped, RecreateRefused, vars
  <1> QED BY <1>0, <1>1, <1>2, <1>3 DEF Quiet, Searching, Refused, Inserting, kernelVars

LEMMA SameDone ==
  ASSUME UNCHANGED <<links, routes, peers>>, NEW t
  PROVE  /\ \A c : Done(c, t)' <=> Done(c, t)
         /\ Begun(t)' <=> Begun(t)
         /\ Exists(t.id)' <=> Exists(t.id)
  BY DEF Done, Begun, Exists, LinkOf

(* A command of t becomes done by the program, or by the request at work   *)
(* on t, which then has not got it to run any more.                        *)
LEMMA NewlyDone ==
  ASSUME RebootStep, NEW t \in tunnels, NEW c, ~Done(c, t), Done(c, t)'
  PROVE  \/ /\ Recreate /\ Under(rec.todo, t) /\ c = Head(rec.todo) /\ Secured(t)'
            /\ UNCHANGED <<tunnels, req>>
         \/ \E w \in Workers : /\ Running(w) /\ Builds(w, t) /\ c = Head(req[w].todo)
                               /\ UNCHANGED <<tunnels, rec>>
  <1>0. CommonInv /\ DistinctNumbers
    BY DEF RebootStep
  <1>1. ~UNCHANGED <<links, routes, peers>>
    BY SameDone
  <1>2. ASSUME NEW w \in Workers, NEW s \in tunnels,
               Running(w), RunsFor(Head(req[w].todo), s), Builds(w, s)
        PROVE  s = t /\ c = Head(req[w].todo)
    BY <1>0, <1>2, DoneCause
  <1>3. ASSUME NEW s \in tunnels, RunsFor(Head(rec.todo), s), Under(rec.todo, s)
        PROVE  s = t /\ c = Head(rec.todo)
    BY <1>0, <1>3, DoneCause
  <1>4. Recreate /\ Under(rec.todo, t) => Secured(t)'
    BY ProgramGoesOn
  <1> QED BY <1>1, <1>2, <1>3, <1>4, WhoRuns

LEMMA DoneSecuredKept ==
  ASSUME RebootStep
  PROVE  DoneSecured'
  <1>0. /\ CommonInv /\ DistinctNumbers /\ Creations /\ Quiet /\ Origins /\ Agents /\ DoneSecured
        /\ tunnels \subseteq tunnels'
    BY QuietTables DEF RebootStep, RebootInv
  <1> SUFFICES ASSUME NEW w \in Workers, NEW t \in tunnels', Builds(w, t)',
                      NEW c \in Of(req'[w].todo), Done(c, t)'
               PROVE  Secured(t)'
    BY DEF DoneSecured
  <1>a. ASSUME t \in tunnels, Builds(w, t), c \in Of(req[w].todo), Done(c, t)
        PROVE  Secured(t)'
    BY <1>0, <1>a, SecuredKept DEF DoneSecured
  <1>b. ASSUME NEW v \in Workers, t \in tunnels, Builds(v, t), Builds(w, t) PROVE v = w
    BY <1>0, <1>b DEF Creations, Builds
  <1>1. CASE t \in tunnels /\ Builds(w, t) /\ ~Running(w) /\ req'[w].todo = req[w].todo
    <2>1. c \in Of(req[w].todo)
      BY <1>1
    <2>2. CASE ~Done(c, t)
      BY <1>1, <1>b, <2>2, NewlyDone
    <2> QED BY <1>1, <1>a, <2>1, <2>2
  <1>2. CASE t \in tunnels /\ Builds(w, t) /\ Running(w) /\ req'[w].todo = Tail(req[w].todo)
    <2>1. c \in Of(Tail(req[w].todo))
      BY <1>2
    <2>2. EndShape(req[w].todo, t)
      BY <1>0, <1>2, HeadOfEnd DEF Agents, Under
    <2>3. c \in Of(req[w].todo) /\ c # Head(req[w].todo)
      BY <2>1, <2>2 DEF EndShape
    <2>4. CASE ~Done(c, t)
      BY <1>2, <1>b, <2>3, <2>4, NewlyDone
    <2> QED BY <1>2, <1>a, <2>3, <2>4
  <1>3. CASE Inserting(w, t)
    <2>1. /\ ~Exists(t.id) /\ LinkOf(t.id) = {} /\ \A r \in routes, n \in MainNets(t) : r.net # n
          /\ UNCHANGED <<links, routes, peers>>
      BY <1>0, <1>3, NewTunnel
    <2>2. Done(c, t)
      BY <2>1, SameDone
    <2>3. ASSUME NEW n \in MainNets(t), [net |-> n, dev |-> Dev(t)] \in routes PROVE FALSE
      <3>1. [net |-> n, dev |-> Dev(t)].net = n
        OBVIOUS
      <3> QED BY <2>1, <2>3, <3>1
    <2> QED BY <2>1, <2>2, <2>3 DEF Done
  <1> QED BY <1>0, <1>1, <1>2, <1>3, BuildsAfter

LEMMA BegunSecuredKept ==
  ASSUME RebootStep
  PROVE  BegunSecured'
  <1>0. /\ CommonInv /\ DistinctNumbers /\ Creations /\ Quiet /\ Origins /\ Agents /\ BegunSecured
        /\ tunnels \subseteq tunnels'
    BY QuietTables DEF RebootStep, RebootInv
  <1> SUFFICES ASSUME NEW t \in tunnels', Begun(t)'
               PROVE  Secured(t)' \/ \E w \in Workers : Builds(w, t)' /\ Past(req[w].todo, t)'
    BY DEF BegunSecured
  <1>a. ASSUME t \in tunnels, NEW w \in Workers, Builds(w, t), Running(w)
        PROVE  Secured(t)' \/ (Builds(w, t)' /\ Past(req[w].todo, t)')
    BY <1>a, RequestGoesOn DEF Secured
  <1>1. CASE t \in tunnels /\ Secured(t)
    BY <1>1, SecuredKept
  <1>2. ASSUME t \in tunnels, NEW w \in Workers, Builds(w, t), Past(req[w].todo, t)
        PROVE  Secured(t)' \/ (Builds(w, t)' /\ Past(req[w].todo, t)')
    <2>1. CASE Builds(w, t)' /\ req'[w].todo = req[w].todo
      <3>1. PICK q : q = req[w].todo
        OBVIOUS
      <3>2. Past(q, t)' /\ req'[w].todo = q
        BY <1>2, <2>1, <3>1, UnderKept DEF Past
      <3>3. Past(req[w].todo, t)'
        BY <3>2
      <3> QED BY <2>1, <3>3
    <2>2. CASE Refused(w)
      <3>1. Secured(t)
        BY <1>2, <2>2, RefusedSecured DEF Past
      <3> QED BY <1>2, <3>1, SecuredKept
    <2> QED BY <1>0, <1>2, <1>a, <2>1, <2>2, BuildsBefore
  <1>3. CASE t \in tunnels /\ ~Begun(t)
    <2>1. ~UNCHANGED <<links, routes, peers>>
      BY <1>3, SameDone
    <2>2. ASSUME NEW w \in Workers, NEW s \in tunnels,
                 Running(w), RunsFor(Head(req[w].todo), s), Builds(w, s)
          PROVE  Secured(t)' \/ (Builds(w, t)' /\ Past(req[w].todo, t)')
      <3>1. s = t
        BY <1>0, <1>3, <2>2, BegunCause
      <3> QED BY <1>a, <2>2, <3>1
    <2>3. ASSUME NEW s \in tunnels, Recreate, RunsFor(Head(rec.todo), s), Under(rec.todo, s)
          PROVE  Secured(t)'
      <3>1. s = t
        BY <1>0, <1>3, <2>3, BegunCause
      <3> QED BY <2>3, <3>1, ProgramGoesOn
    <2> QED BY <2>1, <2>2, <2>3, WhoRuns
  <1>4. CASE \E w \in Workers : Inserting(w, t)
    <2>1. PICK w \in Workers : Inserting(w, t)
      BY <1>4
    <2>2. /\ ~Exists(t.id) /\ UNCHANGED <<links, routes, peers>>
          /\ t.type = "wg" => \A p \in peers : p.key # t.key
      BY <1>0, <2>1, NewTunnel
    <2>3. Begun(t)
      BY <2>2, SameDone
    <2> QED BY <2>2, <2>3 DEF Begun
  <1>5. CASE t \in tunnels /\ Begun(t)
    BY <1>0, <1>1, <1>2, <1>5 DEF BegunSecured
  <1> QED BY <1>0, <1>3, <1>4, <1>5, QuietTables

(* How the program comes to have commands to run.                          *)
LEMMA ProgramRunning ==
  ASSUME CommonInv, Creations, Quiet, rec'.pc = "exec"
  PROVE  \/ rec' = rec
         \/ /\ NextTunnel /\ UNCHANGED <<tunnels, req, links, routes, peers>>
            /\ \E row \in tunnels : row \in rec.left /\ rec'.todo = CreateCommands(row)
         \/ /\ Recreate \/ RouteSkipped
            /\ UNCHANGED <<tunnels, req>> /\ rec.pc = "exec"
            /\ Tail(rec.todo) # <<>> /\ rec'.todo = Tail(rec.todo)
  <1>0. RecOK /\ KernelTyped
    BY CommonKernel DEF CommonInv
  <1>1. CASE NextTunnel
    <2>1. \E row \in rec.left : \/ rec'.todo = CreateCommands(row)
                                \/ rec'.pc = "loop"
      BY <1>0, <1>1, NextTunnelResult
    <2> QED BY <1>1, <2>1 DEF Creations, NextTunnel, vars
  <1>2. CASE (Recreate \/ RouteSkipped) /\ UNCHANGED <<tunnels, req>>
    BY <1>0, <1>2, GoOnResult DEF Recreate, RouteSkipped
  <1>3. ASSUME Fetch \/ ListLinks \/ ListPeers \/ Finish \/ RecreateRefused
        PROVE  rec'.pc # "exec"
    <2>1. CASE Fetch
      BY <1>0, <2>1, FetchResult, TypedParts DEF CommonInv, BrokerInv
    <2>2. CASE ListLinks \/ ListPeers
      BY <1>0, <2>2, ListResult
    <2>3. CASE Finish
      BY <2>3 DEF Finish, Off
    <2>4. CASE RecreateRefused
      BY <1>0, <2>4, GiveUpResult DEF RecreateRefused
    <2> QED BY <1>3, <2>1, <2>2, <2>3, <2>4
  <1> QED BY <1>1, <1>2, <1>3, QuietTables DEF RecoveryStep

(* The program gets past the first command of a link by running it.        *)
LEMMA NewlyPast ==
  ASSUME RebootStep, NEW t \in tunnels, t.type # "wg", RecoveryPast(t)', ~RecoveryPast(t)
  PROVE  /\ Recreate /\ UNCHANGED <<tunnels, req>> /\ Head(rec.todo) = First(t)
         /\ ~Exists(t.id) /\ RunsFor(First(t), t)
  <1>0. /\ CommonInv /\ DistinctNumbers /\ Creations /\ Quiet /\ Agents /\ t \in Row /\ WellFormed(t)
        /\ rec'.pc = "exec" /\ Past(rec.todo, t)'
    BY TypedParts DEF RebootStep, RebootInv, RecoveryPast, CommonInv, BrokerInv
  <1>q. PICK q : q = rec'.todo
    OBVIOUS
  <1>1. q \in Ends(CreateCommands(t)) /\ First(t) \notin Of(q)
    BY <1>0, <1>q DEF Past, Under
  <1>2. rec' # rec
    <2>1. SUFFICES ASSUME rec' = rec PROVE FALSE
      OBVIOUS
    <2>2. PICK s \in tunnels : Under(rec.todo, s)
      BY <1>0, <2>1 DEF Agents
    <2>3. s.id = t.id
      BY <1>0, <1>1, <1>q, <2>1, <2>2, EndsApart DEF Under
    <2>4. Under(rec.todo, t)
      BY <1>0, <2>2, <2>3, SameTunnel
    <2>5. Past(rec.todo, t)
      BY <1>1, <1>q, <2>1, <2>4 DEF Past
    <2> QED BY <1>0, <2>1, <2>5 DEF RecoveryPast
  <1>3. ASSUME NEW row \in tunnels, rec'.todo = CreateCommands(row) PROVE FALSE
    <2>1. q \in Ends(CreateCommands(row))
      BY <1>3, <1>q, WholeEnd
    <2>2. row.id = t.id
      BY <1>0, <1>1, <2>1, EndsApart
    <2>3. row = t
      BY <1>0, <2>2, SameTunnel
    <2>4. First(t) \in Of(CreateCommands(t))
      BY <1>0, WholeEnd, HeadOfEnd DEF First
    <2> QED BY <1>1, <1>3, <1>q, <2>3, <2>4
  <1>4. /\ Recreate \/ RouteSkipped
        /\ UNCHANGED <<tunnels, req>> /\ rec.pc = "exec"
        /\ Tail(rec.todo) # <<>> /\ rec'.todo = Tail(rec.todo)
    BY <1>0, <1>2, <1>3, ProgramRunning
  <1>5. PICK s \in tunnels : Under(rec.todo, s)
    BY <1>0, <1>4 DEF Agents
  <1>6. EndShape(rec.todo, s)
    BY <1>0, <1>5, HeadOfEnd DEF Under
  <1>7. q \in Ends(CreateCommands(s))
    BY <1>4, <1>6, <1>q DEF EndShape
  <1>8. s = t
    <2>1. s.id = t.id
      BY <1>0, <1>1, <1>7, EndsApart
    <2> QED BY <1>0, <2>1, SameTunnel
  <1>9. First(t) \in Of(rec.todo)
    BY <1>4, <1>5, <1>8 DEF RecoveryPast, Past
  <1>10. Head(rec.todo) = First(t) /\ First(t) \in Of(CreateCommands(t))
    BY <1>0, <1>5, <1>8, <1>9, HeadOfEnd DEF Under
  <1>11. First(t).verb = "tunnel add" /\ First(t).dev = t.id
    <2>1. First(t) = TunnelAdd(t.id, t.type, t.ip)
      BY CreateVerbs
    <2>2. TunnelAdd(t.id, t.type, t.ip).verb = "tunnel add" /\ TunnelAdd(t.id, t.type, t.ip).dev = t.id
      BY DEF TunnelAdd
    <2> QED BY <2>1, <2>2
  <1>12. Recreate
    BY <1>4, <1>10, <1>11 DEF RouteSkipped, RouteExists
  <1>13. Run(First(t)) /\ ~Exists(t.id)
    BY <1>10, <1>11, <1>12 DEF Recreate, Run, Accepts
  <1> QED BY <1>4, <1>10, <1>12, <1>13 DEF RunsFor

LEMMA OneOnLinkKept ==
  ASSUME RebootStep
  PROVE  OneOnLink'
  <1>0. /\ CommonInv /\ BrokerInv /\ DistinctNumbers /\ Creations /\ Quiet /\ Origins /\ Agents /\ OneOnLink
    BY DEF RebootStep, RebootInv, CommonInv
  <1> SUFFICES ASSUME NEW t \in tunnels', t.type # "wg", RecoveryPast(t)'
               PROVE  /\ \A w \in Workers : Builds(w, t)' => First(t) \in Of(req'[w].todo)
                      /\ AddrAdd(t.ula, t.id) \in Of(rec'.todo) => \A l \in LinkOf(t.id)' : l.ula # t.ula
    BY DEF OneOnLink
  <1>1. t \in tunnels
    <2>1. ASSUME NEW w \in Workers, Inserting(w, t) PROVE FALSE
      <3>1. ~Exists(t.id) /\ UNCHANGED <<links, routes, peers>>
        BY <1>0, <2>1, NewTunnel
      <3>2. Exists(t.id)'
        <4>1. Settled(t, Of(rec.todo))' /\ First(t) \notin Of(rec'.todo)
          BY DEF RecoveryPast, Past, Under
        <4>2. First(t) = TunnelAdd(t.id, t.type, t.ip)
          BY CreateVerbs
        <4>3. LinkOf(t.id)' # {}
          BY <4>1, <4>2 DEF Settled, LinkSettled
        <4> QED BY <4>3 DEF Exists
      <3> QED BY <3>1, <3>2, SameDone
    <2> QED BY <1>0, <2>1, QuietTables
  <1>2. ASSUME NEW w \in Workers, Builds(w, t)'
        PROVE  /\ Builds(w, t)
               /\ ~Running(w) => req'[w].todo = req[w].todo
    BY <1>0, <1>1, <1>2, BuildsAfter
  <1>3. t.ula # None /\ t \in Row
    BY <1>0, <1>1, TypedParts, TableAssumption DEF BrokerInv, Row
  <1>4. CASE ~RecoveryPast(t)
    <2>1. /\ Recreate /\ UNCHANGED <<tunnels, req>> /\ ~Exists(t.id) /\ RunsFor(First(t), t)
      BY <1>1, <1>4, NewlyPast
    <2>2. ASSUME NEW w \in Workers, Builds(w, t)' PROVE First(t) \in Of(req'[w].todo)
      <3>1. Builds(w, t) /\ Under(req[w].todo, t) /\ req'[w].todo = req[w].todo
        BY <1>0, <1>1, <1>2, <2>1, <2>2 DEF Agents
      <3>2. First(t) \in Of(req[w].todo)
        BY <2>1, <3>1, PastBegun DEF Past
      <3> QED BY <3>1, <3>2
    <2>3. ASSUME NEW l \in LinkOf(t.id)' PROVE l.ula # t.ula
      <3>1. l \in links' /\ l.dev = t.id /\ ~\E m \in links : m.dev = t.id
        BY <2>1, <2>3 DEF LinkOf, Exists
      <3>2. l.ula = None
        BY <1>0, <2>1, <3>1, RunLinks
      <3> QED BY <1>3, <3>2
    <2> QED BY <2>2, <2>3
  <1>5. CASE RecoveryPast(t)
    <2>1. ASSUME NEW w \in Workers, Builds(w, t) PROVE First(t) \in Of(req[w].todo) /\ ~Running(w)
      <3>1. First(t) \in Of(req[w].todo) /\ Under(req[w].todo, t)
        BY <1>0, <1>1, <1>5, <2>1 DEF OneOnLink, Agents
      <3>2. Head(req[w].todo) = First(t)
        BY <1>0, <1>1, <3>1, HeadOfEnd DEF Under
      <3>3. Exists(t.id)
        BY <1>5, PastBegun DEF RecoveryPast
      <3>4. First(t).verb = "tunnel add" /\ First(t).dev = t.id
        <4>1. First(t) = TunnelAdd(t.id, t.type, t.ip)
          BY CreateVerbs
        <4>2. TunnelAdd(t.id, t.type, t.ip).verb = "tunnel add" /\ TunnelAdd(t.id, t.type, t.ip).dev = t.id
          BY DEF TunnelAdd
        <4> QED BY <4>1, <4>2
      <3>5. ~Run(First(t))
        BY <3>3, <3>4 DEF Run, Accepts
      <3> QED BY <3>1, <3>2, <3>5 DEF Running
    <2>2. ASSUME NEW w \in Workers, Builds(w, t)' PROVE First(t) \in Of(req'[w].todo)
      BY <1>2, <2>1, <2>2
    <2>3. ASSUME AddrAdd(t.ula, t.id) \in Of(rec'.todo), NEW l \in LinkOf(t.id)', l.ula = t.ula PROVE FALSE
      <3> DEFINE c == AddrAdd(t.ula, t.id)
      <3>0. EndShape(rec.todo, t) /\ rec'.pc = "exec"
        BY <1>0, <1>1, <1>5, HeadOfEnd DEF RecoveryPast, Past, Under
      <3>1. c \in Of(rec.todo) /\ (rec' # rec => c # Head(rec.todo))
        <4>1. CASE rec' = rec
          BY <2>3, <4>1
        <4>2. CASE rec'.todo = Tail(rec.todo)
          BY <2>3, <3>0, <4>2 DEF EndShape
        <4> QED BY <1>0, <1>5, <3>0, <4>1, <4>2, ProgramRunning DEF NextTunnel, RecoveryPast
      <3>2. \A m \in LinkOf(t.id) : m.ula # t.ula
        BY <1>0, <1>1, <1>5, <3>1 DEF OneOnLink
      <3>3. ~Done(c, t)
        <4>1. c.verb = "addr add" /\ \A n, d : RouteAdd(n, d).verb = "route add"
          BY DEF AddrAdd, RouteAdd
        <4>2. First(t) = TunnelAdd(t.id, t.type, t.ip) /\ TunnelAdd(t.id, t.type, t.ip).verb = "tunnel add"
          BY CreateVerbs DEF TunnelAdd
        <4> QED BY <3>2, <4>1, <4>2 DEF Done
      <3>4. Done(c, t)'
        BY <2>3 DEF Done
      <3>5. /\ Recreate /\ c = Head(rec.todo)
        BY <1>1, <2>1, <3>3, <3>4, NewlyDone
      <3>6. rec' # rec
        <4>1. rec'.todo = Tail(rec.todo)
          BY <1>0, <3>5, GoOnResult DEF CommonInv, Recreate
        <4> QED BY <2>3, <3>0, <3>5, <4>1 DEF EndShape
      <3> QED BY <3>1, <3>5, <3>6
    <2> QED BY <2>2, <2>3
  <1> QED BY <1>4, <1>5

(* A tunnel the program has in its list is taken up, or need not be.       *)
LEMMA ListedCovered ==
  ASSUME RebootStep, RecoveryStep, UNCHANGED <<tunnels, req>>, NEW t \in rec.left, Recoverable(t)
  PROVE  \/ Secured(t)' \/ \E w \in Workers : Builds(w, t)'
         \/ t \in rec'.left
         \/ rec'.pc = "exec" /\ Under(rec.todo, t)'
  <1>0. /\ CommonInv /\ Creations /\ Origins /\ BegunSecured /\ RecOK /\ KernelTyped
        /\ t \in tunnels /\ rec.pc \notin {"off", "fetch"}
    BY CommonKernel DEF RebootStep, RebootInv, CommonInv, Creations
  <1>1. CASE ListLinks \/ ListPeers
    BY <1>0, <1>1, ListResult
  <1>2. CASE Recreate \/ RouteSkipped
    BY <1>0, <1>2, GoOnResult DEF Recreate, RouteSkipped
  <1>3. CASE RecreateRefused
    BY <1>0, <1>3, GiveUpResult DEF RecreateRefused
  <1>4. CASE Fetch \/ Finish
    BY <1>0, <1>4 DEF Fetch, Finish
  <1>5. CASE NextTunnel
    <2>1. PICK row \in rec.left :
           /\ rec'.left = rec.left \ {row}
           /\ \/ Missing(row) /\ rec'.pc = "exec" /\ rec'.todo = CreateCommands(row)
              \/ ~Missing(row)
      BY <1>0, <1>5, NextTunnelResult
    <2>2. CASE row # t
      BY <2>1, <2>2
    <2>3. CASE row = t /\ Missing(t)
      <3>1. Under(CreateCommands(t), t)
        BY <1>0, StartUnder
      <3>2. Under(CreateCommands(t), t)'
        BY <1>0, <3>1, UnderKept
      <3>3. Under(rec.todo, t)'
        BY <2>1, <2>3, <3>2
      <3> QED BY <2>1, <2>3, <3>3
    <2>4. CASE ~Missing(t)
      <3>1. Begun(t)
        <4>1. CASE t.type = "wg"
          <5>1. t.key \in rec.keys
            BY <2>4, <4>1 DEF Missing, Recoverable
          <5> QED BY <1>0, <4>1, <5>1 DEF Origins, Begun
        <4>2. CASE t.type # "wg"
          <5>1. t.id \in rec.devs
            BY <2>4, <4>2 DEF Missing, Recoverable
          <5>2. \E l \in links : l.dev = t.id
            BY <1>0, <5>1 DEF Origins
          <5> QED BY <4>2, <5>2 DEF Begun, Exists, LinkOf
        <4> QED BY <4>1, <4>2
      <3>2. Secured(t) \/ \E w \in Workers : Builds(w, t)
        BY <1>0, <3>1 DEF BegunSecured
      <3>3. Secured(t) => Secured(t)'
        BY <1>0, SecuredKept
      <3>4. \A w \in Workers : Builds(w, t) => Builds(w, t)'
        BY DEF Builds
      <3> QED BY <3>2, <3>3, <3>4
    <2> QED BY <2>1, <2>2, <2>3, <2>4
  <1> QED BY <1>1, <1>2, <1>3, <1>4, <1>5 DEF RecoveryStep

(* A tunnel the program has begun is finished, or left to somebody else.   *)
LEMMA UnderCovered ==
  ASSUME RebootStep, RecoveryStep, UNCHANGED <<tunnels, req>>, NEW t \in tunnels, Recoverable(t),
         rec.pc = "exec", Under(rec.todo, t)
  PROVE  Secured(t)' \/ \E w \in Workers : Builds(w, t)'
  <1>0. /\ CommonInv /\ Origins /\ BegunSecured
    BY DEF RebootStep, RebootInv
  <1>1. CASE Recreate \/ RouteSkipped
    BY <1>1, ProgramGoesOn
  <1>2. CASE RecreateRefused
    <2>1. First(t) \in Of(rec.todo)
      BY <1>0, <1>2, PastNotRefused DEF RecoveryPast, Past, RebootStep
    <2>2. Head(rec.todo) = First(t)
      BY <1>0, <2>1, HeadOfEnd DEF Under
    <2>3. Begun(t)
      BY <1>0, <1>2, <2>2, FirstRefused DEF RecreateRefused
    <2>4. Secured(t) \/ \E w \in Workers : Builds(w, t)
      BY <1>0, <2>3 DEF BegunSecured
    <2>5. Secured(t) => Secured(t)'
      BY SecuredKept
    <2>6. \A w \in Workers : Builds(w, t) => Builds(w, t)'
      BY DEF Builds
    <2> QED BY <2>4, <2>5, <2>6
  <1> QED BY <1>1, <1>2 DEF RecoveryStep, Fetch, ListLinks, ListPeers, NextTunnel, Finish

LEMMA CoveredKept ==
  ASSUME RebootStep
  PROVE  Covered'
  <1>0. /\ CommonInv /\ BrokerInv /\ DistinctNumbers /\ Creations /\ Quiet /\ Covered /\ RecOK
        /\ tunnels \subseteq tunnels' /\ UNCHANGED wg0
    BY QuietTables DEF RebootStep, RebootInv, CommonInv
  <1> DEFINE Seen(t) == \/ Settled(t, {})'
                        \/ \E w \in Workers : Builds(w, t)'
                        \/ rec'.pc = "fetch" \/ t \in rec'.left
                        \/ rec'.pc = "exec" /\ Under(rec.todo, t)'
  <1>a. ASSUME NEW t, Secured(t)' PROVE Seen(t)
    BY <1>a DEF Secured, RecoveryPast, Past
  <1> SUFFICES ASSUME NEW t \in tunnels', Recoverable(t)' PROVE Seen(t)
    BY DEF Covered
  <1>1. CASE \E w \in Workers : Inserting(w, t)
    <2>1. PICK w \in Workers : Inserting(w, t)
      BY <1>1
    <2>2. PICK r : Become(w, r) /\ r.pc = "exec" /\ r.id = t.id
      BY <2>1 DEF Inserting
    <2>3. req'[w] = r
      BY <1>0, <2>2, Others, TypedParts DEF BrokerInv
    <2>4. Builds(w, t)'
      BY <2>2, <2>3 DEF Builds
    <2> QED BY <2>4
  <1>2. CASE t \in tunnels
    <2>0. Recoverable(t)
      BY <1>0 DEF Recoverable
    <2>1. CASE Settled(t, {})
      BY <1>2, <1>a, <2>1, SecuredKept DEF Secured
    <2>2. ASSUME NEW w \in Workers, Builds(w, t) PROVE Seen(t)
      <3>1. CASE Builds(w, t)'
        BY <3>1
      <3>2. CASE Running(w) /\ Tail(req[w].todo) = <<>>
        BY <1>2, <2>2, <3>2, RequestGoesOn
      <3>3. CASE Refused(w)
        <4>1. Secured(t)
          BY <1>2, <2>0, <2>2, <3>3, RefusedSecured
        <4> QED BY <1>2, <1>a, <4>1, SecuredKept
      <3> QED BY <1>0, <1>2, <2>2, <3>1, <3>2, <3>3, BuildsBefore
    <2>3. CASE rec' = rec /\ (rec.pc = "fetch" \/ t \in rec.left)
      BY <2>3
    <2>4. CASE rec' = rec /\ rec.pc = "exec" /\ Under(rec.todo, t)
      <3>1. PICK q : q = rec.todo
        OBVIOUS
      <3>2. Under(q, t)' /\ rec'.todo = q
        BY <1>2, <2>4, <3>1, UnderKept
      <3>3. Under(rec.todo, t)'
        BY <3>2
      <3> QED BY <2>4, <3>3
    <2>5. CASE RecoveryStep /\ UNCHANGED <<tunnels, req>>
      <3>1. CASE rec.pc = "fetch"
        <4>1. Fetch
          BY <2>5, <3>1 DEF RecoveryStep, ListLinks, ListPeers, NextTunnel, Finish, Recreate,
             RouteSkipped, RecreateRefused
        <4>2. rec'.left = tunnels
          BY <1>0, <4>1, FetchResult, TypedParts DEF BrokerInv
        <4> QED BY <1>2, <4>2
      <3>2. CASE t \in rec.left
        BY <1>a, <2>0, <2>5, <3>2, ListedCovered
      <3>3. CASE rec.pc = "exec" /\ Under(rec.todo, t)
        BY <1>2, <1>a, <2>0, <2>5, <3>3, UnderCovered
      <3> QED BY <1>0, <1>2, <2>0, <2>1, <2>2, <3>1, <3>2, <3>3 DEF Covered
    <2> QED BY <1>0, <1>2, <2>0, <2>1, <2>2, <2>3, <2>4, <2>5, QuietTables DEF Covered
  <1> QED BY <1>0, <1>1, <1>2, QuietTables

-----------------------------------------------------------------------------
(* Recovered after a reboot *)

RecoveryInv == since = "reboot" => RebootInv

(* The reboot leaves an empty kernel and nobody at work.                   *)
LEMMA RebootStarts ==
  ASSUME Restarting, since' = "reboot"
  PROVE  RebootInv'
  <1>1. /\ rec' = Starting /\ links' = {} /\ routes' = {} /\ peers' = {}
        /\ \A w \in Workers : req'[w].pc # "exec"
    BY DEF Restarting, Idle
  <1>2. rec'.pc = "fetch" /\ rec'.devs = {} /\ rec'.keys = {}
    BY <1>1, StartingOK
  <1>3. \A w \in Workers : \A t : ~Builds(w, t)'
    BY <1>1 DEF Builds
  <1>4. Origins'
    BY <1>1, <1>2 DEF Origins
  <1>5. Agents' /\ DoneSecured'
    BY <1>2, <1>3 DEF Agents, DoneSecured
  <1>6. BegunSecured'
    BY <1>1 DEF BegunSecured, Begun, Exists, LinkOf
  <1>7. OneOnLink'
    BY <1>2 DEF OneOnLink, RecoveryPast
  <1>8. Covered'
    BY <1>2 DEF Covered
  <1> QED BY <1>4, <1>5, <1>6, <1>7, <1>8 DEF RebootInv

LEMMA NextRecovered ==
  ASSUME DistinctNumbers, CommonInv, CreationsInv, RecoveryInv, [PropertyNext]_propertyVars
  PROVE  RecoveryInv'
  <1> SUFFICES ASSUME since' = "reboot" PROVE RebootInv'
    BY DEF RecoveryInv
  <1>1. CASE Restarting
    BY <1>1, RebootStarts
  <1>2. CASE since # "other" /\ since' = since /\ Creations /\ UNCHANGED wg0 /\ Quiet
    <2>1. RebootStep
      BY <1>2 DEF RebootStep, RecoveryInv
    <2> QED BY <2>1, OriginsKept, AgentsKept, DoneSecuredKept, BegunSecuredKept, OneOnLinkKept, CoveredKept
            DEF RebootInv
  <1> QED BY <1>1, <1>2, StepKinds DEF CreationsInv

LEMMA AtRestConfigured ==
  ASSUME CommonInv, CreationsInv, RecoveryInv
  PROVE  RecoveredAfterReboot
  <1> SUFFICES ASSUME since = "reboot", AllAtRest, NEW t \in tunnels, Recoverable(t)
               PROVE  Configured(t)
    BY DEF RecoveredAfterReboot
  <1>1. Covered /\ Creations /\ rec.pc = "off" /\ \A w \in Workers : ~Builds(w, t)
    BY DEF RecoveryInv, RebootInv, CreationsInv, AllAtRest, Builds
  <1>2. Settled(t, {})
    BY <1>1 DEF Covered, Creations
  <1>3. KernelTyped /\ t \in Row
    BY TypedParts DEF CommonInv, BrokerInv
  <1> QED BY <1>2, <1>3, SettledConfigured

(* Once the program has ended after a reboot and no request is in flight,  *)
(* every active tunnel that the kernel can carry is configured as its row  *)
(* says, whatever creations ran beside the program.                        *)
THEOREM RebootRecovers == DistinctNumbers => (PropertySpec => []RecoveredAfterReboot)
  <1> SUFFICES ASSUME DistinctNumbers PROVE PropertySpec => []RecoveredAfterReboot
    OBVIOUS
  <1>1. PropertyInit => RecoveryInv
    BY DEF PropertyInit, RecoveryInv
  <1>2. CommonInv /\ CreationsInv /\ RecoveryInv /\ [PropertyNext]_propertyVars => RecoveryInv'
    BY NextRecovered
  <1>3. CommonInv /\ CreationsInv /\ RecoveryInv => RecoveredAfterReboot
    BY AtRestConfigured
  <1> QED BY <1>1, <1>2, <1>3, CommonInvariance, CreationsHold, PTL DEF PropertySpec
=============================================================================
