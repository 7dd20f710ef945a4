-------------------------- MODULE BrokerProperties --------------------------
(***************************************************************************)
(* What the broker must keep true, stated over the tables, the kernel and  *)
(* the requests in flight.                                                 *)
(***************************************************************************)
EXTENDS Broker

RowsOf(u) == {t \in tunnels : t.user = u}

MainNets(row) == {Net(row.p1), Net(row.p2)}

(* The kernel carries a tunnel as its row says: its first two prefixes are *)
(* routed to it, and it has its link up with the stored addresses or its   *)
(* peer with those prefixes allowed.                                       *)
Configured(row) ==
    LET dev == IF row.type = "wg" THEN Wg0 ELSE row.id IN
    /\ \A n \in MainNets(row) : [net |-> n, dev |-> dev] \in routes
    /\ IF row.type = "wg"
       THEN \E p \in peers : p.key = row.key /\ MainNets(row) \subseteq p.allowed
       ELSE [dev |-> row.id, mode |-> row.type, remote |-> row.ip,
             up |-> TRUE, ula |-> row.ula] \in links

(* The row a creation is building, and what a request keeps of one.        *)
Draft == [id : Ids \cup {None}, user : Users \cup {None}, type : Types \cup {None},
          status : {"active"}, ip : IPs \cup {None}, ula : Ulas \cup {None},
          p1 : Prefix \cup {None}, p2 : Prefix \cup {None}, p3 : Prefix \cup {None},
          key : Keys \cup {None}]

Request == [op : {"create", "update", "delete", None},
            pc : StatementPcs \cup {"idle", "exec"},
            id : Ids \cup {None}, ip : IPs \cup {None}, row : Draft,
            tries : Nat, todo : Seq(Command)]

(* Type correctness of the tables, the kernel's state and the requests; in *)
(* particular no counter of a user is ever negative.                       *)
TypeOK ==
    /\ tunnels \subseteq Row
    /\ users \in [Registered -> [created : Nat, active : Nat]]
    /\ links \subseteq Link
    /\ routes \subseteq Route
    /\ peers \subseteq Peer
    /\ wg0 \in BOOLEAN
    /\ req \in [Workers -> Request]
    /\ faults \in 0 .. MaxFaults

(* A user never has more than two tunnels, active or suspended, although   *)
(* the count, the search for an id and the insertion are three statements  *)
(* that two requests may interleave.                                       *)
SlotLimit == \A u \in Users : Cardinality(RowsOf(u)) <= 2

(* The first two prefixes of a tunnel are no prefix of another tunnel,     *)
(* although IsPrefixInUse is asked before the insertion, not with it.      *)
MainPrefixesUnique ==
    \A s, t \in tunnels : s.id # t.id => {s.p1, s.p2} \cap Prefixes3(t) = {}

(* What the comment over the generation of the prefixes says of all three. *)
PrefixesUnique ==
    \A s, t \in tunnels : s.id # t.id => Prefixes3(s) \cap Prefixes3(t) = {}

(* A registered user's counter exceeds the tunnels of the table by no more *)
(* than the deletions about to decrement it and those cut short after the  *)
(* row was gone (at most one per goroutine and failure): no interleaving   *)
(* counts a tunnel twice.                                                  *)
CountersNotAhead ==
    \A u \in Registered :
        users[u].active <= Cardinality(RowsOf(u))
            + Cardinality({w \in Workers : At(w, "delete", "decrement") /\ req[w].row.user = u})
            + faults * Cardinality(Workers)

(* The steps a goroutine has before it at most: the turns left of each of  *)
(* the loops to come, one statement each, and its commands.                *)
StepsLeft(r) ==
    CASE r.pc = "idle"    -> 0
      [] r.pc = "count"   -> 4 * MaxAttempts + 10
      [] r.pc = "slot"    -> 4 * MaxAttempts + 10 - r.tries
      [] r.pc = "prefix1" -> 4 * MaxAttempts + 7 - r.tries
      [] r.pc = "prefix2" -> 3 * MaxAttempts + 7 - r.tries
      [] r.pc = "prefix3" -> 2 * MaxAttempts + 7 - r.tries
      [] r.pc = "commit"  -> 7
      [] r.pc = "exec"    -> Len(r.todo) + (IF r.op = "delete" THEN 2 ELSE 0)
      [] r.pc = "update"  -> 3
      [] r.pc = "select"  -> 2
      [] r.pc = "lookup"  -> 7
      [] r.pc = "delete"  -> 2
      [] OTHER            -> 1

(* No request can be kept from its answer for ever: whatever the other     *)
(* goroutines do to the rows and the prefixes it looks for, and whatever   *)
(* fails, each step of a goroutine leaves it fewer steps than it had, so   *)
(* every loop over ids and prefixes gives up.                              *)
EveryStepNearer ==
    [][\A w \in Workers : req[w].pc # "idle" /\ req'[w] # req[w] =>
         StepsLeft(req'[w]) < StepsLeft(req[w])]_vars

(* No goroutine waits for another: one that has a request always has its   *)
(* next step, also when its row is gone or replaced, its id or its prefix  *)
(* taken, or its command refused.                                          *)
NobodyWaits == \A w \in Workers : req[w].pc # "idle" => ENABLED (Step(w) /\ req' # req)

-----------------------------------------------------------------------------
(* The table implements the register of module Registry.                   *)

Lease(t) == [type |-> t.type, ula |-> t.ula, p1 |-> t.p1, p2 |-> t.p2, p3 |-> t.p3,
             key |-> t.key]

Held(t) == [id |-> t.id, user |-> t.user, lease |-> Lease(t), ip |-> t.ip,
            status |-> t.status]

R == INSTANCE Registry WITH Limit <- 2, register <- {Held(t) : t \in tunnels}

(* Whatever the interleaving of the requests and their failures, the table *)
(* only ever changes by whole allocations, releases and amendments.        *)
ImplementsRegistry == R!Spec
=============================================================================
