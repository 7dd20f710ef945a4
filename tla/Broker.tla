-------------------------------- MODULE Broker --------------------------------
(***************************************************************************)
(* The requests that change state, as goroutines of the HTTP server run    *)
(* them (internal/tunnels/handler.go and service.go): POST /tunnels,       *)
(* PATCH /tunnels/:id/ip and DELETE /tunnels/:id.  A step is one SQL       *)
(* statement (or the one transaction) or one command, with the local       *)
(* computation that leads to the next one; nothing orders the steps of two *)
(* requests.  The security script that ends each handler changes only      *)
(* firewall state, which is not a part of this module.                     *)
(*                                                                         *)
(* Bounds: MaxFaults caps the statements and commands that fail and the    *)
(* crashes of the process; a WireGuard creation starts only while there    *)
(* are fresh keys for every worker, which bounds the peers left behind.    *)
(***************************************************************************)
EXTENDS Kernel

CONSTANTS
    Workers,      \* goroutines serving requests
    MaxFaults

ASSUME FaultAssumption == MaxFaults \in Nat

(* There are finitely many goroutines at a time.                           *)
ASSUME WorkersAssumption == IsFiniteSet(Workers)

VARIABLES
    req,          \* what each goroutine is doing
    faults

vars == <<tunnels, users, links, routes, peers, wg0, req, faults>>
dbVars == <<tunnels, users>>

-----------------------------------------------------------------------------
(* The local state of a request *)

NoRow == [id |-> None, user |-> None, type |-> None, status |-> "active", ip |-> None,
          ula |-> None, p1 |-> None, p2 |-> None, p3 |-> None, key |-> None]

Idle == [op |-> None, pc |-> "idle", id |-> None, ip |-> None,
         row |-> NoRow, tries |-> 0, todo |-> <<>>]

At(w, op, pc) == req[w].op = op /\ req[w].pc = pc

Become(w, r) == req' = [req EXCEPT ![w] = r]

(* The handler answers, with or without an error.                          *)
Answer(w) == Become(w, Idle)

(* What a handler still needs of the row once the commands are listed.     *)
Needed(row) == [NoRow EXCEPT !.user = row.user, !.key = row.key]

UsedKeys == {t.key : t \in tunnels} \cup {p.key : p \in peers}
            \cup {req[w].row.key : w \in Workers}

(* generateWireGuardKeyPair never returns the same pair twice.             *)
FreshKeys == Keys \ UsedKeys

-----------------------------------------------------------------------------
(* The server-side commands *)

(* Mistake: the peer is not allowed the second prefix.                     *)
AllowedIPsWithoutSecond(row) == {row.ula, Net(row.p1), Net(row.p3)}

AllowedIPs(row) == {row.ula} \cup {Net(p) : p \in Prefixes3(row)}

CreateCommands(row) ==
    IF row.type = "wg"
    THEN <<PeerSet(row.key, AllowedIPs(row)), RouteAdd(Net(row.p1), Wg0),
           RouteAdd(Net(row.p2), Wg0), RouteAdd(Net(row.p3), Wg0)>>
    ELSE <<TunnelAdd(row.id, row.type, row.ip), LinkUp(row.id), AddrAdd(row.ula, row.id),
           RouteAdd(Net(row.p1), row.id), RouteAdd(Net(row.p2), row.id),
           RouteAdd(Net(row.p3), row.id)>>

(* Mistake: the routes go, the peer or the link stays.                     *)
DeleteRoutesOnly(row) ==
    LET dev == IF row.type = "wg" THEN Wg0 ELSE row.id IN
    <<RouteDel(Net(row.p1), dev), RouteDel(Net(row.p2), dev), RouteDel(Net(row.p3), dev)>>

DeleteCommands(row) ==
    IF row.type = "wg"
    THEN <<PeerRemove(row.key), RouteDel(Net(row.p1), Wg0),
           RouteDel(Net(row.p2), Wg0), RouteDel(Net(row.p3), Wg0)>>
    ELSE <<TunnelDel(row.id)>>

-----------------------------------------------------------------------------
(* POST /tunnels *)

StartCreate(w) ==
    /\ req[w] = Idle
    /\ \E u \in Users, type \in Types, ip \in IPs :
         /\ type = "wg" => Cardinality(FreshKeys) >= Cardinality(Workers)
         /\ Become(w, [Idle EXCEPT !.op = "create", !.pc = "count",
                         !.row = [NoRow EXCEPT !.user = u, !.type = type, !.ip = ip]])
    /\ UNCHANGED <<dbVars, kernelVars, faults>>

CountActive(w) ==
    /\ At(w, "create", "count")
    /\ IF CountActiveTunnelsByUser(req[w].row.user) >= 2
       THEN Answer(w)
       ELSE Become(w, [req[w] EXCEPT !.pc = "slot", !.tries = 1])
    /\ UNCHANGED <<dbVars, kernelVars, faults>>

(* One turn of the loop over the two candidate ids; the id found, the      *)
(* first prefix is generated, which refuses a user id that is not hex.     *)
FindSlot(w) ==
    /\ At(w, "create", "slot")
    /\ LET u == req[w].row.user
           id == <<u, req[w].tries>>
       IN  IF TunnelIDExists(id)
           THEN IF req[w].tries < 2
                THEN Become(w, [req[w] EXCEPT !.tries = @ + 1])
                ELSE Answer(w)
           ELSE IF ParsesAsHex(u)
                THEN Become(w, [req[w] EXCEPT !.pc = "prefix1", !.row.id = id, !.tries = 0])
                ELSE Answer(w)
    /\ UNCHANGED <<dbVars, kernelVars, faults>>

(* Mistake: a prefix in use is tried again, and the attempt not counted.   *)
AttemptUncounted(w, prefix, attempts, next) ==
    IF ~IsPrefixInUse(prefix) THEN Become(w, next) ELSE UNCHANGED req

(* One attempt at a prefix: next if it is free, else the next attempt, and *)
(* an error when they are exhausted.                                       *)
Attempt(w, prefix, attempts, next) ==
    IF ~IsPrefixInUse(prefix)
    THEN Become(w, next)
    ELSE IF req[w].tries + 1 < attempts
         THEN Become(w, [req[w] EXCEPT !.tries = @ + 1])
         ELSE Answer(w)

(* Mistake: both tunnels of a user are cut from the first pair's pool.     *)
FindFirstPrefixOnePool(w) ==
    /\ At(w, "create", "prefix1")
    /\ \E digit \in Digits :
         LET p == generateDelegatedPrefix(Primary[1], digit, req[w].row.user)
         IN  Attempt(w, p, MaxAttempts,
                     [req[w] EXCEPT !.pc = "prefix2", !.row.p1 = p, !.tries = 0])
    /\ UNCHANGED <<dbVars, kernelVars, faults>>

FindFirstPrefix(w) ==
    /\ At(w, "create", "prefix1")
    /\ \E digit \in Digits :
         LET row == req[w].row
             p == generateDelegatedPrefix(Primary[row.id[2]], digit, row.user)
         IN  Attempt(w, p, MaxAttempts,
                     [req[w] EXCEPT !.pc = "prefix2", !.row.p1 = p, !.tries = 0])
    /\ UNCHANGED <<dbVars, kernelVars, faults>>

(* The ULA endpoints are drawn at random and never compared with a table.  *)
FindSecondPrefix(w) ==
    /\ At(w, "create", "prefix2")
    /\ \E digit \in Digits, ula \in Ulas :
         LET row == req[w].row
             p == generateDelegatedPrefix(Secondary[row.id[2]], digit, row.user)
         IN  Attempt(w, p, MaxAttempts,
                     [req[w] EXCEPT !.pc = "prefix3", !.row.p2 = p, !.row.ula = ula, !.tries = 0])
    /\ UNCHANGED <<dbVars, kernelVars, faults>>

FindThirdPrefix(w) ==
    /\ At(w, "create", "prefix3")
    /\ LET row == req[w].row
           n == row.id[2]
           p == generateThirdPrefix(ThirdPoolOfAttempt(n, req[w].tries), row.user)
       IN  \E key \in IF row.type = "wg" THEN FreshKeys ELSE {None} :
             Attempt(w, p, ThirdAttempts(n),
                     [req[w] EXCEPT !.pc = "commit", !.row.p3 = p, !.row.key = key, !.tries = 0])
    /\ UNCHANGED <<dbVars, kernelVars, faults>>

Commit(w) ==
    /\ At(w, "create", "commit")
    /\ CreateTunnelWithTransaction(req[w].row)
    /\ Become(w, [req[w] EXCEPT !.pc = "exec", !.id = req[w].row.id, !.row = Needed(req[w].row),
                                 !.todo = CreateCommands(req[w].row)])
    /\ UNCHANGED <<kernelVars, faults>>

(* Mistake: a creation the primary key refuses looks for another id.       *)
CommitSearchesAgain(w) ==
    /\ At(w, "create", "commit")
    /\ TunnelIDExists(req[w].row.id)
    /\ Become(w, [req[w] EXCEPT !.pc = "slot", !.tries = 1])
    /\ UNCHANGED <<dbVars, kernelVars, faults>>

(* The primary key refuses an id another request inserted meanwhile.       *)
CommitRefused(w) ==
    /\ At(w, "create", "commit")
    /\ TunnelIDExists(req[w].row.id)
    /\ Answer(w)
    /\ UNCHANGED <<dbVars, kernelVars, faults>>

-----------------------------------------------------------------------------
(* PATCH /tunnels/:id/ip *)

StartUpdate(w) ==
    /\ req[w] = Idle
    /\ \E id \in Ids, ip \in IPs :
         Become(w, [Idle EXCEPT !.op = "update", !.pc = "update", !.id = id, !.ip = ip])
    /\ UNCHANGED <<dbVars, kernelVars, faults>>

UpdateIP(w) ==
    /\ At(w, "update", "update")
    /\ UpdateClientIPv4(req[w].id, req[w].ip)
    /\ Become(w, [req[w] EXCEPT !.pc = "select"])
    /\ UNCHANGED <<kernelVars, faults>>

(* The row as it is now, which may be another tunnel's than the one that   *)
(* was updated; the command carries the address of the request.            *)
Reselect(w) ==
    /\ At(w, "update", "select")
    /\ \/ \E row \in GetTunnelByID(req[w].id) :
            IF row.type = "wg"
            THEN Answer(w)
            ELSE Become(w, [req[w] EXCEPT !.pc = "exec",
                              !.todo = <<TunnelChange(row.id, row.type, req[w].ip)>>])
       \/ ~TunnelIDExists(req[w].id) /\ Answer(w)
    /\ UNCHANGED <<dbVars, kernelVars, faults>>

-----------------------------------------------------------------------------
(* DELETE /tunnels/:id *)

StartDelete(w) ==
    /\ req[w] = Idle
    /\ \E id \in Ids :
         Become(w, [Idle EXCEPT !.op = "delete", !.pc = "lookup", !.id = id])
    /\ UNCHANGED <<dbVars, kernelVars, faults>>

Lookup(w) ==
    /\ At(w, "delete", "lookup")
    /\ \/ \E row \in GetTunnelByID(req[w].id) :
            Become(w, [req[w] EXCEPT !.pc = "exec", !.row = Needed(row),
                                   !.todo = DeleteCommands(row)])
       \/ ~TunnelIDExists(req[w].id) /\ Answer(w)
    /\ UNCHANGED <<dbVars, kernelVars, faults>>

DeleteRow(w) ==
    /\ At(w, "delete", "delete")
    /\ DeleteTunnel(req[w].id)
    /\ Become(w, [req[w] EXCEPT !.pc = "decrement"])
    /\ UNCHANGED <<kernelVars, faults>>

Decrement(w) ==
    /\ At(w, "delete", "decrement")
    /\ DecrementUserTunnels(req[w].row.user)
    /\ Answer(w)
    /\ UNCHANGED <<kernelVars, faults>>

-----------------------------------------------------------------------------
(* Commands.  Creation and update stop at the first one that fails, and    *)
(* answer 500 leaving the row in place; deletion goes on to the next one.  *)

NextCommand(w) ==
    LET rest == Tail(req[w].todo) IN
    IF rest # <<>>
    THEN Become(w, [req[w] EXCEPT !.todo = rest])
    ELSE IF req[w].op = "delete"
         THEN Become(w, [req[w] EXCEPT !.pc = "delete", !.todo = rest])
         ELSE Answer(w)

AfterFailedCommand(w) == IF req[w].op = "delete" THEN NextCommand(w) ELSE Answer(w)

Execute(w) ==
    /\ req[w].pc = "exec"
    /\ Run(Head(req[w].todo))
    /\ NextCommand(w)
    /\ UNCHANGED <<dbVars, faults>>

CommandRefused(w) ==
    /\ req[w].pc = "exec"
    /\ ~Accepts(Head(req[w].todo))
    /\ AfterFailedCommand(w)
    /\ UNCHANGED <<dbVars, kernelVars, faults>>

-----------------------------------------------------------------------------
(* Failures *)

Fault == faults < MaxFaults /\ faults' = faults + 1

(* A command that could have succeeded fails.                              *)
CommandFails(w) ==
    /\ Fault
    /\ req[w].pc = "exec"
    /\ AfterFailedCommand(w)
    /\ UNCHANGED <<dbVars, kernelVars>>

StatementPcs == {"count", "slot", "prefix1", "prefix2", "prefix3", "commit",
                 "update", "select", "lookup", "delete", "decrement"}

(* A statement returns an error without having taken effect: the handler   *)
(* answers (after the last statement of a deletion it would have anyway).  *)
StatementFails(w) ==
    /\ Fault
    /\ req[w].pc \in StatementPcs
    /\ Answer(w)
    /\ UNCHANGED <<dbVars, kernelVars>>

(* A statement takes effect but its confirmation is lost.                  *)
ConfirmationLost(w) ==
    /\ Fault
    /\ \/ At(w, "create", "commit") /\ CreateTunnelWithTransaction(req[w].row)
       \/ At(w, "update", "update") /\ UpdateClientIPv4(req[w].id, req[w].ip)
       \/ At(w, "delete", "delete") /\ DeleteTunnel(req[w].id)
    /\ Answer(w)
    /\ UNCHANGED kernelVars

(* The process dies and is started again (Restart=always): every request   *)
(* in flight is gone, the tables and the kernel stay, and main calls       *)
(* InitWireGuardInterface, whose failure is only a warning.                *)
Restart ==
    /\ Fault
    /\ req' = [w \in Workers |-> Idle]
    /\ wg0' \in WgStates /\ (wg0 => wg0')
    /\ UNCHANGED <<dbVars, links, routes, peers>>

(* The administrator of the database changes a status.                     *)
ChangeStatus ==
    /\ \E t \in tunnels, status \in Statuses : status # t.status /\ SetStatus(t.id, status)
    /\ UNCHANGED <<kernelVars, req, faults>>

-----------------------------------------------------------------------------

Init ==
    /\ DatabaseInit
    /\ KernelInit
    /\ req = [w \in Workers |-> Idle]
    /\ faults = 0

Start(w) == StartCreate(w) \/ StartUpdate(w) \/ StartDelete(w)

CreateStep(w) ==
    \/ CountActive(w) \/ FindSlot(w)
    \/ FindFirstPrefix(w) \/ FindSecondPrefix(w) \/ FindThirdPrefix(w)
    \/ Commit(w) \/ CommitRefused(w)

UpdateStep(w) == UpdateIP(w) \/ Reselect(w)

DeleteStep(w) == Lookup(w) \/ DeleteRow(w) \/ Decrement(w)

CommandStep(w) == Execute(w) \/ CommandRefused(w)

(* What a goroutine does of its own accord once it has a request.          *)
Step(w) == CreateStep(w) \/ UpdateStep(w) \/ DeleteStep(w) \/ CommandStep(w)

Failure(w) == CommandFails(w) \/ StatementFails(w) \/ ConfirmationLost(w)

Serve == \E w \in Workers : Start(w) \/ Step(w) \/ Failure(w)

Next == Serve \/ Restart \/ ChangeStatus

Spec == Init /\ [][Next]_vars
=============================================================================
