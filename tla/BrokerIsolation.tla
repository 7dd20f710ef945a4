--------------------------- MODULE BrokerIsolation ---------------------------
(***************************************************************************)
(* The broker with one history variable: the tunnel ids whose requests met *)
(* trouble of their own, that is, two requests on the id were in flight at *)
(* once, or a command, a statement or the process failed during one.  What *)
(* remains to be shown is that nothing else can harm a tunnel: requests on *)
(* other ids, of the same user or not, leave its configuration alone.      *)
(***************************************************************************)
EXTENDS BrokerProperties

VARIABLE troubled

hvars == <<vars, troubled>>

(* The requests on an id that have begun to act on it; a creation acts on  *)
(* its id once its row is committed.                                       *)
ActsOn(w, id) == req[w].id = id

Overlapping(id) == \E v, w \in Workers : v # w /\ ActsOn(v, id) /\ ActsOn(w, id)

Trouble(ids) == troubled' = troubled \cup ids \cup {id \in Ids : Overlapping(id)'}

Refuses(w) == req[w].pc = "exec" /\ ~Accepts(Head(req[w].todo))

HInit == Init /\ troubled = {}

(* A creation whose confirmation is lost fails on the id it was given.     *)
HNext ==
    \/ \E w \in Workers :
         \/ (Start(w) \/ Step(w)) /\ Trouble({id \in Ids : ActsOn(w, id) /\ Refuses(w)})
         \/ (CommandFails(w) \/ StatementFails(w)) /\ Trouble({id \in Ids : ActsOn(w, id)})
         \/ ConfirmationLost(w) /\ Trouble(Ids \cap {req[w].id, req[w].row.id})
    \/ Restart /\ Trouble({id \in Ids : \E w \in Workers : ActsOn(w, id)})
    \/ ChangeStatus /\ Trouble({})

HSpec == HInit /\ [][HNext]_hvars

-----------------------------------------------------------------------------

Quiet(id) == id \notin troubled /\ \A w \in Workers : ~ActsOn(w, id)

(* A tunnel whose own requests ran one at a time and without failure is    *)
(* configured as its row says: a SIT or GRE tunnel has its link up with    *)
(* the stored addresses, a WireGuard one its peer, and in both cases its   *)
(* first two prefixes are routed to it.                                    *)
ConfiguredAsStored ==
    \A t \in tunnels : Quiet(t.id) => Configured(t)

(* A tunnel that was deleted, or never made, leaves no link behind, and no *)
(* peer is left without a row unless some id met trouble.                  *)
NothingLeftBehind ==
    /\ \A l \in links : Quiet(l.dev) => TunnelIDExists(l.dev)
    /\ troubled = {} =>
          \A p \in peers : \/ \E t \in tunnels : t.key = p.key
                           \/ \E w \in Workers : req[w].row.key = p.key
=============================================================================
