-------------------------- MODULE RecoveryProperties --------------------------
(***************************************************************************)
(* What the recovery program achieves, with two history variables: how the *)
(* service came to run this time, as long as nothing but creations and the *)
(* recovery itself happened since, and who was given each key pair.        *)
(***************************************************************************)
EXTENDS Recovery

VARIABLES
    since,        \* "reboot", "restart", or "other" once anything else happened
    holder        \* the user whose tunnel each key pair was last given to

propertyVars == <<recoveryVars, since, holder>>

(* An address is changed, a tunnel deleted, a status set, or a step fails. *)
Meddling == ChangeStatus \/ \E w \in Workers : StartUpdate(w) \/ StartDelete(w) \/ Failure(w)

(* The key of a row is its user's, and stays so when the row is gone.      *)
GivenKeys ==
    holder' = [k \in Keys |-> IF \E t \in tunnels' : t.key = k
                              THEN (CHOOSE t \in tunnels' : t.key = k).user
                              ELSE holder[k]]

Recover == RecoveryStep /\ UNCHANGED <<since, holder>>

PropertyInit == RecoveryInit /\ since = "other" /\ holder = [k \in Keys |-> None]

PropertyNext ==
    \/ Reboot /\ since' = "reboot" /\ UNCHANGED holder
    \/ ServiceRestart /\ since' = "restart" /\ UNCHANGED holder
    \/ Requests /\ since' = (IF Meddling THEN "other" ELSE since) /\ GivenKeys
    \/ RecoveryFailure /\ since' = "other" /\ UNCHANGED holder
    \/ Recover

PropertySpec == PropertyInit /\ [][PropertyNext]_propertyVars

(* The host runs the program, and the API and the commands answer it.      *)
PropertyLiveSpec == PropertySpec /\ WF_propertyVars(Recover)

-----------------------------------------------------------------------------

(* Two SIT (or GRE) tunnels to one client address cannot both have a link. *)
Rivals(s, t) == s.id # t.id /\ s.type = t.type /\ s.type # "wg" /\ s.ip = t.ip

Recoverable(row) ==
    /\ row.status = "active"
    /\ row.type = "wg" => wg0
    /\ ~\E t \in tunnels : t.status = "active" /\ Rivals(row, t)

AllAtRest == rec.pc = "off" /\ \A w \in Workers : req[w].pc = "idle"

(* After a reboot, which empties the kernel, the recovery program leaves   *)
(* every active tunnel configured as its row says, even though creations   *)
(* run while it works from the lists it took, and both of them may run the *)
(* commands of one tunnel.                                                 *)
RecoveredAfterReboot ==
    since = "reboot" /\ AllAtRest =>
        \A t \in tunnels : Recoverable(t) => Configured(t)

(* The same after a restart of the service alone.  The documentation       *)
(* promises the automatic recreation after a restart.                      *)
RecoveredAfterRestart ==
    since = "restart" /\ AllAtRest =>
        \A t \in tunnels : Recoverable(t) => Configured(t)

(* A tunnel that is configured stays so while tunnels are recovered beside *)
(* it, although each wg set takes its networks from every other peer.      *)
RecoveryDisturbsNothing ==
    [][rec.pc # "off" /\ rec' # Starting /\ since' # "other" =>
         \A t \in tunnels : Configured(t) => Configured(t)']_propertyVars

(* No WireGuard peer is ever allowed a network of another user than the    *)
(* one who was given its keys, although the commands of a row run long     *)
(* after it was read, each moves networks between peers, and a peer may    *)
(* outlive its row or come back after it.                                  *)
TrafficStaysWithUser ==
    \A p \in peers : \A n \in p.allowed \cap Nets : n.group = Canonical[holder[p.key]]

(* The program ends, also when the broker keeps changing the tables, the   *)
(* API fails it or the commands are refused.                               *)
RecoveryEnds == rec.pc # "off" ~> rec.pc = "off"
=============================================================================
