------------------------------- MODULE Registry -------------------------------
(***************************************************************************)
(* What the broker promises of its tunnels, as one register that changes   *)
(* in single steps: who holds which tunnel, with which lease.  A lease     *)
(* (the type, the prefixes, the endpoints and the key) never changes while *)
(* the tunnel is held; only its address and its status do.                 *)
(***************************************************************************)
EXTENDS Integers, FiniteSets

CONSTANT Limit         \* the tunnels a user may hold

VARIABLE register      \* [id, user, lease, ip, status] of each tunnel held

HeldBy(u) == {t \in register : t.user = u}

MainPrefixes(t) == {t.lease.p1, t.lease.p2}
AllPrefixes(t) == {t.lease.p1, t.lease.p2, t.lease.p3}

(* A user gets a tunnel under an id nobody holds, within the limit, with   *)
(* two main prefixes that are no prefix of a tunnel held now.              *)
Allocate ==
    \E t \in register' \ register :
        /\ register' = register \cup {t}
        /\ Cardinality(HeldBy(t.user)) < Limit
        /\ \A s \in register :
             /\ s.id # t.id
             /\ MainPrefixes(t) \cap AllPrefixes(s) = {}
             /\ MainPrefixes(s) \cap AllPrefixes(t) = {}

Release == \E t \in register : register' = register \ {t}

Amend ==
    \E s \in register, t \in register' :
        /\ register' = (register \ {s}) \cup {t}
        /\ <<t.id, t.user, t.lease>> = <<s.id, s.user, s.lease>>

Init == register = {}

Next == Allocate \/ Release \/ Amend

Spec == Init /\ [][Next]_register
=============================================================================
