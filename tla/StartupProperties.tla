--------------------------- MODULE StartupProperties ---------------------------
(***************************************************************************)
(* What a start of the service achieves.                                   *)
(***************************************************************************)
EXTENDS Startup

(* Types of the unit, the two programs and what they find on the host.     *)
StartupTypeOK ==
    /\ unit \in {"dead", "pre", "start", "running"}
    /\ main \in {"off", "config", "show", "add", "set", "up", "db", "listen", "serving"}
    /\ post \in {"off", "config", "fetch", "links", "peers", "loop", "make", "finish",
                 "rules", "done", "failed"}
    /\ rec \in [tries : 1 .. 4, left : SUBSET Tunnels, seen : SUBSET Tunnels,
                now : Tunnels \cup {NoTunnel}, recreated : Nat]
    /\ told \subseteq {"wireguard", "public key", "tunnel", "rules"}
    /\ wg \in [available : BOOLEAN, keyFile : BOOLEAN, exists : BOOLEAN, up : BOOLEAN]
    /\ built \in [Tunnels -> {"absent", "part", "whole"}]
    /\ ruled \subseteq Tunnels /\ legacy \subseteq Tunnels
    /\ faults \in 0 .. MaxFaults

(* The recovery recreates peers only after main has set their interface up *)
(* or logged that it could not, although the two start side by side and    *)
(* nothing but the API's answer makes one wait for the other.              *)
WireGuardReadyFirst ==
    Interface /\ post \in {"links", "peers", "loop", "make", "finish", "rules"}
        => wg.up \/ "wireguard" \in told

(* When the unit is running, whatever was killed or failed on the way to   *)
(* it, the tunnels carry the firewall rules: the script before the start   *)
(* covers those that were there, the one after the loop those recreated.   *)
(* Not covered are a tunnel the recovery had to give up, which has rules   *)
(* only if another one was recreated, and a script that fails.             *)
RunningProtected ==
    unit = "running" /\ "rules" \notin told =>
        /\ {t \in Tunnels : built[t] = "whole"} \subseteq ruled
        /\ "tunnel" \notin told => Present \subseteq ruled

(* A start that logged nothing wrong leaves no tunnel out: the comment of  *)
(* GetAllTunnels says that it returns all of them.                         *)
NoneLeftOut == unit = "running" /\ told = {} => Present = Tunnels

(* The service comes up in the end, and again after each failure, also on  *)
(* a host that has no WireGuard; rows without a third prefix keep it down  *)
(* only as long as they are there.                                         *)
ServiceComesUp == <>[](legacy = {}) => []<>(unit = "running")
=============================================================================
