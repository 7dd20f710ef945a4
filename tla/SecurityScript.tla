---------------------------- MODULE SecurityScript ----------------------------
(***************************************************************************)
(* scripts/security/tunnel_security.sh, which every handler runs after it  *)
(* changed the kernel and which systemd and the recovery program run too:  *)
(* it lists the SIT and GRE links, empties the FORWARD chains, loads the   *)
(* rules of the links it listed, shapes them, and does the same again with *)
(* nftables for the networks of the WireGuard peers.  Nothing keeps two    *)
(* runs apart.                                                             *)
(*                                                                         *)
(* A step is one command, or the commands on one link that nothing else    *)
(* looks at in between.  The rules of one link or network stand or fall    *)
(* together and are denoted by it; rules loaded twice filter as once.      *)
(***************************************************************************)
EXTENDS Naturals, Sequences, FiniteSets

CONSTANTS
    Handlers,     \* what may run the script at one time
    Devices,      \* names of SIT and GRE links
    Networks,     \* networks of WireGuard peers
    Wg0Exists     \* the script finds the interface wg0

ASSUME Wg0Assumption == Wg0Exists \in BOOLEAN

(* A link is called tun-..., a network is an address and a length.         *)
ASSUME NamesApart == Devices \cap Networks = {}

VARIABLES
    links,        \* the SIT and GRE links there are
    nets,         \* the networks in the allowed-ips of wg0
    rules4,       \* links with rules in the FORWARD chain of iptables
    rules6,       \* the same of ip6tables
    shaped,       \* links with a rate limit
    nft,          \* the objects of table inet wg_security
    saved,        \* what the files of /etc/iptables hold
    run           \* the run of the script each handler waits for

vars == <<links, nets, rules4, rules6, shaped, nft, saved, run>>
host == <<links, nets>>

Chains == <<"table", "forward", "firewall", "rate">>

NoRun == [pc |-> "none", list |-> {}, bare |-> {}, left |-> {}, chains |-> <<>>]

Goto(w, pc) == run' = [run EXCEPT ![w].pc = pc]

-----------------------------------------------------------------------------
(* The handlers: a change to the kernel, then a run of the script *)

Begin(w) == run[w] = NoRun /\ Goto(w, "list")

AddTunnel(w) ==
    /\ Begin(w)
    /\ \/ \E d \in Devices \ links : links' = links \cup {d} /\ UNCHANGED nets
       \/ \E n \in Networks \ nets : nets' = nets \cup {n} /\ UNCHANGED links
    /\ UNCHANGED <<rules4, rules6, shaped, nft, saved>>

(* The limits on a link go with it, its rules in the chains do not.        *)
DeleteTunnel(w) ==
    /\ Begin(w)
    /\ \/ \E d \in links : links' = links \ {d} /\ shaped' = shaped \ {d} /\ UNCHANGED nets
       \/ \E n \in nets : nets' = nets \ {n} /\ UNCHANGED <<links, shaped>>
    /\ UNCHANGED <<rules4, rules6, nft, saved>>

(* An address was updated, or the service starts.                          *)
Refresh(w) == Begin(w) /\ UNCHANGED <<host, rules4, rules6, shaped, nft, saved>>

-----------------------------------------------------------------------------
(* SIT and GRE links *)

List(w) ==
    /\ run[w].pc = "list"
    /\ run' = [run EXCEPT ![w].pc = "flush4", ![w].list = links]
    /\ UNCHANGED <<host, rules4, rules6, shaped, nft, saved>>

Flush4(w) ==
    /\ run[w].pc = "flush4"
    /\ rules4' = {}
    /\ Goto(w, "flush6")
    /\ UNCHANGED <<host, rules6, shaped, nft, saved>>

Flush6(w) ==
    /\ run[w].pc = "flush6"
    /\ rules6' = {}
    /\ Goto(w, IF run[w].list # {} THEN "load4" ELSE "wg")
    /\ UNCHANGED <<host, rules4, shaped, nft, saved>>

(* iptables-restore -n adds to what the chain holds.                       *)
Load4(w) ==
    /\ run[w].pc = "load4"
    /\ rules4' = rules4 \cup run[w].list
    /\ Goto(w, "load6")
    /\ UNCHANGED <<host, rules6, shaped, nft, saved>>

(* Mistake: the rules are loaded into iptables a second time.              *)
Load6IntoIptables(w) ==
    /\ run[w].pc = "load6"
    /\ run' = [run EXCEPT ![w].pc = "tc", ![w].left = run[w].list]
    /\ UNCHANGED <<host, rules4, rules6, shaped, nft, saved>>

Load6(w) ==
    /\ run[w].pc = "load6"
    /\ rules6' = rules6 \cup run[w].list
    /\ run' = [run EXCEPT ![w].pc = "tc", ![w].left = run[w].list]
    /\ UNCHANGED <<host, rules4, shaped, nft, saved>>

(* configure_tc runs beside itself for several links: it removes what      *)
(* limits a link has and adds them anew, which fails on a link that is gone.*)
Unshape(w) ==
    /\ run[w].pc = "tc"
    /\ \E d \in run[w].left :
         /\ shaped' = shaped \ {d}
         /\ run' = [run EXCEPT ![w].left = @ \ {d}, ![w].bare = @ \cup {d}]
    /\ UNCHANGED <<host, rules4, rules6, nft, saved>>

Shape(w) ==
    /\ run[w].pc = "tc"
    /\ \E d \in run[w].bare :
         /\ shaped' = shaped \cup ({d} \cap links)
         /\ run' = [run EXCEPT ![w].bare = @ \ {d}]
    /\ UNCHANGED <<host, rules4, rules6, nft, saved>>

AllShaped(w) ==
    /\ run[w].pc = "tc" /\ run[w].left = {} /\ run[w].bare = {}
    /\ Goto(w, "wg")
    /\ UNCHANGED <<host, rules4, rules6, shaped, nft, saved>>

-----------------------------------------------------------------------------
(* The networks of the WireGuard peers *)

ListNetworks(w) ==
    /\ run[w].pc = "wg"
    /\ run' = IF Wg0Exists
              THEN [run EXCEPT ![w].pc = "drop", ![w].left = nets]
              ELSE [run EXCEPT ![w].pc = "save"]
    /\ UNCHANGED <<host, rules4, rules6, shaped, nft, saved>>

DropTable(w) ==
    /\ run[w].pc = "drop"
    /\ nft' = {}
    /\ run' = [run EXCEPT ![w].pc = "build",
                 ![w].chains = IF run[w].left = {} THEN SubSeq(Chains, 1, 3) ELSE Chains]
    /\ UNCHANGED <<host, rules4, rules6, shaped, saved>>

(* What an object is added to.                                             *)
Parent(object) ==
    CASE object \in {"forward", "rate"} -> "table"
      [] object = "firewall" -> "forward"
      [] OTHER -> "rate"

(* An object is not added to one that another run has just removed.        *)
WithObject(object) ==
    IF object = "table" \/ Parent(object) \in nft THEN nft \cup {object} ELSE nft

Build(w) ==
    /\ run[w].pc = "build" /\ run[w].chains # <<>>
    /\ nft' = WithObject(Head(run[w].chains))
    /\ run' = [run EXCEPT ![w].chains = Tail(@)]
    /\ UNCHANGED <<host, rules4, rules6, shaped, saved>>

Limit(w) ==
    /\ run[w].pc = "build" /\ run[w].chains = <<>>
    /\ \E n \in run[w].left :
         /\ nft' = WithObject(n)
         /\ run' = [run EXCEPT ![w].left = @ \ {n}]
    /\ UNCHANGED <<host, rules4, rules6, shaped, saved>>

AllLimited(w) ==
    /\ run[w].pc = "build" /\ run[w].chains = <<>> /\ run[w].left = {}
    /\ Goto(w, "save")
    /\ UNCHANGED <<host, rules4, rules6, shaped, nft, saved>>

(* The last line, for /etc/nftables.conf, fails and ends the run all the   *)
(* same: of /etc the service may write only /etc/iptables.                 *)
Save(w) ==
    /\ run[w].pc = "save"
    /\ saved' = [rules4 |-> rules4, rules6 |-> rules6]
    /\ run' = [run EXCEPT ![w] = NoRun]
    /\ UNCHANGED <<host, rules4, rules6, shaped, nft>>

-----------------------------------------------------------------------------

Init ==
    /\ links = {} /\ nets = {}
    /\ rules4 = {} /\ rules6 = {} /\ shaped = {} /\ nft = {}
    /\ saved = [rules4 |-> {}, rules6 |-> {}]
    /\ run = [w \in Handlers |-> NoRun]

Start(w) == AddTunnel(w) \/ DeleteTunnel(w) \/ Refresh(w)

ScriptStep(w) ==
    \/ List(w) \/ Flush4(w) \/ Flush6(w) \/ Load4(w) \/ Load6(w)
    \/ Unshape(w) \/ Shape(w) \/ AllShaped(w)
    \/ ListNetworks(w) \/ DropTable(w) \/ Build(w) \/ Limit(w) \/ AllLimited(w)
    \/ Save(w)

Next == \E w \in Handlers : Start(w) \/ ScriptStep(w)

Spec == Init /\ [][Next]_vars
=============================================================================
