-------------------------------- MODULE Startup --------------------------------
(***************************************************************************)
(* How the service comes up: systemd runs the commands of                  *)
(* tunnelbroker.service, main sets up WireGuard and the pool and listens,  *)
(* and beside it tunnelrecovery, the ExecStartPost, waits for the API and  *)
(* rebuilds the tunnels it finds missing.  Either may fail or be killed,   *)
(* and systemd starts all of it again.  No request changes a tunnel here:  *)
(* module Recovery runs the program beside requests, command by command;   *)
(* this one takes a tunnel in two parts, what makes it exist and the rest. *)
(*                                                                         *)
(* The retries of the recovery span nine seconds.  That main listens       *)
(* before they are over is not a matter of steps: a slower start is one of *)
(* the MaxFaults, and so is each failing command, crash and reboot.        *)
(***************************************************************************)
EXTENDS Naturals, FiniteSets

CONSTANTS
    Links,        \* the active SIT and GRE tunnels of the table
    Peers,        \* the active WireGuard tunnels
    NoTunnel,
    Interface,    \* wireguard.interface is set in the configuration
    MaxFaults

Tunnels == Links \cup Peers

ASSUME StartupAssumption ==
    Links \cap Peers = {} /\ NoTunnel \notin Tunnels /\ Interface \in BOOLEAN /\ MaxFaults \in Nat

VARIABLES
    unit,         \* the state of the unit
    main,         \* what cmd/tunnelbroker does next
    post,         \* what cmd/tunnelrecovery does next
    rec,          \* its local variables
    told,         \* what this start has logged as gone wrong
    wg,           \* the interface, and whether the host has WireGuard and the key file
    built,        \* what the kernel has of each tunnel
    ruled,        \* the tunnels whose firewall rules are loaded
    legacy,       \* the rows that have no third prefix
    faults

vars == <<unit, main, post, rec, told, wg, built, ruled, legacy, faults>>
kernel == <<wg, built, ruled>>

NoList == [tries |-> 1, left |-> {}, seen |-> {}, now |-> NoTunnel, recreated |-> 0]

Present == {t \in Tunnels : built[t] # "absent"}

Tell(what) == told' = told \cup {what}

-----------------------------------------------------------------------------
(* systemd *)

Stop == unit' = "dead" /\ main' = "off" /\ post' = "off"

StartUnit ==
    /\ unit = "dead"
    /\ unit' = "pre" /\ told' = {}
    /\ UNCHANGED <<main, post, rec, kernel, legacy>>

(* The modules are loaded and the security script has run: it protects     *)
(* what is there.  Type=simple: the ExecStartPost does not wait for main.  *)
StartPre ==
    /\ unit = "pre"
    /\ unit' = "start" /\ main' = "config" /\ post' = "config"
    /\ ruled' = Present /\ rec' = NoList
    /\ UNCHANGED <<told, wg, built, legacy>>

(* The ExecStartPost has succeeded; it is waited for even if main is gone. *)
StartPost ==
    /\ unit = "start" /\ post = "done"
    /\ IF main # "off" THEN unit' = "running" /\ post' = "off" /\ UNCHANGED main ELSE Stop
    /\ UNCHANGED <<rec, told, kernel, legacy>>

(* Restart=always, also after an ExecStartPost that failed.                *)
Restart ==
    /\ \/ unit = "start" /\ post = "failed"
       \/ unit = "running" /\ main = "off"
    /\ Stop
    /\ UNCHANGED <<rec, told, kernel, legacy>>

(* An ExecStartPre fails, or the start takes longer than systemd allows.   *)
StartFails ==
    /\ unit \in {"pre", "start"} /\ Stop
    /\ UNCHANGED <<rec, told, kernel, legacy>>

Reboot ==
    /\ Stop
    /\ wg' = [wg EXCEPT !.exists = FALSE, !.up = FALSE]
    /\ built' = [t \in Tunnels |-> "absent"] /\ ruled' = {}
    /\ UNCHANGED <<rec, told, legacy>>

-----------------------------------------------------------------------------
(* main *)

MainGoes(from, to) == main = from /\ main' = to /\ UNCHANGED <<unit, post, rec, built, ruled, legacy>>

MainPasses(from, to) == MainGoes(from, to) /\ UNCHANGED <<told, wg>>

(* Mistake: a host without WireGuard cannot run the broker.                *)
WarnAndExit(from) == MainGoes(from, "off") /\ Tell("wireguard") /\ UNCHANGED wg

(* A failure to set WireGuard up is logged, no more.                       *)
WarnAndGoOn(from) == MainGoes(from, "db") /\ Tell("wireguard") /\ UNCHANGED wg

(* Mistake: the interface is not set up.                                   *)
LoadConfigOnly == MainPasses("config", "db")

(* A public key that cannot be derived is logged, too.                     *)
LoadConfig ==
    /\ MainGoes("config", IF Interface THEN "show" ELSE "db")
    /\ IF wg.keyFile THEN UNCHANGED told ELSE Tell("public key")
    /\ UNCHANGED wg

ShowInterface == MainPasses("show", IF wg.exists THEN "set" ELSE "add")

AddInterface ==
    IF wg.available /\ ~wg.exists
    THEN MainGoes("add", "set") /\ wg' = [wg EXCEPT !.exists = TRUE] /\ UNCHANGED told
    ELSE WarnAndGoOn("add")

SetInterface == IF wg.keyFile THEN MainPasses("set", "up") ELSE WarnAndGoOn("set")

UpInterface == MainGoes("up", "db") /\ wg' = [wg EXCEPT !.up = TRUE] /\ UNCHANGED told

(* The interface is not shown although it is there, or a command fails.    *)
InterfaceFails == MainPasses("show", "add") \/ \E pc \in {"add", "set", "up"} : WarnAndGoOn(pc)

(* The pool connects only when it is first used.                           *)
InitDB == MainPasses("db", "listen")

Listen == MainPasses("listen", "serving")

(* log.Fatalf, or a crash at any time.                                     *)
MainDies == main # "off" /\ MainPasses(main, "off")

-----------------------------------------------------------------------------
(* tunnelrecovery *)

PostGoes(from, to) == post = from /\ post' = to /\ UNCHANGED <<unit, main, wg, legacy>>

PostPasses(from, to) == PostGoes(from, to) /\ UNCHANGED <<rec, told, built, ruled>>

PostSets(from, to, locals) ==
    PostGoes(from, to) /\ rec' = locals /\ UNCHANGED <<told, built, ruled>>

LoadPostConfig == PostPasses("config", "fetch")

PostDies == post \notin {"off", "done", "failed"} /\ PostPasses(post, "failed")

(* Mistake: the failures are not counted.                                  *)
FetchForever == PostSets("fetch", "fetch", [rec EXCEPT !.tries = @ + 1])

(* The third failure is fatal.                                             *)
FetchAgain ==
    PostSets("fetch", IF rec.tries < 3 THEN "fetch" ELSE "failed", [rec EXCEPT !.tries = @ + 1])

Listed(list) == PostSets("fetch", "links", [rec EXCEPT !.left = list])

(* GetAllTunnels fails on a row without a third prefix: NULL is not        *)
(* scanned into a string.                                                  *)
Fetch == main = "serving" /\ IF legacy = {} THEN Listed(Tunnels) ELSE FetchAgain

(* Nothing listens.                                                        *)
FetchRefused == main = "off" /\ FetchAgain

(* The connection breaks while rows are read.  rows.Next then ends the     *)
(* loop as the last row does and rows.Err is not asked, so the rows read   *)
(* so far are answered as the list of all tunnels.                         *)
FetchBreaksOff ==
    main = "serving" /\ \E list \in SUBSET (Tunnels \ legacy) : list # Tunnels /\ Listed(list)

ListLinks == PostSets("links", "peers", [rec EXCEPT !.seen = Links \cap Present])

ListPeers ==
    PostSets("peers", "loop",
             [rec EXCEPT !.seen = @ \cup IF wg.exists THEN Peers \cap Present ELSE {}])

(* What cannot be listed is taken for none.                                *)
ListFails == PostPasses("links", "peers") \/ PostPasses("peers", "loop")

NextTunnel ==
    \E t \in rec.left :
        IF t \in rec.seen
        THEN PostSets("loop", "loop", [rec EXCEPT !.left = @ \ {t}])
        ELSE PostSets("loop", "make", [rec EXCEPT !.left = @ \ {t}, !.now = t])

GiveUpTunnel(from) == PostGoes(from, "loop") /\ Tell("tunnel") /\ UNCHANGED <<rec, built, ruled>>

(* The first command: a link that exists cannot be added, a peer can be    *)
(* set again.                                                              *)
CanMake(t) == IF t \in Links THEN built[t] = "absent" ELSE wg.exists

MakeTunnel ==
    IF CanMake(rec.now)
    THEN /\ PostGoes("make", "finish")
         /\ built' = [built EXCEPT ![rec.now] = IF @ = "absent" THEN "part" ELSE @]
         /\ UNCHANGED <<rec, told, ruled>>
    ELSE GiveUpTunnel("make")

(* The routes to a peer need its interface up.                             *)
FinishTunnel ==
    IF rec.now \in Peers => wg.up
    THEN /\ PostGoes("finish", "loop")
         /\ built' = [built EXCEPT ![rec.now] = "whole"]
         /\ rec' = [rec EXCEPT !.recreated = @ + 1]
         /\ UNCHANGED <<told, ruled>>
    ELSE GiveUpTunnel("finish")

(* Mistake: off by one.                                                    *)
RulesIfSeveral ==
    rec.left = {} /\ PostPasses("loop", IF rec.recreated > 1 THEN "rules" ELSE "done")

(* The security script runs once, and only if some tunnel was recreated to *)
(* the end.                                                                *)
AllTunnelsSeen ==
    rec.left = {} /\ PostPasses("loop", IF rec.recreated > 0 THEN "rules" ELSE "done")

ApplyRules ==
    PostGoes("rules", "done") /\ ruled' = Present /\ UNCHANGED <<rec, told, built>>

ApplyRulesFails ==
    PostGoes("rules", "done") /\ Tell("rules") /\ UNCHANGED <<rec, built, ruled>>

-----------------------------------------------------------------------------

(* The administrator fills in the third prefixes of old rows.              *)
FillIn ==
    /\ legacy # {} /\ legacy' = {}
    /\ UNCHANGED <<unit, main, post, rec, told, kernel, faults>>

Init ==
    /\ unit = "dead" /\ main = "off" /\ post = "off"
    /\ rec = NoList /\ told = {}
    /\ wg \in [available : BOOLEAN, keyFile : BOOLEAN, exists : {FALSE}, up : {FALSE}]
    /\ built = [t \in Tunnels |-> "absent"] /\ ruled = {}
    /\ legacy \in SUBSET Links
    /\ faults = 0

Systemd == (StartUnit \/ StartPre \/ StartPost \/ Restart) /\ UNCHANGED faults

Main ==
    /\ \/ LoadConfig \/ ShowInterface \/ AddInterface \/ SetInterface \/ UpInterface
       \/ InitDB \/ Listen
    /\ UNCHANGED faults

Post ==
    /\ \/ LoadPostConfig \/ Fetch \/ FetchRefused \/ ListLinks \/ ListPeers
       \/ NextTunnel \/ MakeTunnel \/ FinishTunnel \/ AllTunnelsSeen \/ ApplyRules
    /\ UNCHANGED faults

(* A request or a query of the recovery may fail whatever main does.       *)
Failure ==
    /\ faults < MaxFaults /\ faults' = faults + 1
    /\ \/ StartFails \/ Reboot \/ MainDies \/ InterfaceFails
       \/ PostDies \/ FetchAgain \/ FetchBreaksOff \/ ListFails
       \/ GiveUpTunnel("make") \/ GiveUpTunnel("finish") \/ ApplyRulesFails

Next == Systemd \/ Main \/ Post \/ Failure \/ FillIn

(* systemd does its work, and both programs are scheduled.                 *)
Spec ==
    Init /\ [][Next]_vars /\ WF_vars(Systemd) /\ WF_vars(Main) /\ WF_vars(Post)
=============================================================================
