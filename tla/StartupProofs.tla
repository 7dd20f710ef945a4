----------------------------- MODULE StartupProofs -----------------------------
(***************************************************************************)
(* Proofs about module Startup, for any tunnels, with or without an        *)
(* interface, and any number of failures.                                  *)
(***************************************************************************)
EXTENDS StartupProperties, TLAPS

Whole == {t \in Tunnels : built[t] = "whole"}

(* Nothing runs before the unit starts, and no recovery once it has.       *)
UnitLeads ==
    /\ unit \in {"dead", "pre"} => main = "off" /\ post = "off"
    /\ unit = "running" => post = "off"
    /\ post \in {"config", "fetch"} => rec.tries <= 3

(* Once main has been through the set-up of the interface, that is ready   *)
(* or the failure logged; the recovery has a list only from such a main,   *)
(* and keeps it when that dies.                                            *)
InterfaceSeenTo ==
    Interface /\ \/ main \in {"db", "listen", "serving"}
                 \/ post \in {"links", "peers", "loop", "make", "finish", "rules"}
        => wg.up \/ "wireguard" \in told

(* What is protected: all there is before the loop, all whole tunnels      *)
(* while nothing was recreated, and again everything at the end.           *)
RulesInLoop ==
    post \in {"loop", "make", "finish"} /\ rec.recreated = 0 =>
        /\ Whole \subseteq ruled
        /\ "tunnel" \notin told =>
              Present \subseteq ruled \cup (IF post = "finish" THEN {rec.now} ELSE {})

RulesKept ==
    /\ post \in {"config", "fetch", "links", "peers"} =>
          Present \subseteq ruled /\ rec.recreated = 0
    /\ RulesInLoop
    /\ (post = "done" \/ unit = "running") /\ "rules" \notin told =>
          Whole \subseteq ruled /\ ("tunnel" \notin told => Present \subseteq ruled)

IInv == StartupTypeOK /\ UnitLeads /\ InterfaceSeenTo /\ RulesKept

Locals == [tries : 1 .. 4, left : SUBSET Tunnels, seen : SUBSET Tunnels,
           now : Tunnels \cup {NoTunnel}, recreated : Nat]

(* The values of the local variables that the proofs compute with.         *)
LEMMA LocalsTyped ==
    ASSUME IInv
    PROVE  rec \in Locals /\ rec.recreated \in Nat /\ rec.tries \in 1 .. 4
  BY DEF IInv, StartupTypeOK, Locals

-----------------------------------------------------------------------------
(* systemd *)

(* A start, a stop and a restart of the unit, and a reboot of the host.    *)
LEMMA UnitKeeps ==
    ASSUME IInv, faults' \in 0 .. MaxFaults,
           StartUnit \/ StartPre \/ StartPost \/ Restart \/ StartFails \/ Reboot
    PROVE  IInv'
<1>1. ASSUME StartUnit PROVE IInv'
  BY <1>1 DEF StartUnit, Stop, IInv, StartupTypeOK, UnitLeads, InterfaceSeenTo,
     RulesKept, RulesInLoop, Whole, Present, kernel
<1>2. ASSUME StartPre PROVE IInv'
  <2>1. rec' = NoList /\ NoList.tries = 1 /\ NoList.recreated = 0 /\ NoList \in Locals
    BY <1>2 DEF StartPre, NoList, Locals
  <2>2. StartupTypeOK'
    BY <1>2, <2>1 DEF StartPre, IInv, StartupTypeOK, Present, Locals
  <2>3. UnitLeads'
    <3>1. unit' = "start" /\ rec'.tries = 1
      BY <1>2, <2>1 DEF StartPre
    <3> QED BY <3>1 DEF UnitLeads
  <2>4. InterfaceSeenTo'
    BY <1>2 DEF StartPre, InterfaceSeenTo
  <2>5. RulesKept'
    BY <1>2, <2>1 DEF StartPre, RulesKept, RulesInLoop, Present
  <2> QED BY <2>2, <2>3, <2>4, <2>5 DEF IInv
<1>3. ASSUME StartPost PROVE IInv'
  <2>1. StartupTypeOK'
    BY <1>3 DEF StartPost, Stop, IInv, StartupTypeOK, kernel
  <2>2. UnitLeads'
    BY <1>3 DEF StartPost, Stop, IInv, UnitLeads, kernel
  <2>3. InterfaceSeenTo'
    BY <1>3 DEF StartPost, Stop, IInv, StartupTypeOK, UnitLeads, InterfaceSeenTo, kernel
  <2>4. RulesKept'
    BY <1>3 DEF StartPost, Stop, IInv, UnitLeads, RulesKept, RulesInLoop, Whole,
       Present, kernel
  <2> QED BY <2>1, <2>2, <2>3, <2>4 DEF IInv
<1>4. ASSUME Restart PROVE IInv'
  BY <1>4 DEF Restart, Stop, IInv, StartupTypeOK, UnitLeads, InterfaceSeenTo,
     RulesKept, RulesInLoop, Whole, Present, kernel
<1>5. ASSUME StartFails PROVE IInv'
  BY <1>5 DEF StartFails, Stop, IInv, StartupTypeOK, UnitLeads, InterfaceSeenTo,
     RulesKept, RulesInLoop, Whole, Present, kernel
<1>6. ASSUME Reboot PROVE IInv'
  BY <1>6 DEF Reboot, Stop, IInv, StartupTypeOK, UnitLeads, InterfaceSeenTo,
     RulesKept, RulesInLoop, Whole, Present, kernel
<1> QED BY <1>1, <1>2, <1>3, <1>4, <1>5, <1>6

-----------------------------------------------------------------------------
(* main *)

(* main reaches the database only behind the set-up of the interface.      *)
LEMMA MainKeeps ==
    ASSUME IInv, faults' \in 0 .. MaxFaults, Main \/ MainDies \/ InterfaceFails
    PROVE  IInv'
<1>1. ASSUME LoadConfig PROVE IInv'
  <2>1. StartupTypeOK'
    BY <1>1 DEF LoadConfig, MainGoes, Tell, IInv, StartupTypeOK, kernel
  <2>2. UnitLeads'
    BY <1>1 DEF LoadConfig, MainGoes, Tell, IInv, UnitLeads, kernel
  <2>3. InterfaceSeenTo'
    BY <1>1 DEF LoadConfig, MainGoes, Tell, IInv, StartupTypeOK, UnitLeads,
       InterfaceSeenTo, kernel
  <2>4. RulesKept'
    BY <1>1 DEF LoadConfig, MainGoes, Tell, IInv, UnitLeads, RulesKept, RulesInLoop,
       Whole, Present, kernel
  <2> QED BY <2>1, <2>2, <2>3, <2>4 DEF IInv
<1>2. ASSUME ShowInterface PROVE IInv'
  <2>1. StartupTypeOK'
    BY <1>2 DEF ShowInterface, MainPasses, MainGoes, IInv, StartupTypeOK, kernel
  <2>2. UnitLeads'
    BY <1>2 DEF ShowInterface, MainPasses, MainGoes, IInv, UnitLeads, kernel
  <2>3. InterfaceSeenTo'
    BY <1>2 DEF ShowInterface, MainPasses, MainGoes, IInv, StartupTypeOK, UnitLeads,
       InterfaceSeenTo, kernel
  <2>4. RulesKept'
    BY <1>2 DEF ShowInterface, MainPasses, MainGoes, IInv, UnitLeads, RulesKept,
       RulesInLoop, Whole, Present, kernel
  <2> QED BY <2>1, <2>2, <2>3, <2>4 DEF IInv
<1>3. ASSUME AddInterface PROVE IInv'
  <2>1. StartupTypeOK'
    BY <1>3 DEF AddInterface, WarnAndGoOn, MainGoes, Tell, IInv, StartupTypeOK, kernel
  <2>2. UnitLeads'
    BY <1>3 DEF AddInterface, WarnAndGoOn, MainGoes, Tell, IInv, UnitLeads, kernel
  <2>3. InterfaceSeenTo'
    BY <1>3 DEF AddInterface, WarnAndGoOn, MainGoes, Tell, IInv, StartupTypeOK,
       UnitLeads, InterfaceSeenTo, kernel
  <2>4. RulesKept'
    BY <1>3 DEF AddInterface, WarnAndGoOn, MainGoes, Tell, IInv, UnitLeads,
       RulesKept, RulesInLoop, Whole, Present, kernel
  <2> QED BY <2>1, <2>2, <2>3, <2>4 DEF IInv
<1>4. ASSUME SetInterface PROVE IInv'
  BY <1>4 DEF SetInterface, MainPasses, WarnAndGoOn, MainGoes, Tell, IInv,
     StartupTypeOK, UnitLeads, InterfaceSeenTo,
     RulesKept, RulesInLoop, Whole, Present, kernel
<1>5. ASSUME UpInterface PROVE IInv'
  BY <1>5 DEF UpInterface, MainGoes, IInv, StartupTypeOK, UnitLeads, InterfaceSeenTo,
     RulesKept, RulesInLoop, Whole, Present, kernel
<1>6. ASSUME InitDB PROVE IInv'
  <2>1. StartupTypeOK'
    BY <1>6 DEF InitDB, MainPasses, MainGoes, IInv, StartupTypeOK, kernel
  <2>2. UnitLeads'
    BY <1>6 DEF InitDB, MainPasses, MainGoes, IInv, UnitLeads, kernel
  <2>3. InterfaceSeenTo'
    BY <1>6 DEF InitDB, MainPasses, MainGoes, IInv, StartupTypeOK, UnitLeads,
       InterfaceSeenTo, kernel
  <2>4. RulesKept'
    BY <1>6 DEF InitDB, MainPasses, MainGoes, IInv, UnitLeads, RulesKept,
       RulesInLoop, Whole, Present, kernel
  <2> QED BY <2>1, <2>2, <2>3, <2>4 DEF IInv
<1>7. ASSUME Listen PROVE IInv'
  <2>1. StartupTypeOK'
    BY <1>7 DEF Listen, MainPasses, MainGoes, IInv, StartupTypeOK, kernel
  <2>2. UnitLeads'
    BY <1>7 DEF Listen, MainPasses, MainGoes, IInv, UnitLeads, kernel
  <2>3. InterfaceSeenTo'
    BY <1>7 DEF Listen, MainPasses, MainGoes, IInv, StartupTypeOK, UnitLeads,
       InterfaceSeenTo, kernel
  <2>4. RulesKept'
    BY <1>7 DEF Listen, MainPasses, MainGoes, IInv, UnitLeads, RulesKept,
       RulesInLoop, Whole, Present, kernel
  <2> QED BY <2>1, <2>2, <2>3, <2>4 DEF IInv
<1>8. ASSUME MainDies PROVE IInv'
  <2>1. StartupTypeOK'
    BY <1>8 DEF MainDies, MainPasses, MainGoes, IInv, StartupTypeOK, kernel
  <2>2. UnitLeads'
    BY <1>8 DEF MainDies, MainPasses, MainGoes, IInv, UnitLeads, kernel
  <2>3. InterfaceSeenTo'
    BY <1>8 DEF MainDies, MainPasses, MainGoes, IInv, StartupTypeOK, UnitLeads,
       InterfaceSeenTo, kernel
  <2>4. RulesKept'
    BY <1>8 DEF MainDies, MainPasses, MainGoes, IInv, UnitLeads, RulesKept,
       RulesInLoop, Whole, Present, kernel
  <2> QED BY <2>1, <2>2, <2>3, <2>4 DEF IInv
<1>9. ASSUME InterfaceFails PROVE IInv'
  BY <1>9 DEF InterfaceFails, MainPasses, WarnAndGoOn, MainGoes, Tell, IInv,
     StartupTypeOK, UnitLeads, InterfaceSeenTo,
     RulesKept, RulesInLoop, Whole, Present, kernel
<1> QED BY <1>1, <1>2, <1>3, <1>4, <1>5, <1>6, <1>7, <1>8, <1>9 DEF Main

-----------------------------------------------------------------------------
(* tunnelrecovery *)

(* A request that failed.                                                  *)
LEMMA FetchAgainKeeps ==
    ASSUME IInv, faults' \in 0 .. MaxFaults, FetchAgain
    PROVE  IInv'
<1>1. post = "fetch" /\ rec.tries \in 1 .. 3
  BY LocalsTyped DEF FetchAgain, PostSets, PostGoes, IInv, UnitLeads
<1>2. rec' \in Locals /\ rec'.tries = rec.tries + 1 /\ rec'.recreated = rec.recreated
  <2>1. rec.tries + 1 \in 1 .. 4 /\ rec' = [rec EXCEPT !.tries = rec.tries + 1]
    BY <1>1 DEF FetchAgain, PostSets
  <2> QED BY <2>1, LocalsTyped DEF Locals
<1>3. UNCHANGED <<unit, main, wg, legacy, told, built, ruled>>
      /\ post' = IF rec.tries < 3 THEN "fetch" ELSE "failed"
  BY DEF FetchAgain, PostSets, PostGoes
<1>4. StartupTypeOK'
  BY <1>2, <1>3 DEF IInv, StartupTypeOK, Locals
<1>5. UnitLeads'
  BY <1>1, <1>2, <1>3 DEF IInv, UnitLeads
<1>6. InterfaceSeenTo'
  BY <1>3 DEF IInv, InterfaceSeenTo
<1>7. RulesKept'
  BY <1>1, <1>2, <1>3 DEF IInv, UnitLeads, RulesKept, RulesInLoop, Whole, Present
<1> QED BY <1>4, <1>5, <1>6, <1>7 DEF IInv

(* A list arrived, so main serves.                                         *)
LEMMA ListedKeeps ==
    ASSUME IInv, faults' \in 0 .. MaxFaults, NEW list \in SUBSET Tunnels,
           main = "serving", Listed(list)
    PROVE  IInv'
<1>1. rec' \in Locals /\ rec'.recreated = rec.recreated
  <2>1. rec' = [rec EXCEPT !.left = list]
    BY DEF Listed, PostSets
  <2> QED BY <2>1, LocalsTyped DEF Locals
<1>2. UNCHANGED <<unit, main, wg, legacy, told, built, ruled>> /\ post = "fetch" /\ post' = "links"
  BY DEF Listed, PostSets, PostGoes
<1>3. StartupTypeOK'
  BY <1>1, <1>2 DEF IInv, StartupTypeOK, Locals
<1>4. UnitLeads'
  BY <1>2 DEF IInv, UnitLeads
<1>5. InterfaceSeenTo'
  BY <1>2 DEF IInv, InterfaceSeenTo
<1>6. RulesKept'
  BY <1>1, <1>2 DEF IInv, UnitLeads, RulesKept, RulesInLoop, Whole, Present
<1> QED BY <1>3, <1>4, <1>5, <1>6 DEF IInv

(* Up to the loop.                                                         *)
LEMMA BeforeLoopKeeps ==
    ASSUME IInv, faults' \in 0 .. MaxFaults,
           LoadPostConfig \/ PostDies \/ Fetch \/ FetchRefused \/ FetchBreaksOff
           \/ ListLinks \/ ListPeers \/ ListFails
    PROVE  IInv'
<1>1. ASSUME LoadPostConfig PROVE IInv'
  BY <1>1 DEF LoadPostConfig, PostPasses, PostGoes, IInv, StartupTypeOK, UnitLeads,
     InterfaceSeenTo,
     RulesKept, RulesInLoop, Whole, Present, kernel
<1>2. ASSUME PostDies PROVE IInv'
  BY <1>2 DEF PostDies, PostPasses, PostGoes, IInv, StartupTypeOK, UnitLeads,
     InterfaceSeenTo,
     RulesKept, RulesInLoop, Whole, Present, kernel
<1>3. ASSUME Fetch PROVE IInv'
  BY <1>3, ListedKeeps, FetchAgainKeeps DEF Fetch
<1>4. ASSUME FetchRefused PROVE IInv'
  BY <1>4, FetchAgainKeeps DEF FetchRefused
<1>5. ASSUME FetchBreaksOff PROVE IInv'
  <2>1. PICK list \in SUBSET Tunnels : main = "serving" /\ Listed(list)
    BY <1>5 DEF FetchBreaksOff
  <2> QED BY <2>1, ListedKeeps
<1>6. ASSUME ListLinks PROVE IInv'
  BY <1>6 DEF ListLinks, PostSets, PostGoes, IInv, StartupTypeOK, UnitLeads,
     InterfaceSeenTo,
     RulesKept, RulesInLoop, Whole, Present, kernel
<1>7. ASSUME ListPeers PROVE IInv'
  BY <1>7 DEF ListPeers, PostSets, PostGoes, IInv, StartupTypeOK, UnitLeads,
     InterfaceSeenTo,
     RulesKept, RulesInLoop, Whole, Present, kernel
<1>8. ASSUME ListFails PROVE IInv'
  BY <1>8 DEF ListFails, PostPasses, PostGoes, IInv, StartupTypeOK, UnitLeads,
     InterfaceSeenTo,
     RulesKept, RulesInLoop, Whole, Present, kernel
<1> QED BY <1>1, <1>2, <1>3, <1>4, <1>5, <1>6, <1>7, <1>8

(* A tunnel that could not be recreated.                                   *)
LEMMA GiveUpKeeps ==
    ASSUME IInv, faults' \in 0 .. MaxFaults, NEW from \in {"make", "finish"}, GiveUpTunnel(from)
    PROVE  IInv'
<1>1. UNCHANGED <<unit, main, wg, legacy, rec, built, ruled>> /\ told' = told \cup {"tunnel"}
      /\ post = from /\ post' = "loop"
  BY DEF GiveUpTunnel, PostGoes, Tell
<1>2. StartupTypeOK'
  BY <1>1 DEF IInv, StartupTypeOK
<1>3. UnitLeads'
  BY <1>1 DEF IInv, UnitLeads
<1>4. InterfaceSeenTo'
  BY <1>1 DEF IInv, InterfaceSeenTo
<1>5. RulesKept'
  BY <1>1 DEF IInv, UnitLeads, RulesKept, RulesInLoop, Whole, Present
<1> QED BY <1>2, <1>3, <1>4, <1>5 DEF IInv

(* The loop and the rules after it.                                        *)
LEMMA LoopKeeps ==
    ASSUME IInv, faults' \in 0 .. MaxFaults,
           NextTunnel \/ MakeTunnel \/ FinishTunnel \/ AllTunnelsSeen
           \/ ApplyRules \/ ApplyRulesFails
    PROVE  IInv'
<1> DEFINE t == rec.now
<1>1. ASSUME NextTunnel PROVE IInv'
  <2>1. UNCHANGED <<unit, main, wg, legacy, told, built, ruled>>
        /\ post = "loop" /\ post' \in {"loop", "make"}
    BY <1>1 DEF NextTunnel, PostSets, PostGoes
  <2>2. PICK u \in rec.left : \/ rec' = [rec EXCEPT !.left = rec.left \ {u}]
                             \/ rec' = [rec EXCEPT !.left = rec.left \ {u}, !.now = u]
    BY <1>1 DEF NextTunnel, PostSets
  <2>3. rec' \in Locals /\ rec'.recreated = rec.recreated
    <3>1. u \in Tunnels /\ rec.left \ {u} \in SUBSET Tunnels
      BY <2>2, LocalsTyped DEF Locals
    <3> QED BY <2>2, <3>1, LocalsTyped DEF Locals
  <2>a. StartupTypeOK'
    BY <2>1, <2>3 DEF IInv, StartupTypeOK, Locals
  <2>b. UnitLeads'
    BY <2>1, <2>3 DEF IInv, UnitLeads
  <2>c. InterfaceSeenTo'
    BY <2>1, <2>3 DEF IInv, InterfaceSeenTo
  <2>d. RulesKept'
    BY <2>1, <2>3 DEF IInv, UnitLeads, RulesKept, RulesInLoop, Whole, Present
  <2> QED BY <2>a, <2>b, <2>c, <2>d DEF IInv
<1>2. ASSUME MakeTunnel, CanMake(t) PROVE IInv'
  <2>1. UNCHANGED <<unit, main, wg, legacy, rec, told, ruled>> /\ post = "make" /\ post' = "finish"
    BY <1>2 DEF MakeTunnel, PostGoes
  <2>2. built' = [built EXCEPT ![t] = IF built[t] = "absent" THEN "part" ELSE built[t]]
    BY <1>2 DEF MakeTunnel
  <2>3. built' \in [Tunnels -> {"absent", "part", "whole"}]
    BY <2>2 DEF IInv, StartupTypeOK
  <2>4. Whole' = Whole /\ Present' \subseteq Present \cup {t}
    BY <2>2 DEF IInv, StartupTypeOK, Whole, Present
  <2>5. StartupTypeOK'
    BY <2>1, <2>3 DEF IInv, StartupTypeOK
  <2>6. UnitLeads' /\ InterfaceSeenTo'
    BY <2>1 DEF IInv, UnitLeads, InterfaceSeenTo
  <2>7. RulesKept'
    BY <2>1, <2>4 DEF IInv, UnitLeads, RulesKept, RulesInLoop
  <2> QED BY <2>5, <2>6, <2>7 DEF IInv
<1>3. ASSUME FinishTunnel, t \in Peers => wg.up PROVE IInv'
  <2>1. UNCHANGED <<unit, main, wg, legacy, told, ruled>> /\ post = "finish" /\ post' = "loop"
    BY <1>3 DEF FinishTunnel, PostGoes
  <2>2. /\ built' = [built EXCEPT ![t] = "whole"]
        /\ rec' = [rec EXCEPT !.recreated = rec.recreated + 1]
    BY <1>3 DEF FinishTunnel
  <2>3. built' \in [Tunnels -> {"absent", "part", "whole"}]
    BY <2>2 DEF IInv, StartupTypeOK
  <2>4. rec' \in Locals /\ rec'.recreated # 0
    BY <2>2, LocalsTyped DEF Locals
  <2>5. StartupTypeOK'
    BY <2>1, <2>3, <2>4 DEF IInv, StartupTypeOK, Locals
  <2>6. UnitLeads' /\ InterfaceSeenTo'
    BY <2>1 DEF IInv, UnitLeads, InterfaceSeenTo
  <2>7. RulesKept'
    BY <2>1, <2>4 DEF IInv, UnitLeads, RulesKept, RulesInLoop
  <2> QED BY <2>5, <2>6, <2>7 DEF IInv
<1>4. ASSUME MakeTunnel, ~CanMake(t) PROVE IInv'
  BY <1>4, GiveUpKeeps DEF MakeTunnel
<1>5. ASSUME FinishTunnel, ~(t \in Peers => wg.up) PROVE IInv'
  BY <1>5, GiveUpKeeps DEF FinishTunnel
<1>6. ASSUME AllTunnelsSeen PROVE IInv'
  <2>1. UNCHANGED <<unit, main, wg, legacy, rec, built, ruled, told>>
        /\ post = "loop" /\ post' \in {"done", "rules"} /\ (post' = "done" => rec.recreated = 0)
    BY <1>6, LocalsTyped DEF AllTunnelsSeen, PostPasses, PostGoes
  <2>a. StartupTypeOK'
    BY <2>1 DEF IInv, StartupTypeOK, Locals
  <2>b. UnitLeads'
    BY <2>1 DEF IInv, UnitLeads
  <2>c. InterfaceSeenTo'
    BY <2>1 DEF IInv, InterfaceSeenTo
  <2>d. RulesKept'
    BY <2>1 DEF IInv, UnitLeads, RulesKept, RulesInLoop, Whole, Present
  <2> QED BY <2>a, <2>b, <2>c, <2>d DEF IInv
<1>7. ASSUME ApplyRules PROVE IInv'
  BY <1>7 DEF ApplyRules, PostGoes, IInv, StartupTypeOK, UnitLeads, InterfaceSeenTo,
     RulesKept, RulesInLoop, Whole, Present, kernel
<1>8. ASSUME ApplyRulesFails PROVE IInv'
  BY <1>8 DEF ApplyRulesFails, PostGoes, Tell, IInv, StartupTypeOK, UnitLeads,
     InterfaceSeenTo,
     RulesKept, RulesInLoop, Whole, Present, kernel
<1> QED BY <1>1, <1>2, <1>3, <1>4, <1>5, <1>6, <1>7, <1>8

-----------------------------------------------------------------------------

LEMMA InitHolds == Init => IInv
<1> SUFFICES ASSUME Init PROVE IInv
  OBVIOUS
<1>1. rec = NoList /\ NoList \in Locals /\ NoList.tries = 1 /\ NoList.recreated = 0
  BY DEF Init, NoList, Locals
<1>2. StartupTypeOK
  <2>1. rec \in Locals /\ faults \in 0 .. MaxFaults
    BY <1>1, StartupAssumption DEF Init
  <2>2. wg \in [available : BOOLEAN, keyFile : BOOLEAN, exists : BOOLEAN, up : BOOLEAN]
    BY DEF Init
  <2>3. built \in [Tunnels -> {"absent", "part", "whole"}] /\ legacy \subseteq Tunnels
    BY DEF Init, Tunnels
  <2> QED BY <2>1, <2>2, <2>3 DEF Init, StartupTypeOK, Locals
<1>3. UnitLeads /\ InterfaceSeenTo
  BY DEF Init, UnitLeads, InterfaceSeenTo
<1>4. RulesKept
  BY DEF Init, RulesKept, RulesInLoop
<1> QED BY <1>2, <1>3, <1>4 DEF IInv

(* Filling in prefixes, or nothing, leaves the programs alone.             *)
LEMMA FillInKeeps ==
    ASSUME IInv, faults \in 0 .. MaxFaults, FillIn
    PROVE  IInv'
<1>1. legacy' = {} /\ faults' \in 0 .. MaxFaults
      /\ UNCHANGED <<unit, main, post, rec>> /\ UNCHANGED <<told, wg, built, ruled>>
  BY DEF FillIn, kernel
<1>2. StartupTypeOK'
  <2>1. rec' \in Locals
    BY <1>1, LocalsTyped
  <2>2. wg' \in [available : BOOLEAN, keyFile : BOOLEAN, exists : BOOLEAN, up : BOOLEAN]
    BY <1>1 DEF IInv, StartupTypeOK
  <2>3. built' \in [Tunnels -> {"absent", "part", "whole"}]
    BY <1>1 DEF IInv, StartupTypeOK
  <2> QED BY <1>1, <2>1, <2>2, <2>3 DEF IInv, StartupTypeOK, Locals
<1>3. UnitLeads'
  BY <1>1 DEF IInv, UnitLeads
<1>4. InterfaceSeenTo'
  BY <1>1 DEF IInv, InterfaceSeenTo
<1>5. RulesKept'
  BY <1>1 DEF IInv, RulesKept, RulesInLoop, Whole, Present
<1> QED BY <1>2, <1>3, <1>4, <1>5 DEF IInv

LEMMA StutterKeeps ==
    ASSUME IInv, faults \in 0 .. MaxFaults, UNCHANGED vars
    PROVE  IInv'
<1>1. faults' \in 0 .. MaxFaults
      /\ UNCHANGED <<unit, main, post, rec>> /\ UNCHANGED <<told, wg, built, ruled, legacy>>
  BY DEF vars
<1>2. StartupTypeOK'
  <2>1. rec' \in Locals
    BY <1>1, LocalsTyped
  <2>2. wg' \in [available : BOOLEAN, keyFile : BOOLEAN, exists : BOOLEAN, up : BOOLEAN]
    BY <1>1 DEF IInv, StartupTypeOK
  <2>3. built' \in [Tunnels -> {"absent", "part", "whole"}]
    BY <1>1 DEF IInv, StartupTypeOK
  <2> QED BY <1>1, <2>1, <2>2, <2>3 DEF IInv, StartupTypeOK, Locals
<1>3. UnitLeads'
  BY <1>1 DEF IInv, UnitLeads
<1>4. InterfaceSeenTo'
  BY <1>1 DEF IInv, InterfaceSeenTo
<1>5. RulesKept'
  BY <1>1 DEF IInv, RulesKept, RulesInLoop, Whole, Present
<1> QED BY <1>2, <1>3, <1>4, <1>5 DEF IInv

LEMMA StepKeeps == IInv /\ [Next]_vars => IInv'
<1> SUFFICES ASSUME IInv, [Next]_vars PROVE IInv'
  OBVIOUS
<1>1. faults \in 0 .. MaxFaults /\ MaxFaults \in Nat
  BY StartupAssumption DEF IInv, StartupTypeOK
<1>2. CASE Systemd
  BY <1>1, <1>2, UnitKeeps DEF Systemd
<1>3. CASE Main
  BY <1>1, <1>3, MainKeeps DEF Main
<1>4. CASE Post
  BY <1>1, <1>4, BeforeLoopKeeps, LoopKeeps DEF Post
<1>5. CASE Failure
  <2>1. faults' \in 0 .. MaxFaults
    BY <1>1, <1>5 DEF Failure
  <2> QED BY <1>5, <2>1, UnitKeeps, MainKeeps, FetchAgainKeeps, BeforeLoopKeeps,
             GiveUpKeeps, LoopKeeps DEF Failure
<1>6. CASE FillIn
  BY <1>1, <1>6, FillInKeeps
<1>7. CASE UNCHANGED vars
  BY <1>1, <1>7, StutterKeeps
<1> QED BY <1>2, <1>3, <1>4, <1>5, <1>6, <1>7 DEF Next

(* The inductive invariant holds in every state of every start.            *)
THEOREM StartupInvariance == Spec => []IInv
BY InitHolds, StepKeeps, PTL DEF Spec

(* In particular the types, whatever failed and wherever a start ended.    *)
THEOREM StartupTypeCorrect == Spec => []StartupTypeOK
<1>1. IInv => StartupTypeOK
  BY DEF IInv
<1> QED BY <1>1, StartupInvariance, PTL

(* The recovery finds the interface set up, or its failure logged, however *)
(* main and the recovery interleave and whichever of them is started anew. *)
THEOREM WireGuardReadyFirstHolds == Spec => []WireGuardReadyFirst
<1>1. IInv => WireGuardReadyFirst
  BY DEF IInv, InterfaceSeenTo, WireGuardReadyFirst
<1> QED BY <1>1, StartupInvariance, PTL

(* A running unit has rules for the tunnels the recovery made whole, and   *)
(* for all that are there if none was given up, for any tunnels and any    *)
(* number of failures and reboots.                                         *)
THEOREM RunningProtectedHolds == Spec => []RunningProtected
<1>1. IInv => RunningProtected
  BY DEF IInv, RulesKept, RunningProtected, Whole
<1> QED BY <1>1, StartupInvariance, PTL
=============================================================================
