---------------------------- MODULE SecurityProofs ----------------------------
(***************************************************************************)
(* The proof that the runs of the security script leave no tunnel without  *)
(* protection that was there all the time, for any number of runs at once, *)
(* any links and any networks.                                             *)
(***************************************************************************)
EXTENDS SecurityProperties, SequenceTheorems, TLAPS

Listing == {"flush4", "flush6", "load4", "load6"}
Places == {"none", "list"} \cup Listing \cup {"tc", "wg", "drop", "build", "save"}

ChainNames == {"table", "forward", "firewall", "rate"}

Runs == [pc : Places, list : SUBSET Devices, bare : SUBSET (Devices \cup Networks),
         left : SUBSET (Devices \cup Networks), chains : Seq(ChainNames)]

StableLinks == stable \cap links
StableNets == stable \cap nets

SecurityTypeOK ==
    /\ links \subseteq Devices /\ nets \subseteq Networks
    /\ stable \subseteq links \cup nets
    /\ run \in [Handlers -> Runs]

At(places) == {w \in Handlers : run[w].pc \in places}

(* What a run has found is all that has been there since before it began.  *)
ListsComplete ==
    /\ \A w \in Handlers : run[w].pc = "none" => run[w] = NoRun
    /\ \A w \in At(Listing) : StableLinks \subseteq run[w].list
    /\ \A w \in At({"drop"}) : StableNets \subseteq run[w].left

(* What one run has removed, it or another run has yet to load.            *)
LinksCared ==
    /\ At({"list", "flush4", "flush6", "load4"}) = {} => StableLinks \subseteq rules4
    /\ At({"list"} \cup Listing) = {} =>
          /\ StableLinks \subseteq rules6
          /\ StableLinks \subseteq
                shaped \cup UNION {run[w].left \cup run[w].bare : w \in At({"tc"})}

(* The run that built what is left of the table last: what it has added so *)
(* far is there.                                                           *)
Builds(w) ==
    /\ run[w].pc = "build"
    /\ \E k \in 0 .. 4 : /\ run[w].chains = SubSeq(Chains, k + 1, 4)
                         /\ \A i \in 1 .. k : Chains[i] \in nft
    /\ StableNets \subseteq nft \cup run[w].left

NetsCared ==
    \/ ~Wg0Exists \/ StableNets = {}
    \/ At({"list", "tc", "wg", "drop"} \cup Listing) # {}
    \/ \E w \in Handlers : Builds(w)
    \/ StableNets \cup {"forward", "firewall", "rate"} \subseteq nft

SecurityInv == SecurityTypeOK /\ ListsComplete /\ LinksCared /\ NetsCared

-----------------------------------------------------------------------------
(* What a step does to the runs: one run goes on, the others stay.         *)

Others(w) == \A v \in Handlers \ {w} : run'[v] = run[v]

(* The states and the types that every lemma below needs.                  *)
LEMMA RunTyped ==
    ASSUME SecurityInv, NEW w \in Handlers
    PROVE  /\ run \in [Handlers -> Runs] /\ DOMAIN run = Handlers
           /\ run[w].pc \in Places /\ run[w].chains \in Seq(ChainNames)
           /\ run[w].list \subseteq Devices
           /\ run[w].bare \subseteq Devices \cup Networks
           /\ run[w].left \subseteq Devices \cup Networks
  BY DEF SecurityInv, SecurityTypeOK, Runs

LEMMA NoRunTyped == NoRun \in Runs /\ NoRun.pc = "none"
<1>1. <<>> \in Seq(ChainNames) OBVIOUS
<1> QED BY <1>1 DEF NoRun, Runs, Places

(* What stays of the types when one run goes on in a known way.            *)
LEMMA TypesKept ==
    ASSUME SecurityInv, NEW w \in Handlers, NEW r \in Runs,
           run' = [run EXCEPT ![w] = r], links' \subseteq Devices,
           nets' \subseteq Networks, stable' \subseteq links' \cup nets'
    PROVE  SecurityTypeOK' /\ run'[w] = r /\ Others(w)
  BY RunTyped DEF SecurityTypeOK, Others

LEMMA GotoRuns ==
    ASSUME SecurityInv, NEW w \in Handlers, NEW place \in Places, Goto(w, place)
    PROVE  \E r \in Runs : /\ run' = [run EXCEPT ![w] = r]
                           /\ r.pc = place /\ r.list = run[w].list
                           /\ r.left = run[w].left /\ r.bare = run[w].bare
                           /\ r.chains = run[w].chains
<1>1. PICK r : r = [run[w] EXCEPT !.pc = place]
  OBVIOUS
<1>2. run[w] \in Runs
  BY RunTyped
<1>3. r \in Runs /\ r.pc = place /\ r.list = run[w].list /\ r.left = run[w].left
      /\ r.bare = run[w].bare /\ r.chains = run[w].chains
  BY <1>1, <1>2 DEF Runs
<1>4. run' = [run EXCEPT ![w] = r]
  BY <1>1 DEF Goto
<1> QED BY <1>3, <1>4

-----------------------------------------------------------------------------
(* A handler changes the kernel and begins a run *)

(* What a run of the script past its first step has found stays complete:  *)
(* a link or network that appears is not stable while any run is under way.*)
LEMMA StartKeeps ==
    ASSUME SecurityInv, NEW w \in Handlers, Start(w),
           stable' = IF Running = {} THEN links' \cup nets'
                     ELSE stable \cap (links' \cup nets')
    PROVE  SecurityInv'
<1>1. Begin(w) /\ run[w] = NoRun
  BY DEF Start, AddTunnel, DeleteTunnel, Refresh, Begin
<1>2. /\ links' \subseteq Devices /\ nets' \subseteq Networks
      /\ links \cap nets = {}
      /\ links' \cap nets' = {}
      /\ stable \subseteq links \cup nets
  BY NamesApart DEF Start, AddTunnel, DeleteTunnel, Refresh, host, SecurityInv,
     SecurityTypeOK
<1>3. PICK r \in Runs : run' = [run EXCEPT ![w] = r] /\ r.pc = "list"
  <2>1. "list" \in Places /\ Goto(w, "list")
    BY <1>1 DEF Places, Begin
  <2> QED BY <2>1, GotoRuns
<1>4. SecurityTypeOK' /\ run'[w] = r /\ Others(w)
  <2>1. stable' \subseteq links' \cup nets'
    OBVIOUS
  <2> QED BY <2>1, <1>2, <1>3, TypesKept
<1>5. ListsComplete'
  <2>1. Running = {} => \A v \in Handlers \ {w} : run'[v].pc = "none"
    BY <1>4, NoRunTyped DEF Running, Others
  <2>2. Running # {} => StableLinks' \subseteq StableLinks /\ StableNets' \subseteq StableNets
    <3>1. \/ \E d \in Devices \ links : links' = links \cup {d} /\ nets' = nets
          \/ \E n \in Networks \ nets : nets' = nets \cup {n} /\ links' = links
          \/ links' \subseteq links /\ nets' \subseteq nets
      BY DEF Start, AddTunnel, DeleteTunnel, Refresh, host
    <3> QED BY <1>2, <3>1, NamesApart DEF StableLinks, StableNets
  <2>3. \A v \in Handlers : run'[v].pc = "none" => run'[v] = NoRun
    BY <1>3, <1>4 DEF Others, SecurityInv, ListsComplete
  <2>4. \A v \in At(Listing)' : StableLinks' \subseteq run'[v].list
    <3>1. \A v \in At(Listing)' : v # w /\ run'[v].pc # "none"
      BY <1>3, <1>4 DEF At, Listing
    <3>2. \A v \in At(Listing)' : run'[v] = run[v] /\ v \in At(Listing)
      BY <3>1, <1>4 DEF At, Others
    <3> QED BY <3>1, <3>2, <2>1, <2>2 DEF At, SecurityInv, ListsComplete
  <2>5. \A v \in At({"drop"})' : StableNets' \subseteq run'[v].left
    <3>1. \A v \in At({"drop"})' : v # w /\ run'[v].pc # "none"
      BY <1>3, <1>4 DEF At
    <3>2. \A v \in At({"drop"})' : run'[v] = run[v] /\ v \in At({"drop"})
      BY <3>1, <1>4 DEF At, Others
    <3> QED BY <3>1, <3>2, <2>1, <2>2 DEF At, SecurityInv, ListsComplete
  <2> QED BY <2>3, <2>4, <2>5 DEF ListsComplete
<1>6. LinksCared' /\ NetsCared'
  <2>1. run'[w].pc = "list"
    BY <1>3, <1>4
  <2> QED BY <2>1 DEF At, LinksCared, NetsCared
<1> QED BY <1>4, <1>5, <1>6 DEF SecurityInv

-----------------------------------------------------------------------------
(* SIT and GRE links *)

(* What all the steps of this part keep.                                   *)
LEMMA LinkStepKeeps ==
    ASSUME SecurityInv, NEW w \in Handlers, NEW r \in Runs,
           run' = [run EXCEPT ![w] = r], UNCHANGED <<host, stable>>,
           r.pc \in Listing \cup {"tc", "wg"},
           r.pc \in Listing => StableLinks \subseteq r.list
    PROVE  /\ SecurityTypeOK' /\ ListsComplete' /\ NetsCared'
           /\ run'[w] = r /\ Others(w) /\ StableLinks' = StableLinks
<1>1. links' = links /\ nets' = nets /\ stable' = stable
  BY DEF host
<1>2. SecurityTypeOK' /\ run'[w] = r /\ Others(w)
  BY <1>1, TypesKept DEF SecurityInv, SecurityTypeOK
<1>3. StableLinks' = StableLinks /\ StableNets' = StableNets
  BY <1>1 DEF StableLinks, StableNets
<1>4. ListsComplete'
  <2>1. r.pc # "none" /\ r.pc # "drop"
    BY DEF Listing
  <2>2. ASSUME NEW v \in Handlers
        PROVE  /\ run'[v].pc = "none" => run'[v] = NoRun
               /\ run'[v].pc \in Listing => StableLinks \subseteq run'[v].list
               /\ run'[v].pc = "drop" => StableNets \subseteq run'[v].left
    <3>1. CASE v = w
      BY <1>2, <2>1, <3>1
    <3>2. CASE v # w
      BY <1>2, <3>2 DEF Others, SecurityInv, ListsComplete, At
    <3> QED BY <3>1, <3>2
  <2> QED BY <2>2, <1>3 DEF ListsComplete, At
<1>5. NetsCared'
  BY <1>2 DEF NetsCared, At
<1> QED BY <1>2, <1>3, <1>4, <1>5

(* The list is whole, and so is what is loaded: the two chains.            *)
LEMMA ChainsKept ==
    ASSUME SecurityInv, NEW w \in Handlers, UNCHANGED stable,
           List(w) \/ Flush4(w) \/ Flush6(w) \/ Load4(w) \/ Load6(w)
    PROVE  SecurityInv'
<1> USE DEF StableLinks
<1>1. run[w].pc \in Listing => StableLinks \subseteq run[w].list
  BY DEF SecurityInv, ListsComplete, At
<1>2. run[w] \in Runs /\ links \subseteq Devices
  BY RunTyped DEF SecurityInv, SecurityTypeOK
<1>3. Places = {"none", "list", "flush4", "flush6", "load4", "load6", "tc", "wg", "drop",
                "build", "save"}
  BY DEF Places, Listing
<1>4. CASE List(w)
  <2>1. PICK r : r = [run[w] EXCEPT !.pc = "flush4", !.list = links]
    OBVIOUS
  <2>2. r \in Runs /\ r.pc = "flush4" /\ r.list = links
    BY <1>2, <1>3, <2>1 DEF Runs
  <2>3. run' = [run EXCEPT ![w] = r]
    BY <1>4, <2>1 DEF List
  <2>4. /\ SecurityTypeOK' /\ ListsComplete' /\ NetsCared' /\ run'[w] = r
    BY <1>4, <2>2, <2>3, LinkStepKeeps DEF Listing, List
  <2>5. LinksCared'
    BY <2>2, <2>4 DEF LinksCared, At, Listing
  <2> QED BY <2>4, <2>5 DEF SecurityInv
<1>5. CASE Flush4(w)
  <2>1. PICK r \in Runs : /\ run' = [run EXCEPT ![w] = r] /\ r.pc = "flush6"
                          /\ r.list = run[w].list
    BY <1>3, <1>5, GotoRuns DEF Flush4
  <2>2. /\ SecurityTypeOK' /\ ListsComplete' /\ NetsCared' /\ run'[w] = r
    BY <1>1, <1>5, <2>1, LinkStepKeeps DEF Listing, Flush4
  <2>3. LinksCared'
    BY <2>1, <2>2 DEF LinksCared, At, Listing
  <2> QED BY <2>2, <2>3 DEF SecurityInv
<1>6. CASE Flush6(w)
  <2>1. PICK place : place = IF run[w].list # {} THEN "load4" ELSE "wg"
    OBVIOUS
  <2>2. PICK r \in Runs : /\ run' = [run EXCEPT ![w] = r] /\ r.pc = place
                          /\ r.list = run[w].list
    BY <1>3, <1>6, <2>1, GotoRuns DEF Flush6
  <2>3. /\ SecurityTypeOK' /\ ListsComplete' /\ NetsCared' /\ run'[w] = r
        /\ StableLinks' = StableLinks
    BY <1>1, <1>6, <2>1, <2>2, LinkStepKeeps DEF Listing, Flush6
  <2>4. r.pc = "load4" \/ StableLinks = {}
    BY <1>1, <1>6, <2>1, <2>2 DEF Listing, Flush6
  <2>5. LinksCared'
    BY <2>3, <2>4 DEF LinksCared, At, Listing
  <2> QED BY <2>3, <2>5 DEF SecurityInv
<1>7. CASE Load4(w)
  <2>1. PICK r \in Runs : /\ run' = [run EXCEPT ![w] = r] /\ r.pc = "load6"
                          /\ r.list = run[w].list
    BY <1>3, <1>7, GotoRuns DEF Load4
  <2>2. /\ SecurityTypeOK' /\ ListsComplete' /\ NetsCared' /\ run'[w] = r
        /\ StableLinks' = StableLinks
    BY <1>1, <1>7, <2>1, LinkStepKeeps DEF Listing, Load4
  <2>3. StableLinks \subseteq rules4'
    BY <1>1, <1>7 DEF Listing, Load4
  <2>4. LinksCared'
    BY <2>1, <2>2, <2>3 DEF LinksCared, At, Listing
  <2> QED BY <2>2, <2>4 DEF SecurityInv
<1>8. CASE Load6(w)
  <2>1. PICK r : r = [run[w] EXCEPT !.pc = "tc", !.left = run[w].list]
    OBVIOUS
  <2>2. r \in Runs /\ r.pc = "tc" /\ r.left = run[w].list
    BY <1>2, <1>3, <2>1 DEF Runs
  <2>3. run' = [run EXCEPT ![w] = r]
    BY <1>8, <2>1 DEF Load6
  <2>4. /\ SecurityTypeOK' /\ ListsComplete' /\ NetsCared' /\ run'[w] = r
        /\ StableLinks' = StableLinks /\ Others(w)
    BY <1>8, <2>2, <2>3, LinkStepKeeps DEF Listing, Load6
  <2>5. StableLinks \subseteq rules6' /\ StableLinks \subseteq run'[w].left
    BY <1>1, <1>8, <2>2, <2>4 DEF Listing, Load6
  <2>6. rules4' = rules4 /\ run[w].pc = "load6"
    BY <1>8 DEF Load6
  <2>7. At({"list", "flush4", "flush6", "load4"})' = {} =>
            At({"list", "flush4", "flush6", "load4"}) = {}
    BY <2>4, <2>6 DEF At, Others
  <2>8. w \in At({"tc"})'
    BY <2>2, <2>4 DEF At
  <2>9. LinksCared'
    BY <2>4, <2>5, <2>6, <2>7, <2>8 DEF LinksCared, SecurityInv
  <2> QED BY <2>4, <2>9 DEF SecurityInv
<1> QED BY <1>4, <1>5, <1>6, <1>7, <1>8

(* The link whose limits a run removes is one it has yet to limit anew.    *)
LEMMA LimitsKept ==
    ASSUME SecurityInv, NEW w \in Handlers, UNCHANGED stable,
           Unshape(w) \/ Shape(w) \/ AllShaped(w)
    PROVE  SecurityInv'
<1>1. run[w] \in Runs /\ run[w].pc = "tc" /\ StableLinks \subseteq links
  BY RunTyped DEF Unshape, Shape, AllShaped, StableLinks
<1>2. /\ UNCHANGED <<host, rules4, rules6>>
  BY DEF Unshape, Shape, AllShaped
<1>3. PICK r \in Runs :
        /\ run' = [run EXCEPT ![w] = r]
        /\ r.pc \in {"tc", "wg"}
        /\ \A d \in StableLinks :
              d \in shaped \cup run[w].left \cup run[w].bare =>
                 d \in shaped' \/ (r.pc = "tc" /\ d \in r.left \cup r.bare)
        /\ \A d \in StableLinks \cap shaped :
                 d \in shaped' \/ (r.pc = "tc" /\ d \in r.left \cup r.bare)
  <2>1. CASE Unshape(w)
    <3>1. PICK e \in run[w].left :
            /\ shaped' = shaped \ {e}
            /\ run' = [run EXCEPT ![w].left = @ \ {e}, ![w].bare = @ \cup {e}]
      BY <2>1 DEF Unshape
    <3>2. PICK r : r = [run[w] EXCEPT !.left = run[w].left \ {e},
                                      !.bare = run[w].bare \cup {e}]
      OBVIOUS
    <3>3. r.pc = "tc" /\ r.left = run[w].left \ {e} /\ r.bare = run[w].bare \cup {e}
      BY <1>1, <3>2 DEF Runs
    <3>4. e \in Devices \cup Networks
      BY <1>1, <3>1 DEF Runs
    <3>5. r \in Runs
      BY <1>1, <3>2, <3>4 DEF Runs
    <3>6. run' = [run EXCEPT ![w] = r]
      BY <3>1, <3>2
    <3> QED BY <3>1, <3>3, <3>5, <3>6
  <2>2. CASE Shape(w)
    <3>1. PICK e \in run[w].bare :
            /\ shaped' = shaped \cup ({e} \cap links)
            /\ run' = [run EXCEPT ![w].bare = @ \ {e}]
      BY <2>2 DEF Shape
    <3>2. PICK r : r = [run[w] EXCEPT !.bare = run[w].bare \ {e}]
      OBVIOUS
    <3>3. /\ r \in Runs /\ r.pc = "tc" /\ r.left = run[w].left
          /\ r.bare = run[w].bare \ {e}
      BY <1>1, <3>2 DEF Runs
    <3>4. run' = [run EXCEPT ![w] = r]
      BY <3>1, <3>2
    <3> QED BY <1>1, <3>1, <3>3, <3>4
  <2>3. CASE AllShaped(w)
    <3>1. PICK r \in Runs : run' = [run EXCEPT ![w] = r] /\ r.pc = "wg"
      BY <2>3, GotoRuns DEF AllShaped, Places
    <3> QED BY <2>3, <3>1 DEF AllShaped
  <2> QED BY <2>1, <2>2, <2>3
<1>4. /\ SecurityTypeOK' /\ ListsComplete' /\ NetsCared' /\ run'[w] = r
      /\ Others(w) /\ StableLinks' = StableLinks
  <2>1. r.pc \notin Listing
    BY <1>3 DEF Listing
  <2> QED BY <1>2, <1>3, <2>1, LinkStepKeeps
<1>5. \A v \in Handlers : run[v].pc \in {"list"} \cup Listing =>
                            v # w /\ run'[v].pc = run[v].pc
  BY <1>1, <1>4 DEF Listing, Others
<1>6. LinksCared'
  <2>1. ASSUME At({"list", "flush4", "flush6", "load4"})' = {}
        PROVE  StableLinks' \subseteq rules4'
    <3>1. At({"list", "flush4", "flush6", "load4"}) = {}
      BY <1>5, <2>1 DEF At, Listing
    <3> QED BY <1>2, <1>4, <3>1 DEF LinksCared, SecurityInv
  <2>2. ASSUME At({"list"} \cup Listing)' = {}, NEW d \in StableLinks
        PROVE  /\ d \in rules6'
               /\ d \in shaped' \cup UNION {run'[v].left \cup run'[v].bare : v \in At({"tc"})'}
    <3>1. At({"list"} \cup Listing) = {}
      BY <1>5, <2>2 DEF At
    <3>2. d \in rules6'
      BY <1>2, <2>2, <3>1 DEF LinksCared, SecurityInv
    <3>3. d \in shaped \/ \E v \in At({"tc"}) : d \in run[v].left \cup run[v].bare
      BY <2>2, <3>1 DEF LinksCared, SecurityInv
    <3>4. r.pc = "tc" => w \in At({"tc"})'
      BY <1>4 DEF At
    <3>5. CASE d \in shaped
      BY <1>3, <1>4, <2>2, <3>2, <3>4, <3>5
    <3>6. ASSUME NEW v \in At({"tc"}), d \in run[v].left \cup run[v].bare
          PROVE  d \in shaped' \cup UNION {run'[x].left \cup run'[x].bare : x \in At({"tc"})'}
      <4>1. CASE v = w
        BY <1>3, <1>4, <2>2, <3>4, <3>6, <4>1
      <4>2. CASE v # w
        <5>1. run'[v] = run[v] /\ v \in At({"tc"})'
          BY <1>4, <3>6, <4>2 DEF At, Others
        <5> QED BY <3>6, <5>1
      <4> QED BY <4>1, <4>2
    <3> QED BY <3>2, <3>3, <3>5, <3>6
  <2> QED BY <1>4, <2>1, <2>2 DEF LinksCared
<1> QED BY <1>4, <1>6 DEF SecurityInv

-----------------------------------------------------------------------------
(* The networks of the WireGuard peers *)

(* What all the steps of this part keep.                                   *)
LEMMA NetStepKeeps ==
    ASSUME SecurityInv, NEW w \in Handlers, NEW r \in Runs,
           run' = [run EXCEPT ![w] = r],
           UNCHANGED <<host, rules4, rules6, shaped, stable>>,
           run[w].pc \in {"wg", "drop", "build", "save"},
           r.pc \in {"none", "drop", "build", "save"},
           r.pc = "none" => r = NoRun, r.pc = "drop" => StableNets \subseteq r.left
    PROVE  /\ SecurityTypeOK' /\ ListsComplete' /\ LinksCared'
           /\ run'[w] = r /\ Others(w) /\ StableNets' = StableNets
<1>1. links' = links /\ nets' = nets /\ stable' = stable
  BY DEF host
<1>2. SecurityTypeOK' /\ run'[w] = r /\ Others(w)
  BY <1>1, TypesKept DEF SecurityInv, SecurityTypeOK
<1>3. StableLinks' = StableLinks /\ StableNets' = StableNets
  BY <1>1 DEF StableLinks, StableNets
<1>4. \A v \in Handlers : v = w \/ run'[v] = run[v]
  BY <1>2 DEF Others
<1>5. ListsComplete'
  <2>1. ASSUME NEW v \in Handlers
        PROVE  /\ run'[v].pc = "none" => run'[v] = NoRun
               /\ run'[v].pc \in Listing => StableLinks \subseteq run'[v].list
               /\ run'[v].pc = "drop" => StableNets \subseteq run'[v].left
    <3>1. CASE v = w
      BY <1>2, <3>1 DEF Listing
    <3>2. CASE v # w
      BY <1>4, <3>2 DEF SecurityInv, ListsComplete, At
    <3> QED BY <3>1, <3>2
  <2> QED BY <2>1, <1>3 DEF ListsComplete, At
<1>6. LinksCared'
  <2>1. \A v \in Handlers : run[v].pc \in {"list", "tc"} \cup Listing => run'[v] = run[v]
    BY <1>4 DEF Listing
  <2>2. \A v \in Handlers : run'[v].pc \in {"list", "tc"} \cup Listing => run'[v] = run[v]
    BY <1>2, <1>4 DEF Listing
  <2>3. /\ At({"list", "flush4", "flush6", "load4"})' = At({"list", "flush4", "flush6", "load4"})
        /\ At({"list"} \cup Listing)' = At({"list"} \cup Listing)
        /\ At({"tc"})' = At({"tc"}) /\ \A v \in At({"tc"}) : run'[v] = run[v]
    BY <2>1, <2>2 DEF At, Listing
  <2> QED BY <1>3, <2>3 DEF LinksCared, SecurityInv
<1> QED BY <1>2, <1>3, <1>5, <1>6

(* What is left of the list of chains: the first of it, and the rest.      *)
LEMMA ChainsLeft ==
    /\ SubSeq(Chains, 1, 4) = Chains
    /\ SubSeq(Chains, 5, 4) = <<>>
    /\ \A k \in 0 .. 3 : /\ SubSeq(Chains, k + 1, 4) # <<>>
                         /\ Head(SubSeq(Chains, k + 1, 4)) = Chains[k + 1]
                         /\ Tail(SubSeq(Chains, k + 1, 4)) = SubSeq(Chains, k + 2, 4)
<1>1. Chains \in Seq(ChainNames)
  BY DEF Chains, ChainNames
<1>2. Len(Chains) = 4
  BY DEF Chains
<1>3. SubSeq(Chains, 1, 4) = Chains
  BY <1>1, <1>2, SubSeqFull
<1>4. SubSeq(Chains, 5, 4) = <<>>
  BY SubSeqEmpty
<1>5. ASSUME NEW k \in 0 .. 3
      PROVE  /\ SubSeq(Chains, k + 1, 4) # <<>>
             /\ Head(SubSeq(Chains, k + 1, 4)) = Chains[k + 1]
             /\ Tail(SubSeq(Chains, k + 1, 4)) = SubSeq(Chains, k + 2, 4)
  <2>1. k + 1 \in 1 .. Len(Chains) /\ 4 \in k + 1 .. Len(Chains) /\ k + 1 + 1 = k + 2
    BY <1>2
  <2>2. /\ Head(SubSeq(Chains, k + 1, 4)) = Chains[k + 1]
        /\ Tail(SubSeq(Chains, k + 1, 4)) = SubSeq(Chains, k + 2, 4)
    BY <1>1, <2>1, HeadTailOfSubSeq
  <2>3. Len(SubSeq(Chains, k + 1, 4)) = 4 - k
    <3>1. \A i \in k + 1 .. 4 : Chains[i] \in ChainNames
      <4>1. \A i \in 1 .. 4 : Chains[i] \in ChainNames
        BY DEF Chains, ChainNames
      <4>2. \A i \in k + 1 .. 4 : i \in 1 .. 4
        OBVIOUS
      <4> QED BY <4>1, <4>2
    <3>2. k + 1 \in Int /\ 4 \in Int /\ k + 1 <= 4 /\ 4 - (k + 1) + 1 = 4 - k
      OBVIOUS
    <3>3. Len(SubSeq(Chains, k + 1, 4)) = IF k + 1 <= 4 THEN 4 - (k + 1) + 1 ELSE 0
      BY <3>1, <3>2, SubSeqProperties
    <3> QED BY <3>2, <3>3
  <2>4. Len(<<>>) = 0 /\ 4 - k # 0
    OBVIOUS
  <2>5. SubSeq(Chains, k + 1, 4) # <<>>
    BY <2>3, <2>4
  <2> QED BY <2>2, <2>5
<1> QED BY <1>3, <1>4, <1>5

(* A step of a run that is not the one the others' networks rest on.       *)
LEMMA NetsStay ==
    ASSUME SecurityInv, NEW w \in Handlers, Others(w), StableNets' = StableNets,
           run[w].pc \in {"build", "save"}, ~Builds(w), nft \subseteq nft'
    PROVE  NetsCared'
<1>1. CASE ~Wg0Exists \/ StableNets = {}
  BY <1>1 DEF NetsCared
<1>2. CASE At({"list", "tc", "wg", "drop"} \cup Listing) # {}
  <2>1. PICK v \in Handlers : run[v].pc \in {"list", "tc", "wg", "drop"} \cup Listing
    BY <1>2 DEF At
  <2>2. run'[v] = run[v]
    BY <2>1 DEF Others, Listing
  <2> QED BY <2>1, <2>2 DEF NetsCared, At
<1>3. CASE \E v \in Handlers : Builds(v)
  <2>1. PICK v \in Handlers \ {w} : Builds(v)
    BY <1>3
  <2>2. run'[v] = run[v]
    BY DEF Others
  <2>3. Builds(v)'
    BY <2>1, <2>2 DEF Builds
  <2> QED BY <2>3 DEF NetsCared
<1>4. CASE StableNets \cup {"forward", "firewall", "rate"} \subseteq nft
  BY <1>4 DEF NetsCared
<1> QED BY <1>1, <1>2, <1>3, <1>4 DEF SecurityInv, NetsCared

LEMMA ObjectsAdded ==
    ASSUME NEW object
    PROVE  nft \subseteq WithObject(object)
  BY DEF WithObject

(* A run that has added all its chains and removed nothing since.          *)
LEMMA ChainsBuilt ==
    ASSUME NEW w \in Handlers, Builds(w), run[w].chains = <<>>
    PROVE  {"table", "forward", "firewall", "rate"} \subseteq nft
<1>1. PICK k \in 0 .. 4 : /\ run[w].chains = SubSeq(Chains, k + 1, 4)
                         /\ \A i \in 1 .. k : Chains[i] \in nft
  BY DEF Builds
<1>2. k = 4
  <2>1. k \in 0 .. 3 => SubSeq(Chains, k + 1, 4) # <<>>
    BY ChainsLeft
  <2> QED BY <1>1, <2>1
<1>3. /\ Chains[1] = "table" /\ Chains[2] = "forward" /\ Chains[3] = "firewall"
      /\ Chains[4] = "rate"
  BY DEF Chains
<1> QED BY <1>1, <1>2, <1>3

(* The table is built anew by whoever removed it last: its chains, in the  *)
(* order in which each can be added, and then the limits.                  *)
LEMMA TableKept ==
    ASSUME SecurityInv, NEW w \in Handlers, UNCHANGED stable,
           ListNetworks(w) \/ DropTable(w) \/ Build(w) \/ Limit(w) \/ AllLimited(w)
    PROVE  SecurityInv'
<1>1. run[w] \in Runs /\ nets \subseteq Networks /\ StableNets \subseteq nets
  BY RunTyped DEF SecurityInv, SecurityTypeOK, StableNets
<1>2. Places = {"none", "list", "flush4", "flush6", "load4", "load6", "tc", "wg", "drop",
                "build", "save"}
  BY DEF Places, Listing
<1>3. UNCHANGED <<host, rules4, rules6, shaped, stable>>
  BY DEF ListNetworks, DropTable, Build, Limit, AllLimited
<1>4. CASE ListNetworks(w)
  <2>1. PICK r : r = IF Wg0Exists THEN [run[w] EXCEPT !.pc = "drop", !.left = nets]
                     ELSE [run[w] EXCEPT !.pc = "save"]
    OBVIOUS
  <2>2. /\ r \in Runs /\ r.pc \in {"drop", "save"}
        /\ r.pc = "drop" => nets = r.left
        /\ Wg0Exists => r.pc = "drop"
    <3>1. CASE Wg0Exists
      BY <1>1, <1>2, <2>1, <3>1 DEF Runs
    <3>2. CASE ~Wg0Exists
      BY <1>1, <1>2, <2>1, <3>2 DEF Runs
    <3> QED BY <3>1, <3>2
  <2>3. run' = [run EXCEPT ![w] = r] /\ run[w].pc = "wg"
    BY <1>4, <2>1 DEF ListNetworks
  <2>4. /\ SecurityTypeOK' /\ ListsComplete' /\ LinksCared' /\ run'[w] = r
    BY <1>1, <1>3, <2>2, <2>3, NetStepKeeps
  <2>5. NetsCared'
    BY <2>2, <2>4 DEF NetsCared, At
  <2> QED BY <2>4, <2>5 DEF SecurityInv
<1>5. CASE DropTable(w)
  <2>1. PICK c : c = IF run[w].left = {} THEN SubSeq(Chains, 1, 3) ELSE Chains
    OBVIOUS
  <2>2. PICK r : r = [run[w] EXCEPT !.pc = "build", !.chains = c]
    OBVIOUS
  <2>3. c \in Seq(ChainNames)
    <3>1. Chains \in Seq(ChainNames)
      BY DEF Chains, ChainNames
    <3>2. Len(Chains) = 4 /\ \A i \in 1 .. 3 : Chains[i] \in ChainNames
      BY DEF Chains, ChainNames
    <3>3. SubSeq(Chains, 1, 3) \in Seq(ChainNames)
      BY <3>2, SubSeqProperties
    <3> QED BY <2>1, <3>1, <3>3
  <2>4. r \in Runs /\ r.pc = "build" /\ r.left = run[w].left /\ r.chains = c
    BY <1>1, <1>2, <2>2, <2>3 DEF Runs
  <2>5. run' = [run EXCEPT ![w] = r] /\ run[w].pc = "drop" /\ nft' = {}
    BY <1>5, <2>1, <2>2 DEF DropTable
  <2>6. /\ SecurityTypeOK' /\ ListsComplete' /\ LinksCared' /\ run'[w] = r
        /\ StableNets' = StableNets
    BY <1>3, <2>4, <2>5, NetStepKeeps
  <2>7. StableNets \subseteq run[w].left
    BY <2>5 DEF SecurityInv, ListsComplete, At
  <2>8. ASSUME StableNets # {} PROVE Builds(w)'
    <3>1. run'[w].chains = SubSeq(Chains, 0 + 1, 4)
      BY <2>1, <2>4, <2>6, <2>7, <2>8, ChainsLeft
    <3>2. \A i \in 1 .. 0 : Chains[i] \in nft'
      OBVIOUS
    <3>3. \E k \in 0 .. 4 : /\ run'[w].chains = SubSeq(Chains, k + 1, 4)
                            /\ \A i \in 1 .. k : Chains[i] \in nft'
      BY <3>1, <3>2
    <3> QED BY <2>4, <2>6, <2>7, <3>3 DEF Builds
  <2>9. NetsCared'
    BY <2>6, <2>8 DEF NetsCared
  <2> QED BY <2>6, <2>9 DEF SecurityInv
<1>6. CASE Build(w)
  <2>1. PICK r : r = [run[w] EXCEPT !.chains = Tail(run[w].chains)]
    OBVIOUS
  <2>2. Tail(run[w].chains) \in Seq(ChainNames)
    BY <1>1, <1>6, HeadTailProperties DEF Runs, Build
  <2>3. /\ r \in Runs /\ r.pc = "build" /\ r.left = run[w].left
        /\ r.chains = Tail(run[w].chains)
    BY <1>1, <1>6, <2>1, <2>2 DEF Runs, Build
  <2>4. /\ run' = [run EXCEPT ![w] = r] /\ run[w].pc = "build"
        /\ nft' = WithObject(Head(run[w].chains)) /\ run[w].chains # <<>>
    BY <1>6, <2>1 DEF Build
  <2>5. /\ SecurityTypeOK' /\ ListsComplete' /\ LinksCared' /\ run'[w] = r
        /\ Others(w) /\ StableNets' = StableNets
    BY <1>3, <2>3, <2>4, NetStepKeeps
  <2>6. nft \subseteq nft'
    BY <2>4, ObjectsAdded
  <2>7. ASSUME Builds(w) PROVE Builds(w)'
    <3>1. PICK k \in 0 .. 4 : /\ run[w].chains = SubSeq(Chains, k + 1, 4)
                             /\ \A i \in 1 .. k : Chains[i] \in nft
      BY <2>7 DEF Builds
    <3>2. k \in 0 .. 3
      <4>1. k # 4
        BY <2>4, <3>1, ChainsLeft
      <4> QED BY <4>1
    <3>3. Chains[k + 1] \in nft'
      <4>1. nft' = WithObject(Chains[k + 1])
        BY <2>4, <3>1, <3>2, ChainsLeft
      <4>2. /\ Chains[1] = "table" /\ Chains[2] = "forward" /\ Chains[3] = "firewall"
            /\ Chains[4] = "rate"
        BY DEF Chains
      <4>3. k >= 1 => "table" \in nft
        BY <3>1, <4>2
      <4>4. k >= 2 => "forward" \in nft
        BY <3>1, <4>2
      <4>5. Chains[k + 1] = "table" \/ Parent(Chains[k + 1]) \in nft
        <5>1. k = 0 \/ k = 1 \/ k = 2 \/ k = 3
          BY <3>2
        <5> QED BY <4>2, <4>3, <4>4, <5>1 DEF Parent
      <4> QED BY <4>1, <4>5 DEF WithObject
    <3>4. k + 1 \in 0 .. 4 /\ k + 1 + 1 = k + 2
      BY <3>2
    <3>5. run'[w].chains = SubSeq(Chains, k + 1 + 1, 4)
      BY <2>3, <2>5, <3>1, <3>2, <3>4, ChainsLeft
    <3>6. \A i \in 1 .. k + 1 : Chains[i] \in nft'
      BY <2>6, <3>1, <3>3
    <3> QED BY <2>3, <2>5, <2>6, <2>7, <3>4, <3>5, <3>6 DEF Builds
  <2>8. NetsCared'
    <3>1. CASE Builds(w)
      BY <2>7, <3>1 DEF NetsCared
    <3>2. CASE ~Builds(w)
      BY <2>4, <2>5, <2>6, <3>2, NetsStay
    <3> QED BY <3>1, <3>2
  <2> QED BY <2>5, <2>8 DEF SecurityInv
<1>7. CASE Limit(w)
  <2>1. PICK n \in run[w].left :
          nft' = WithObject(n) /\ run' = [run EXCEPT ![w].left = @ \ {n}]
    BY <1>7 DEF Limit
  <2>2. PICK r : r = [run[w] EXCEPT !.left = run[w].left \ {n}]
    OBVIOUS
  <2>3. /\ r \in Runs /\ r.pc = "build" /\ r.left = run[w].left \ {n}
        /\ r.chains = run[w].chains
    BY <1>1, <1>7, <2>2 DEF Runs, Limit
  <2>4. run' = [run EXCEPT ![w] = r] /\ run[w].pc = "build" /\ run[w].chains = <<>>
    BY <1>7, <2>1, <2>2 DEF Limit
  <2>5. /\ SecurityTypeOK' /\ ListsComplete' /\ LinksCared' /\ run'[w] = r
        /\ Others(w) /\ StableNets' = StableNets
    BY <1>3, <2>3, <2>4, NetStepKeeps
  <2>6. nft \subseteq nft'
    BY <2>1, ObjectsAdded
  <2>7. ASSUME Builds(w) PROVE Builds(w)'
    <3>1. {"table", "forward", "firewall", "rate"} \subseteq nft
      BY <2>4, <2>7, ChainsBuilt
    <3>2. n \in nft'
      BY <2>1, <3>1 DEF WithObject, Parent
    <3>3. \E k \in 0 .. 4 : /\ run'[w].chains = SubSeq(Chains, k + 1, 4)
                            /\ \A i \in 1 .. k : Chains[i] \in nft'
      BY <2>3, <2>5, <2>6, <2>7 DEF Builds
    <3>4. StableNets' \subseteq nft' \cup run'[w].left
      BY <2>3, <2>5, <2>6, <2>7, <3>2 DEF Builds
    <3> QED BY <2>3, <2>5, <3>3, <3>4 DEF Builds
  <2>8. NetsCared'
    <3>1. CASE Builds(w)
      BY <2>7, <3>1 DEF NetsCared
    <3>2. CASE ~Builds(w)
      BY <2>4, <2>5, <2>6, <3>2, NetsStay
    <3> QED BY <3>1, <3>2
  <2> QED BY <2>5, <2>8 DEF SecurityInv
<1>8. CASE AllLimited(w)
  <2>1. PICK r \in Runs : run' = [run EXCEPT ![w] = r] /\ r.pc = "save"
    BY <1>2, <1>8, GotoRuns DEF AllLimited
  <2>2. run[w].pc = "build" /\ run[w].chains = <<>> /\ run[w].left = {} /\ nft' = nft
    BY <1>8 DEF AllLimited
  <2>3. /\ SecurityTypeOK' /\ ListsComplete' /\ LinksCared' /\ run'[w] = r
        /\ Others(w) /\ StableNets' = StableNets
    BY <1>3, <2>1, <2>2, NetStepKeeps
  <2>4. ASSUME Builds(w)
        PROVE  StableNets \cup {"forward", "firewall", "rate"} \subseteq nft
    BY <2>2, <2>4, ChainsBuilt DEF Builds
  <2>5. NetsCared'
    <3>1. CASE Builds(w)
      BY <2>2, <2>3, <2>4, <3>1 DEF NetsCared
    <3>2. CASE ~Builds(w)
      BY <2>2, <2>3, <3>2, NetsStay
    <3> QED BY <3>1, <3>2
  <2> QED BY <2>3, <2>5 DEF SecurityInv
<1> QED BY <1>4, <1>5, <1>6, <1>7, <1>8

(* The run ends.                                                           *)
LEMMA SaveKeeps ==
    ASSUME SecurityInv, NEW w \in Handlers, UNCHANGED stable, Save(w)
    PROVE  SecurityInv'
<1>1. /\ run' = [run EXCEPT ![w] = NoRun] /\ run[w].pc = "save" /\ nft' = nft
      /\ UNCHANGED <<host, rules4, rules6, shaped, stable>>
  BY DEF Save
<1>2. /\ SecurityTypeOK' /\ ListsComplete' /\ LinksCared' /\ Others(w)
      /\ StableNets' = StableNets
  BY <1>1, NoRunTyped, NetStepKeeps
<1>3. ~Builds(w)
  BY <1>1 DEF Builds
<1>4. NetsCared'
  BY <1>1, <1>2, <1>3, NetsStay
<1> QED BY <1>2, <1>4 DEF SecurityInv

-----------------------------------------------------------------------------

(* The invariant that the runs keep, whatever the order of their steps.    *)
THEOREM SecurityInvariance == PropertySpec => []SecurityInv
<1>1. PropertyInit => SecurityInv
  <2> SUFFICES ASSUME PropertyInit PROVE SecurityInv
    OBVIOUS
  <2>1. run = [w \in Handlers |-> NoRun] /\ StableLinks = {} /\ StableNets = {}
    BY DEF PropertyInit, Init, StableLinks, StableNets
  <2>2. SecurityTypeOK
    BY <2>1, NoRunTyped DEF SecurityTypeOK, PropertyInit, Init
  <2> QED BY <2>1, <2>2, NoRunTyped DEF SecurityInv, ListsComplete, LinksCared, NetsCared, At
<1>2. SecurityInv /\ [PropertyNext]_propertyVars => SecurityInv'
  <2> SUFFICES ASSUME SecurityInv, [PropertyNext]_propertyVars PROVE SecurityInv'
    OBVIOUS
  <2>1. ASSUME NEW w \in Handlers, Start(w),
               stable' = IF Running = {} THEN links' \cup nets'
                         ELSE stable \cap (links' \cup nets')
        PROVE  SecurityInv'
    BY <2>1, StartKeeps
  <2>2. ASSUME NEW w \in Handlers, ScriptStep(w), UNCHANGED stable
        PROVE  SecurityInv'
    BY <2>2, ChainsKept, LimitsKept, TableKept, SaveKeeps DEF ScriptStep
  <2>3. ASSUME UNCHANGED propertyVars PROVE SecurityInv'
    BY <2>3 DEF propertyVars, vars, SecurityInv, SecurityTypeOK, ListsComplete, LinksCared,
       NetsCared, At, StableLinks, StableNets, Builds
  <2> QED BY <2>1, <2>2, <2>3 DEF PropertyNext
<1> QED BY <1>1, <1>2, PTL DEF PropertySpec

(* However many runs of the script overlap, and in whatever order their    *)
(* commands remove and load rules: when all have ended, a tunnel that was  *)
(* there all the time has its rules and its limit.                         *)
THEOREM StableTunnelsHold == PropertySpec => []StableTunnelsProtected
<1>1. SecurityInv => StableTunnelsProtected
  <2> SUFFICES ASSUME SecurityInv, Running = {} PROVE
        /\ stable \cap links \subseteq rules4 \cap rules6 \cap shaped
        /\ Wg0Exists => stable \cap nets \subseteq nft
        /\ Wg0Exists /\ stable \cap nets # {} => {"forward", "firewall", "rate"} \subseteq nft
    BY DEF StableTunnelsProtected
  <2>1. \A w \in Handlers : run[w].pc = "none"
    BY NoRunTyped DEF Running
  <2>2. /\ At({"list", "flush4", "flush6", "load4"}) = {}
        /\ At({"list"} \cup Listing) = {} /\ At({"tc"}) = {}
        /\ At({"list", "tc", "wg", "drop"} \cup Listing) = {}
        /\ \A w \in Handlers : ~Builds(w)
    BY <2>1 DEF At, Listing, Builds
  <2>3. stable \cap links \subseteq rules4 \cap rules6 \cap shaped
    BY <2>2 DEF SecurityInv, LinksCared, StableLinks
  <2>4. ~Wg0Exists \/ StableNets = {} \/ StableNets \cup {"forward", "firewall", "rate"} \subseteq nft
    BY <2>2 DEF SecurityInv, NetsCared
  <2> QED BY <2>3, <2>4 DEF StableNets
<1> QED BY <1>1, SecurityInvariance, PTL
=============================================================================
