------------------------- MODULE SecurityProperties -------------------------
(***************************************************************************)
(* Which links and networks the runs of the script leave protected, with   *)
(* one history variable: those there were when the first of the runs that  *)
(* last overlapped began, and have been there ever since.                  *)
(***************************************************************************)
EXTENDS SecurityScript

VARIABLE stable

propertyVars == <<vars, stable>>

Running == {w \in Handlers : run[w] # NoRun}

PropertyInit == Init /\ stable = {}

PropertyNext ==
    \/ \E w \in Handlers : Start(w) /\ stable' = IF Running = {} THEN links' \cup nets'
                                                ELSE stable \cap (links' \cup nets')
    \/ \E w \in Handlers : ScriptStep(w) /\ UNCHANGED stable

PropertySpec == PropertyInit /\ [][PropertyNext]_propertyVars

-----------------------------------------------------------------------------

(* However the runs of the script interleave, each removing what the       *)
(* others load, once all have ended a tunnel that was there from before    *)
(* the first of them has the rules in both chains and its rate limit, or   *)
(* the rate limit of its networks together with the firewall of wg0.       *)
StableTunnelsProtected ==
    Running = {} =>
        /\ stable \cap links \subseteq rules4 \cap rules6 \cap shaped
        /\ Wg0Exists => stable \cap nets \subseteq nft
        /\ Wg0Exists /\ stable \cap nets # {} => {"forward", "firewall", "rate"} \subseteq nft

(* No run loses another tunnel's rules for good: every tunnel there is has *)
(* its rules once all runs have ended, as "Automatic security rules        *)
(* application for new tunnels" says.                                      *)
NewTunnelsProtected ==
    Running = {} => links \subseteq rules4 \cap rules6
=============================================================================
