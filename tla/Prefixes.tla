------------------------------- MODULE Prefixes -------------------------------
(***************************************************************************)
(* How the broker derives the three delegated /64 prefixes of a tunnel     *)
(* (internal/tunnels/service.go).  A prefix is the text the code stores in *)
(* the table: the pool it was cut from, the hex digit put in the last      *)
(* position of the third group, and the fourth group.  The first two       *)
(* prefixes print the fourth group from the parsed number (canonical hex), *)
(* the third one pastes the user id as it was received, so two spellings   *)
(* of one number give two texts that are one network to the kernel.        *)
(***************************************************************************)
EXTENDS Integers, Sequences

CONSTANTS
    Users,        \* four-character user ids, as requests spell them
    Groups,       \* canonical spellings of the 16-bit numbers they denote
    Canonical,    \* the number each id denotes; NotHex if ParseUint refuses it
    NotHex,
    Primary,      \* para1.primary and para2.primary, the /44 pools
    Secondary,    \* para1.secondary and para2.secondary
    Third,        \* the /48 pool of third prefixes
    AltThird,     \* the alternative /48 pool, or NoPool when not configured
    NoPool,
    RandN,        \* mathrand.Intn(RandN) and mathrand.Intn(RandBits): 8 and 2 in
    RandBits,     \* the code
    MaxAttempts   \* 10 in the code

Slots == 1 .. 2

Pools == {Primary[n] : n \in Slots} \cup {Secondary[n] : n \in Slots}
         \cup ({Third, AltThird} \ {NoPool})

ASSUME UserAssumption ==
    /\ NotHex \notin Groups
    /\ Canonical \in [Users -> Groups \cup {NotHex}]
    /\ \A g \in Groups \cap Users : Canonical[g] = g

ASSUME PoolAssumption ==
    /\ NoPool \notin {Primary[1], Primary[2], Secondary[1], Secondary[2], Third}
    /\ Primary[1] # Primary[2]
    /\ Secondary[1] # Secondary[2]
    /\ \A n, m \in Slots : Primary[n] # Secondary[m]
    /\ \A n \in Slots : {Primary[n], Secondary[n]} \cap {Third, AltThird} = {}
    /\ Third # AltThird

ASSUME AttemptAssumption == {RandN, RandBits, MaxAttempts} \subseteq Nat \ {0}

-----------------------------------------------------------------------------

Digits == {(i + randomBit) % 16 : i \in 0 .. (RandN - 1), randomBit \in 0 .. (RandBits - 1)}

Prefix == [pool : Pools, digit : 0 .. 15, group : Groups \cup Users]

ParsesAsHex(userID) == Canonical[userID] # NotHex

(* Mistake: the pool's own number is printed, the user's is not put in.    *)
PrefixOfPoolOnly(pool, digit, userID) ==
    [pool |-> pool, digit |-> digit, group |-> CHOOSE g \in Groups : TRUE]

generateDelegatedPrefix(pool, digit, userID) ==
    [pool |-> pool, digit |-> digit, group |-> Canonical[userID]]

generateThirdPrefix(pool, userID) ==
    [pool |-> pool, digit |-> 0, group |-> userID]

hasAltPool == AltThird # NoPool

(* The pools the third prefix is tried from, MaxAttempts times each, in    *)
(* order: the primary one for the first tunnel only, then the alternative  *)
(* one if configured, then the primary one again as a fallback unless this *)
(* is the first tunnel and an alternative pool exists.                     *)
ThirdPools(pairNumber) ==
    (IF pairNumber = 1 THEN <<Third>> ELSE <<>>)
    \o (IF hasAltPool THEN <<AltThird>> ELSE <<>>)
    \o (IF pairNumber # 1 \/ ~hasAltPool THEN <<Third>> ELSE <<>>)

ThirdPoolOfAttempt(pairNumber, attempt) ==
    ThirdPools(pairNumber)[(attempt \div MaxAttempts) + 1]

ThirdAttempts(pairNumber) == MaxAttempts * Len(ThirdPools(pairNumber))

(* The network a prefix text denotes: what ip(8) and wg(8) make of it.     *)
Net(p) == [p EXCEPT !.group = IF @ \in Users THEN Canonical[@] ELSE @]

Nets == [pool : Pools, digit : 0 .. 15, group : Groups]
=============================================================================
