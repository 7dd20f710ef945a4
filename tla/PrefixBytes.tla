----------------------------- MODULE PrefixBytes -----------------------------
(***************************************************************************)
(* The arithmetic behind module Prefixes: the upper eight bytes of the     *)
(* /64 networks of a tunnel (generateDelegatedPrefix, generateThirdPrefix  *)
(* and the ULA network, internal/tunnels/service.go), and the text of the  *)
(* third prefix, which is pasted from the pool's and never parsed.  The    *)
(* theorems say what module Prefixes relies on: networks are equal only if *)
(* pool, digit and user number are, and each lies in its pool.             *)
(***************************************************************************)
EXTENDS Integers, Sequences, TLAPS

Byte == 0 .. 255

Hextet == 0 .. 65535

Upper == [0 .. 7 -> Byte]

-----------------------------------------------------------------------------
(* The networks *)

(* net.ParseCIDR clears the bits after the mask.                           *)
Pool44 == {ip \in Upper : ip[5] % 16 = 0 /\ ip[6] = 0 /\ ip[7] = 0}

Pool48 == {ip \in Upper : ip[6] = 0 /\ ip[7] = 0}

High(n) == (n \div 256) % 256

Low(n) == n % 256

WithHextet(ip, n) == [ip EXCEPT ![6] = High(n), ![7] = Low(n)]

WithDigit(ip, digit) == [ip EXCEPT ![5] = 16 * (@ \div 16) + digit]

DelegatedPrefix(pool, digit, userNum) == WithHextet(WithDigit(pool, digit), userNum)

UlaNetwork(ulaBase, seq) == WithHextet(ulaBase, seq)

In48(ip, pool) == \A i \in 0 .. 5 : ip[i] = pool[i]

In44(ip, pool) == (\A i \in 0 .. 4 : ip[i] = pool[i]) /\ ip[5] \div 16 = pool[5] \div 16

-----------------------------------------------------------------------------
(* The text of the third prefix: what strings.Split makes of it at each    *)
(* colon, a number or, between two colons, nothing.                        *)

Gap == -1

Text == Seq(Hextet \cup {Gap})

(* The fourth part only has to be there.                                   *)
HasFourParts(text) == Len(text) >= 4

ThirdText(text, userNum) == <<text[1], text[2], text[3], userNum, Gap, Gap>>

(* An address leaves out zeros in one place at most: "::" is a part that   *)
(* is empty, two at the end of a text.                                     *)
Shortened(text) == {i \in DOMAIN text : text[i] = Gap /\ (i > 1 => text[i - 1] # Gap)}

validateIPv6Address(text) == \A i, j \in Shortened(text) : i = j

(* The bytes of a text that begins with four numbers and leaves out the    *)
(* rest, as that of a third prefix, or three, as a /48 pool.               *)
BytesOf(a, b, c, d) ==
    [i \in 0 .. 7 |-> LET n == CASE i < 2 -> a [] i \in 2 .. 3 -> b [] i \in 4 .. 5 -> c [] OTHER -> d
                      IN  IF i % 2 = 0 THEN High(n) ELSE Low(n)]

ThirdPrefix(text, userNum) == BytesOf(text[1], text[2], text[3], userNum)

ThirdPool(text) == BytesOf(text[1], text[2], text[3], 0)

-----------------------------------------------------------------------------
(* The records of module Prefixes, over pools that carry their mask: the   *)
(* digit of a third prefix, which has none, is 0.                          *)

Records(pools44, pools48) ==
    [mask : {44}, pool : pools44, digit : 0 .. 15, group : Hextet]
    \cup [mask : {48}, pool : pools48, digit : {0}, group : Hextet]

Network(r) ==
    IF r.mask = 44 THEN DelegatedPrefix(r.pool, r.digit, r.group) ELSE WithHextet(r.pool, r.group)

-----------------------------------------------------------------------------
LEMMA HextetIsNat ==
    ASSUME NEW n \in Hextet
    PROVE  n \in Nat
BY DEF Hextet

LEMMA HighOfHextet ==
    ASSUME NEW n \in Hextet
    PROVE  High(n) = n \div 256 /\ High(n) \in Byte
<1> DEFINE q == n \div 256
<1>1. q \in Int
  BY DEF Hextet
<1>2. q >= 0
  BY DEF Hextet
<1>3. q < 256
  BY DEF Hextet
<1> HIDE DEF q
<1>4. q \in Byte
  BY <1>1, <1>2, <1>3 DEF Byte
<1>5. q % 256 = q
  BY <1>1, <1>2, <1>3
<1> QED
  BY <1>4, <1>5 DEF q, High

LEMMA LowOfHextet ==
    ASSUME NEW n \in Hextet
    PROVE  Low(n) \in Byte
BY DEF Low, Hextet, Byte

(* A 16-bit number can be read back from its two bytes.                    *)
LEMMA TwoBytes ==
    ASSUME NEW u \in Hextet, NEW v \in Hextet, High(u) = High(v), Low(u) = Low(v)
    PROVE  u = v
<1>1. u \in Nat /\ v \in Nat
  BY HextetIsNat
<1>2. u \div 256 = v \div 256 /\ u % 256 = v % 256
  BY HighOfHextet DEF Low
<1> QED
  BY <1>1, <1>2

LEMMA TopDigit ==
    ASSUME NEW b \in Byte
    PROVE  b \div 16 \in 0 .. 15
BY DEF Byte

LEMMA DigitByte ==
    ASSUME NEW q \in 0 .. 15, NEW digit \in 0 .. 15
    PROVE  16 * q + digit \in Byte /\ (16 * q + digit) \div 16 = q
BY DEF Byte

LEMMA SameDigits ==
    ASSUME NEW b \in Byte, NEW c \in Byte, NEW d \in 0 .. 15, NEW e \in 0 .. 15,
           b % 16 = 0, c % 16 = 0, 16 * (b \div 16) + d = 16 * (c \div 16) + e
    PROVE  b = c /\ d = e
BY DEF Byte

LEMMA HextetWritten ==
    ASSUME NEW ip \in Upper, NEW n \in Hextet
    PROVE  /\ WithHextet(ip, n) \in Upper
           /\ \A i \in 0 .. 5 : WithHextet(ip, n)[i] = ip[i]
           /\ WithHextet(ip, n)[6] = High(n) /\ WithHextet(ip, n)[7] = Low(n)
BY HighOfHextet, LowOfHextet DEF WithHextet, Upper

LEMMA DigitWritten ==
    ASSUME NEW ip \in Upper, NEW digit \in 0 .. 15
    PROVE  /\ WithDigit(ip, digit) \in Upper
           /\ \A i \in (0 .. 7) \ {5} : WithDigit(ip, digit)[i] = ip[i]
           /\ WithDigit(ip, digit)[5] = 16 * (ip[5] \div 16) + digit
           /\ WithDigit(ip, digit)[5] \div 16 = ip[5] \div 16
<1>1. ip[5] \in Byte
  BY DEF Upper
<1>2. /\ 16 * (ip[5] \div 16) + digit \in Byte
      /\ (16 * (ip[5] \div 16) + digit) \div 16 = ip[5] \div 16
  BY <1>1, TopDigit, DigitByte
<1> QED
  BY <1>2 DEF WithDigit, Upper

-----------------------------------------------------------------------------

(* A first or second prefix lies in the /44 pool it is cut from, whatever  *)
(* digit is drawn and whoever the user is (generateDelegatedPrefix).       *)
THEOREM DelegatedInPool ==
    ASSUME NEW pool \in Pool44, NEW digit \in 0 .. 15, NEW userNum \in Hextet
    PROVE  /\ DelegatedPrefix(pool, digit, userNum) \in Upper
           /\ In44(DelegatedPrefix(pool, digit, userNum), pool)
<1>1. pool \in Upper
  BY DEF Pool44
<1>2. WithDigit(pool, digit) \in Upper
  BY <1>1, DigitWritten
<1> QED
  BY <1>1, <1>2, DigitWritten, HextetWritten DEF DelegatedPrefix, In44

(* Pool, digit and user number can be read back from a first or second     *)
(* prefix: two of them are one network only if all three are the same.     *)
THEOREM DelegatedInjective ==
    ASSUME NEW p \in Pool44, NEW q \in Pool44, NEW d \in 0 .. 15, NEW e \in 0 .. 15,
           NEW u \in Hextet, NEW v \in Hextet,
           DelegatedPrefix(p, d, u) = DelegatedPrefix(q, e, v)
    PROVE  p = q /\ d = e /\ u = v
<1> DEFINE a == WithDigit(p, d)
           b == WithDigit(q, e)
<1>1. p \in Upper /\ q \in Upper /\ a \in Upper /\ b \in Upper
  BY DigitWritten DEF Pool44
<1>2. /\ \A i \in 0 .. 5 : a[i] = b[i]
      /\ High(u) = High(v) /\ Low(u) = Low(v)
  BY <1>1, HextetWritten DEF DelegatedPrefix
<1>3. u = v
  BY <1>2, TwoBytes
<1>4. \A i \in 0 .. 4 : p[i] = q[i]
  <2> TAKE i \in 0 .. 4
  <2>1. a[i] = p[i] /\ b[i] = q[i]
    BY <1>1, DigitWritten
  <2> QED
    BY <1>2, <2>1
<1>5. p[5] = q[5] /\ d = e
  <2>1. 16 * (p[5] \div 16) + d = 16 * (q[5] \div 16) + e
    <3>1. a[5] = 16 * (p[5] \div 16) + d
      BY <1>1, DigitWritten
    <3>2. b[5] = 16 * (q[5] \div 16) + e
      BY <1>1, DigitWritten
    <3>3. a[5] = b[5]
      BY <1>2
    <3> HIDE DEF a, b
    <3> QED
      BY <3>1, <3>2, <3>3, Zenon
  <2>2. p[5] \in Byte /\ q[5] \in Byte /\ p[5] % 16 = 0 /\ q[5] % 16 = 0
    BY <1>1 DEF Upper, Pool44
  <2> QED
    BY <2>1, <2>2, SameDigits
<1>6. \A i \in 0 .. 7 : p[i] = q[i]
  <2>1. p[6] = q[6] /\ p[7] = q[7]
    BY DEF Pool44
  <2> QED
    BY <1>4, <1>5, <2>1
<1> QED
  BY <1>1, <1>3, <1>5, <1>6 DEF Upper

(* A network of a /48 pool, third prefix or ULA endpoint network, lies in  *)
(* the pool, and its number can be read back.                              *)
THEOREM HextetInjective ==
    ASSUME NEW p \in Pool48, NEW q \in Pool48, NEW u \in Hextet, NEW v \in Hextet
    PROVE  /\ WithHextet(p, u) \in Upper /\ In48(WithHextet(p, u), p)
           /\ WithHextet(p, u) = WithHextet(q, v) => p = q /\ u = v
<1>1. p \in Upper /\ q \in Upper
  BY DEF Pool48
<1>2. ASSUME WithHextet(p, u) = WithHextet(q, v)
      PROVE  p = q /\ u = v
  <2>1. /\ \A i \in 0 .. 5 : p[i] = q[i]
        /\ High(u) = High(v) /\ Low(u) = Low(v)
    BY <1>1, <1>2, HextetWritten
  <2>2. \A i \in 0 .. 7 : p[i] = q[i]
    BY <2>1 DEF Pool48
  <2> QED
    BY <1>1, <2>1, <2>2, TwoBytes DEF Upper
<1> QED
  BY <1>1, <1>2, HextetWritten DEF In48

(* Networks are equal exactly when the records of module Prefixes are, for *)
(* pools of which no /48 lies in a /44: what the properties say of records *)
(* they say of networks.                                                   *)
THEOREM RecordsStandForNetworks ==
    ASSUME NEW P, P \subseteq Pool44, NEW T, T \subseteq Pool48,
           \A p \in P, t \in T : ~In44(t, p),
           NEW r \in Records(P, T), NEW s \in Records(P, T)
    PROVE  Network(r) = Network(s) <=> r = s
<1> SUFFICES ASSUME Network(r) = Network(s) PROVE r = s
  OBVIOUS
<1> DEFINE R44 == [mask : {44}, pool : P, digit : 0 .. 15, group : Hextet]
           R48 == [mask : {48}, pool : T, digit : {0}, group : Hextet]
<1>1. r \in R44 \cup R48 /\ s \in R44 \cup R48
  BY DEF Records
<1>2. ASSUME NEW x \in R44, NEW y \in R48 PROVE Network(x) # Network(y)
  <2>1. /\ Network(x) = DelegatedPrefix(x.pool, x.digit, x.group) /\ x.pool \in Pool44
        /\ Network(y) = WithHextet(y.pool, y.group) /\ y.pool \in Pool48
        /\ ~In44(y.pool, x.pool)
    BY DEF Network
  <2>2. In44(Network(x), x.pool)
    BY <2>1, DelegatedInPool
  <2>3. \A i \in 0 .. 5 : Network(y)[i] = y.pool[i]
    BY <2>1, HextetInjective DEF In48
  <2> QED
    BY <2>1, <2>2, <2>3 DEF In44
<1>3. CASE r \in R44 /\ s \in R44
  <2>1. r.pool = s.pool /\ r.digit = s.digit /\ r.group = s.group
    BY <1>3, DelegatedInjective DEF Network
  <2> QED
    BY <1>3, <2>1
<1>4. CASE r \in R48 /\ s \in R48
  <2>1. r.pool = s.pool /\ r.group = s.group
    BY <1>4, HextetInjective DEF Network
  <2> QED
    BY <1>4, <2>1
<1> QED
  BY <1>1, <1>2, <1>3, <1>4

-----------------------------------------------------------------------------

(* A third prefix is an address only if the pool is written with its first *)
(* three numbers: what Split leaves of "2a06:e881::", a /48 that ends in a *)
(* zero, is pasted with a second "::", and validateIPv6Address refuses it  *)
(* and every tunnel with it.                                               *)
THEOREM ThirdNeedsThreeNumbers ==
    ASSUME NEW text \in Text, HasFourParts(text), NEW userNum \in Hextet
    PROVE  validateIPv6Address(ThirdText(text, userNum)) <=> \A i \in 1 .. 3 : text[i] # Gap
<1> DEFINE t == ThirdText(text, userNum)
<1>1. /\ DOMAIN t = 1 .. 6
      /\ t[1] = text[1] /\ t[2] = text[2] /\ t[3] = text[3]
      /\ t[4] # Gap /\ t[5] = Gap /\ t[6] = Gap
  BY DEF ThirdText, Hextet, Gap
<1>2. 5 \in Shortened(t) /\ 4 \notin Shortened(t) /\ 6 \notin Shortened(t)
  BY <1>1 DEF Shortened
<1>3. ASSUME \A i \in 1 .. 3 : text[i] # Gap PROVE validateIPv6Address(t)
  <2>1. \A i \in Shortened(t) : i = 5
    BY <1>1, <1>2, <1>3 DEF Shortened
  <2> QED
    BY <2>1 DEF validateIPv6Address
<1>4. ASSUME NEW i \in 1 .. 3, text[i] = Gap PROVE ~validateIPv6Address(t)
  <2>1. \E j \in 1 .. 3 : j \in Shortened(t)
    BY <1>1, <1>4 DEF Shortened
  <2> QED
    BY <1>2, <2>1 DEF validateIPv6Address
<1> QED
  BY <1>3, <1>4

(* Pasted behind three numbers, the user number gives the same network as  *)
(* written into the pool's bytes, so it lies in the pool.                  *)
THEOREM ThirdIsWritten ==
    ASSUME NEW text \in Text, HasFourParts(text), \A i \in 1 .. 3 : text[i] # Gap,
           NEW userNum \in Hextet
    PROVE  /\ ThirdPool(text) \in Pool48
           /\ ThirdPrefix(text, userNum) = WithHextet(ThirdPool(text), userNum)
<1>1. \A i \in 1 .. 3 : text[i] \in Hextet
  BY DEF Text, HasFourParts
<1>2. ASSUME NEW n \in Hextet
      PROVE  /\ BytesOf(text[1], text[2], text[3], n) \in Upper
             /\ BytesOf(text[1], text[2], text[3], n)[6] = High(n)
             /\ BytesOf(text[1], text[2], text[3], n)[7] = Low(n)
  BY <1>1, HighOfHextet, LowOfHextet DEF BytesOf, Upper
<1>3. ThirdPool(text) \in Pool48
  <2>1. 0 \in Hextet /\ High(0) = 0 /\ Low(0) = 0
    BY DEF Hextet, High, Low
  <2> QED
    BY <1>2, <2>1 DEF ThirdPool, Pool48
<1>4. \A i \in 0 .. 7 : ThirdPrefix(text, userNum)[i] = WithHextet(ThirdPool(text), userNum)[i]
  <2>1. \A i \in 0 .. 5 : ThirdPrefix(text, userNum)[i] = ThirdPool(text)[i]
    BY DEF ThirdPrefix, ThirdPool, BytesOf
  <2>2. ThirdPool(text) \in Upper
    BY <1>3 DEF Pool48
  <2> QED
    BY <1>2, <2>1, <2>2, HextetWritten DEF ThirdPrefix
<1> QED
  BY <1>2, <1>3, <1>4, HextetWritten DEF ThirdPrefix, Pool48, Upper
=============================================================================
