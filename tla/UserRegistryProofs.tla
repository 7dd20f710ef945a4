-------------------------- MODULE UserRegistryProofs --------------------------
(***************************************************************************)
(* Proofs about module UserRegistry, for any accounts and codes.  Why a    *)
(* code is never issued twice does not show in the tables: it takes that   *)
(* public.users still has every code that was ever in public.relay, and    *)
(* that an account registers at most once.                                 *)
(***************************************************************************)
EXTENDS UserRegistry, TLAPS

Entry == [account : Accounts, code : Codes]

TypesOK ==
    /\ accounts \subseteq Accounts
    /\ issued \subseteq Entry
    /\ draw \in [Accounts -> Codes \cup {NoCode}]

(* The rows of public.users are the codes ever issued, each to one         *)
(* account, and each account was issued one.                               *)
IssuedOnce ==
    /\ users = {r.code : r \in issued}
    /\ \A r, s \in issued : r.code = s.code => r = s
    /\ \A r, s \in issued : r.account = s.account => r = s

(* An account that was issued a code is registered or gone, and neither    *)
(* begins to register again.                                               *)
RegistersOnce ==
    /\ \A r \in issued : r.account \in accounts \cup gone
    /\ \A a \in Registering : a \notin accounts \cup gone

(* The rows of public.relay are those of the accounts there are.           *)
RelayOfAccounts ==
    /\ relay \subseteq issued
    /\ accounts = {r.account : r \in relay}

IInv == TypesOK /\ IssuedOnce /\ RegistersOnce /\ RelayOfAccounts

-----------------------------------------------------------------------------

LEMMA InitEstablishes == Init => IInv
<1> SUFFICES ASSUME Init PROVE IInv
  OBVIOUS
<1>1. TypesOK
  BY DEF Init, TypesOK
<1>2. IssuedOnce
  BY DEF Init, IssuedOnce
<1>3. RegistersOnce
  BY DEF Init, RegistersOnce, Registering
<1>4. RelayOfAccounts
  BY DEF Init, RelayOfAccounts
<1> QED
  BY <1>1, <1>2, <1>3, <1>4 DEF IInv

(* The transaction of an account commits: its row is new in every table.   *)
LEMMA InsertPreserves ==
    ASSUME IInv, NEW a \in Accounts, insert_user_from_relay(a)
    PROVE  IInv'
<1> DEFINE row == [account |-> a, code |-> draw[a]]
<1>1. /\ a \notin accounts \cup gone /\ draw[a] \in Codes /\ draw[a] \notin users
      /\ users' = users \cup {draw[a]}
      /\ relay' = relay \cup {row} /\ issued' = issued \cup {row}
      /\ accounts' = accounts \cup {a} /\ gone' = gone
      /\ draw' = [draw EXCEPT ![a] = NoCode]
  BY DEF IInv, TypesOK, RegistersOnce, RelayOfAccounts, insert_user_from_relay, AddUser, Registering
<1>2. row \in Entry /\ \A r \in issued : r.account # a /\ r.code # draw[a]
  BY <1>1 DEF IInv, IssuedOnce, RegistersOnce, Entry
<1>3. TypesOK'
  BY <1>1, <1>2 DEF IInv, TypesOK
<1>4. IssuedOnce'
  <2>1. users' = {r.code : r \in issued'}
    <3>1. users = {r.code : r \in issued} /\ row.code = draw[a]
      BY DEF IInv, IssuedOnce
    <3> HIDE DEF row
    <3> QED
      BY <1>1, <3>1
  <2> QED
    BY <1>1, <1>2, <2>1 DEF IInv, IssuedOnce
<1>5. RegistersOnce'
  <2>1. \A r \in issued' : r.account \in accounts' \cup gone'
    BY <1>1 DEF IInv, RegistersOnce
  <2>2. ASSUME NEW b \in Registering' PROVE b \in Registering /\ b # a
    BY <1>1 DEF IInv, TypesOK, Registering
  <2> QED
    BY <1>1, <2>1, <2>2 DEF IInv, RegistersOnce
<1>6. RelayOfAccounts'
  <2>1. relay' \subseteq issued'
    BY <1>1 DEF IInv, RelayOfAccounts
  <2>2. accounts' = {r.account : r \in relay'}
    <3>1. accounts = {r.account : r \in relay} /\ row.account = a
      BY DEF IInv, RelayOfAccounts
    <3> HIDE DEF row
    <3> QED
      BY <1>1, <3>1
  <2> QED
    BY <2>1, <2>2 DEF RelayOfAccounts
<1> QED
  BY <1>3, <1>4, <1>5, <1>6 DEF IInv

(* An account is deleted: its one row of public.relay goes, that of        *)
(* public.users stays.                                                     *)
LEMMA DeletePreserves ==
    ASSUME IInv, NEW a \in Accounts, delete_relay(a)
    PROVE  IInv'
<1>1. /\ a \in accounts /\ accounts' = accounts \ {a} /\ gone' = gone \cup {a}
      /\ relay' = {r \in relay : r.account # a}
      /\ users' = users /\ draw' = draw /\ issued' = issued
  BY DEF delete_relay
<1>2. TypesOK' /\ IssuedOnce'
  BY <1>1 DEF IInv, TypesOK, IssuedOnce
<1>3. RegistersOnce'
  BY <1>1 DEF IInv, RegistersOnce, Registering
<1>4. RelayOfAccounts'
  <2>1. accounts' = {r.account : r \in relay'}
    BY <1>1 DEF IInv, RelayOfAccounts
  <2>2. relay' \subseteq issued'
    BY <1>1 DEF IInv, RelayOfAccounts
  <2> QED
    BY <2>1, <2>2 DEF RelayOfAccounts
<1> QED
  BY <1>2, <1>3, <1>4 DEF IInv

LEMMA StepPreserves == IInv /\ [Next]_vars => IInv'
<1> SUFFICES ASSUME IInv, [Next]_vars PROVE IInv'
  OBVIOUS
<1>1. ASSUME NEW a \in Accounts, create_relay_entry(a) PROVE IInv'
  <2>1. /\ a \notin accounts \cup gone
        /\ UNCHANGED <<accounts, gone, relay, users, issued>>
        /\ \E code \in Codes : draw' = [draw EXCEPT ![a] = code]
    BY <1>1 DEF create_relay_entry
  <2>2. Registering' \subseteq Registering \cup {a}
    BY <2>1 DEF IInv, TypesOK, Registering
  <2> QED
    BY <2>1, <2>2 DEF IInv, TypesOK, IssuedOnce, RegistersOnce, RelayOfAccounts
<1>2. ASSUME NEW a \in Accounts, Abort(a) PROVE IInv'
  <2>1. UNCHANGED <<accounts, gone, relay, users, issued>> /\ draw' = [draw EXCEPT ![a] = NoCode]
    BY <1>2 DEF Abort
  <2>2. Registering' \subseteq Registering
    BY <2>1 DEF IInv, TypesOK, Registering
  <2> QED
    BY <2>1, <2>2 DEF IInv, TypesOK, IssuedOnce, RegistersOnce, RelayOfAccounts
<1>3. CASE UNCHANGED vars
  BY <1>3 DEF vars, IInv, TypesOK, IssuedOnce, RegistersOnce, RelayOfAccounts, Registering
<1> QED
  BY <1>1, <1>2, <1>3, InsertPreserves, DeletePreserves DEF Next, Change

-----------------------------------------------------------------------------

(* The tables are as the invariant says after any registrations, aborted   *)
(* ones and deletions, in whatever order their transactions commit.        *)
THEOREM RegistryInvariance == Spec => []IInv
BY InitEstablishes, StepPreserves, PTL DEF Spec

(* No two accounts are ever issued one code, for any number of both.       *)
THEOREM CodesNeverReusedHolds == Spec => []CodesNeverReused
<1>1. IInv => CodesNeverReused
  BY DEF IInv, IssuedOnce, CodesNeverReused
<1> QED
  BY <1>1, RegistryInvariance, PTL

(* However registrations that drew one code interleave, no two accounts    *)
(* have one code, no account has two, and public.users knows every code.   *)
THEOREM OneCodeEachHolds == Spec => []OneCodeEach
<1>1. IInv => OneCodeEach
  BY DEF IInv, IssuedOnce, RelayOfAccounts, OneCodeEach
<1> QED
  BY <1>1, RegistryInvariance, PTL
=============================================================================
