----------------------------- MODULE UserRegistry -----------------------------
(***************************************************************************)
(* How an account comes by the four-digit code that is its user id         *)
(* (internal/db/schema.sql): the trigger on auth.users draws codes until   *)
(* one is no row of public.users and inserts it into public.relay, whose   *)
(* own trigger inserts it into public.users.  All of it is one             *)
(* transaction, at READ COMMITTED, beside those of other accounts; its     *)
(* rows show when it commits.  Deleting an account deletes its relay row   *)
(* and leaves the row of public.users.                                     *)
(***************************************************************************)

CONSTANTS
    Accounts,     \* ids of auth.users; an id is never used a second time
    Codes,        \* the 65536 codes
    NoCode

ASSUME CodeAssumption == NoCode \notin Codes

VARIABLES
    accounts,     \* auth.users: the accounts that are registered
    gone,         \* the accounts that were deleted
    relay,        \* public.relay: [account, code]
    users,        \* public.users: codes
    draw,         \* the code the transaction of an account drew last
    issued        \* history: every row public.relay ever had

vars == <<accounts, gone, relay, users, draw, issued>>

Registering == {a \in Accounts : draw[a] # NoCode}

(* The loop: a code some user has is drawn again, which changes nothing.   *)
create_relay_entry(a) ==
    /\ a \notin accounts \cup gone \cup Registering
    /\ \E code \in Codes \ users : draw' = [draw EXCEPT ![a] = code]
    /\ UNCHANGED <<accounts, gone, relay, users, issued>>

(* Mistake: public.users without its primary key.                          *)
AddUserWithoutKey(code) == users' = users \cup {code}

AddUser(code) == code \notin users /\ users' = users \cup {code}

insert_user_from_relay(a) ==
    /\ a \in Registering
    /\ AddUser(draw[a])
    /\ relay' = relay \cup {[account |-> a, code |-> draw[a]]}
    /\ issued' = issued \cup relay'
    /\ accounts' = accounts \cup {a}
    /\ draw' = [draw EXCEPT ![a] = NoCode]
    /\ UNCHANGED gone

(* The primary key refuses a code another transaction has committed since, *)
(* or the connection is lost: nothing of the registration remains.         *)
Abort(a) ==
    /\ a \in Registering
    /\ draw' = [draw EXCEPT ![a] = NoCode]
    /\ UNCHANGED <<accounts, gone, relay, users, issued>>

(* Mistake: the row of public.users goes too, and its code may be drawn    *)
(* again.                                                                  *)
DeleteWithCode(a) ==
    /\ a \in accounts
    /\ accounts' = accounts \ {a} /\ gone' = gone \cup {a}
    /\ relay' = {r \in relay : r.account # a}
    /\ users' = {r.code : r \in relay'}
    /\ UNCHANGED <<draw, issued>>

delete_relay(a) ==
    /\ a \in accounts
    /\ accounts' = accounts \ {a} /\ gone' = gone \cup {a}
    /\ relay' = {r \in relay : r.account # a}
    /\ UNCHANGED <<users, draw, issued>>

Init ==
    /\ accounts = {} /\ gone = {} /\ relay = {} /\ users = {} /\ issued = {}
    /\ draw = [a \in Accounts |-> NoCode]

Change(a) ==
    \/ create_relay_entry(a) \/ insert_user_from_relay(a) \/ Abort(a) \/ delete_relay(a)

Next == \E a \in Accounts : Change(a)

Spec == Init /\ [][Next]_vars

-----------------------------------------------------------------------------

(* A code belongs to one account for ever: whatever registrations overlap, *)
(* no two accounts are issued one code, not even after the first one was   *)
(* deleted, whose tunnels, made under that code, stay where they are.      *)
CodesNeverReused ==
    \A r, s \in issued : r.code = s.code => r.account = s.account

(* Whatever registrations and deletions overlap, every account has its one *)
(* code, which no other account has, a code in public.relay is that of an  *)
(* account, and the broker finds it in public.users: two transactions that *)
(* drew one code unseen by each other never both commit.                   *)
OneCodeEach ==
    /\ accounts = {r.account : r \in relay}
    /\ \A r, s \in relay : r.account = s.account <=> r.code = s.code
    /\ {r.code : r \in relay} \subseteq users
=============================================================================
