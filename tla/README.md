# Verification of the tunnel broker

This directory holds TLA+ models of the IPv6 tunnel broker in this repository, the TLC configurations that
check them on small instances and the theorems TLAPS proves about them for every instance. Paths are relative to
the root of the repository.

## The system

The broker is an HTTP service (`cmd/tunnelbroker`) that hands out SIT, GRE and WireGuard tunnels. Each user has a
four-character hexadecimal id and two slots. A tunnel has an id `tun-<user>-<slot>`, two ULA endpoint addresses and
three delegated /64 prefixes. The state is in three places:

| part | state | operations |
|---|---|---|
| tables (`internal/db/schema.sql`, `internal/tunnels/repository.go`) | `tunnels`, `users` with two counters, `relay` | one statement or one transaction each |
| kernel of the host | SIT/GRE links, IPv6 routes, peers of `wg0`, firewall chains | `ip`, `wg`, `iptables`, `nft`, `tc` commands |
| goroutine of a request (`handler.go`, `service.go`) | the row being built, what was read of a row, the commands left | POST `/tunnels`, PATCH `/tunnels/:id/ip`, DELETE `/tunnels/:id` |
| `cmd/tunnelrecovery` | the lists it took | recreate what is missing after each start of the service |
| `scripts/security/tunnel_security.sh` | the lists it took | rebuild all firewall rules, after every handler |
| triggers in `schema.sql` | the code a registration drew | register and delete accounts |
| systemd unit, `cmd/tunnelbroker/main.go`, `internal/config`, `internal/db` | what the start has reached, the interface `wg0` | `ExecStartPre`, `InitWireGuardInterface`, listen, `ExecStartPost`, restart |
| machine of a client (external) | its tunnel interface | the commands each answer of the API gives it |

Nothing orders the steps of two requests: there is no lock, no unique index but the primary keys, and no transaction
that spans a check and the insertion it is for. A request is a sequence of SQL statements and external commands; each
may fail, the process may die between any two of them, systemd starts it again, and the host may reboot. The recovery
program and the security script run beside the requests and work from lists that age while they work. That is what
makes this code hard to test, and what the properties below are about. Nothing in the code waits for anything but the
database and its commands: the pool has ten connections and a request never holds one while it asks for another, so
requests cannot wait for each other. The start of the service is the other place where order matters and is written
nowhere: `Type=simple` lets systemd run the recovery beside a `main` that is still setting WireGuard up, and only the
first answer of the API tells the one that the other has come far enough.

What should be true of each part:

* requests: two tunnels per user; prefixes of a tunnel are its own; the table changes by whole tunnels; counters never
  run ahead; each step brings a request nearer its answer and none is left without a next step;
* kernel: a tunnel whose own requests ran undisturbed is configured as its row says, whatever else ran; a peer
  is allowed only networks of the user who was given its keys; a deleted tunnel leaves nothing behind;
* answers: the commands written at creation, update and listing build one and the same interface on the client, and
  that is the other end of the server's;
* start: the recovery does not run ahead of the interface; a running service has its tunnels protected; it comes up
  again after every failure; no tunnel is left out in silence;
* prefixes: networks are equal only if pool, digit and user are; what is written is an address;
* recovery: everything is rebuilt after a reboot; what is in place is not disturbed; it ends;
* security script: overlapping runs leave no tunnel without its rules;
* registration: a code belongs to one account for ever.

## Modules

| module | models | lines it follows |
|---|---|---|
| `Prefixes` | how the three prefixes are derived, and in which order pools are tried | `service.go:37-127, 330-446`, `config.go` |
| `Database` (extends `Prefixes`) | the tables as sets of rows, the queries and statements, each atomic | `repository.go`, `schema.sql` |
| `Kernel` (extends `Database`) | what a command does to links, routes and peers, and when it is refused; external programs, modelled from how the code uses them | `service.go:470-542`, `handler.go:205-293` |
| `Broker` (extends `Kernel`) | the three handlers, a step per statement or command, failures, restart | `handler.go:14-315`, `service.go:207-560`, `main.go` |
| `Registry` | abstract: a register of leases with a limit per user; allocate, amend, release | (specification) |
| `BrokerProperties` (extends `Broker`) | the properties, and the mapping of the table to `Registry` | |
| `BrokerIsolation` (extends `BrokerProperties`) | one history variable: the ids whose own requests met trouble | |
| `Recovery` (extends `BrokerProperties`) | the recovery program composed with the broker; restarts and reboots | `cmd/tunnelrecovery/main.go`, `tunnelbroker.service` |
| `RecoveryProperties` (extends `Recovery`) | two history variables: how the service last came to run, and who was given each key pair | |
| `SecurityScript` | overlapping runs of the script, a step per command | `tunnel_security.sh`, the ends of the handlers |
| `SecurityProperties` (extends `SecurityScript`) | one history variable: the tunnels older than the runs that overlap | |
| `UserRegistry` | concurrent registrations and deletions of accounts | `schema.sql:37-76, 152-162, 641-648` |
| `ClientEnd` (extends `BrokerIsolation`) | the commands the API answers, and what they make of the client's machine | `service.go:453-560`, `handler.go:27-137, 205-222` |
| `Startup` | the start of the service: systemd, `main` and the recovery, a step per command or request | `tunnelbroker.service`, `cmd/tunnelbroker/main.go`, `config.go:57-139`, `connection.go`, `cmd/tunnelrecovery/main.go`, `repository.go:168-220` |
| `StartupProperties` (extends `Startup`) | its properties | |
| `PrefixBytes` | the bytes and the pasted text behind the records of `Prefixes`, with their theorems | `service.go:37-127, 310-330` |
| `BrokerProofs`, `CommandProofs`, `IsolationProofs`, `RecoveryProofs`, `SecurityProofs`, `StartupProofs`, `UserRegistryProofs` | the theorems | |
| `MC*` | values and symmetry for TLC | |

How state and actions correspond to the code:

* `tunnels` and `users` are the two tables; a row is a record of the columns that matter (`p1`, `p2`, `p3` are the
  delegated prefixes, `ula` the endpoint network, `key` the client's key pair). A tunnel id is the pair of user and
  slot it is printed from. `SetStatus` is the administrator's: nothing in the code writes `status` after the insertion.
* A prefix is a record: the pool it was cut from, the digit in its third group, and the fourth group as text. The first
  two prefixes print the parsed number, the third pastes the user id as received. `Net` is the network the text denotes,
  which is what the kernel compares; the table compares texts.
* `req[w]` is what goroutine `w` is doing: `pc` names the next statement, or `exec` while commands remain in `todo`.
  Validation that reads nothing (binding, IPv4 syntax) is in the sets the inputs come from.
* `StatementFails`, `ConfirmationLost`, `CommandFails` and `Restart` are the failures; each uses up one of `MaxFaults`.
  A failed command ends a creation or an update and is ignored by a deletion, as in the code.
* `rec` is the recovery program: three reads one after the other, then the loop. A restart or a reboot starts it anew;
  giving up on the API is an exit with an error, which as `ExecStartPost` makes systemd start the service again, so it
  is a restart.
* `client[id]` in `ClientEnd` is the interface of a tunnel on its client's machine. The client runs the commands of the
  creation's answer, then the one of each update, in the order the handlers wrote them, and removes the interface when
  its tunnel is deleted. A command it cannot run makes the interface `Broken`. An id that met trouble is given up,
  because its answers may never have come. The listing is an operator: what a client that follows the listing instead
  would build.
* In `Startup` a tunnel is `absent`, `part` (its first command ran) or `whole`, `ruled` are the tunnels whose firewall
  rules are loaded, `told` is what this start has logged as gone wrong. `FetchAgain` counts the requests: the third
  failure is fatal. Nine seconds lie between the first and the last request; a `main` that takes longer to listen is
  one of the `MaxFaults`, as is a start that exceeds systemd's time. systemd gives up after five starts in ten
  seconds (its default); with `RestartSec=5` there are at most two, so that is not in the model. `legacy` are rows from before the third prefix, which are `NULL` there until someone fills them in.
* In `SecurityScript` a rule set is denoted by the link or network it is for; `nft` is the set of objects of the table,
  and adding to an object another run has removed does nothing, as the script ignores errors. `saved` holds the two
  rule files of iptables: `/etc/nftables.conf` is not among the `ReadWritePaths` of the unit, so that save always fails.
* Operators whose comment starts with "Mistake:" are no part of a specification: each is the form a plausible bug would
  give the definition after it, and shows that the property named for it in `PROJECT.json` would notice.

## Runs

Every race of two requests needs one that reads and one that changes what was read, so two goroutines are in flight; a
third adds only the same races again. `RandN = RandBits = 1` makes the random digit one value, the worst case for
collisions; `MaxAttempts = 1` makes each loop as short as it can be. That a loop gives up is reached in `core`: with two
goroutines and both statuses a prefix may be taken between the search for an id and the check, and a suspended tunnel
holds a slot that the count does not see. Users, pools, addresses, ULAs and keys are as few as let two tunnels collide
or not.

| run | bounds | shows |
|---|---|---|
| `core` | one user, two goroutines, one failure, both statuses | `TypeOK`, `MainPrefixesUnique`, `SlotLimit`, `CountersNotAhead`, `EveryStepNearer`, `NobodyWaits`; the table implements `Registry` |
| `iso_sit` | two goroutines, two client addresses, both statuses, at most one troubled id | `ConfiguredAsStored`, `NothingLeftBehind`, `EndsAgree` |
| `iso_wg` | the same with WireGuard, three keys, one failure | the same |
| `rec_links` | one goroutine beside the recovery of SIT links, two failures, a second user whose id is not hexadecimal | `RecoveredAfterReboot`, `RecoveryDisturbsNothing`, `RecoveryEnds` |
| `rec_wg` | two users, WireGuard possibly not ready, one restart or reboot | the first two, and `TrafficStaysWithUser`: each peer against the user its keys were given to |
| `sec` | two overlapping runs, two links, two networks | `StableTunnelsProtected` |
| `codes` | five accounts, four codes | `CodesNeverReused`, `OneCodeEach` |
| `startup` | two links, one peer, three failures, any rows without a third prefix | `WireGuardReadyFirst`, `RunningProtected`, `ServiceComesUp` |
| `thirdrace`, `rec_partial`, `sec_newtunnel`, `startup_breaksoff` | | violated: see below |

In `rec_links` both tunnels of the user have the one client address, so the second is refused its link and the recovery
meets refused commands; that two tunnels are recovered side by side is what `rec_wg` shows. A restart or a reboot, and
each failing step of the recovery, is one of the `MaxFaults`: `rec_links` has a reboot and one more failure. The user
`u2` of `rec_links` is there for the refusals: its id does not parse, so its creations fail at the first prefix.

`startup` has three failures because the third one is what the retries count to, and because a start that is killed,
one that fails on what that left and one that comes up are three. Two links and a peer let one tunnel be recreated, one
given up and one left out in the same start.

`CHECK_DEADLOCK FALSE` is set in `codes`, where every account may have come and gone, and in the two startup runs,
where a unit that is running with no failure left has nothing more to do.

`FewTroubled` is a constraint of the isolation runs: behaviours are not followed beyond one troubled id, nor beyond
trouble that comes while the run's failure is still to be spent (a failed statement that troubles nobody spends it).
The properties speak of ids that met no trouble, so one troubled id and one other are what they need. In the models with
WireGuard a creation starts only while there are fresh keys for every goroutine, which bounds the peers left behind.

That every request is answered is stated without fairness, as two facts about each step. `StepsLeft` counts the steps a
goroutine has before it: the turns left of each loop to come and the commands left to run. `EveryStepNearer` says that
every step of a goroutine lowers it, a failing one included, whatever the other goroutines do to the rows and prefixes it
re-reads; `NobodyWaits` that a goroutine which has a request always has a next step. So a request can go unanswered only
if a statement or a command never returns. (`context.Background()` has no timeout: such a statement would hold its
request for ever, and no other.)

Fairness. No run assumes any of the goroutines. `RecoveryEnds` assumes weak fairness of the recovery program: the
host runs it, the API and its commands answer. `ServiceComesUp` assumes it of systemd, of `main` and of the
recovery, each as a whole: the first acts on every exit, the other two are scheduled and their commands return. No
fairness is assumed of requests arriving, of failures, or of rows being filled in; what `ServiceComesUp` says it
says of behaviours in which old rows are filled in for good.

### Where the code and its documentation differ

* `thirdrace`: "Generate delegated prefixes with uniqueness check" (`service.go:250`). The check is not part of the
  insertion, and the third prefix depends only on the pool and the user. Two creations that merely overlap do no harm:
  they pick one id, and the primary key refuses one of them, or the second sees the row of the first and takes the other
  pool. It takes a third creation and a deletion. A slow creation for the first slot is overtaken by another one for that
  slot, finds the `Third` pool's prefix taken and picks that of `AltThird`; a creation for the second slot finds it free
  too and stores it; the tunnel of the first slot is deleted; then the slow creation inserts its row under the id that is
  free again, with the third prefix of the other tunnel. The kernel then refuses the second route, or, for WireGuard,
  moves the network to the peer set last.
* `rec_partial`: recreation after a restart (`docs/WIREGUARD_FRONTEND_SPEC.md:19`). A tunnel whose creation was cut
  short after its first command is taken for present and is not completed.
* `sec_newtunnel`: "Automatic security rules application for new tunnels" (`README.md:22`). A run of the script with an
  older list can be the last to load, and the new tunnel has no rules until the next run.
* `startup_breaksoff`: "GetAllTunnels returns all tunnels from the database" (`repository.go:168`). `rows.Next` also
  ends the loop when the connection breaks, and `rows.Err` is not asked: the rows read so far are answered as the list
  of all tunnels. After a reboot the recovery rebuilds those, the start succeeds, and nothing is logged.

One more difference is too plain for a run: "This handles the case where alt-third is not configured"
(`service.go:391`). Without the pool the ten attempts are ten times the same, so the second tunnel of a user is always
refused while the first is there.

## Proofs

`BrokerProofs` proves `Spec => []IInv` for every value of the constants that satisfies the named assumptions of
`Prefixes`, `Database`, `Kernel` and `Broker`. `TypeOK` alone is not inductive: what a request will insert must be known
to be well formed at the step it is in, and the row's id to name its owner. `IInv` adds to the types that a row's id
carries its user, that ids are unique in the table, and what each `pc` of a creation has already fixed (the id, the
first prefix, the second, the third, and from which pool and number each was built).

The same module draws the conclusions: `TypeCorrect`, `SlotLimitHolds` (ids are unique and there are two per user, so
the primary key, not the count, is what limits a user), `MainPrefixesUniqueHolds` (each slot has pools of its own and the
user's number is part of the prefix, so the check of the table is not even needed for the first two) and
`RegistryImplemented` (each step of the broker is a step of `Registry` or leaves the register alone). The last two
assume `DistinctNumbers`: no two user ids spell one number. The triggers issue only the canonical spelling, so it holds
of registered users; the API does not enforce it.

`CountersNotAheadHolds` needs one fact more, `DeletionsOwn`: a deletion decrements the counter of the user its id names.
With it every step is weighed: what a counter may exceed the rows by is at most the deletions that are still due, plus,
for each failure, one for each goroutine, because a restart may cut all of them short at once. The theorem takes
`WorkersAssumption`, that only finitely many goroutines exist at a time.

`EveryStepNearerHolds` is proved for every number of attempts and goroutines. What it needs beside
`IInv` is that the attempts counted at a prefix stay below their bound (`TriesBounded`); the lists of commands have known
lengths, so each kind of step is then a comparison of two numbers.

`CommandProofs` is about the commands still in a request's list and the keys in use. `KeyInv` says whose commands are
whose: a request's list holds only commands of its own tunnel (`RequestsLocal`), and a key belongs to one tunnel or to
one request (`KeysOwned`). `RequestUses` says what a step of a goroutine does to keys: it takes up none but a fresh one
or a row's, and runs only its own commands, or it inserts the row of its draft. The modules after it rest on these.

`IsolationProofs` proves `ConfiguredHolds` and `NothingLeftHolds`. That a tunnel is configured is far from inductive:
it is not while its own request runs commands. `IsolationInv` therefore says of each row whose id met no trouble that
it is *settled but for* the commands its own request has left (`Settled`, `TunnelsCared`); that the other id of the
user, and every other user, has commands that cannot reach it; that an id without a row has no link (`NoLinkLeft`), a
request that is no deletion works on an id that still has its row (`RowsBehind`), untroubled ids have one request
at a time, and each peer has its row as long as nothing met trouble (`PeersOwned`). Without `DistinctNumbers` this is
false: two spellings of one number share their networks. Both theorems are about `HSpec`, of which `CSpec`, the
specification the runs check, is a restriction with one more variable: `HNext` is a conjunct of `CNext`.

`EndsAgreeHolds` is about `CSpec`. `ClientInv` says that the client of an untroubled tunnel has the interface of the row
as it is, or as it was before an update whose answer is still owed. What a list of commands makes of an interface is
the fold `RanAll`; as the lists the API answers have known lengths, lemmas `RanSeven` and `RanNine` take it apart step
by step, and no induction is needed. `InterfaceAssumption` says that no interface is the value for "none".

`RecoveryProofs` builds in three layers. `CommonInv` holds through everything: the broker's invariants hold beside
the recovery, and what the program holds are rows that were in the table and the commands of such rows.
`RecoveredTrafficStays` is proved on top of it. The kernel's peers alone do not say who was given their keys, and
`wg set` may run long after the row it was computed from is gone. `GivenInv` therefore says that whoever knows a key
knows it for its user: a row, a request that is past the insertion, a row on the program's list and a command on its
way to the kernel all agree with `holder`; and that a key about to be inserted is known to nobody else
(`DraftsUnknown`), so that giving it to a user takes it from no one. It needs no assumption on spellings, as it
compares the numbers that the networks carry. `CreationsInv` speaks of the time after a start that only creations
followed: every request is a creation on an id of its own, and what it or the program has left to run is an end of a
creation's commands, with which `RecoveryDisturbs` is a matter of what one command can undo. `RebootInv` is the
argument for `RebootRecovers`. The difficulty is that the program and a request may run the commands of one tunnel
side by side, and each gives up when a command is refused because the other was first; it must not happen that both
do. What prevents it: a request finds a command of its list already run only when the program has overtaken it for
good (`DoneSecured`), because once the program made the link no request gets past its first command on it
(`OneOnLink`); a tunnel the program takes for present is either beyond harm or in the hands of a request past its
first command (`BegunSecured`); and every tunnel that can be recovered is configured, in a request's hands, on the
program's list, or what it is working on (`Covered`). `RecoveryDisturbs` and `RebootRecovers` assume
`DistinctNumbers`.

`SecurityProofs` proves `StableTunnelsHold` for any number of overlapping runs. A run flushes the rules of all and loads
those of the tunnels it listed, so after each command the rules of some tunnel are missing. `SecurityInv` says who will
bring them back: lists hold every tunnel older than the overlapping runs (`ListsComplete`), and of each kind of rule
either all are loaded, or some run has not yet come to the load that follows (`LinksCared`, `NetsCared`; for `nft`,
where adding to what another run removed does nothing, that is the run that built the table last and whose chains are
there so far). It takes `NamesApart`: a link's name is no network.

`PrefixBytes` justifies the records of module `Prefixes`. `generateDelegatedPrefix` writes a digit into the low half of
byte 5 and the number of the user into bytes 6 and 7, `generateThirdPrefix` pastes the user's four characters behind
the text of the pool. `RecordsStandForNetworks` says that two records are equal exactly when their eight bytes are, for
any pools of the required lengths no /48 of which lies in a /44; `DelegatedInPool` that the digit never leaves the /44.
`ThirdNeedsThreeNumbers` says when the pasted text is an address: exactly if the pool is written with its first three
numbers, which `2a06:e881::/48` is not. `config.example.yaml` writes them out; that is the assumption
under which `Prefixes` treats the third prefix as a network. The hextets of the arithmetic are characterised in small
lemmas (`HighOfHextet` to `SameDigits`), the rest cites them.

`UserRegistryProofs` proves `CodesNeverReusedHolds` and `OneCodeEachHolds` from an invariant on what the tables do not
show: the rows of `public.users` are all codes ever issued, and an account registers at most once. The loop's look at
the table is not what protects a code, a second transaction may have drawn the same one; the primary key is.
`OneCodeEach` says of the rows there are that no two have one code or one account, `CodesNeverReused` the same of all
rows there ever were.

`StartupProofs` proves `WireGuardReadyFirstHolds`, `RunningProtectedHolds` and `StartupTypeCorrect` for any tunnels and
any number of failures. `WireGuardReadyFirst` follows from `InterfaceSeenTo`: a list of tunnels comes only from a `main`
that is past the set-up, and what that left outlives it. `RunningProtected` needs `RulesKept`, which follows the rules
through the loop: all tunnels before it, those made whole as long as nothing was recreated, everything after the script.

With these, every invariant and action property of the passing runs but one is proved for every value of the constants.
Checked by TLC only are `NobodyWaits`, which is about ENABLED, and the two liveness properties, `RecoveryEnds` and
`ServiceComesUp`, which rest on fairness and hence on ENABLED too: the prover does not treat it.

## Not modelled

* the listing of one user (read only, no state), the API key check, YAML parsing, logging, migrations and installers;
* key generation: a pair is a value not seen before. A public key of the server that cannot be derived is a logged
  warning in `Startup`; what a client does with the empty key it is then given is outside this code;
* `ResetUserCreatedTunnels` and `generateWireGuardKeyPairWithCommand`, which nothing calls;
* a failing firewall command in `SecurityScript`, and the files the script saves being read by anyone;
* the end of the free codes: the loop over random codes does not end when all are taken, which takes 65536 accounts.

The composition of the security script with the handlers (`SecurityScript` takes new tunnels from nowhere) and of the
script with the recovery's loop would multiply two of the largest state spaces; each is modelled against what it reads
of the other.

## Plan

1. Done: `Prefixes`, `Database`, `Kernel`, `Broker`, `Registry`, isolation, the client's end, recovery, the start of the
   service, security script, registration.
2. Done: a theorem for each invariant and action property that a passing run checks, and for the refinement of
   `Registry`.
3. Done: requests come nearer their answer in each step; peers stay with the user who was given their keys.
4. Open: the same measure for the recovery and the start, and a statement of what holds without `DistinctNumbers`.
