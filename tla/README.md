# etcd-cloud-operator in TLA+

A verification project for etcd-cloud-operator (ECO), kept beside the code. It models
the fleet of operators that bootstraps, supervises and recovers an etcd cluster,
model-checks it with TLC on small fleets, and proves with TLAPS what matters most for
fleets of any size. Paths below are relative to the repository (`src/` here).

## 1. The system

Every instance of an auto-scaling group runs one operator process, which embeds one
etcd server. There is no leader among the operators and no shared memory. An operator
loops every `check-interval` (15 s): `evaluate`, `execute`, `wait`
(`pkg/operator/operator.go`).

| component | its state | its operations | who it interacts with |
|---|---|---|---|
| operator loop, `pkg/operator/{operator,misc}.go` | `state` (UNKNOWN, PENDING, OK, START), `etcdSnapshot`, `etcdRunning`, `etcdHealthy`, `isSeeder`, `states`, `shutdown` | `evaluate` (status poll, health check), the seven branches of `execute`, `wait`, the `/status` page | polls `/status` of all the instances over HTTP; asks whichever etcd answers whether it is healthy; calls the server |
| embedded server, `pkg/etcd/server.go` | `isRunning`, `server`, `cfg.initialPURLs`, `cfg.clusterState`, the data directory | `Seed`, `Join`, `Restore`, `Snapshot`, `SnapshotInfo`, `Stop`, `startServer`, and three goroutines per start: error watcher, member cleaner, snapshotter | etcd (StartEtcd, MemberList/Add/Remove), the snapshot provider, the client wrapper |
| etcd client, `pkg/etcd/client.go` | one connection per loop; sessions and locks in etcd | `IsHealthy`, `AddMember`, `RemoveMember`, `Lock`; `ForEachMember`, `IsConsistent`, `Cleanup` for the tester | etcd |
| snapshot providers, `pkg/providers/snapshot` | files or objects named `<name>_<revision>_etcd.backup`; the data directory itself | `Save`, `Info`, `Get`, `Purge` | called by the server from the loop and from the snapshotter |
| ACL reconciliation, `pkg/operator/acl.go` | users, roles and a key in etcd | `enableACL`, `removeACLConfig`, `applyACLConfig` | called after a healthy loop on the seeder |
| ASG providers, `pkg/providers/asg` | none | `AutoScalingGroupStatus` | the cloud's API |
| functional tester, `pkg/tester` | the running test, its stresser, the leader it was told of | `runTest`, `isHealthy`, the failure injectors | a cluster under test through the client wrapper; the machines through ssh |
| validation, configuration, logging, deployment | none that lives on | | |

What is hard about it:

* **Decentralised election.** The seeder is whoever finds, in its own poll, that all the
  instances show START and that itself comes last in the order of (revision, name). Two
  polls are never made at the same time, and what they saw is used after a health check
  of up to 30 s, while the others move on.
* **Slow calls under a frozen status.** `Seed`, `Join` and `Stop` take minutes, during
  which `/status` keeps serving the state set before the call.
* **Destruction before reconstruction.** `Restore` and `Join` remove the data directory.
* **Membership changes.** Adding a second member takes the quorum away until it starts.
* **Goroutines without locks.** Every start of etcd leaves an error watcher, a member cleaner
  and a snapshotter behind. They and the loop share `isRunning`, `server` and its field
  `Server`; the goroutines of `isHealthy` share `leader` and `healthyMembers`.
* **Faults.** Processes crash, instances are replaced with an empty disk, etcd stops by
  itself, polls, health checks, the store, snapshots and starts fail.

What makes each component correct:

* the fleet: one seeder at a time, one etcd cluster at a time, seeded from the latest copy
  of the keyspace; an acknowledged write survives whatever the fleet does to its disks;
  once faults cease the cluster comes back;
* the server: it is started, stopped and restored by one actor at a time;
* the process: whatever its goroutines do to each other, it ends up with a server that runs and
  is supervised, and SIGTERM ends it;
* the client wrapper: a `ForEachMember` that returns nil has run everywhere with success;
* the tester: it starts from a healthy cluster, hits whom the test names, and its verdict is
  not its own doing;
* the store: the snapshot that `Info` returns is complete and the newest;
* ACL: a reconciliation that failed half-way is completed by a later one, what is no longer wanted is
  revoked, and the operator does not lock itself out of etcd unless the configuration makes it.

## 2. The modules

| module | what it is |
|---|---|
| `Fleet` | the loop and the server operations of all the instances, with the embedded etcd and the store as their environment; the properties |
| `DisasterRecovery` | the abstract specification: what the fleet promises of the data store |
| `FleetInvariant` | the inductive invariant `FleetInv` and its parts, and the settings of the theorems |
| `MCFleet` | fleets of two and three instances for TLC |
| `FleetSafety` | TLAPS: type correctness; `ElectionInv` is inductive, hence one seeder |
| `FleetCluster` | TLAPS: what each step does to databases and members; `ClusterInv` and `RestoreInv` are kept |
| `FleetLog` | TLAPS: `LogInv` is kept, so `FleetInv` is inductive; one cluster, seeded from the newest copy, serving the newest revision |
| `FleetPromise` | TLAPS: no acknowledged write is lost; `Fleet` implements `DisasterRecovery` |
| `Snapshots` | `Server.Snapshot` with the file and s3 providers: names, temporary files, uploads, purges |
| `MCSnapshots` | a directory and a bucket for TLC |
| `SnapshotsProofs` | TLAPS: the types, and that a snapshot is whole |
| `Acl` | the reconciliation of the init-acl configuration, request by request |
| `MCAcl` | four versions of a configuration for TLC |
| `AclProofs` | TLAPS: the types, the operator is not locked out, what is recorded is in force |
| `ServerLifecycle` | the goroutines of one process around one `Server`: the loop, and per start the error watcher, the cleaner and the snapshotter |
| `LifecycleProofs` | TLAPS: the data directory has one owner |
| `ForEachMember` | `Client.ForEachMember`: a goroutine per member, and a channel of results |
| `Tester` | `runTest`, `isHealthy`, the failure injectors, `IsConsistent` and `Cleanup`, on top of `ForEachMember` |
| `MCTester` | one test of each kind for TLC |
| `TesterProofs` | TLAPS: what a `ForEachMember` that returns nil means, and that it leaves nobody blocked; a failure starts from a healthy cluster and hits whom it names; the verdict is true |

`Fleet`, `Snapshots`, `Acl` and `ServerLifecycle` are views of the same program at different scales;
`Tester` is another program, which takes what `Fleet` promises as its environment. `Fleet` sees
the store of an instance as the highest revision that `Info` finds in it, which is what
`Snapshots` looks into; `Acl` is what `Fleet`'s loop does after a loop that ends in OK on the
seeder, and does not change what `Fleet` describes. `ServerLifecycle` takes one process of `Fleet` apart:
what a step of `Fleet` does in one go, such as `CloseServer`, is there the lines of `Stop`, in between
those of the other goroutines, and a panic is what `Fleet` calls a crash. `Tester` extends `ForEachMember`;
each of its calls is a `Begin`, one `Outcome` per member with what the function does, and a `Leave`.

### Fleet

One `pc` per instance cuts the loop where what it has read can become stale:

| `pc` | in the code |
|---|---|
| `wait` | `wait`, until the ticker or SIGTERM |
| `health` | `fetchStatuses` has the statuses, `IsHealthy` has not answered yet |
| `execute` | `evaluate` has returned, `execute` is about to choose a branch |
| `seed`, `restore` | in `Restore`: before `Source.Get`; after `RemoveAll(DataDir)` |
| `join`, `rejoin`, `add` | in `Join`: before `MemberList`; before the first `startServer`; before `AddMember` |
| `start`, `ready` | in `startServer`: before `StartEtcd`; before `ReadyNotify` |
| `stop`, `close` | in `Stop`: before the snapshot; before the server is closed |
| `down` | no process |

An action is the whole handler between two such points. The other variables are fields
of `Operator` and `Server` under their own names, the two disks (`data`, `cluster`,
`temp`; `store`), etcd's membership (`members`, `named`), and two counters: `acked`, a ghost,
and `faults`, a bound.

What is abstracted, and why it may be:

* *Keyspaces are their revision.* The code compares nothing else. The seeder's order
  (`Before`) and `SnapshotInfo`'s choice are translated literally.
* *A cluster is named by its founder.* Seeding always makes a cluster of one with a new
  identity; joining takes the identity of the cluster joined.
* *etcd is external.* It serves requests while a majority of the listed members runs; an
  entry of its log, a write or a change of the members, is committed once a majority has it and
  all that comes before it (`Commits`, `Holding`); its strict reconfiguration checks
  (`AcceptsMember`, `ReleasesMember`) and the comparison of the initial cluster with a
  peer's member list (`StartRefused`) are modelled because `Join` runs into them.
* *A poll is one step.* The requests have a timeout of 10 s, the interval is 15 s, and no
  instance leaves START and comes back to it within a poll. The health check is a
  separate step and may answer long after it.
* *A poll that nobody answers* ends the process: the code takes the last of no statuses (misc.go:120),
  which panics (`MissAllStatuses`). The panic comes when the health check has answered; the model takes it
  with the poll, since a process that is waiting for either does nothing else.
* *`SnapshotInfo` of the local copy does not fail.* An error other than "no snapshot" would be dropped by
  the code (server.go:249-252, and 135-138 in `Join`), which then goes on as if there were no local copy. What
  fails in the model is the store (`store`) and what is read from it (`get`).
* *The loop's fields are cleared once a branch is taken*: evaluate overwrites them before
  anyone reads them again.
* *RemoveMember in Join's error path* (server.go:165) has no effect: it asks for the lock of
  the session that `AddMember` opened and that `Join` only releases on return
  (server.go:159), times out, and its error is dropped.
* *The cleaner* may remove a named member that is down, or that is back and still rejoining: a
  rejoin takes up to 300 s and holds no lock (`CleanMember`). A member that has been added and has not
  started has no name and is passed over (server.go:428). The removal of a running member whose checks
  failed for as long as the quorum was lost, and which goes through because the quorum has just come back
  (server.go:437-462), is left out.
* Left out of Fleet: `Purge` and the names of the snapshots (`Snapshots`), ACL (`Acl`), and the
  races between the goroutines of one server (`ServerLifecycle`).

`Timely` turns two timing assumptions on, each a named operator used as a guard:
`NoQuorumIsPending` (a member just added starts its server before a health check or a
start gives up) and `NoFounderIsLeftBehind` (a founder makes its first loop before another
instance has joined, lost etcd again and been told so three times). Both are about
durations the model does not have: 45 s against minutes.

`Faults` selects the kinds of fault: `crash`, `crashRestore` (in the middle of a restore),
`crashJoin` (in the middle of a join), `wipe` (the instance is replaced), `terminate`
(SIGTERM), `etcd` and `etcdEarly` (etcd stops by itself, after or before the founder's first
loop), `status`, `health`, `store`, `save`, `get`, `restore`, `boot` (what it names fails).

### DisasterRecovery

Four variables: who is live, that is, runs etcd or is about to with the data it has; the highest
revision among them; the highest revision of any copy; the highest acknowledged. A cluster is founded only when nothing runs, by one
instance, from the most recent copy; others enter what runs; what stops leaves its copy;
only the outside world destroys copies. `Fleet!KeepsPromise` is its specification under
the refinement mapping at the end of `Fleet`: every step of the loop, stale reads and slow
calls included, is a step or a stutter of it.

### Snapshots

One caller per goroutine that calls `Server.Snapshot`: `runSnapshotter`, which does so for
ever, and `Stop`. `provider` and `nameOf` say what is configured: a directory (`file`) belongs
to one instance, a bucket (`s3`) to all.

| `pc` | in the code |
|---|---|
| `info`, `compare` | in `Snapshot` (server.go:206): before `Info`; before the comparison of `KV().Rev()` with what it told |
| `dump` | the goroutine of server.go:282 has not called `Backend().Snapshot()` yet |
| `create`, `copy`, `rename` | in `file.Save`: before `TempFile`, `Copy` and `Rename` |
| `upload` | in `s3.Save` |

`purge` is the `Purge` that each call starts in the background: a listing, then one removal
per old file, by name, in the order of the listing. `files` are the names in the store,
`content` the revision of what they hold (`Partial` while it is being written, and for what is
not there), `old` those older than the TTL. A name is the server's, the revision, and the
suffix that `TempFile` gave it; `Info` reads the revision from either kind of name, so it takes
a temporary file for a snapshot.

Assumed, each at its action: a call's `Purge` ends before the next call of the same goroutine
(`Begin`); the TTL is longer than a `Save` or a listing takes (`Expire`); a random suffix does
not repeat one in use (`TempFile`). The code looks at the age of each file when its turn comes in the
removals (file.go:125, s3.go:181); the model fixes which are old with the listing, so it leaves out a file that comes
of age in between, which only goes one purge sooner. The revision and
the age of a file are all the code looks at, so the contents are their revision. Not modelled:
names that do not parse, directories inside the store, more than 1000 objects in a bucket.

### Acl

`todo` is what the run has still to do, in the order of the code: a sequence of jobs, one for each
turn of a loop over users or roles, each a sequence of requests. `Enable` is `enableACL`, `Removal` and `Application` are `removeACLConfig` and
`applyACLConfig`, and what follows the `Get` of `getOldACLConfig` is decided when it is
answered (`Reconcile`). The state of etcd's authentication store is external; `Accepts` says
what it refuses. A request may be refused (`Refused`, or `Ignore` where the code tolerates
it), get lost (`Lost`; also what a crash does) or be applied without an answer (`Late`); a
look-up may fail and its error be ignored (`BeginBlindly`, `MissLookup`). The permissions of a
role are one request, which is not even sent if one of its modes is not a mode (`Misspelt`, acl.go:67-68).
etcd does not delete the user or the role `root` while authentication is on (`Protected`). `Upgrade` restarts the seeder with the next version of the configuration.

A configuration is any that `Validate` accepts (`IsValid`): it checks neither the modes of the
permissions nor whose names the users have (validate.go:21-72), so a configuration may name `root`, `etcd` or
the operator's own user. Assumed: one instance is the seeder at a time and its runs do not overlap, and older
versions do not come back. Passwords and the keys of the permissions are left out.

### ServerLifecycle

| state | in the code |
|---|---|
| `pc[loop]` | `wait`, `health`, `execute` as in `Fleet`; `remove`: before `RemoveAll(DataDir)` in `Seed` or `Join`; `rejoin`, `start`: before `StartEtcd`; `ready`: before `ReadyNotify` |
| `pc[g]` | the error watcher of server `g`: `watch` in its `select`, or in its `Stop` |
| `stop` ... `done` | `Stop`, line by line (server.go:306, 310, 315, 316, 318, 319); `errc` is the end of `Close`, which closes the channel `Err()` |
| `isRunning`, `server`, `inner` | `Server.isRunning`, `Server.server`, and whether the field `Server` of that object is set |
| `alive`, `errc` | of each server, whether it runs (`StopNotify`) and its `Err()` |
| `ticker` | per server, its cleaner and its snapshotter: waiting for the tick, or between `IsRunning()` and the use of `server.Server` |

A call on nil, a second close of a channel, a read of a closed database and the explicit panics of
`startServer` end the process (`Die`) and the service manager starts it again. The tickers outlive their
server: they look at `isRunning`, not at the server they were started with. `Fleet`'s election is
reduced to a choice: a loop that is not running may remove the directory and start, or rejoin.
Assumed: an error watcher that can run does so before the loop, which polls every instance
first, starts another server (`WatchersArePrompt`); etcd's `Close` closes `Err()` last.

### ForEachMember and Tester

`task[m]` is the goroutine of member `m`: in `f`; about to send an error and then an empty string (`err`),
an error only (`lost`, when `NewClient` failed) or an empty string (`ok`). `unread` is the channel. The results
of one goroutine are read in order; between two of them the order is left open, more than the
channel allows. `Tester` says what `f` does in each call: `Status`, `Spare` or `Kill`, `Hashes`,
`Defragment`. `pc` says which call, or which request between two calls, `runTest` is at; `round` is 0
before the failure and counts the health checks after it; a goroutine that an injection left behind is in
`stray` until it has run its command or failed to.

The cluster is the environment: members are up or down, listed or not, and agree on a leader or have
none. A member that is down may be expelled by the operators' cleaner and always comes back (`Heal`), as the
member it was or with another ID (`NewID`), which is then not the one that `isHealthy` was told of (`gone`). A
leader is elected when a quorum is up: that is what `Fleet` shows, and here assumed. The eight tests are four
by whom they hit: wiping the data, or stopping instead of killing, changes nothing that the tester
looks at. `Size` is the configured size, the number of members in the run; the answers of the members
differ only because of writes (`Hashes`), which is what `TrueVerdict` is about. Left out: the verification of
the marker (it only logs), the requests of the stresser and the metrics.

## 3. What is checked

| run | setting | what it shows |
|---|---|---|
| `fleet_two` | 2 instances, file store, 3 faults of 7 kinds, 2 revisions | `TypeOK`; `SeedAlone`, one founder and nobody running beside it; `OneCluster`; `SeedsLatest`; `AckedSurvives`; `ServesLatest`, a cluster with quorum has the newest revision of all copies; `KeepsPromise`, the refinement; `FleetInv`, the inductive invariant of the proofs |
| `fleet_two_recovers` | 2 instances, one bucket, 2 faults of 12 kinds, writes, fairness | `FleetInv`, `SeedAlone`, `OneCluster`; `RecoversOrVanished`: both end up healthy members of one cluster, unless an instance announces a database that a failed restore has removed |
| `fleet_three` | 3 instances, from nothing or with one member down; a failing start or a lost disk; fairness | `FleetInv`, `SeedAlone`, `OneCluster`; `StaysAvailable`: a cluster with quorum comes back and stays, a majority reporting OK; `RecoversOrGhost`: the dead member rejoins, or is cleaned and added anew, whichever is first, and the fleet is complete, unless a member that never started is listed |
| `shared_split` | 2 instances, one bucket, crashes | violates `SeedAlone` |
| `restore_crash` | 2 instances, a crash during a restore | violates `AckedSurvives` |
| `stale_start` | 2 instances, `etcdEarly` | violates `SeedsLatest` |
| `two_joiners` | 3 instances, no fault at all, fairness | violates `Recovers` |
| `snapshots` | a directory of one server with two callers, or a bucket of two servers; 2 faults of 7 kinds, 2 revisions, fairness | `SnapshotsAreWhole`: what has a final name is complete; `BackedUp`: again and again there is a complete snapshot of the current revision |
| `acl` | 4 versions: two share a role and a user and the second names `etcd`, the third has a mode that is not one, the fourth names the operator's user; 3 failures of 2 kinds, users that exist before, fairness | `RecordedIsInForce`: the key in etcd tells the truth, so a run that does nothing may; `NoLockout`: only a version that names the operator's user takes its access away; `Converges`: the last version is applied, unless it is unfit or the operator has been locked out that way; `AppliedOnce`: what is applied is not applied again; `RevokedFirst`: the record of a version goes when nothing of it is left; `AclInv`, the inductive invariant of the proofs |
| `acl_unprotected` | 1 version, 1 lost request | violates `AppliedIsProtected` |
| `lifecycle` | one process, 3 server objects, 2 faults of 7 kinds, fairness | `DataDirIsOwned`: while the loop removes the directory or starts on it nothing else runs; `OwnerInv`, the invariant that is proved; `EndsSupervised`: a server that runs, is known to run and has its three goroutines; `Terminates`: SIGTERM ends the process |
| `tester` | 4 tests against 3 members, 1 fault of 7 kinds, 2 checks in a row, 2 attempts, fairness | `NilMeansAll`, `RoomForAll`: what `ForEachMember` returns and leaves behind; `StartsHealthy`; `HitAsNamed`; `TrueVerdict`; `SuiteEnds` |

**Bounds.** Two instances are the smallest fleet with an election, a tie, a membership of
two whose quorum one instance breaks, and a joiner; three add a minority, and two joiners.
Three faults are enough for a crash, the loss of a disk and a failing call in the same
recovery; `fleet_two` takes them from the kinds that make a view stale or leave a step half done (`crash`,
`wipe`, `status`, `health`, `save`, `get`, `boot`). `terminate` and `etcd` are in `fleet_two_recovers`; added to
`fleet_two`, they give it nearly three times the states and the same result. Revision 1 is what an
empty etcd has; a second revision makes a copy stale, which is all the order of copies can tell apart. In `snapshots` two callers are the pair that can meet
in a store, two suffixes let a temporary file outlive its caller while another is written, and two faults
make a crash followed by a failure of the clean-up. In `acl` the second version drops a user and
adds a role to one it keeps; the third and the fourth are the two kinds of configuration that `Validate` accepts
and the reconciliation cannot apply or survive; three faults fail the enabling, the removal and the application once each. In `lifecycle` three
servers are the one in charge, one that is still being closed and one whose tickers survive; two faults bring two
`Stop`s together, or a stop and a restart. In `tester` three members have a majority that is not all of them
and a slave to choose; two checks and two attempts tell the first from the last; one fault
breaks one call, and a kill is a second event. No symmetry is used: in `Fleet` names break ties, and the
other runs check liveness.

The runs on liveness name their obstacles instead of leaving the fault out. `RecoversOrVanished` and
`RecoversOrGhost` say that there is no other way for the fleet to stay incomplete than the one
described (below, and finding 4).

`fleet_three` may start from `MinorityDown`: a cluster of three, complete and quiet, one
process of which has just crashed. From nothing, three instances can end up with a ghost
member (finding 4) before anybody crashes; the state is one the fleet reaches when they join
one after the other.

**Fairness.** `WF(Step(i))`: the ticker keeps firing, every call has a timeout, a dead
process is restarted (`Restart=always` in `eco.service`), so every loop keeps turning; and
`WF(Cleaning)`, a ticker too. Nothing is assumed of faults (bounded by `MaxFaults`), of
clients or of the periodic snapshots in `Fleet`. In `Snapshots`, `WF` of the ticker, of each call and of each
purge, which end because their requests do, and `SF` of time passing, since a file in the store
grows older whenever it is left alone for a TTL. In `Acl`, `WF` of the loop and of the requests, which end
within five seconds. In `ServerLifecycle`, `WF` of the loop and of every goroutine: the runtime schedules
them, the tickers fire, the calls return; faults, the failing `evaluate` among them, cease. In `Tester`, `WF` of
the program, of every goroutine and of the channel; and that members come back and elect a leader, which is
what the fleet promises. Expulsion and every fault may never happen.

**Deadlock** is checked in every run but `tester`, whose program ends: the loop, the snapshotter and the
reconciliation never stop.

### Findings

1. *Two seeders with a shared bucket* (`shared_split`). The seeder still shows START while
   it downloads and restores. An instance that restarts meanwhile reads the bucket anew,
   may find a revision that is newer than the seeder announced, or equal with a higher name,
   polls, and is elected as well. Found at `misc.go:103`, `operator.go:183`.
2. *A crash inside Restore loses the database* (`restore_crash`). `server.go:186` removes the
   data directory when its only other copy is a temporary file.
3. *A stale START* (`stale_start`). If the founder's etcd stops before the first healthy
   loop, the metadata is not read again (`operator.go:183`) and the next election ignores what
   it wrote. The same fault also breaks `SeedAlone` and `Recovers`, which is why `etcdEarly`
   is left out of the passing runs.
4. *Two joiners at once* (`two_joiners`). A member that was added but could not start stays
   listed without a name; the cleaner skips it and etcd accepts no further member.
5. *Authentication that is never enabled* (`acl_unprotected`). `enableACL` returns at once when the
   operator's user has the root role (`acl.go:177`), which it gets before `AuthEnable`. A run that
   ends in between is never completed, while the later ones apply and record the configuration.
   The same happens without any failure if a user `etcd` exists, or is the operator itself.

Also seen while modelling, without a run of its own:

* a seeder whose restore failed has lost the local copy that it announced, and retries `Get` on it
  for ever while it shows START, so that nobody else is elected. `RecoversOrVanished` names it;
* when three instances lose their majority, a schedule exists in which they take turns: one
  rejoins and waits for a quorum while another, whose health check failed a moment earlier,
  stops its etcd to get ready to seed. `StaysAvailable` fails along it. Each turn needs the
  timers of the instances to stay out of step, so the runs on liveness leave a second crash out;
* a start that fails after `AddMember` leaves the same ghost as finding 4 (`AddRefused` from then
  on), so `Recovers` is not claimed with the fault kind `boot`: `fleet_three` claims `StaysAvailable`, and
  `RecoversOrGhost`;
* with a shared bucket a third fault makes finding 1 happen, so `fleet_two_recovers` has two (the theorems
  have any number, without that restart);
* without writes for a TTL, `Snapshot` finds the newest snapshot still there and skips, and its own
  `Purge` then removes it: the store is empty until the next interval. `BackedUp` says that it is
  filled again;
* a crash in `file.Save` leaves a temporary file that `Info` takes for a snapshot of its revision, and
  which would be restored if it were needed before the next write or the TTL;
* `rangeEnd` of a permission is never read: `applyACLConfig` computes the end of the range from
  `prefix` alone (`acl.go:53-58`), where `docs/init-acl.md:36-41` shows a range of keys;
* a configuration that names the operator's own user is accepted (validate.go:53-68). `applyACLConfig`
  then deletes that user (acl.go:85-90), and with authentication on etcd refuses every later request of the operator,
  the re-creation of the user included. Nothing in the program gives it back. The `acl` run goes through
  this: it is the exception (`Disowned`) in `NoLockout` and `Converges`;
* an invalid mode is only noticed half-way (acl.go:67-68), after the role was deleted and added again: every loop
  takes the role's permissions away and fails there. In the run it is the third version (`Unfit`);
* a user or a role named `root` is never applied nor removed once authentication is on, since etcd refuses to
  delete it and `applyACLConfig` and `removeACLConfig` stop at that;
* what the first application of a configuration left behind when it was interrupted is not removed by a later
  version: without the key there is no old configuration to remove;
* a configuration that leaves a list out is read back with an empty list instead of nil, so `Equal` is
  false and it is applied again in every loop, where `docs/init-acl.md:6` says once. The model has
  this (`explicit`); the runs use configurations that leave none out;
* the two `Stop`s of one server, by the loop and by the error watcher, can meet: `server.Server` is nil
  from server.go:316 on, and `Close` panics when it closes `Err()` a second time. The process restarts, which is
  why `EndsSupervised` holds;
* the cleaner and the snapshotter look at `isRunning` and not at their own server: when etcd restarts
  within their interval they go on with the next one, beside its own. Two snapshotters may then run for ever;
* the watcher's branch for `StopNotify` (server.go:400-403) never calls `Close`, so the listeners of that server
  stay open, beside the next server's, since `ReusePort` is set (server.go:349);
* SIGTERM is acted upon by `execute`, which does not run while `evaluate` fails (operator.go:104-107): while the
  cloud provider does not answer the stop is put off;
* `IsHealthy`'s test for a single address reads `len(c.clientsAddresses) == 0` (client.go:199) where its comment
  (client.go:191) says a single one, so the cleaner's question to a member is a linearizable read;
* a failed injection skips the test (tester.go:97-100) and leaves its stresser running: every later
  `IsConsistent` may find the members different and end the run. The goroutines it leaves behind kill members in
  the middle of the next test, although the log says that the test is skipped;
* `isHealthy` ignores what `ForEachMember` returns, and its goroutines share `leader` without a lock
  (tester/client.go:53-59): a change of leader may go unnoticed. The count of healthy members still makes
  `StartsHealthy` true;
* `putTxn` appends the failure branch to the wrong slice (stresser.go:155);
* `Cleanup` stops waiting for the other members' defragmentation once it has read as many results as there
  are members, two of which may come from one member that failed.

## 4. What is proved

All theorems hold for every value of the constants that their modules' assumptions allow: any number
of instances, members, servers, configurations, faults and revisions. Runs check `FleetInv`, `AclInv` and
`OwnerInv` on small instances; the other inductive invariants are defined next to their proofs.

### The fleet

| theorem | setting | says |
|---|---|---|
| `FleetSafety!TypeCorrect` | any | `Spec => []TypeOK` |
| `FleetSafety!OneSeeder` | `Orderly` | `OrderlySpec => []SeedAlone` |
| `FleetLog!FleetHolds` | `Orderly` | `OrderlySpec => []FleetInv`, the inductive invariant |
| `FleetLog!OneClusterRuns` | `Orderly` | `OrderlySpec => []OneCluster` |
| `FleetLog!NewestIsSeeded` | `Orderly` | `OrderlySpec => []SeedsLatest` |
| `FleetLog!NewestIsServed` | `Orderly` | `OrderlySpec => []ServesLatest` |
| `FleetPromise!CopiesAreKept` | `Careful` | `OrderlySpec => []AckedInv` |
| `FleetPromise!NoWriteIsLost` | `Careful` | `OrderlySpec => []AckedSurvives` |
| `FleetPromise!StepsKeepPromise` | `Careful` | `OrderlySpec => [][Promise!Next]_(Promise!vars)` |
| `FleetPromise!PromiseIsKept` | `Careful` | `Spec /\ OrderlySpec => KeepsPromise`: `Fleet` implements `DisasterRecovery` |
| `FleetPromise!FilesKeepPromise` | `Careful`, a directory each | `Spec => []FleetInv /\ []AckedInv /\ KeepsPromise` |

`OrderlySpec` is the specification of `Fleet` in two respects changed. It may also start from
`MinorityDown`, the complete cluster that has lost a process. And its steps are `Undisturbed`: if the
store is one bucket, nobody enters START between the poll that elects somebody else and the start of
that one's server. Since everybody was in START at that poll, this forbids a restart during a seed and
nothing else; it is what happens in finding 1, which is hence, in the settings below, the only way in which
a bucket makes two seeders. With a directory of snapshots per instance it asks for nothing (lemma `OwnStores`), and the
theorems are about `Spec`.

`Orderly` is the setting without finding 3: the two timing assumptions, no founder whose etcd dies
before its first loop, and a store that answers `SnapshotInfo`. `Careful` also leaves out what destroys a copy on purpose or in two ways at
once: nothing fails inside a restore (finding 2), and `boot` and `wipe` do not both happen. The last is needed:
when a rejoin fails, `Join` asks for the removal of its member and then removes its data directory
whether or not that was granted (server.go:138-152). If lost disks have taken the quorum away meanwhile and
this was the newest copy, what it alone had is gone. Two instances and three faults are too few
for it, which is why `fleet_two` may have both.

**One seeder.** `SeedAlone` is not inductive: an instance is harmless or not by what it saw in a poll that
is over. The strengthening `ElectionInv` starts earlier, at the poll that elects:

* a *candidate* is an instance whose answers elect it and whose health check has not said
  otherwise, or which is founding (`Candidate`);
* `CandidateAlone`: while there is one, nobody runs etcd or is about to rejoin with the data
  it has, nobody else is a candidate, no store has more than it announced, and whatever the others
  announce or have on disk ranks behind it (`Behind`) — so that whoever polls later loses the election;
* `FounderAhead`: a founder whose etcd came up still shows START for a while; it is ahead of
  everybody else who does, so that nobody can be elected against it;
* `Local`: where each instance may be, and that it announces the highest of its copies;
* `OneBucket` and `StoreKnown`: a bucket is the same for all, and while everybody waits in START somebody
  has announced at least what the newest snapshot holds. A bucket may well be ahead of what one instance
  announced before: it got there from somebody who ran etcd, and who had it still, or read it back, on
  entering START. So the winner of an election has nothing to fear from the bucket, without having read it.

Most steps are `Calm`: they elect nobody, announce nothing and, if there is a candidate,
start nothing, add to no copy of the others and to no store; `CalmStep` shows once that they keep the invariant.
Joining and writing need a quorum, that is, somebody who runs (`QuorumRuns`), and then there
is no candidate. Three steps remain: the poll (`EvaluateElectsOne`, through `ElectionMeans`:
if the count of START equals the size of the group, everybody answered START), the entry into
START (`ReadyKeeps`) and the start of the founder (`FounderKeeps`).

**One cluster.** `ClusterInv`: who runs, or is about to with the data it has (`Alive`), has data of a
cluster (`HasData`); all of them have the same (`AliveTogether`); and whoever a live cluster lists
by name has its data or none (`NamedBelong`), because an instance that founds another one can only be elected
when nobody runs. Most steps are `Idle`; each of the others has a lemma that says what it does to
databases and members (`...Does`), on which this and the following parts rest.

**Seeded from the newest copy.** `RestoreInv` follows one instance from what it announced to what it starts:
the copy it announced is still where it was, so what it restores has the revision that won the election,
and `CandidateAlone` says that no other copy exceeds it.

**Serving the newest revision.** `ServesLatest` is not inductive: members lag behind, and which of them
come together next is open. `LogInv` is the argument of
a replicated log: every majority of the members that may still come together (`MayRun`: those with data of
the cluster, and those just added) has somebody with the newest revision. A write, an `AddMember` or a
`RemoveMember` leaves its majority with everything committed, and two majorities meet, also
when the members differ by the one that was added or removed (`MajoritiesMeet` and the lemmas after
it). This is where modelling the changes of the members as entries of the log (`Commits`) matters: members
added one after the other, without entries of their own in the log, could make a majority with one that lags.

**No write is lost, and the refinement.** `AckedInv` says that a copy as recent as any is not only in the
hands of a rejoin that may give it up (`NewestKept`). The mapping takes `live` to the instances that are
`Alive`, `head` to the highest revision of theirs, `kept` to the highest of all copies. That these
highest values exist is a lemma on sets of numbers (`LeastExists`, by the library's well-foundedness of `<`).
`NextImplements` has a case for each action: `FleetInv` gives what the abstract step asks for, that
nobody is live when a cluster is founded, that it is founded from `kept`, that whoever enters has no more
than `head`; every other step is a stutter of `DisasterRecovery` or one of its losses.

### The snapshots

`SnapshotsProofs!WholeSnapshots` — `Spec => []SnapshotsAreWhole` for any number of servers, callers,
suffixes, faults and revisions, from `SnapshotsAssumption` and the assumptions built into
`Begin`, `TempFile` and `Expire`. A store in which final names are whole is not inductive: what
`Rename` moves must be whole as well. The strengthening `IInv` adds, per caller, that the dump is not
older than the revision it will be named after (`Saving`; the revision is read first, and only
grows), that its temporary file is in the store, is not old and is in no listing, so that no
purge of any caller can take it away (`Kept`), and that it is its own and holds the dump once it
is copied (`Owned`). `Others` shows once that a caller's step leaves the saves of the others
alone. (`SnapshotsTyped`, the types, is a part of it.)

### One process

`LifecycleProofs!FieldsAgree` — `Spec => []OwnerInv` — and `LifecycleProofs!OneOwner` —
`Spec => []DataDirIsOwned` — for any number of servers and
faults, from `LifecycleAssumption` and `WatchersArePrompt`. That nothing runs while the loop works on
the directory follows from what it read of `isRunning` a while ago, and two goroutines take `isRunning` back. So
`OwnerInv` says that what runs is the server started last; that `isRunning` is only taken back once
it has stopped; that a loop that has read FALSE is right until it starts a server itself; and that
a watcher still at work either works on the server in charge or is about to close a
channel that is closed already, which ends the process.

### The ACL reconciliation

`AclProofs!NeverLockedOut` — `Spec => []NoLockout` — for any configurations that `Validate` accepts: as long
as no version has named the operator's own user, the operator keeps its access. `LockInv` says that `todo` is empty or the end of what a run sets out to do: of
`<<Enable, Look>>` (`Enabling`) or of `Removal(old) \o Application(wanted)` (`Reconciling`), for
some version that is not newer (`Left`, `Begun`). `root` is safe because etcd refuses its deletion (`Protected`).
The operator's user is only touched by `enableACL` if no configuration names it; that deletes it only while
authentication is off, and has granted it the root role before the last three requests.

`AclProofs!WorkIsDone` — `Spec => []AclInv` — and `AclProofs!RecordIsTrue` — `Spec => []RecordedIsInForce` —
if no version leaves a list out (`Explicit`) or names what `enableACL` sets up (`Apart`: the role `root`, the
users `root`, `etcd` and the operator's). `AclInv` adds what the run has achieved (`Achieved`): the job of a role or a user that is done has put it in
force, one that is under way has put as much of it as requests have been made, and later jobs are about other names,
since names are used once; roles come before the users that are granted them. While a run reconciles the key never
holds the version that is wanted; the last request puts it there, when all is achieved. `Explicit` is
needed: a version with a list left out never equals what was read back, so a later run removes it while the key
still records it, and may fail there. (The next run then starts over, since it never equals.) `Apart` is: `enableACL`, run again, grants the
root role to the user `root` and may delete the operator's, which a configuration may have named with other roles. The
versions of the run that name `etcd`, and the operator's user with the root role, come to no such harm, and
TLC finds `AclInv` true of them as well.

### The tester

`TesterProofs!NilIsHonest` — `Spec => []NilMeansAll` for any number of members and faults. The caller counts
results without asking whose they are, and a member may send two. `ReadInv` says that until an error has
been read, every result read was the only one of a member that is done (`Clean`), and that whoever failed has its
error still to come. A caller that has read as many as there are members has therefore read them all:
the lemma on the last read is an argument on cardinalities. `TesterProofs!NobodyBlocks` —
`Spec => []RoomForAll`: a goroutine owes at most two results and each read takes one away, so
`Cardinality(Owed) + reads <= 2 * Cardinality(called)` (`RoomInv`), and after one read per member no more
are owed than `errChan` holds. `TesterProofs!HealthyAtFirst` —
`Spec => []StartsHealthy`, if `Size` is the number of members: `healthy` only ever holds members that
answered, so a count equal to `Size` means all of them, whatever the race drops.

`TesterProofs!TesterTyped` — `Spec => []TypeOK`. It needs `RunInv`: a test that is under way exists, and has
attempts left. `TesterProofs!VerdictIsTrue` — `Spec => []TrueVerdict`, again if `Size` is the number
of members. The verdict depends on what happened many calls before, so `VerdictInv` says where the
stressers are from test to test (only that of the test under way runs, and none while the members are compared,
unless a test was skipped), and that unless something went wrong since, every member that the last
health check counted is still up, so that no goroutine of the comparison has an error to report.
`TesterProofs!HitsAreNamed` — `Spec => HitAsNamed`, an action property. `HitInv` says that while no goroutine of the
injection failed, `taken` is the number of members hit, and whoever was spared was not to be hit or enough had
been; and that a call is only made with somebody to call, because a leader is listed.

### Only model-checked

`RevokedFirst`, an action property; `BackedUp`, `AppliedOnce` and all the other liveness (`RecoversOrVanished`, `StaysAvailable`, `RecoversOrGhost`,
`Converges`, `EndsSupervised`, `Terminates`, `SuiteEnds`), which is out of the prover's reach; and the
safety of a fleet with a bucket whose store may fail to answer and whose processes may restart at
any time (`fleet_two_recovers`), which holds with two faults and, by finding 1, not with more.
`Converges` is about configurations that leave no list out, as in the run.

## 5. What is not modelled, and the plan

What is left of the plan: the sessions behind `Lock`, their keep-alive and what happens to the lock of a
joiner whose session expires before it has started.

Not planned: the ASG providers (reads of a cloud API), configuration and addresses (pure
functions on one configuration, and formatting), logging (I/O), in the tester the verification of the marker
(it only logs), the mix of requests and the metrics, stores of more than 1000 objects and file names that do
not parse, resizing of the group (the size is a
constant of the model), and network partitions between instances that stay up longer than
what missed polls and health checks express.
