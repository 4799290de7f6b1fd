------------------------------- MODULE Fleet -------------------------------
(***************************************************************************)
(* A fleet of etcd-cloud-operator instances, each supervising one embedded *)
(* etcd server: the evaluate/execute/wait loop of pkg/operator and the     *)
(* Seed, Join, Restore, Stop, startServer and SnapshotInfo operations of   *)
(* pkg/etcd that it calls.  The instances share no memory: they read each  *)
(* other's /status page, they ask whichever etcd cluster answers whether   *)
(* it is healthy, and they use a snapshot store.                           *)
(*                                                                         *)
(* A loop is cut at the points where what it has read can become stale:    *)
(* after the statuses are fetched, after the health check, and around      *)
(* every slow call made by the branch that execute takes.                  *)
(*                                                                         *)
(* Embedded etcd is external code.  A cluster is named by the instance     *)
(* that founded it; what is modelled of it is which members it lists,      *)
(* which of them have published a name, that it serves requests while a    *)
(* majority of its members runs, that an acknowledged write is on a        *)
(* majority, and etcd's strict checks of a membership change.              *)
(***************************************************************************)
EXTENDS Naturals, FiniteSets

CONSTANTS
    Instance,     \* the instances of the auto-scaling group, in the order of their names
    SharedStore,  \* TRUE: one bucket for all (s3); FALSE: a directory on each instance (file)
    Timely,       \* TRUE: NoQuorumIsPending and NoFounderIsLeftBehind
    Faults,       \* the kinds of fault that may happen
    MaxFaults,    \* BOUND: how many of them
    MaxRevision   \* BOUND: the highest etcd revision

FaultKind ==
    {"crash", "crashRestore", "crashJoin", "wipe", "terminate", "etcd", "etcdEarly",
     "status", "health", "store", "save", "get", "restore", "boot"}

ASSUME FleetAssumption ==
    /\ Instance \subseteq Nat \ {0}
    /\ IsFiniteSet(Instance)
    /\ Instance # {}
    /\ SharedStore \in BOOLEAN
    /\ Timely \in BOOLEAN
    /\ Faults \subseteq FaultKind
    /\ MaxFaults \in Nat
    /\ MaxRevision \in Nat \ {0}

ClusterSize == Cardinality(Instance)
NoCluster   == 0
Revision    == 0 .. MaxRevision

(* s.etcdSnapshot: the copy SnapshotInfo chose.  nil advertises revision 0. *)
Metadata   == [revision : Revision, source : {"none", "local", "store"}]
NoSnapshot == [revision |-> 0, source |-> "none"]

VARIABLES
    pc,            \* where the instance is in its loop; "down": no process
    state,         \* Operator.state, served on /status
    snapshot,      \* Operator.etcdSnapshot; its revision is served on /status
    shutdown,      \* Operator.shutdown
    isRunning,     \* Server.isRunning
    etcdRunning,   \* Operator.etcdRunning, sampled by evaluate
    etcdHealthy,   \* Operator.etcdHealthy
    answers,       \* ecoStatuses, from which isSeeder and states are computed
    target,        \* the cluster that Join talks to
    initialPURLs,  \* Server.cfg.initialPURLs, as the set of members named in it
    data,          \* revision of the database in DataDir; 0: no data directory
    cluster,       \* the cluster the data directory belongs to
    temp,          \* revision of the copy Restore works from; 0: none
    members,       \* etcd: the members a cluster lists
    named,         \* etcd: those that have published a name (IsStarted)
    store,         \* revision of the newest snapshot an instance finds in the store
    acked,         \* ghost: highest acknowledged revision not destroyed from outside
    faults         \* faults spent

loopVars  == <<etcdRunning, etcdHealthy, answers>>
joinVars  == <<target, initialPURLs>>
dataVars  == <<data, cluster, temp>>
etcdVars  == <<members, named>>
ghostVars == <<acked, faults>>
vars == <<pc, state, snapshot, shutdown, isRunning, loopVars, joinVars, dataVars,
          etcdVars, store, ghostVars>>

Control == {"down", "wait", "health", "execute", "seed", "restore", "join", "rejoin",
            "add", "start", "ready", "stop", "close"}
State   == {"UNKNOWN", "PENDING", "OK", "START"}
Status  == [instance : Instance, state : State, revision : Revision]

TypeOK ==
    /\ pc \in [Instance -> Control]
    /\ state \in [Instance -> State]
    /\ snapshot \in [Instance -> Metadata]
    /\ shutdown \in [Instance -> BOOLEAN]
    /\ isRunning \in [Instance -> BOOLEAN]
    /\ etcdRunning \in [Instance -> BOOLEAN]
    /\ etcdHealthy \in [Instance -> BOOLEAN]
    /\ answers \in [Instance -> SUBSET Status]
    /\ target \in [Instance -> Instance \cup {NoCluster}]
    /\ initialPURLs \in [Instance -> SUBSET Instance]
    /\ data \in [Instance -> Revision]
    /\ cluster \in [Instance -> Instance \cup {NoCluster}]
    /\ temp \in [Instance -> Revision]
    /\ members \in [Instance -> SUBSET Instance]
    /\ named \in [Instance -> SUBSET Instance]
    /\ store \in [Instance -> Revision]
    /\ acked \in Revision
    /\ faults \in 0 .. MaxFaults

-----------------------------------------------------------------------------
(* The embedded etcd clusters. *)

Up(f)        == {j \in members[f] : isRunning[j] /\ cluster[j] = f}
Majority(S, T) == 2 * Cardinality(S) > Cardinality(T)
HasQuorum(f) == Majority(Up(f), members[f])

(* isReadyToAddVotingMember and isConnectedFullySince, and the peer URL must be new. *)
AcceptsMember(f, i) ==
    /\ i \notin members[f]
    /\ members[f] \subseteq Up(f)
    /\ \/ 2 * Cardinality(named[f]) > Cardinality(members[f]) + 1
       \/ Cardinality(named[f]) = 1 /\ Cardinality(members[f]) = 1

(* isReadyToRemoveVotingMember. *)
ReleasesMember(f, i) ==
    /\ HasQuorum(f)
    /\ i \in members[f]
    /\ Majority(named[f] \ {i}, members[f] \ {i})

SetAt(g, i, v) == [g EXCEPT ![i] = v]
Goto(i, p)     == pc' = SetAt(pc, i, p)

IsHighest(r, S) == r \in S /\ \A s \in S : s <= r

(* An entry of the log, a write or a change of the members, is committed once a *)
(* majority Q of the members has it, and so has all that comes before it, r.    *)
Commits(f, Q, r) ==
    /\ Q \in SUBSET Up(f)
    /\ Majority(Q, members[f])
    /\ IsHighest(r, {data[j] : j \in Up(f)})
Holding(Q, r) == [j \in Instance |-> IF j \in Q THEN r ELSE data[j]]

-----------------------------------------------------------------------------
(* What execute decides from. *)

(* The sort of fetchStatuses: by revision, then by name; the last one is the seeder. *)
Before(s, t) ==
    \/ s.revision < t.revision
    \/ s.revision = t.revision /\ s.instance < t.instance

(* Variant: the names do not break ties. *)
IsSeederByRevision(i) ==
    \E s \in answers[i] : s.instance = i /\ \A t \in answers[i] : t.revision <= s.revision

IsSeeder(i) ==
    \E s \in answers[i] : s.instance = i /\ \A t \in answers[i] : t = s \/ Before(t, s)

Count(i, st) == Cardinality({s \in answers[i] : s.state = st})

(* Variants: all that answered are ready; a majority is ready. *)
AllAnsweringReady(i) == \A s \in answers[i] : s.state = "START"
MostReady(i) == Cardinality({s \in answers[i] : s.state = "START"}) >= ClusterSize \div 2 + 1

AllReady(i)  == Count(i, "START") = ClusterSize
Confirmed(i) == Count(i, "OK") >= ClusterSize \div 2 + 1

(* The copies of the keyspace that exist: data directories, the store, Restore's copy. *)
Copies == {data[i] : i \in Instance} \cup {store[i] : i \in Instance}
            \cup {temp[i] : i \in Instance}

(* Variant: the snapshot is named after the next revision. *)
SavedAsNext(i, r) ==
    [j \in Instance |-> IF (j = i \/ SharedStore) /\ store[j] < r THEN r + 1 ELSE store[j]]

(* Provider.Save: the newest snapshot that Info finds afterwards. *)
Saved(i, r) ==
    [j \in Instance |-> IF (j = i \/ SharedStore) /\ store[j] < r THEN r ELSE store[j]]

Fault(kind) ==
    /\ kind \in Faults
    /\ faults < MaxFaults
    /\ faults' = faults + 1

-----------------------------------------------------------------------------
Init ==
    /\ pc           = [i \in Instance |-> "wait"]
    /\ state        = [i \in Instance |-> "UNKNOWN"]
    /\ snapshot     = [i \in Instance |-> NoSnapshot]
    /\ shutdown     = [i \in Instance |-> FALSE]
    /\ isRunning    = [i \in Instance |-> FALSE]
    /\ etcdRunning  = [i \in Instance |-> FALSE]
    /\ etcdHealthy  = [i \in Instance |-> FALSE]
    /\ answers      = [i \in Instance |-> {}]
    /\ target       = [i \in Instance |-> NoCluster]
    /\ initialPURLs = [i \in Instance |-> {}]
    /\ data         = [i \in Instance |-> 0]
    /\ cluster      = [i \in Instance |-> NoCluster]
    /\ temp         = [i \in Instance |-> 0]
    /\ members      = [i \in Instance |-> {}]
    /\ named        = [i \in Instance |-> {}]
    /\ store        = [i \in Instance |-> 0]
    /\ acked        = 0
    /\ faults       = 0

-----------------------------------------------------------------------------
(* evaluate.  etcdRunning is sampled before the statuses are asked for, and *)
(* the health check, up to three attempts of ten seconds, answers last.     *)

Answering == {j \in Instance : pc[j] # "down"}

Evaluate(i, silent) ==
    /\ pc[i] = "wait"
    /\ etcdRunning' = SetAt(etcdRunning, i, isRunning[i])
    /\ answers' = SetAt(answers, i,
           {[instance |-> j, state |-> state[j], revision |-> snapshot[j].revision] :
               j \in Answering \ silent})
    /\ Goto(i, "health")
    /\ UNCHANGED <<state, snapshot, shutdown, isRunning, etcdHealthy, joinVars, dataVars,
                   etcdVars, store, acked>>

FetchStatuses(i) == Evaluate(i, {}) /\ UNCHANGED faults

(* Some requests fail; when all do, see MissAllStatuses. *)
MissStatuses(i, silent) ==
    /\ silent # {}
    /\ Answering \ silent # {}
    /\ Evaluate(i, silent)
    /\ Fault("status")

HealthAnswer(i, healthy) ==
    /\ pc[i] = "health"
    /\ etcdHealthy' = SetAt(etcdHealthy, i, healthy)
    /\ Goto(i, "execute")
    /\ UNCHANGED <<state, snapshot, shutdown, isRunning, etcdRunning, answers, joinVars,
                   dataVars, etcdVars, store, acked>>

(* ASSUMPTION (Timely): a member that was just added starts its server       *)
(* before a health check (30s) or a start (300s, 1800s) gives up, so that    *)
(* the quorum it is needed for is not reported lost.                        *)
Joining(f) == {j \in members[f] : pc[j] = "start" /\ target[j] = f}
NoQuorumIsPending ==
    Timely => \A f \in Instance : ~Majority(Up(f) \cup Joining(f), members[f])

CheckHealth(i) ==
    /\ \/ \E f \in Instance : HasQuorum(f) /\ HealthAnswer(i, TRUE)
       \/ (\A f \in Instance : ~HasQuorum(f)) /\ NoQuorumIsPending /\ HealthAnswer(i, FALSE)
    /\ UNCHANGED faults
MissHealth(i)  == HealthAnswer(i, FALSE) /\ Fault("health")

-----------------------------------------------------------------------------
(* execute.  The fields evaluate filled are dead once a branch is chosen.   *)

Branch(i, p, st) ==
    /\ pc[i] = "execute"
    /\ Goto(i, p)
    /\ state' = SetAt(state, i, st)
    /\ etcdRunning' = SetAt(etcdRunning, i, FALSE)
    /\ etcdHealthy' = SetAt(etcdHealthy, i, FALSE)
    /\ answers' = SetAt(answers, i, {})

StopOr(i, p) == IF isRunning[i] THEN "stop" ELSE p

ExecShutdown(i) ==
    /\ shutdown[i]
    /\ isRunning[i]
    /\ Branch(i, "stop", "PENDING")
    /\ UNCHANGED <<snapshot, shutdown, isRunning, joinVars, dataVars, etcdVars, store,
                   ghostVars>>

(* Variant: START is looked at first, and waits for everybody to be ready. *)
ExecJoinUnlessStart(i) ==
    /\ ~shutdown[i] /\ etcdHealthy[i] /\ ~etcdRunning[i]
    /\ IF state[i] = "START" THEN Branch(i, "wait", "START") ELSE Branch(i, "join", "PENDING")
    /\ UNCHANGED <<snapshot, shutdown, isRunning, joinVars, dataVars, etcdVars, store,
                   ghostVars>>

ExecJoin(i) ==
    /\ ~shutdown[i] /\ etcdHealthy[i] /\ ~etcdRunning[i]
    /\ Branch(i, "join", "PENDING")
    /\ UNCHANGED <<snapshot, shutdown, isRunning, joinVars, dataVars, etcdVars, store,
                   ghostVars>>

ExecStandby(i) ==
    /\ ~shutdown[i] /\ etcdHealthy[i] /\ etcdRunning[i]
    /\ Branch(i, "wait", "OK")
    /\ UNCHANGED <<snapshot, shutdown, isRunning, joinVars, dataVars, etcdVars, store,
                   ghostVars>>

ExecPending(i) ==
    /\ ~shutdown[i] /\ ~etcdHealthy[i] /\ etcdRunning[i]
    /\ Confirmed(i)
    /\ Branch(i, "wait", "PENDING")
    /\ UNCHANGED <<snapshot, shutdown, isRunning, joinVars, dataVars, etcdVars, store,
                   ghostVars>>

ExecStop(i) ==
    /\ ~shutdown[i] /\ ~etcdHealthy[i] /\ etcdRunning[i]
    /\ ~Confirmed(i)
    /\ Branch(i, StopOr(i, "wait"), "PENDING")
    /\ UNCHANGED <<snapshot, shutdown, isRunning, joinVars, dataVars, etcdVars, store,
                   ghostVars>>

(* Variant: the store is preferred to a newer database. *)
SnapshotInfoStoreFirst(i) ==
    IF store[i] > 0 THEN [revision |-> store[i], source |-> "store"]
    ELSE IF data[i] > 0 THEN [revision |-> data[i], source |-> "local"] ELSE NoSnapshot

(* SnapshotInfo.  The local database wins a tie. *)
SnapshotInfo(i) ==
    IF data[i] = 0 /\ store[i] = 0 THEN NoSnapshot
    ELSE IF data[i] > 0 /\ data[i] >= store[i]
         THEN [revision |-> data[i], source |-> "local"]
         ELSE [revision |-> store[i], source |-> "store"]

NotElected(i) ==
    /\ ~shutdown[i] /\ ~etcdHealthy[i] /\ ~etcdRunning[i]
    /\ ~AllReady(i) \/ ~IsSeeder(i)

(* ASSUMPTION (Timely): an instance does not become ready to start while    *)
(* another one still shows START after its etcd server came up.  Leaving    *)
(* START takes the founder one loop, at most 15s of wait and 30s of health  *)
(* check; the other has to be told that etcd is healthy, join, lose etcd    *)
(* and be told three times, 10s each, that it is not.                       *)
NoFounderIsLeftBehind(i) ==
    Timely => \A j \in Instance \ {i} : ~(isRunning[j] /\ state[j] = "START")

ExecReady(i) ==
    /\ NotElected(i)
    /\ state[i] # "START" => NoFounderIsLeftBehind(i)
    /\ Branch(i, "wait", "START")
    /\ snapshot' = IF state[i] = "START" THEN snapshot
                   ELSE SetAt(snapshot, i, SnapshotInfo(i))
    /\ UNCHANGED <<shutdown, isRunning, joinVars, dataVars, etcdVars, store, ghostVars>>

(* The store does not answer SnapshotInfo: the local copy if there is one,  *)
(* else an error, which leaves the state as it was and the snapshot nil.    *)
ExecReadyNoStore(i) ==
    /\ NotElected(i)
    /\ state[i] # "START"
    /\ NoFounderIsLeftBehind(i)
    /\ Fault("store")
    /\ IF data[i] > 0
       THEN /\ Branch(i, "wait", "START")
            /\ snapshot' = SetAt(snapshot, i, [revision |-> data[i], source |-> "local"])
       ELSE /\ Branch(i, "wait", state[i])
            /\ snapshot' = SetAt(snapshot, i, NoSnapshot)
    /\ UNCHANGED <<shutdown, isRunning, joinVars, dataVars, etcdVars, store, acked>>

(* Seed: with a snapshot Restore takes over, without one the data directory goes. *)
ExecSeed(i) ==
    /\ ~shutdown[i] /\ ~etcdHealthy[i] /\ ~etcdRunning[i]
    /\ AllReady(i) /\ IsSeeder(i)
    /\ LET fresh == snapshot[i].source = "none" IN
       /\ Branch(i, IF fresh THEN "start" ELSE "seed", "START")
       /\ data' = IF fresh THEN SetAt(data, i, 0) ELSE data
       /\ cluster' = IF fresh THEN SetAt(cluster, i, NoCluster) ELSE cluster
    /\ UNCHANGED <<snapshot, shutdown, isRunning, joinVars, temp, etcdVars, store, ghostVars>>

-----------------------------------------------------------------------------
(* Restore. *)

(* Variant: RemoveAll(DataDir) comes first. *)
SeedRemoveThenGet(i) ==
    /\ pc[i] = "seed"
    /\ data' = SetAt(data, i, 0)
    /\ cluster' = SetAt(cluster, i, NoCluster)
    /\ temp' = SetAt(temp, i, IF snapshot[i].source = "local" THEN data'[i]
                              ELSE snapshot[i].revision)
    /\ Goto(i, "restore")
    /\ UNCHANGED <<state, snapshot, shutdown, isRunning, loopVars, joinVars, etcdVars, store,
                   ghostVars>>

(* Source.Get, then RemoveAll(DataDir).  The local source copies the database as it is now. *)
SeedGet(i) ==
    /\ pc[i] = "seed"
    /\ snapshot[i].source = "local" => data[i] > 0
    /\ temp' = SetAt(temp, i, IF snapshot[i].source = "local" THEN data[i]
                              ELSE snapshot[i].revision)
    /\ data' = SetAt(data, i, 0)
    /\ cluster' = SetAt(cluster, i, NoCluster)
    /\ Goto(i, "restore")
    /\ UNCHANGED <<state, snapshot, shutdown, isRunning, loopVars, joinVars, etcdVars, store,
                   ghostVars>>

BackToWait(i) ==
    /\ Goto(i, "wait")
    /\ temp' = SetAt(temp, i, 0)
    /\ target' = SetAt(target, i, NoCluster)
    /\ initialPURLs' = SetAt(initialPURLs, i, {})
    /\ UNCHANGED <<state, snapshot, shutdown, isRunning, loopVars, store, acked>>

(* The database that was announced is gone: nothing is removed, and START stays. *)
SeedGetMissing(i) ==
    /\ pc[i] = "seed"
    /\ snapshot[i].source = "local" /\ data[i] = 0
    /\ BackToWait(i)
    /\ UNCHANGED <<data, cluster, etcdVars, faults>>

SeedGetFails(i) ==
    /\ pc[i] = "seed"
    /\ Fault("get")
    /\ BackToWait(i)
    /\ UNCHANGED <<data, cluster, etcdVars>>

(* etcdctl restore writes a data directory for a cluster of one. *)
RestoreData(i) ==
    /\ pc[i] = "restore"
    /\ data' = SetAt(data, i, temp[i])
    /\ cluster' = SetAt(cluster, i, i)
    /\ temp' = SetAt(temp, i, 0)
    /\ members' = SetAt(members, i, {i})
    /\ named' = SetAt(named, i, {i})
    /\ Goto(i, "start")
    /\ UNCHANGED <<state, snapshot, shutdown, isRunning, loopVars, joinVars, store, ghostVars>>

(* The deferred os.Remove drops the copy as well. *)
RestoreFails(i) ==
    /\ pc[i] = "restore"
    /\ Fault("restore")
    /\ BackToWait(i)
    /\ UNCHANGED <<data, cluster, etcdVars>>

-----------------------------------------------------------------------------
(* The process ends: a panic, os.Exit or a crash.  What is on disk stays.   *)

Die(i) ==
    /\ Goto(i, "down")
    /\ state' = SetAt(state, i, "UNKNOWN")
    /\ snapshot' = SetAt(snapshot, i, NoSnapshot)
    /\ shutdown' = SetAt(shutdown, i, FALSE)
    /\ isRunning' = SetAt(isRunning, i, FALSE)
    /\ etcdRunning' = SetAt(etcdRunning, i, FALSE)
    /\ etcdHealthy' = SetAt(etcdHealthy, i, FALSE)
    /\ answers' = SetAt(answers, i, {})
    /\ target' = SetAt(target, i, NoCluster)
    /\ initialPURLs' = SetAt(initialPURLs, i, {})
    /\ temp' = SetAt(temp, i, 0)
    /\ UNCHANGED <<data, cluster, etcdVars, store, acked>>

(* Stop returns at once when etcd does not run; os.Exit follows. *)
ExecExit(i) ==
    /\ pc[i] = "execute"
    /\ shutdown[i]
    /\ ~isRunning[i]
    /\ Die(i)
    /\ UNCHANGED faults

-----------------------------------------------------------------------------
(* Join. *)

JoinUnreachable(i) ==
    /\ pc[i] = "join"
    /\ \A f \in Instance : ~HasQuorum(f)
    /\ BackToWait(i)
    /\ UNCHANGED <<data, cluster, etcdVars, faults>>

(* MemberList.  A listed member with local data rejoins as it is; any other  *)
(* removes its data directory and asks to be added.                         *)
JoinList(i, f) ==
    /\ pc[i] = "join"
    /\ HasQuorum(f)
    /\ target' = SetAt(target, i, f)
    /\ initialPURLs' = SetAt(initialPURLs, i, named[f] \cup {i})
    /\ IF i \in named[f] /\ data[i] > 0
       THEN Goto(i, "rejoin") /\ UNCHANGED <<data, cluster>>
       ELSE /\ Goto(i, "add")
            /\ data' = SetAt(data, i, 0)
            /\ cluster' = SetAt(cluster, i, NoCluster)
    /\ UNCHANGED <<state, snapshot, shutdown, isRunning, loopVars, temp, etcdVars, store,
                   ghostVars>>

Rejoin(i) ==
    /\ pc[i] = "rejoin"
    /\ isRunning' = SetAt(isRunning, i, TRUE)
    /\ Goto(i, "ready")
    /\ UNCHANGED <<state, snapshot, shutdown, loopVars, joinVars, dataVars, etcdVars, store,
                   ghostVars>>

(* StartEtcd refuses: Join removes the member, its data, and adds it again. *)
RejoinFails(i) ==
    /\ pc[i] = "rejoin"
    /\ Fault("boot")
    /\ LET f == target[i] IN
       \/ /\ ReleasesMember(f, i)
          /\ members' = SetAt(members, f, members[f] \ {i})
          /\ named' = SetAt(named, f, named[f] \ {i})
          /\ \E Q \in SUBSET Up(f), r \in Revision :
               Commits(f, Q, r) /\ data' = SetAt(Holding(Q, r), i, 0)
       \/ /\ ~ReleasesMember(f, i)
          /\ data' = SetAt(data, i, 0)
          /\ UNCHANGED etcdVars
    /\ cluster' = SetAt(cluster, i, NoCluster)
    /\ Goto(i, "add")
    /\ UNCHANGED <<state, snapshot, shutdown, isRunning, loopVars, joinVars, temp, store, acked>>

AddMember(i) ==
    /\ pc[i] = "add"
    /\ HasQuorum(target[i])
    /\ AcceptsMember(target[i], i)
    /\ members' = SetAt(members, target[i], members[target[i]] \cup {i})
    /\ \E Q \in SUBSET Up(target[i]), r \in Revision :
         Commits(target[i], Q, r) /\ data' = Holding(Q, r)
    /\ Goto(i, "start")
    /\ UNCHANGED <<state, snapshot, shutdown, isRunning, loopVars, joinVars, cluster, temp, named,
                   store, ghostVars>>

AddRefused(i) ==
    /\ pc[i] = "add"
    /\ ~HasQuorum(target[i]) \/ ~AcceptsMember(target[i], i)
    /\ BackToWait(i)
    /\ UNCHANGED <<data, cluster, etcdVars, faults>>

-----------------------------------------------------------------------------
(* startServer, for a founder (target = NoCluster) and for a joiner. *)

StartFounder(i) ==
    /\ pc[i] = "start"
    /\ target[i] = NoCluster
    /\ data' = IF data[i] = 0 THEN SetAt(data, i, 1) ELSE data
    /\ cluster' = SetAt(cluster, i, i)
    /\ members' = SetAt(members, i, {i})
    /\ named' = SetAt(named, i, {i})
    /\ isRunning' = SetAt(isRunning, i, TRUE)
    /\ Goto(i, "ready")
    /\ UNCHANGED <<state, snapshot, shutdown, loopVars, joinVars, temp, store, ghostVars>>

(* etcd compares the initial cluster it is given with the members a peer lists. *)
StartJoiner(i) ==
    /\ pc[i] = "start"
    /\ target[i] # NoCluster
    /\ Up(target[i]) # {}
    /\ initialPURLs[i] = members[target[i]]
    /\ data' = SetAt(data, i, 1)
    /\ cluster' = SetAt(cluster, i, target[i])
    /\ isRunning' = SetAt(isRunning, i, TRUE)
    /\ Goto(i, "ready")
    /\ UNCHANGED <<state, snapshot, shutdown, loopVars, joinVars, temp, etcdVars, store,
                   ghostVars>>

(* The RemoveMember of Join's error path asks for the lock that AddMember's  *)
(* session still holds (its unlock is deferred to the return): it times out, *)
(* its error is dropped, and the member stays listed without a name.         *)
StartRefused(i) ==
    /\ pc[i] = "start"
    /\ target[i] # NoCluster
    /\ Up(target[i]) = {} \/ initialPURLs[i] # members[target[i]]
    /\ BackToWait(i)
    /\ UNCHANGED <<data, cluster, etcdVars, faults>>

StartFails(i) ==
    /\ pc[i] = "start"
    /\ Fault("boot")
    /\ BackToWait(i)
    /\ UNCHANGED <<data, cluster, etcdVars>>

CanServe(i) == HasQuorum(cluster[i]) /\ i \in members[cluster[i]]

(* ReadyNotify: the member has caught up with its cluster and publishes its name. *)
BecomeReady(i) ==
    /\ pc[i] = "ready"
    /\ CanServe(i)
    /\ \E r \in Revision :
         /\ IsHighest(r, {data[j] : j \in Up(cluster[i])})
         /\ data' = SetAt(data, i, r)
    /\ named' = SetAt(named, cluster[i], named[cluster[i]] \cup {i})
    /\ target' = SetAt(target, i, NoCluster)
    /\ initialPURLs' = SetAt(initialPURLs, i, {})
    /\ Goto(i, "wait")
    /\ UNCHANGED <<state, snapshot, shutdown, isRunning, loopVars, cluster, temp, members,
                   store, ghostVars>>

(* The start timeout, or etcd reporting that it was removed: panic. *)
StartTimeout(i) ==
    /\ pc[i] = "ready"
    /\ ~CanServe(i)
    /\ i \in members[cluster[i]] => NoQuorumIsPending
    /\ Die(i)
    /\ UNCHANGED faults

-----------------------------------------------------------------------------
(* Stop(_, TRUE), from the SIGTERM branch and from the loss of quorum. *)

StopSnapshot(i) ==
    /\ pc[i] = "stop"
    /\ store' = IF isRunning[i] THEN Saved(i, data[i]) ELSE store
    /\ Goto(i, "close")
    /\ UNCHANGED <<state, snapshot, shutdown, isRunning, loopVars, joinVars, dataVars,
                   etcdVars, ghostVars>>

StopSnapshotFails(i) ==
    /\ pc[i] = "stop"
    /\ Fault("save")
    /\ Goto(i, "close")
    /\ UNCHANGED <<state, snapshot, shutdown, isRunning, loopVars, joinVars, dataVars,
                   etcdVars, store, acked>>

CloseServer(i) ==
    /\ pc[i] = "close"
    /\ ~shutdown[i]
    /\ isRunning' = SetAt(isRunning, i, FALSE)
    /\ Goto(i, "wait")
    /\ UNCHANGED <<state, snapshot, shutdown, loopVars, joinVars, dataVars, etcdVars, store,
                   ghostVars>>

Exit(i) ==
    /\ pc[i] = "close"
    /\ shutdown[i]
    /\ Die(i)
    /\ UNCHANGED faults

Restart(i) ==
    /\ pc[i] = "down"
    /\ Goto(i, "wait")
    /\ UNCHANGED <<state, snapshot, shutdown, isRunning, loopVars, joinVars, dataVars,
                   etcdVars, store, ghostVars>>

-----------------------------------------------------------------------------
(* The goroutines startServer leaves behind, and the clients of etcd. *)

Serving(i) == isRunning[i] /\ i \in named[cluster[i]]

(* runSnapshotter. *)
PeriodicSnapshot(i) ==
    /\ Serving(i)
    /\ store[i] < data[i]
    /\ store' = Saved(i, data[i])
    /\ UNCHANGED <<pc, state, snapshot, shutdown, isRunning, loopVars, joinVars, dataVars,
                   etcdVars, ghostVars>>

(* runMemberCleaner: a named member that has not answered for UnhealthyMemberTTL.  It *)
(* may be down, or on its way back: a rejoin takes up to 300s and holds no lock.      *)
CleanMember(i, j) ==
    /\ Serving(i)
    /\ LET f == cluster[i] IN
       /\ j \in named[f]
       /\ j \in Up(f) => pc[j] = "ready" /\ target[j] = f
       /\ ReleasesMember(f, j)
       /\ members' = SetAt(members, f, members[f] \ {j})
       /\ named' = SetAt(named, f, named[f] \ {j})
       /\ \E Q \in SUBSET Up(f), r \in Revision : Commits(f, Q, r) /\ data' = Holding(Q, r)
    /\ UNCHANGED <<pc, state, snapshot, shutdown, isRunning, loopVars, joinVars, cluster, temp,
                   store, ghostVars>>

(* A client's write is acknowledged once a majority Q of the members has it. *)
Write(f, Q) ==
    /\ \E r \in Revision :
         /\ Commits(f, Q, r)
         /\ r < MaxRevision
         /\ data' = Holding(Q, r + 1)
         /\ acked' = r + 1
    /\ UNCHANGED <<pc, state, snapshot, shutdown, isRunning, loopVars, joinVars, cluster, temp,
                   etcdVars, store, faults>>

-----------------------------------------------------------------------------
(* What may go wrong around them; every kind is bounded by MaxFaults. *)

CrashKind(i) == CASE pc[i] = "restore" -> "crashRestore"
                  [] target[i] # NoCluster -> "crashJoin"
                  [] OTHER -> "crash"

Crash(i) ==
    /\ pc[i] # "down"
    /\ Fault(CrashKind(i))
    /\ Die(i)

(* No status at all, not even the instance's own: ecoStatuses[len-1] panics. *)
MissAllStatuses(i) ==
    /\ pc[i] = "wait"
    /\ Fault("status")
    /\ Die(i)

(* The instance is replaced: its disk is new. *)
Wipe(i) ==
    /\ pc[i] = "down"
    /\ Fault("wipe")
    /\ data' = SetAt(data, i, 0)
    /\ cluster' = SetAt(cluster, i, NoCluster)
    /\ store' = IF SharedStore THEN store ELSE SetAt(store, i, 0)
    /\ UNCHANGED temp
    /\ \E r \in Revision :
         /\ IsHighest(r, Copies')
         /\ acked' = IF acked <= r THEN acked ELSE r
    /\ UNCHANGED <<pc, state, snapshot, shutdown, isRunning, loopVars, joinVars, etcdVars>>

(* SIGTERM, received by wait. *)
Terminate(i) ==
    /\ pc[i] = "wait"
    /\ ~shutdown[i]
    /\ Fault("terminate")
    /\ shutdown' = SetAt(shutdown, i, TRUE)
    /\ UNCHANGED <<pc, state, snapshot, isRunning, loopVars, joinVars, dataVars, etcdVars,
                   store, acked>>

(* runErrorWatcher: etcd stops by itself and the operator lives on.  Kept apart when the *)
(* state is START: the founder's first loop after Seed, or a joiner's whose view is old. *)
EtcdFails(i) ==
    /\ isRunning[i]
    /\ pc[i] # "ready"
    /\ Fault(IF state[i] = "START" THEN "etcdEarly" ELSE "etcd")
    /\ isRunning' = SetAt(isRunning, i, FALSE)
    /\ UNCHANGED <<pc, state, snapshot, shutdown, loopVars, joinVars, dataVars, etcdVars,
                   store, acked>>

-----------------------------------------------------------------------------
(* The operator's loop. *)
Step(i) ==
    \/ FetchStatuses(i)
    \/ CheckHealth(i)
    \/ ExecShutdown(i)
    \/ ExecExit(i)
    \/ ExecJoin(i)
    \/ ExecStandby(i)
    \/ ExecPending(i)
    \/ ExecStop(i)
    \/ ExecReady(i)
    \/ ExecSeed(i)
    \/ SeedGet(i)
    \/ SeedGetMissing(i)
    \/ RestoreData(i)
    \/ JoinUnreachable(i)
    \/ \E f \in Instance : JoinList(i, f)
    \/ Rejoin(i)
    \/ AddMember(i)
    \/ AddRefused(i)
    \/ StartFounder(i)
    \/ StartJoiner(i)
    \/ StartRefused(i)
    \/ BecomeReady(i)
    \/ StartTimeout(i)
    \/ StopSnapshot(i)
    \/ CloseServer(i)
    \/ Exit(i)
    \/ Restart(i)

Failure(i) ==
    \/ \E silent \in SUBSET Instance : MissStatuses(i, silent)
    \/ MissAllStatuses(i)
    \/ MissHealth(i)
    \/ ExecReadyNoStore(i)
    \/ SeedGetFails(i)
    \/ RestoreFails(i)
    \/ RejoinFails(i)
    \/ StartFails(i)
    \/ StopSnapshotFails(i)
    \/ Crash(i)
    \/ Wipe(i)
    \/ Terminate(i)
    \/ EtcdFails(i)

Cleaning == \E i, j \in Instance : CleanMember(i, j)

Environment ==
    \/ \E i \in Instance : PeriodicSnapshot(i)
    \/ \E f \in Instance, Q \in SUBSET Instance : Write(f, Q)

Next ==
    \/ \E i \in Instance : Step(i)
    \/ \E i \in Instance : Failure(i)
    \/ Cleaning
    \/ Environment

Spec == Init /\ [][Next]_vars

(* Every loop keeps turning (a ticker, bounded timeouts, Restart=always) and *)
(* the cleaner ticks.  Nothing is assumed of faults, clients and snapshots. *)
Fairness ==
    /\ \A i \in Instance : WF_vars(Step(i))
    /\ WF_vars(Cleaning)

FairSpec == Spec /\ Fairness

-----------------------------------------------------------------------------
(* Properties *)

(* An instance is founding a cluster from the decision to seed until its etcd runs. *)
Founding(i) ==
    \/ pc[i] \in {"seed", "restore"}
    \/ pc[i] = "start" /\ target[i] = NoCluster

(* No split brain by seeding: while an instance takes its data directory     *)
(* apart to found a new cluster, no other one runs etcd or does the same.   *)
SeedAlone ==
    \A i, j \in Instance : i # j /\ Founding(i) => ~isRunning[j] /\ ~Founding(j)

(* All the etcd servers that run belong to one cluster. *)
OneCluster ==
    \A i, j \in Instance : isRunning[i] /\ isRunning[j] => cluster[i] = cluster[j]

(* A new cluster is seeded from the latest revision anyone still has.        *)
SeedsLatest ==
    \A i \in Instance :
        pc[i] = "restore" => \A r \in Copies : r <= temp[i]

(* A cluster that answers its clients has the newest revision of all that     *)
(* exist: neither the election nor a rejoin nor a change of its members       *)
(* leaves it behind a copy that somebody else has.                           *)
ServesLatest ==
    \A f \in Instance : HasQuorum(f) =>
        \A r \in Copies : \E j \in Up(f) : r <= data[j]

(* What was acknowledged to a client is still somewhere: in a data           *)
(* directory, in the store or in the copy a Restore works from.             *)
AckedSurvives == \E r \in Copies : acked <= r

(* The fleet heals: once faults cease, every instance ends up running in one *)
(* cluster and reports OK.                                                  *)
Recovered ==
    \A i \in Instance : Serving(i) /\ state[i] = "OK" /\ \A j \in Instance : cluster[j] = cluster[i]
Recovers == <>[]Recovered

(* The data store comes back: a cluster with quorum, a majority of the fleet in it. *)
Available ==
    \E f \in Instance : HasQuorum(f) /\ Majority({i \in Up(f) : state[i] = "OK"}, Instance)
StaysAvailable == <>[]Available

(* A member that was added and has no name: it never started. *)
Ghost(f) == members[f] \ named[f]

(* Nothing but a member that was added and never started keeps the fleet from *)
(* being complete: the cleaner passes over it, and no joiner is accepted.    *)
RecoversOrGhost == Recovers \/ <>[](\E f \in Instance : Ghost(f) # {} /\ HasQuorum(f))

(* Nothing but a database that was announced and then lost in a restore that *)
(* failed keeps the fleet from recovering: it wins every election, and Seed  *)
(* has nothing to read (operator.go:195-204, server.go:170-187).             *)
RecoversOrVanished ==
    Recovers \/ <>[](\E i \in Instance : snapshot[i].source = "local" /\ data[i] = 0)

-----------------------------------------------------------------------------
(* The promise *)

Highest(S) == CHOOSE r \in S : \A s \in S : s <= r

(* It runs etcd, or is about to with the data it has. *)
Alive(i) == isRunning[i] \/ pc[i] = "rejoin"

Live == {i \in Instance : Alive(i)}
Head == Highest({data[i] : i \in Live} \cup {0})
Kept == Highest(Copies)

Promise == INSTANCE DisasterRecovery WITH live <- Live, head <- Head, kept <- Kept

(* The loop as written, with its slow calls and its stale reads, does no more *)
(* than DisasterRecovery allows.                                             *)
KeepsPromise == Promise!Spec
=============================================================================
