---------------------------- MODULE FleetCluster ----------------------------
(***************************************************************************)
(* All that runs is one cluster, founded from the newest copy: the steps   *)
(* keep ClusterInv and RestoreInv, in the Orderly setting.                 *)
(*                                                                         *)
(* Most steps are Idle: no database, membership or cluster changes hands,  *)
(* and whoever runs etcd afterwards did so before.  Of the others each has *)
(* a lemma that says what it does, ...Does, on which the proofs rest.      *)
(***************************************************************************)
EXTENDS FleetSafety

-----------------------------------------------------------------------------
(* What the invariant says of one instance. *)
LEMMA FleetAt ==
    ASSUME FleetInv, NEW i \in Instance
    PROVE  /\ TypeOK /\ Control1(i) /\ Announces(i) /\ Restores1(i)
           /\ Alive(i) => data[i] > 0 /\ cluster[i] \in Instance
           /\ data[i] \in Nat /\ store[i] \in Nat /\ temp[i] \in Nat
           /\ snapshot[i].revision \in Nat
BY AtOnce DEF FleetInv, ElectionInv, ClusterInv, HasData, RestoreInv

LEMMA RevisionIsNat == \A r \in Revision : r \in Nat /\ r <= r
BY FleetAssumption DEF Revision

(* Nobody is alive while there is a candidate. *)
LEMMA CandidateMeans ==
    ASSUME FleetInv, NEW i \in Instance, Candidate(i)
    PROVE  /\ state[i] = "START"
           /\ \A j \in Instance : ~isRunning[j] /\ ~Alive(j) /\ store[j] <= snapshot[i].revision
           /\ \A j \in Instance \ {i} : ~Candidate(j) /\ Behind(j, i)
BY DEF FleetInv, ElectionInv, CandidateAlone, Alive

(* A majority of the members of a cluster is somebody who runs in it. *)
LEMMA MajorityIsSomebody ==
    ASSUME TypeOK, NEW f \in Instance, NEW Q \in SUBSET Up(f), Majority(Q, members[f])
    PROVE  \E k \in Q : k \in Instance /\ k \in members[f] /\ isRunning[k] /\ cluster[k] = f
<1>1. members[f] \in SUBSET Instance
    BY DEF TypeOK
<1>2. IsFiniteSet(members[f])
    BY <1>1, FleetAssumption, FS_Subset
<1>3. Cardinality(members[f]) \in Nat
    BY <1>2, FS_CardinalityType
<1>4. ASSUME Q = {} PROVE FALSE
    BY <1>3, <1>4, FS_EmptySet DEF Majority
<1> QED
    BY <1>1, <1>4 DEF Up

(* A cluster with quorum is the one cluster that is alive. *)
LEMMA QuorumIsAlive ==
    ASSUME FleetInv, NEW f \in Instance, HasQuorum(f)
    PROVE  /\ \E k \in Up(f) : k \in Instance /\ isRunning[k] /\ cluster[k] = f
           /\ \A j \in Instance : Alive(j) => cluster[j] = f
<1>1. PICK k \in Up(f) : k \in Instance /\ isRunning[k] /\ cluster[k] = f
    BY MajorityIsSomebody, FleetAt DEF HasQuorum
<1>2. \A j \in Instance : Alive(j) => cluster[j] = f
    BY <1>1 DEF FleetInv, ClusterInv, AliveTogether, Alive
<1> QED
    BY <1>1, <1>2

-----------------------------------------------------------------------------
(* Idle steps. *)

(* The store of an instance stays, or gets what somebody has on disk and is newer. *)
Stored(j) ==
    \/ store'[j] = store[j]
    \/ store[j] < store'[j] /\ \E k \in Instance : store'[j] = data[k]

Idle(i) ==
    /\ \A j \in Instance \ {i} : Untouched(j)
    /\ UNCHANGED <<data, cluster, members, named, acked>>
    /\ \A j \in Instance : Stored(j)
    /\ Alive(i)' => Alive(i)
    /\ pc'[i] \notin {"rejoin", "add", "start", "restore"}
    /\ temp'[i] = 0

LEMMA StoredGrows ==
    ASSUME FleetInv, NEW j \in Instance, Stored(j)
    PROVE  store[j] <= store'[j] /\ store'[j] \in Nat
<1>1. \A k \in Instance : data[k] \in Nat
    BY FleetAt
<1> QED
    BY <1>1, FleetAt DEF Stored

(* How an idle step leaves what the instance announces. *)
Announced(i) ==
    /\ \/ state'[i] # "START" /\ snapshot'[i] \in {snapshot[i], NoSnapshot}
       \/ /\ state'[i] = state[i] /\ snapshot'[i] = snapshot[i]
          /\ isRunning[i] => isRunning'[i]
       \/ snapshot'[i] = SnapshotInfo(i)
    /\ pc'[i] = "down" => snapshot'[i] = NoSnapshot

LEMMA IdleAnnounces ==
    ASSUME FleetInv, NEW i \in Instance, Idle(i), Announced(i)
    PROVE  Restores1(i)'
<1>0. store[i] <= store'[i] /\ store'[i] \in Nat /\ data'[i] = data[i]
    BY StoredGrows, FleetAt DEF Idle
<1>1. /\ snapshot'[i].source = "none" => snapshot'[i].revision = 0
      /\ state'[i] = "START" /\ ~isRunning'[i] /\ snapshot'[i].source = "local"
           => data'[i] \in {0, snapshot'[i].revision}
      /\ snapshot'[i].source = "store" => snapshot'[i].revision <= store'[i]
    <2>1. CASE state'[i] # "START" /\ snapshot'[i] \in {snapshot[i], NoSnapshot}
        <3>1. CASE snapshot'[i] = NoSnapshot
            BY <2>1, <3>1 DEF NoSnapshot
        <3>2. CASE snapshot'[i] = snapshot[i]
            BY <1>0, <2>1, <3>2, FleetAt DEF Restores1
        <3> QED
            BY <2>1, <3>1, <3>2
    <2>2. CASE /\ state'[i] = state[i] /\ snapshot'[i] = snapshot[i]
               /\ isRunning[i] => isRunning'[i]
        BY <1>0, <2>2, FleetAt DEF Restores1
    <2>3. CASE snapshot'[i] = SnapshotInfo(i)
        BY <1>0, <2>3, FleetAt DEF SnapshotInfo, NoSnapshot
    <2> QED
        BY <2>1, <2>2, <2>3 DEF Announced
<1>2. pc'[i] = "down" => snapshot'[i].source = "none"
    BY DEF Announced, NoSnapshot
<1> QED
    BY <1>1, <1>2 DEF Restores1, Idle

(* What others have and announce stays good. *)
LEMMA RestoresKept ==
    ASSUME FleetInv, NEW j \in Instance, Untouched(j), isRunning[j] \/ data'[j] = data[j],
           Stored(j)
    PROVE  Restores1(j)'
<1>1. Restores1(j) /\ Control1(j)
    BY FleetAt
<1>4. snapshot'[j].source = "store" => snapshot'[j].revision <= store'[j]
    BY StoredGrows, FleetAt DEF Restores1, Untouched
<1>2. CASE isRunning[j]
    BY <1>1, <1>2, <1>4 DEF Restores1, Untouched, Control1
<1>3. CASE data'[j] = data[j]
    BY <1>1, <1>3, <1>4 DEF Restores1, Untouched, NoCluster
<1> QED
    BY <1>2, <1>3

(* Who is alive afterwards was so before, with the same cluster; nobody else *)
(* comes by a database, and no member by a name.                            *)
LEMMA ClusterKept ==
    ASSUME FleetInv,
           \A j \in Instance :
             Alive(j)' => Alive(j) /\ data'[j] > 0 /\ cluster'[j] = cluster[j],
           \A j \in Instance : data'[j] > 0 => data[j] > 0 /\ cluster'[j] = cluster[j],
           \A f \in Instance : named'[f] \subseteq named[f]
    PROVE  ClusterInv'
<1>1. HasData'
    BY FleetAt DEF HasData
<1>2. AliveTogether'
    BY DEF AliveTogether, FleetInv, ClusterInv
<1>3. NamedBelong'
    <2> SUFFICES ASSUME NEW i \in Instance, NEW j \in Instance,
                        Alive(i)', j \in named'[cluster'[i]], data'[j] > 0
                 PROVE  cluster'[j] = cluster'[i]
        BY DEF NamedBelong
    <2>1. Alive(i) /\ cluster'[i] = cluster[i] /\ cluster[i] \in Instance
        BY FleetAt
    <2>2. j \in named[cluster[i]] /\ data[j] > 0 /\ cluster'[j] = cluster[j]
        BY <2>1
    <2> QED
        BY <2>1, <2>2 DEF FleetInv, ClusterInv, NamedBelong
<1> QED
    BY <1>1, <1>2, <1>3 DEF ClusterInv

LEMMA IdleKeeps ==
    ASSUME FleetInv, NEW i \in Instance, Idle(i), Announced(i)
    PROVE  ClusterInv' /\ RestoreInv'
<1>1. \A j \in Instance : Alive(j)' => Alive(j)
    BY DEF Idle, Untouched, Alive
<1>2. ClusterInv'
    BY <1>1, ClusterKept, FleetAt DEF Idle
<1>3. RestoreInv'
    BY IdleAnnounces, RestoresKept DEF RestoreInv, Idle
<1> QED
    BY <1>2, <1>3

-----------------------------------------------------------------------------
(* The idle steps of the loop. *)

(* The process goes from one place of the loop to another and touches no copy. *)
LEMMA MovingIsIdle ==
    ASSUME FleetInv, NEW i \in Instance,
           \A j \in Instance \ {i} : Untouched(j),
           UNCHANGED <<data, cluster, members, named, store, acked>>,
           isRunning'[i] => Alive(i),
           pc'[i] \notin {"rejoin", "add", "start", "restore"},
           temp'[i] = 0 \/ (temp'[i] = temp[i] /\ pc[i] # "restore")
    PROVE  Idle(i)
<1>1. temp'[i] = 0
    BY FleetAt DEF Restores1
<1> QED
    BY <1>1 DEF Idle, Alive, Stored

LEMMA EvaluateIsIdle ==
    ASSUME FleetInv, NEW i \in Instance, NEW silent, Evaluate(i, silent)
    PROVE  Idle(i) /\ Announced(i)
<1>1. /\ pc[i] = "wait" /\ pc'[i] = "health"
      /\ \A j \in Instance \ {i} : Untouched(j)
      /\ UNCHANGED <<state, snapshot, isRunning, temp, data, cluster, members, named, store, acked>>
    BY FleetAt
    DEF Evaluate, Untouched, Goto, SetAt, TypeOK, joinVars, dataVars, etcdVars
<1> QED
    BY <1>1, MovingIsIdle DEF Announced, Alive

LEMMA HealthIsIdle ==
    ASSUME FleetInv, NEW i \in Instance, NEW healthy, HealthAnswer(i, healthy)
    PROVE  Idle(i) /\ Announced(i)
<1>1. /\ pc[i] = "health" /\ pc'[i] = "execute"
      /\ \A j \in Instance \ {i} : Untouched(j)
      /\ UNCHANGED <<state, snapshot, isRunning, temp, data, cluster, members, named, store, acked>>
    BY FleetAt
    DEF HealthAnswer, Untouched, Goto, SetAt, TypeOK, joinVars, dataVars, etcdVars
<1> QED
    BY <1>1, MovingIsIdle DEF Announced, Alive

(* The branches of execute that start nothing. *)
LEMMA BranchIsIdle ==
    ASSUME FleetInv, NEW i \in Instance,
           \/ ExecShutdown(i) \/ ExecJoin(i) \/ ExecStandby(i) \/ ExecPending(i) \/ ExecStop(i)
           \/ ExecReady(i)
    PROVE  Idle(i) /\ Announced(i)
<1>1. PICK p \in {"wait", "stop", "join"}, st \in {"PENDING", "OK", "START"} : Branch(i, p, st)
    BY DEF ExecShutdown, ExecJoin, ExecStandby, ExecPending, ExecStop, StopOr, ExecReady
<1>2. /\ snapshot' = snapshot \/ snapshot' = SetAt(snapshot, i, SnapshotInfo(i))
      /\ state'[i] = "START" => snapshot'[i] = SnapshotInfo(i) \/ state'[i] = state[i]
    BY FleetAt
    DEF ExecShutdown, ExecJoin, ExecStandby, ExecPending, ExecStop, ExecReady, Branch, SetAt, TypeOK
<1>3. UNCHANGED <<shutdown, isRunning, joinVars, dataVars, etcdVars, store, ghostVars>>
    BY DEF ExecShutdown, ExecJoin, ExecStandby, ExecPending, ExecStop, ExecReady
<1>4. \A j \in Instance \ {i} : Untouched(j)
    BY <1>1, <1>2, <1>3, FleetAt
    DEF Branch, Untouched, Goto, SetAt, TypeOK, joinVars, dataVars
<1>5. /\ pc[i] = "execute" /\ pc'[i] = p
      /\ UNCHANGED <<isRunning, temp, data, cluster, members, named, store, acked>>
    BY <1>1, <1>3, FleetAt DEF Branch, Goto, SetAt, TypeOK, dataVars, etcdVars, ghostVars
<1>6. Idle(i)
    BY <1>4, <1>5, MovingIsIdle DEF Alive
<1>7. Announced(i)
    BY <1>2, <1>5, FleetAt DEF Announced, SetAt, TypeOK
<1> QED
    BY <1>6, <1>7

LEMMA DyingIsIdle ==
    ASSUME FleetInv, NEW i \in Instance, Die(i)
    PROVE  Idle(i) /\ Announced(i)
<1>1. /\ pc'[i] = "down" /\ state'[i] = "UNKNOWN" /\ ~isRunning'[i] /\ temp'[i] = 0
      /\ snapshot'[i] = NoSnapshot
      /\ UNCHANGED <<data, cluster, members, named, store, acked>>
    BY FleetAt DEF Die, Goto, SetAt, TypeOK, etcdVars
<1>2. \A j \in Instance \ {i} : Untouched(j)
    BY FleetAt DEF Die, Untouched, Goto, SetAt, TypeOK
<1> QED
    BY <1>1, <1>2, MovingIsIdle DEF Announced

LEMMA GivingUpIsIdle ==
    ASSUME FleetInv, NEW i \in Instance, BackToWait(i), UNCHANGED <<data, cluster, etcdVars>>
    PROVE  Idle(i) /\ Announced(i)
<1>1. /\ pc'[i] = "wait" /\ temp'[i] = 0
      /\ UNCHANGED <<state, snapshot, isRunning, data, cluster, members, named, store, acked>>
    BY FleetAt DEF BackToWait, Goto, SetAt, TypeOK, etcdVars
<1>2. \A j \in Instance \ {i} : Untouched(j)
    BY FleetAt DEF BackToWait, Untouched, Goto, SetAt, TypeOK, loopVars
<1> QED
    BY <1>1, <1>2, MovingIsIdle DEF Announced, Alive

(* A rejoin runs etcd with what the instance already has. *)
LEMMA RejoinIsIdle ==
    ASSUME FleetInv, NEW i \in Instance, Rejoin(i)
    PROVE  Idle(i) /\ Announced(i)
<1>1. /\ pc[i] = "rejoin" /\ pc'[i] = "ready"
      /\ UNCHANGED <<state, snapshot, temp, data, cluster, members, named, store, acked>>
    BY FleetAt DEF Rejoin, Goto, SetAt, TypeOK, dataVars, etcdVars, ghostVars
<1>2. \A j \in Instance \ {i} : Untouched(j)
    BY FleetAt DEF Rejoin, Untouched, Goto, SetAt, TypeOK, joinVars, dataVars, loopVars
<1>3. state'[i] = "PENDING" /\ snapshot'[i] = snapshot[i]
    BY <1>1, FleetAt DEF Control1
<1> QED
    BY <1>1, <1>2, <1>3, MovingIsIdle DEF Announced, Alive

LEMMA ClosingIsIdle ==
    ASSUME FleetInv, NEW i \in Instance, CloseServer(i) \/ Restart(i)
    PROVE  Idle(i) /\ Announced(i)
<1>1. /\ pc[i] \in {"close", "down"} /\ pc'[i] = "wait" /\ ~isRunning'[i]
      /\ pc[i] = "down" => ~isRunning[i]
      /\ UNCHANGED <<state, snapshot, temp, data, cluster, members, named, store, acked>>
    BY FleetAt
    DEF CloseServer, Restart, Goto, SetAt, TypeOK, dataVars, etcdVars, ghostVars, Control1
<1>2. \A j \in Instance \ {i} : Untouched(j)
    BY FleetAt
    DEF CloseServer, Restart, Untouched, Goto, SetAt, TypeOK, joinVars, dataVars, loopVars
<1>3. pc[i] = "close" => state'[i] = "PENDING"
    BY <1>1, FleetAt DEF Control1
<1> QED
    BY <1>1, <1>2, <1>3, MovingIsIdle DEF Announced

(* SIGTERM is only noted. *)
LEMMA TerminateIsIdle ==
    ASSUME FleetInv, NEW i \in Instance, Terminate(i)
    PROVE  Idle(i) /\ Announced(i)
<1>1. /\ pc[i] = "wait" /\ pc' = pc /\ \A j \in Instance : Untouched(j)
      /\ UNCHANGED <<state, snapshot, isRunning, temp, data, cluster, members, named, store, acked>>
    BY DEF Terminate, Untouched, joinVars, dataVars, etcdVars, loopVars
<1> QED
    BY <1>1, MovingIsIdle DEF Announced, Alive

(* Whoever shows START does not lose its etcd: etcdEarly is left out. *)
LEMMA EtcdFailsIsIdle ==
    ASSUME Orderly, FleetInv, NEW i \in Instance, EtcdFails(i)
    PROVE  Idle(i) /\ Announced(i)
<1>1. /\ isRunning[i] /\ ~isRunning'[i] /\ pc' = pc /\ pc[i] # "ready"
      /\ UNCHANGED <<state, snapshot, temp, data, cluster, members, named, store, acked>>
    BY FleetAt DEF EtcdFails, SetAt, TypeOK, dataVars, etcdVars
<1>2. \A j \in Instance \ {i} : Untouched(j)
    BY FleetAt DEF EtcdFails, Untouched, SetAt, TypeOK, joinVars, dataVars, loopVars
<1>3. state[i] # "START"
    BY DEF EtcdFails, Fault, Orderly
<1>4. pc[i] \notin {"rejoin", "add", "start", "restore", "down"}
    BY <1>1, FleetAt DEF Control1
<1> QED
    BY <1>1, <1>2, <1>3, <1>4, MovingIsIdle DEF Announced

(* What Save leaves in the stores is what its instance has on disk. *)
LEMMA SavedMeans ==
    ASSUME FleetInv, NEW i \in Instance, store' = Saved(i, data[i])
    PROVE  \A j \in Instance : Stored(j)
BY FleetAt DEF Saved, TypeOK, Stored

LEMMA StoppingIsIdle ==
    ASSUME FleetInv, NEW i \in Instance, StopSnapshot(i) \/ StopSnapshotFails(i)
    PROVE  Idle(i) /\ Announced(i)
<1>1. /\ pc[i] = "stop" /\ pc'[i] = "close"
      /\ UNCHANGED <<state, snapshot, isRunning, temp, data, cluster, members, named, acked>>
    BY FleetAt
    DEF StopSnapshot, StopSnapshotFails, Goto, SetAt, TypeOK, dataVars, etcdVars, ghostVars
<1>2. store' = store \/ store' = Saved(i, data[i])
    BY DEF StopSnapshot, StopSnapshotFails
<1>3. \A j \in Instance : Stored(j)
    BY <1>2, SavedMeans DEF Stored
<1>4. \A j \in Instance \ {i} : Untouched(j)
    BY FleetAt
    DEF StopSnapshot, StopSnapshotFails, Untouched, Goto, SetAt, TypeOK, joinVars, dataVars,
        loopVars
<1>5. temp'[i] = 0
    BY <1>1, FleetAt DEF Restores1
<1> QED
    BY <1>1, <1>3, <1>4, <1>5 DEF Idle, Announced, Alive

LEMMA PeriodicIsIdle ==
    ASSUME FleetInv, NEW i \in Instance, PeriodicSnapshot(i)
    PROVE  Idle(i) /\ Announced(i)
<1>1. /\ isRunning[i] /\ pc' = pc
      /\ UNCHANGED <<state, snapshot, isRunning, temp, data, cluster, members, named, acked>>
    BY DEF PeriodicSnapshot, Serving, dataVars, etcdVars, ghostVars
<1>2. \A j \in Instance : Stored(j)
    BY SavedMeans DEF PeriodicSnapshot
<1>3. \A j \in Instance : Untouched(j)
    BY DEF PeriodicSnapshot, Untouched, joinVars, dataVars, loopVars
<1>4. pc[i] \notin {"rejoin", "add", "start", "restore", "down"} /\ temp'[i] = 0
    BY <1>1, FleetAt DEF Control1, Restores1
<1> QED
    BY <1>1, <1>2, <1>3, <1>4 DEF Idle, Announced, Alive

-----------------------------------------------------------------------------
(* Founding a cluster: nobody is alive. *)

(* The others keep their copies and their clusters. *)
Around(i) ==
    \A j \in Instance \ {i} :
        /\ Untouched(j)
        /\ data'[j] = data[j] /\ cluster'[j] = cluster[j] /\ store'[j] = store[j]

(* An instance that seeds from nothing had nothing. *)
LEMMA ExecSeedDoes ==
    ASSUME FleetInv, NEW i \in Instance, ExecSeed(i)
    PROVE  /\ Candidate(i) /\ ~isRunning[i] /\ temp[i] = 0 /\ Around(i)
           /\ UNCHANGED <<snapshot, isRunning, target, temp, data, members, named, store, acked>>
           /\ target[i] = NoCluster /\ state'[i] = "START"
           /\ \/ pc'[i] = "start" /\ data[i] = 0 /\ snapshot[i].revision = 0
              \/ pc'[i] = "seed"
<1>1. Candidate(i) /\ pc[i] = "execute" /\ ~etcdRunning[i]
    BY DEF ExecSeed, Branch, Candidate, Elected
<1>2. ~isRunning[i] /\ target[i] = NoCluster /\ temp[i] = 0 /\ state[i] = "START"
    BY <1>1, FleetAt, CandidateMeans DEF Control1, Restores1
<1>3. /\ UNCHANGED <<snapshot, isRunning, target, temp, members, named, store, acked>>
      /\ state'[i] = "START"
      /\ pc'[i] = IF snapshot[i].source = "none" THEN "start" ELSE "seed"
    BY FleetAt DEF ExecSeed, Branch, Goto, SetAt, TypeOK, joinVars, etcdVars, ghostVars
<1>4. snapshot[i].source = "none" => data[i] = 0 /\ snapshot[i].revision = 0
    BY <1>2, FleetAt DEF Announces, Restores1
<1>5. data' = data
    BY <1>4, FleetAt DEF ExecSeed, SetAt, TypeOK
<1>6. \A j \in Instance \ {i} : cluster'[j] = cluster[j] /\ Untouched(j)
    BY FleetAt DEF ExecSeed, Untouched, Branch, Goto, SetAt, TypeOK, joinVars
<1> QED
    BY <1>1, <1>2, <1>3, <1>4, <1>5, <1>6 DEF Around

(* Whatever the source, Restore works from the revision that was announced. *)
LEMMA SeedGetDoes ==
    ASSUME FleetInv, NEW i \in Instance, SeedGet(i)
    PROVE  /\ Candidate(i) /\ ~isRunning[i] /\ Around(i)
           /\ UNCHANGED <<state, snapshot, isRunning, target, members, named, store, acked>>
           /\ pc'[i] = "restore" /\ data'[i] = 0
           /\ temp'[i] = snapshot[i].revision /\ data[i] <= temp'[i] /\ temp[i] = 0
<1>1. Candidate(i) /\ pc[i] = "seed"
    BY DEF SeedGet, Candidate, Founding
<1>2. ~isRunning[i] /\ state[i] = "START" /\ temp[i] = 0
    BY <1>1, CandidateMeans, FleetAt DEF Restores1
<1>3. snapshot[i].source = "local" => data[i] = snapshot[i].revision
    BY <1>2, FleetAt DEF SeedGet, Restores1
<1>4. /\ UNCHANGED <<state, snapshot, isRunning, target, members, named, store, acked>>
      /\ pc'[i] = "restore" /\ data'[i] = 0
      /\ temp'[i] = IF snapshot[i].source = "local" THEN data[i] ELSE snapshot[i].revision
    BY FleetAt DEF SeedGet, Goto, SetAt, TypeOK, joinVars, etcdVars, ghostVars
<1>5. Around(i)
    BY FleetAt DEF SeedGet, Around, Untouched, Goto, SetAt, TypeOK, joinVars, loopVars
<1>6. data[i] <= snapshot[i].revision
    BY <1>2, FleetAt DEF Announces
<1> QED
    BY <1>1, <1>2, <1>3, <1>4, <1>5, <1>6

LEMMA RestoreDoes ==
    ASSUME FleetInv, NEW i \in Instance, RestoreData(i)
    PROVE  /\ Candidate(i) /\ ~isRunning[i] /\ Around(i)
           /\ UNCHANGED <<state, snapshot, isRunning, target, store, acked>>
           /\ target[i] = NoCluster /\ pc'[i] = "start" /\ temp'[i] = 0
           /\ data'[i] = snapshot[i].revision /\ data'[i] = temp[i] /\ data[i] <= data'[i]
<1>1. Candidate(i) /\ pc[i] = "restore"
    BY DEF RestoreData, Candidate, Founding
<1>2. /\ ~isRunning[i] /\ state[i] = "START" /\ target[i] = NoCluster
      /\ temp[i] = snapshot[i].revision
    BY <1>1, CandidateMeans, FleetAt DEF Restores1, Control1
<1>3. /\ UNCHANGED <<state, snapshot, isRunning, target, store, acked>>
      /\ pc'[i] = "start" /\ data'[i] = temp[i] /\ temp'[i] = 0
    BY FleetAt DEF RestoreData, Goto, SetAt, TypeOK, joinVars, ghostVars
<1>4. Around(i)
    BY FleetAt DEF RestoreData, Around, Untouched, Goto, SetAt, TypeOK, joinVars, loopVars
<1>5. data[i] <= snapshot[i].revision
    BY <1>2, FleetAt DEF Announces
<1> QED
    BY <1>1, <1>2, <1>3, <1>4, <1>5

(* The one step that brings a cluster to life: its founder has the newest copy. *)
LEMMA StartFounderDoes ==
    ASSUME FleetInv, NEW i \in Instance, StartFounder(i)
    PROVE  /\ Candidate(i) /\ Around(i)
           /\ UNCHANGED <<state, snapshot, target, temp, store, acked>>
           /\ pc'[i] = "ready" /\ isRunning'[i] /\ cluster'[i] = i
           /\ members'[i] = {i} /\ named'[i] = {i}
           /\ data[i] = snapshot[i].revision /\ temp[i] = 0
           /\ data'[i] > 0 /\ data[i] <= data'[i]
<1>1. Candidate(i) /\ pc[i] = "start" /\ target[i] = NoCluster
    BY DEF StartFounder, Candidate, Founding
<1>2. data[i] = snapshot[i].revision /\ temp[i] = 0
    BY <1>1, FleetAt DEF Restores1
<1>3. /\ UNCHANGED <<state, snapshot, target, temp, store, acked>>
      /\ pc'[i] = "ready" /\ isRunning'[i] /\ cluster'[i] = i
      /\ members'[i] = {i} /\ named'[i] = {i}
    BY FleetAt DEF StartFounder, Goto, SetAt, TypeOK, joinVars, ghostVars
<1>4. data'[i] = IF data[i] = 0 THEN 1 ELSE data[i]
    BY FleetAt DEF StartFounder, SetAt, TypeOK
<1>5. Around(i)
    BY FleetAt DEF StartFounder, Around, Untouched, Goto, SetAt, TypeOK, joinVars, loopVars
<1> QED
    BY <1>1, <1>2, <1>3, <1>4, <1>5, FleetAt

LEMMA NobodyAliveKeeps ==
    ASSUME \A j \in Instance : ~Alive(j)'
    PROVE  ClusterInv' /\ LogInv'
BY DEF ClusterInv, HasData, AliveTogether, NamedBelong, LogInv, Lives

(* RestoreInv, one instance at a time. *)
LEMMA RestoreStep ==
    ASSUME FleetInv, NEW i \in Instance, Restores1(i)',
           \A j \in Instance \ {i} :
             Untouched(j) /\ (isRunning[j] \/ data'[j] = data[j]) /\ store'[j] = store[j]
    PROVE  RestoreInv'
BY RestoresKept DEF RestoreInv, Stored

(* Seed, up to the start of the server. *)
LEMMA FoundingKeeps ==
    ASSUME FleetInv, NEW i \in Instance, ExecSeed(i) \/ SeedGet(i) \/ RestoreData(i)
    PROVE  ClusterInv' /\ RestoreInv' /\ LogInv'
<1>1. /\ Candidate(i) /\ ~isRunning'[i] /\ Around(i) /\ pc'[i] # "rejoin"
    BY ExecSeedDoes, SeedGetDoes, RestoreDoes
<1>2. \A j \in Instance : ~Alive(j)'
    BY <1>1, CandidateMeans DEF Around, Untouched, Alive
<1>3. Restores1(i)'
    <2>1. Restores1(i)
        BY FleetAt
    <2>2. CASE ExecSeed(i)
        BY <2>1, <2>2, ExecSeedDoes, CandidateMeans DEF Restores1
    <2>3. CASE SeedGet(i)
        BY <2>1, <2>3, SeedGetDoes DEF Restores1
    <2>4. CASE RestoreData(i)
        BY <2>1, <2>4, RestoreDoes DEF Restores1
    <2> QED
        BY <2>2, <2>3, <2>4
<1>4. RestoreInv'
    BY <1>1, <1>3, RestoreStep DEF Around
<1> QED
    BY <1>2, <1>4, NobodyAliveKeeps

LEMMA FounderKeepsCluster ==
    ASSUME FleetInv, NEW i \in Instance, StartFounder(i)
    PROVE  ClusterInv' /\ RestoreInv'
<1>1. /\ Around(i) /\ isRunning'[i] /\ cluster'[i] = i /\ named'[i] = {i} /\ data'[i] > 0
      /\ pc'[i] = "ready" /\ temp'[i] = 0 /\ snapshot'[i] = snapshot[i] /\ store'[i] = store[i]
    BY StartFounderDoes
<1>2. \A j \in Instance : Alive(j)' => j = i
    BY <1>1, StartFounderDoes, CandidateMeans DEF Around, Untouched, Alive
<1>3. ClusterInv'
    BY <1>1, <1>2 DEF ClusterInv, HasData, AliveTogether, NamedBelong
<1>4. Restores1(i)'
    BY <1>1, FleetAt DEF Restores1
<1> QED
    BY <1>1, <1>3, <1>4, RestoreStep DEF Around

-----------------------------------------------------------------------------
(* Joining the cluster that is alive. *)

LEMMA JoinListDoes ==
    ASSUME FleetInv, NEW i \in Instance, NEW f \in Instance, JoinList(i, f)
    PROVE  /\ HasQuorum(f) /\ Around(i) /\ state[i] = "PENDING"
           /\ ~Alive(i) /\ ~isRunning'[i] /\ temp'[i] = 0
           /\ target'[i] # NoCluster
           /\ UNCHANGED <<state, snapshot, isRunning, temp, members, named, store, acked>>
           /\ \/ /\ pc'[i] = "rejoin" /\ i \in named[f] /\ data[i] > 0
                 /\ UNCHANGED <<data, cluster>>
              \/ pc'[i] = "add" /\ data'[i] = 0
<1>1. pc[i] = "join" /\ HasQuorum(f)
    BY DEF JoinList
<1>2. state[i] = "PENDING" /\ ~isRunning[i] /\ ~Alive(i) /\ temp[i] = 0
    BY <1>1, FleetAt DEF Control1, Restores1, Alive
<1>3. /\ UNCHANGED <<state, snapshot, isRunning, temp, members, named, store, acked>>
      /\ target'[i] = f
    BY FleetAt DEF JoinList, SetAt, TypeOK, etcdVars, ghostVars
<1>4. \/ /\ pc'[i] = "rejoin" /\ i \in named[f] /\ data[i] > 0
         /\ UNCHANGED <<data, cluster>>
      \/ pc'[i] = "add" /\ data'[i] = 0
    BY FleetAt DEF JoinList, Goto, SetAt, TypeOK
<1>5. \A j \in Instance \ {i} : Untouched(j)
    BY FleetAt DEF JoinList, Untouched, Goto, SetAt, TypeOK, loopVars
<1>6. \A j \in Instance \ {i} : data'[j] = data[j] /\ cluster'[j] = cluster[j]
    BY FleetAt DEF JoinList, SetAt, TypeOK
<1>7. f # NoCluster
    BY Constants
<1> QED
    BY <1>1, <1>2, <1>3, <1>4, <1>5, <1>6, <1>7 DEF Around

(* The general step: whoever is alive has the cluster of somebody who was, and so has *)
(* everybody it knows by name.                                                        *)
LEMMA ClusterStep ==
    ASSUME FleetInv,
           \A j \in Instance : Alive(j)' =>
             data'[j] > 0 /\ \E k \in Instance : Alive(k) /\ cluster'[j] = cluster[k],
           \A j, k \in Instance :
             Alive(k) /\ j \in named'[cluster[k]] /\ data'[j] > 0 => cluster'[j] = cluster[k]
    PROVE  ClusterInv'
<1>1. HasData'
    BY FleetAt DEF HasData
<1>2. AliveTogether'
    BY DEF AliveTogether, FleetInv, ClusterInv
<1>3. NamedBelong'
    BY DEF NamedBelong
<1> QED
    BY <1>1, <1>2, <1>3 DEF ClusterInv

LEMMA JoinListKeeps ==
    ASSUME FleetInv, NEW i \in Instance, NEW f \in Instance, JoinList(i, f)
    PROVE  ClusterInv' /\ RestoreInv'
<1>1. PICK k \in Instance : Alive(k) /\ cluster[k] = f
    BY JoinListDoes, QuorumIsAlive DEF Alive
<1>2. ASSUME NEW j \in Instance, Alive(j)'
      PROVE  data'[j] > 0 /\ \E m \in Instance : Alive(m) /\ cluster'[j] = cluster[m]
    <2>1. CASE j = i
        <3>1. pc'[i] = "rejoin" /\ i \in named[f] /\ data[i] > 0 /\ UNCHANGED <<data, cluster>>
            BY <1>2, <2>1, JoinListDoes DEF Alive
        <3>2. cluster[i] = cluster[k]
            BY <1>1, <3>1 DEF FleetInv, ClusterInv, NamedBelong
        <3> QED
            BY <1>1, <2>1, <3>1, <3>2
    <2>2. CASE j # i
        <3>1. Alive(j) /\ data'[j] = data[j] /\ cluster'[j] = cluster[j]
            BY <1>2, <2>2, JoinListDoes DEF Around, Untouched, Alive
        <3> QED
            BY <3>1, FleetAt
    <2> QED
        BY <2>1, <2>2
<1>3. ASSUME NEW j \in Instance, NEW m \in Instance, Alive(m), j \in named'[cluster[m]],
             data'[j] > 0
      PROVE  cluster'[j] = cluster[m]
    <2>1. j \in named[cluster[m]] /\ data'[j] = data[j] /\ cluster'[j] = cluster[j]
        BY <1>3, JoinListDoes DEF Around
    <2> QED
        BY <1>3, <2>1 DEF FleetInv, ClusterInv, NamedBelong
<1>4. ClusterInv'
    BY <1>2, <1>3, ClusterStep
<1>5. Restores1(i)'
    BY JoinListDoes, FleetAt DEF Restores1
<1>6. RestoreInv'
    BY <1>5, RestoreStep, JoinListDoes DEF Around
<1> QED
    BY <1>4, <1>6

(* A new member starts with nothing, in the cluster that added it. *)
LEMMA StartJoinerDoes ==
    ASSUME FleetInv, NEW i \in Instance, StartJoiner(i)
    PROVE  /\ target[i] \in Instance /\ Around(i) /\ ~Alive(i)
           /\ pc[i] = "start" /\ data[i] = 0
           /\ \E k \in Instance : isRunning[k] /\ cluster[k] = target[i] /\ k # i
           /\ UNCHANGED <<state, snapshot, target, temp, members, named, store, acked>>
           /\ pc'[i] = "ready" /\ isRunning'[i] /\ data'[i] = 1 /\ cluster'[i] = target[i]
           /\ temp[i] = 0 /\ state[i] = "PENDING"
<1>1. pc[i] = "start" /\ target[i] \in Instance
    BY FleetAt DEF StartJoiner, TypeOK
<1>2. /\ ~isRunning[i] /\ ~Alive(i) /\ data[i] = 0 /\ temp[i] = 0 /\ state[i] = "PENDING"
    BY <1>1, Constants, FleetAt DEF Control1, Restores1, Alive, StartJoiner
<1>3. \E k \in Instance : isRunning[k] /\ cluster[k] = target[i] /\ k # i
    BY <1>1, <1>2, FleetAt DEF StartJoiner, Up, TypeOK
<1>4. /\ UNCHANGED <<state, snapshot, target, temp, members, named, store, acked>>
      /\ pc'[i] = "ready" /\ isRunning'[i] /\ data'[i] = 1 /\ cluster'[i] = target[i]
    BY FleetAt DEF StartJoiner, Goto, SetAt, TypeOK, joinVars, etcdVars, ghostVars
<1>5. Around(i)
    BY FleetAt DEF StartJoiner, Around, Untouched, Goto, SetAt, TypeOK, joinVars, loopVars
<1> QED
    BY <1>1, <1>2, <1>3, <1>4, <1>5

LEMMA StartJoinerKeeps ==
    ASSUME FleetInv, NEW i \in Instance, StartJoiner(i)
    PROVE  ClusterInv' /\ RestoreInv'
<1>1. PICK k \in Instance : Alive(k) /\ cluster[k] = target[i]
    BY StartJoinerDoes DEF Alive
<1>2. ASSUME NEW j \in Instance, Alive(j)'
      PROVE  data'[j] > 0 /\ \E m \in Instance : Alive(m) /\ cluster'[j] = cluster[m]
    <2>1. CASE j = i
        BY <1>1, <2>1, StartJoinerDoes
    <2>2. CASE j # i
        BY <1>2, <2>2, StartJoinerDoes, FleetAt DEF Around, Untouched, Alive
    <2> QED
        BY <2>1, <2>2
<1>3. ASSUME NEW j \in Instance, NEW m \in Instance, Alive(m), j \in named'[cluster[m]],
             data'[j] > 0
      PROVE  cluster'[j] = cluster[m]
    <2>1. CASE j = i
        BY <1>1, <1>3, <2>1, StartJoinerDoes DEF FleetInv, ClusterInv, AliveTogether
    <2>2. CASE j # i
        BY <1>3, <2>2, StartJoinerDoes DEF Around, FleetInv, ClusterInv, NamedBelong
    <2> QED
        BY <2>1, <2>2
<1>4. ClusterInv'
    BY <1>2, <1>3, ClusterStep
<1>5. Restores1(i)'
    <2>1. /\ isRunning'[i] /\ pc'[i] = "ready" /\ temp'[i] = 0
          /\ snapshot'[i] = snapshot[i] /\ store'[i] = store[i]
        BY StartJoinerDoes, FleetAt
    <2> QED
        BY <2>1, FleetAt DEF Restores1
<1>6. RestoreInv'
    BY <1>5, RestoreStep, StartJoinerDoes DEF Around
<1> QED
    BY <1>4, <1>6

(* A member is ready once it has what the most advanced running member has. *)
LEMMA BecomeReadyDoes ==
    ASSUME FleetInv, NEW i \in Instance, BecomeReady(i)
    PROVE  /\ isRunning[i] /\ cluster[i] \in Instance /\ i \in members[cluster[i]]
           /\ Around(i) /\ UNCHANGED <<state, snapshot, isRunning, cluster, temp, members, store, acked>>
           /\ pc'[i] = "wait" /\ temp[i] = 0
           /\ named' = SetAt(named, cluster[i], named[cluster[i]] \cup {i})
           /\ data[i] <= data'[i]
           /\ \E k \in Instance : data'[i] = data[k]
<1>1. pc[i] = "ready" /\ i \in members[cluster[i]]
    BY DEF BecomeReady, CanServe
<1>2. isRunning[i] /\ cluster[i] \in Instance /\ temp[i] = 0
    BY <1>1, FleetAt DEF Control1, Restores1, Alive
<1>3. PICK r \in Revision : /\ IsHighest(r, {data[j] : j \in Up(cluster[i])})
                            /\ data' = SetAt(data, i, r)
    BY DEF BecomeReady
<1>4. data'[i] = r /\ \A j \in Instance \ {i} : data'[j] = data[j]
    BY <1>3, FleetAt DEF SetAt, TypeOK
<1>5. i \in Up(cluster[i]) /\ Up(cluster[i]) \subseteq Instance
    BY <1>1, <1>2, FleetAt DEF Up, TypeOK
<1>6. data[i] <= r /\ \E k \in Instance : r = data[k]
    BY <1>3, <1>5 DEF IsHighest
<1>7. /\ UNCHANGED <<state, snapshot, isRunning, cluster, temp, members, store, acked>>
      /\ pc'[i] = "wait" /\ named' = SetAt(named, cluster[i], named[cluster[i]] \cup {i})
    BY FleetAt DEF BecomeReady, Goto, SetAt, TypeOK, ghostVars
<1>8. \A j \in Instance \ {i} : Untouched(j)
    BY FleetAt DEF BecomeReady, Untouched, Goto, SetAt, TypeOK, loopVars
<1> QED
    BY <1>1, <1>2, <1>4, <1>6, <1>7, <1>8 DEF Around

LEMMA BecomeReadyKeeps ==
    ASSUME FleetInv, NEW i \in Instance, BecomeReady(i)
    PROVE  ClusterInv' /\ RestoreInv'
<1>1. Alive(i) /\ cluster' = cluster /\ data'[i] > 0
    <2>1. Alive(i) /\ cluster' = cluster /\ data[i] <= data'[i] /\ data'[i] \in Nat
        BY BecomeReadyDoes, FleetAt DEF Alive
    <2>2. data[i] \in Nat /\ data[i] > 0
        BY <2>1, FleetAt
    <2> QED
        BY <2>1, <2>2
<1>2. \A j \in Instance : Alive(j)' => Alive(j) /\ data'[j] > 0
    BY <1>1, BecomeReadyDoes, FleetAt DEF Around, Untouched, Alive
<1>3. ASSUME NEW j \in Instance, NEW m \in Instance, Alive(m), j \in named'[cluster[m]],
             data'[j] > 0
      PROVE  cluster'[j] = cluster[m]
    <2>1. CASE j = i
        BY <1>1, <1>3, <2>1 DEF FleetInv, ClusterInv, AliveTogether
    <2>2. CASE j # i
        <3>1. j \in named[cluster[m]]
            BY <1>3, <2>2, BecomeReadyDoes, FleetAt DEF SetAt, TypeOK
        <3>2. data[j] > 0
            BY <1>3, <2>2, BecomeReadyDoes DEF Around
        <3> QED
            BY <1>1, <1>3, <3>1, <3>2 DEF FleetInv, ClusterInv, NamedBelong
    <2> QED
        BY <2>1, <2>2
<1>4. ClusterInv'
    BY <1>1, <1>2, <1>3, ClusterStep
<1>5. Restores1(i)'
    <2>1. /\ isRunning'[i] /\ pc'[i] = "wait" /\ temp'[i] = 0
          /\ snapshot'[i] = snapshot[i] /\ store'[i] = store[i]
        BY BecomeReadyDoes, FleetAt
    <2> QED
        BY <2>1, FleetAt DEF Restores1
<1>6. RestoreInv'
    BY <1>5, RestoreStep, BecomeReadyDoes DEF Around
<1> QED
    BY <1>4, <1>6

-----------------------------------------------------------------------------
(* Commits: changes of the members and writes. *)

(* Those that a commit reaches run in its cluster, the only one, with no more than it. *)
LEMMA CommitMeans ==
    ASSUME FleetInv, NEW f \in Instance, NEW Q, NEW r \in Revision, Commits(f, Q, r)
    PROVE  /\ Majority(Q, members[f]) /\ Q \subseteq Up(f) /\ r \in Nat
           /\ \E k \in Instance : data[k] = r
           /\ \E k \in Q : k \in Instance
           /\ \A k \in Q : /\ k \in Instance /\ k \in members[f]
                          /\ isRunning[k] /\ cluster[k] = f /\ data[k] <= r /\ data[k] > 0
           /\ \A j \in Instance : Alive(j) => cluster[j] = f
<1>1. Majority(Q, members[f]) /\ Q \in SUBSET Up(f) /\ r \in Nat
    BY FleetAssumption DEF Commits, Revision
<1>2. Up(f) \subseteq Instance
    BY FleetAt DEF Up, TypeOK
<1>3. \E k \in Instance : data[k] = r
    BY <1>2 DEF Commits, IsHighest
<1>4. PICK q \in Q : q \in Instance /\ isRunning[q] /\ cluster[q] = f
    BY <1>1, MajorityIsSomebody, FleetAt
<1>5. ASSUME NEW k \in Q
      PROVE  /\ k \in Instance /\ k \in members[f]
             /\ isRunning[k] /\ cluster[k] = f /\ data[k] <= r /\ data[k] > 0
    <2>1. k \in Instance /\ k \in members[f] /\ isRunning[k] /\ cluster[k] = f
        BY <1>1, <1>2 DEF Up
    <2>2. data[k] <= r
        BY <1>1 DEF Commits, IsHighest
    <2> QED
        BY <2>1, <2>2, FleetAt DEF Alive
<1>6. \A j \in Instance : Alive(j) => cluster[j] = f
    BY <1>4 DEF FleetInv, ClusterInv, AliveTogether, Alive
<1> QED
    BY <1>1, <1>3, <1>4, <1>5, <1>6

(* A commit takes nothing from anybody and gives to nobody that had nothing. *)
LEMMA HoldingMeans ==
    ASSUME FleetInv, NEW f \in Instance, NEW Q, NEW r \in Revision, Commits(f, Q, r),
           NEW v \in Nat, r <= v
    PROVE  \A j \in Instance :
             /\ data[j] <= Holding(Q, v)[j]
             /\ Holding(Q, v)[j] > 0 => data[j] > 0
             /\ isRunning[j] \/ Holding(Q, v)[j] = data[j]
             /\ Alive(j) => Holding(Q, v)[j] > 0
<1>1. r \in Nat
    BY CommitMeans
<1> SUFFICES ASSUME NEW j \in Instance
             PROVE  /\ data[j] <= Holding(Q, v)[j]
                    /\ Holding(Q, v)[j] > 0 => data[j] > 0
                    /\ isRunning[j] \/ Holding(Q, v)[j] = data[j]
                    /\ Alive(j) => Holding(Q, v)[j] > 0
    OBVIOUS
<1>2. CASE j \in Q
    <2>1. data[j] <= r /\ data[j] > 0 /\ isRunning[j] /\ data[j] \in Nat
        BY <1>2, CommitMeans, FleetAt
    <2> QED
        BY <1>1, <1>2, <2>1 DEF Holding
<1>3. CASE j \notin Q
    BY <1>3, FleetAt DEF Holding
<1> QED
    BY <1>2, <1>3

LEMMA AddMemberDoes ==
    ASSUME FleetInv, NEW i \in Instance, AddMember(i)
    PROVE  /\ target[i] \in Instance /\ i \notin members[target[i]]
           /\ pc'[i] = "start" /\ ~Alive(i) /\ ~isRunning'[i] /\ data[i] = 0 /\ temp[i] = 0
           /\ state[i] = "PENDING"
           /\ members' = SetAt(members, target[i], members[target[i]] \cup {i})
           /\ UNCHANGED <<state, snapshot, isRunning, target, cluster, temp, named, store, acked>>
           /\ \A j \in Instance \ {i} : Untouched(j)
           /\ \E Q \in SUBSET Up(target[i]), r \in Revision :
                Commits(target[i], Q, r) /\ data' = Holding(Q, r)
<1>1. pc[i] = "add" /\ i \notin members[target[i]]
    BY DEF AddMember, AcceptsMember
<1>2. /\ target[i] \in Instance /\ ~isRunning[i] /\ ~Alive(i) /\ data[i] = 0 /\ temp[i] = 0
      /\ state[i] = "PENDING"
    BY <1>1, FleetAt DEF Control1, Restores1, Alive, TypeOK
<1>3. /\ pc'[i] = "start"
      /\ members' = SetAt(members, target[i], members[target[i]] \cup {i})
      /\ UNCHANGED <<state, snapshot, isRunning, target, cluster, temp, named, store, acked>>
    BY FleetAt DEF AddMember, Goto, SetAt, TypeOK, joinVars, ghostVars
<1>4. \A j \in Instance \ {i} : Untouched(j)
    BY FleetAt DEF AddMember, Untouched, Goto, SetAt, TypeOK, joinVars, loopVars
<1>5. \E Q \in SUBSET Up(target[i]), r \in Revision :
                Commits(target[i], Q, r) /\ data' = Holding(Q, r)
    BY DEF AddMember
<1> QED
    BY <1>1, <1>2, <1>3, <1>4, <1>5

(* Start refused by etcd: the member goes if a majority agrees, and its copy in any case. *)
LEMMA RejoinFailsDoes ==
    ASSUME FleetInv, NEW i \in Instance, RejoinFails(i)
    PROVE  /\ target[i] \in Instance /\ state[i] = "PENDING" /\ "boot" \in Faults
           /\ pc[i] = "rejoin" /\ pc'[i] = "add" /\ ~isRunning'[i] /\ data'[i] = 0 /\ temp'[i] = 0
           /\ UNCHANGED <<state, snapshot, isRunning, target, temp, store, acked>>
           /\ \A j \in Instance \ {i} : Untouched(j) /\ cluster'[j] = cluster[j]
           /\ \/ /\ \E Q \in SUBSET Up(target[i]), r \in Revision :
                       Commits(target[i], Q, r) /\ data' = SetAt(Holding(Q, r), i, 0)
                 /\ members' = SetAt(members, target[i], members[target[i]] \ {i})
                 /\ named' = SetAt(named, target[i], named[target[i]] \ {i})
              \/ data' = SetAt(data, i, 0) /\ UNCHANGED <<members, named>>
<1>1. pc[i] = "rejoin" /\ "boot" \in Faults
    BY DEF RejoinFails, Fault
<1>2. target[i] \in Instance /\ ~isRunning[i] /\ temp[i] = 0 /\ state[i] = "PENDING"
    BY <1>1, FleetAt DEF Control1, Restores1, TypeOK
<1>3. /\ pc'[i] = "add"
      /\ UNCHANGED <<state, snapshot, isRunning, target, temp, store, acked>>
    BY FleetAt DEF RejoinFails, Goto, SetAt, TypeOK, joinVars
<1>4. \A j \in Instance \ {i} : Untouched(j) /\ cluster'[j] = cluster[j]
    BY FleetAt DEF RejoinFails, Untouched, Goto, SetAt, TypeOK, joinVars, loopVars
<1>5. \/ /\ \E Q \in SUBSET Up(target[i]), r \in Revision :
               Commits(target[i], Q, r) /\ data' = SetAt(Holding(Q, r), i, 0)
         /\ members' = SetAt(members, target[i], members[target[i]] \ {i})
         /\ named' = SetAt(named, target[i], named[target[i]] \ {i})
      \/ data' = SetAt(data, i, 0) /\ UNCHANGED <<members, named>>
    BY DEF RejoinFails, etcdVars
<1>6. data'[i] = 0
    <2>1. PICK d : DOMAIN d = Instance /\ data' = SetAt(d, i, 0)
        BY <1>5, FleetAt DEF Holding, TypeOK
    <2> QED
        BY <2>1 DEF SetAt
<1> QED
    BY <1>1, <1>2, <1>3, <1>4, <1>5, <1>6

LEMMA CleanMemberDoes ==
    ASSUME FleetInv, NEW i \in Instance, NEW j \in Instance, CleanMember(i, j)
    PROVE  /\ cluster[i] \in Instance /\ Alive(i)
           /\ members' = SetAt(members, cluster[i], members[cluster[i]] \ {j})
           /\ named' = SetAt(named, cluster[i], named[cluster[i]] \ {j})
           /\ \A k \in Instance : Untouched(k)
           /\ UNCHANGED <<pc, isRunning, target, cluster, temp, store, acked>>
           /\ \E Q \in SUBSET Up(cluster[i]), r \in Revision :
                Commits(cluster[i], Q, r) /\ data' = Holding(Q, r)
<1>1. Alive(i) /\ cluster[i] \in Instance
    BY FleetAt DEF CleanMember, Serving, Alive
<1>2. \A k \in Instance : Untouched(k)
    BY DEF CleanMember, Untouched, joinVars, loopVars
<1> QED
    BY <1>1, <1>2 DEF CleanMember, joinVars, ghostVars

LEMMA WriteDoes ==
    ASSUME FleetInv, NEW f \in Instance, NEW Q, Write(f, Q)
    PROVE  /\ UNCHANGED <<pc, isRunning, target, cluster, temp, members, named, store>>
           /\ \A k \in Instance : Untouched(k)
           /\ \E r \in Revision :
                Commits(f, Q, r) /\ data' = Holding(Q, r + 1) /\ acked' = r + 1
<1>1. \A k \in Instance : Untouched(k)
    BY DEF Write, Untouched, joinVars, loopVars
<1> QED
    BY <1>1 DEF Write, joinVars, etcdVars

LEMMA AddMemberKeeps ==
    ASSUME FleetInv, NEW i \in Instance, AddMember(i)
    PROVE  ClusterInv' /\ RestoreInv'
<1>1. PICK Q \in SUBSET Up(target[i]), r \in Revision :
        Commits(target[i], Q, r) /\ data' = Holding(Q, r)
    BY AddMemberDoes
<1>2. r \in Nat /\ target[i] \in Instance
    BY AddMemberDoes, RevisionIsNat
<1>3. \A j \in Instance : /\ data'[j] > 0 => data[j] > 0
                          /\ isRunning[j] \/ data'[j] = data[j]
                          /\ Alive(j) => data'[j] > 0
    BY <1>1, <1>2, HoldingMeans
<1>4. \A j \in Instance : Alive(j)' => Alive(j)
    BY AddMemberDoes DEF Untouched, Alive
<1>5. ClusterInv'
    <2>1. UNCHANGED <<cluster, named>>
        BY AddMemberDoes
    <2> QED
        BY <1>3, <1>4, <2>1, ClusterKept
<1>6. data'[i] = 0
    BY <1>3, AddMemberDoes DEF Alive
<1>7. Restores1(i)'
    BY <1>6, AddMemberDoes, FleetAt, Constants DEF Restores1, NoCluster
<1>8. RestoreInv'
    BY <1>3, <1>7, RestoreStep, AddMemberDoes
<1> QED
    BY <1>5, <1>8

LEMMA RejoinFailsKeeps ==
    ASSUME FleetInv, NEW i \in Instance, RejoinFails(i)
    PROVE  ClusterInv' /\ RestoreInv'
<1>1. \A j \in Instance \ {i} : /\ data'[j] > 0 => data[j] > 0
                                /\ isRunning[j] \/ data'[j] = data[j]
                                /\ Alive(j) => data'[j] > 0
    <2>1. CASE \E Q \in SUBSET Up(target[i]), r \in Revision :
                 Commits(target[i], Q, r) /\ data' = SetAt(Holding(Q, r), i, 0)
        <3>1. PICK Q \in SUBSET Up(target[i]), r \in Revision :
                Commits(target[i], Q, r) /\ data' = SetAt(Holding(Q, r), i, 0)
            BY <2>1
        <3>2. r \in Nat /\ target[i] \in Instance
            BY RejoinFailsDoes, RevisionIsNat
        <3>3. \A j \in Instance \ {i} : data'[j] = Holding(Q, r)[j]
            BY <3>1 DEF SetAt, Holding
        <3> QED
            BY <3>1, <3>2, <3>3, HoldingMeans
    <2>2. CASE data' = SetAt(data, i, 0)
        BY <2>2, FleetAt DEF SetAt, TypeOK
    <2> QED
        BY <2>1, <2>2, RejoinFailsDoes
<1>2. \A j \in Instance : Alive(j)' => Alive(j) /\ j # i
    BY RejoinFailsDoes DEF Untouched, Alive
<1>3. \A f \in Instance : named'[f] \subseteq named[f]
    <2>1. named' = named \/ named' = SetAt(named, target[i], named[target[i]] \ {i})
        BY RejoinFailsDoes
    <2> QED
        BY <2>1, FleetAt DEF SetAt, TypeOK
<1>4. data'[i] = 0
    BY RejoinFailsDoes
<1>5. ClusterInv'
    <2>1. \A j \in Instance \ {i} : cluster'[j] = cluster[j]
        BY RejoinFailsDoes
    <2> QED
        BY <1>1, <1>2, <1>3, <1>4, <2>1, ClusterKept
<1>6. Restores1(i)'
    <2>1. /\ pc'[i] = "add" /\ data'[i] = 0 /\ temp'[i] = 0
          /\ state'[i] = "PENDING" /\ snapshot' = snapshot /\ store' = store
        BY RejoinFailsDoes
    <2>2. Restores1(i)
        BY FleetAt
    <2> QED
        BY <2>1, <2>2 DEF Restores1
<1>7. RestoreInv'
    BY <1>1, <1>6, RestoreStep, RejoinFailsDoes
<1> QED
    BY <1>5, <1>7

(* A commit that moves nobody in its loop. *)
LEMMA CommitKeeps ==
    ASSUME FleetInv, NEW f \in Instance, NEW Q, NEW r \in Revision, Commits(f, Q, r),
           NEW v \in Nat, r <= v, data' = Holding(Q, v), cluster' = cluster,
           \A j \in Instance : Untouched(j) /\ store'[j] = store[j],
           \A g \in Instance : named'[g] \subseteq named[g]
    PROVE  ClusterInv' /\ RestoreInv'
<1>1. \A j \in Instance : /\ data'[j] > 0 => data[j] > 0
                          /\ isRunning[j] \/ data'[j] = data[j]
                          /\ Alive(j) => data'[j] > 0
    BY HoldingMeans
<1>2. \A j \in Instance : Alive(j)' => Alive(j)
    BY DEF Untouched, Alive
<1>3. ClusterInv'
    BY <1>1, <1>2, ClusterKept
<1>4. RestoreInv'
    BY <1>1, RestoresKept DEF RestoreInv, Stored
<1> QED
    BY <1>3, <1>4

LEMMA CleaningKeeps ==
    ASSUME FleetInv, NEW i \in Instance, NEW j \in Instance, CleanMember(i, j)
    PROVE  ClusterInv' /\ RestoreInv'
<1>1. PICK Q \in SUBSET Up(cluster[i]), r \in Revision :
        Commits(cluster[i], Q, r) /\ data' = Holding(Q, r)
    BY CleanMemberDoes
<1>2. r \in Nat /\ r <= r
    BY FleetAssumption DEF Revision
<1>3. \A g \in Instance : named'[g] \subseteq named[g]
    BY CleanMemberDoes, FleetAt DEF SetAt, TypeOK
<1> QED
    BY <1>1, <1>2, <1>3, CleanMemberDoes, CommitKeeps

LEMMA WriteKeeps ==
    ASSUME FleetInv, NEW f \in Instance, NEW Q, Write(f, Q)
    PROVE  ClusterInv' /\ RestoreInv'
<1>1. PICK r \in Revision : Commits(f, Q, r) /\ data' = Holding(Q, r + 1)
    BY WriteDoes
<1>2. r + 1 \in Nat /\ r <= r + 1
    BY FleetAssumption DEF Revision
<1> QED
    BY <1>1, <1>2, WriteDoes, CommitKeeps

-----------------------------------------------------------------------------
(* A new disk. *)

LEMMA WipeDoes ==
    ASSUME FleetInv, NEW i \in Instance, Wipe(i)
    PROVE  /\ pc[i] = "down" /\ ~Alive(i) /\ "wipe" \in Faults /\ Around(i)
           /\ UNCHANGED <<pc, state, snapshot, isRunning, target, temp, members, named>>
           /\ data'[i] = 0 /\ store'[i] \in {0, store[i]} /\ temp[i] = 0
           /\ \E r \in Copies' : acked' <= r
<1>1. pc[i] = "down" /\ "wipe" \in Faults
    BY DEF Wipe, Fault
<1>2. ~Alive(i) /\ temp[i] = 0
    BY <1>1, FleetAt DEF Control1, Alive, Restores1
<1>3. /\ UNCHANGED <<pc, state, snapshot, isRunning, target, temp, members, named>>
      /\ data'[i] = 0 /\ store'[i] \in {0, store[i]}
    BY FleetAt DEF Wipe, SetAt, TypeOK, joinVars, etcdVars
<1>4. Around(i)
    BY FleetAt DEF Wipe, Around, Untouched, SetAt, TypeOK, joinVars, loopVars
<1>5. \E r \in Copies' : acked' <= r
    <2>1. PICK r \in Revision : /\ IsHighest(r, Copies')
                                /\ acked' = IF acked <= r THEN acked ELSE r
        BY DEF Wipe
    <2> QED
        BY <2>1, FleetAssumption DEF IsHighest, Revision
<1> QED
    BY <1>1, <1>2, <1>3, <1>4, <1>5

LEMMA WipeKeeps ==
    ASSUME FleetInv, NEW i \in Instance, Wipe(i)
    PROVE  ClusterInv' /\ RestoreInv'
<1>1. \A j \in Instance : Alive(j)' => Alive(j) /\ j # i
    BY WipeDoes DEF Around, Untouched, Alive
<1>2. ClusterInv'
    BY <1>1, WipeDoes, ClusterKept, FleetAt DEF Around
<1>3. Restores1(i)'
    BY WipeDoes, FleetAt DEF Restores1
<1>4. RestoreInv'
    BY <1>3, RestoreStep, WipeDoes DEF Around
<1> QED
    BY <1>2, <1>4
=============================================================================
