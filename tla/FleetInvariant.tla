--------------------------- MODULE FleetInvariant ---------------------------
(***************************************************************************)
(* Why the fleet is safe: the inductive invariants, for a directory of     *)
(* snapshots on each instance and for one bucket.                          *)
(*                                                                         *)
(* Why no two instances seed, the strengthening of SeedAlone.  An instance *)
(* that is elected holds off everybody else from the moment its poll is    *)
(* answered, long before it touches its data: nobody runs etcd, nobody is  *)
(* about to start a server with the data it has, nobody else is elected,   *)
(* and whatever any other instance has on disk or may still announce ranks *)
(* behind it.  In a bucket there is nothing that it does not have.          *)
(***************************************************************************)
EXTENDS Fleet

(* The evaluation under way ends in ExecSeed unless the health check says no. *)
Elected(i) ==
    /\ pc[i] \in {"health", "execute"}
    /\ ~etcdRunning[i]
    /\ pc[i] = "execute" => ~etcdHealthy[i]
    /\ AllReady(i)
    /\ IsSeeder(i)
Candidate(i) == Elected(i) \/ Founding(i)

(* Revision r of instance j sorts before what i announces. *)
Ranks(r, j, i) ==
    \/ r < snapshot[i].revision
    \/ r = snapshot[i].revision /\ j < i
Behind(j, i) ==
    /\ Ranks(data[j], j, i)
    /\ ~SharedStore => Ranks(store[j], j, i)
    /\ state[j] = "START" => Ranks(snapshot[j].revision, j, i)

(* One instance at a time: where it may be, what it runs and what it announces. *)
Control1(i) ==
    /\ isRunning[i] => pc[i] \in {"wait", "health", "execute", "ready", "stop", "close"}
    /\ isRunning[i] /\ pc[i] \in {"health", "execute"} => etcdRunning[i]
    /\ pc[i] = "ready" => isRunning[i]
    /\ pc[i] \in {"join", "rejoin", "add", "stop", "close"} => state[i] = "PENDING"
    /\ pc[i] \in {"start", "ready"} /\ target[i] # NoCluster => state[i] = "PENDING"
    /\ pc[i] \in {"rejoin", "add"} => target[i] # NoCluster
    /\ pc[i] \notin {"rejoin", "add", "start", "ready"} => target[i] = NoCluster
Announces(i) ==
    /\ state[i] = "START" /\ ~isRunning[i]
         => /\ data[i] <= snapshot[i].revision
            /\ ~SharedStore => store[i] <= snapshot[i].revision
    /\ pc[i] = "restore" => temp[i] <= snapshot[i].revision
Local == \A i \in Instance : Control1(i) /\ Announces(i)

(* A bucket is the same for all.  Its newest snapshot came from somebody who *)
(* ran etcd: once all wait in START, one of them has read it or had it.      *)
OneBucket == SharedStore => \A i, j \in Instance : store[i] = store[j]
StoreKnown ==
    (\A i \in Instance : state[i] = "START" /\ ~isRunning[i]) =>
        \A j \in Instance : \E k \in Instance : store[j] <= snapshot[k].revision

CandidateAlone ==
    \A i \in Instance : Candidate(i) =>
        /\ state[i] = "START"
        /\ \A j \in Instance : ~isRunning[j] /\ pc[j] # "rejoin"
        /\ \A j \in Instance : store[j] <= snapshot[i].revision
        /\ \A j \in Instance \ {i} : ~Candidate(j) /\ Behind(j, i)

(* A founder still shows START after its server came up, but it is ahead of  *)
(* everybody who also does.                                                 *)
FounderAhead ==
    \A i \in Instance : state[i] = "START" /\ isRunning[i] =>
        \A j \in Instance \ {i} :
            state[j] = "START" => Ranks(snapshot[j].revision, j, i)

(* The inductive invariant. *)
ElectionInv == TypeOK /\ OneBucket /\ Local /\ StoreKnown /\ CandidateAlone /\ FounderAhead

(* The setting in which only one instance seeds, however many there are. *)
Orderly ==
    /\ Timely
    /\ "etcdEarly" \notin Faults
    /\ "store" \notin Faults

(* Nobody gets ready to start, with what a bucket for all holds, between the  *)
(* poll that elects somebody else and the start of that one's server.  All    *)
(* were in START at that poll, so only a process that restarts meanwhile      *)
(* would.                                                                     *)
Undisturbed ==
    SharedStore =>
        \A i, j \in Instance :
            i # j /\ Candidate(i) /\ state'[j] = "START" => state[j] = "START"

(* The fleet some time after the cold start: founder made a cluster, the     *)
(* others joined it and everybody reported OK; since then one process, dead, *)
(* has crashed.  The data are those of an empty etcd.                        *)
OneDown(founder, dead) ==
    /\ pc           = [i \in Instance |-> IF i = dead THEN "down" ELSE "wait"]
    /\ state        = [i \in Instance |-> IF i = dead THEN "UNKNOWN" ELSE "OK"]
    /\ snapshot     = [i \in Instance |-> NoSnapshot]
    /\ shutdown     = [i \in Instance |-> FALSE]
    /\ isRunning    = [i \in Instance |-> i # dead]
    /\ etcdRunning  = [i \in Instance |-> FALSE]
    /\ etcdHealthy  = [i \in Instance |-> FALSE]
    /\ answers      = [i \in Instance |-> {}]
    /\ target       = [i \in Instance |-> NoCluster]
    /\ initialPURLs = [i \in Instance |-> {}]
    /\ data         = [i \in Instance |-> 1]
    /\ cluster      = [i \in Instance |-> founder]
    /\ temp         = [i \in Instance |-> 0]
    /\ members      = [i \in Instance |-> IF i = founder THEN Instance ELSE {}]
    /\ named        = [i \in Instance |-> IF i = founder THEN Instance ELSE {}]
    /\ store        = [i \in Instance |-> 1]
    /\ acked        = 0
    /\ faults       = 0
MinorityDown == \E founder, dead \in Instance : OneDown(founder, dead)

(* The behaviours the theorems are about, from nothing or from a cluster.    *)
OrderlySpec == (Init \/ MinorityDown) /\ [][Next /\ Undisturbed]_vars

-----------------------------------------------------------------------------
(* Why all that runs is one cluster, the strengthening of OneCluster.        *)

HasData == \A i \in Instance : Alive(i) => data[i] > 0 /\ cluster[i] \in Instance
AliveTogether ==
    \A i, j \in Instance : Alive(i) /\ Alive(j) => cluster[i] = cluster[j]
(* Whoever a live cluster knows by name has either its data or none. *)
NamedBelong ==
    \A i, j \in Instance :
        Alive(i) /\ j \in named[cluster[i]] /\ data[j] > 0 => cluster[j] = cluster[i]
ClusterInv == HasData /\ AliveTogether /\ NamedBelong

-----------------------------------------------------------------------------
(* Why a cluster is founded from the newest copy, the strengthening of       *)
(* SeedsLatest: what an instance has on disk while it founds is what it      *)
(* announced when it was elected, and what it announced from the store is    *)
(* still there.                                                             *)
Restores1(i) ==
    /\ snapshot[i].source = "none" => snapshot[i].revision = 0
    /\ snapshot[i].source = "store" => snapshot[i].revision <= store[i]
    /\ pc[i] = "down" => snapshot[i].source = "none"
    /\ state[i] = "START" /\ ~isRunning[i] /\ snapshot[i].source = "local"
         => data[i] \in {0, snapshot[i].revision}
    /\ temp[i] = IF pc[i] = "restore" THEN snapshot[i].revision ELSE 0
    /\ pc[i] = "start" /\ target[i] = NoCluster => data[i] = snapshot[i].revision
    /\ pc[i] \in {"add", "start"} /\ target[i] # NoCluster => data[i] = 0
RestoreInv == \A i \in Instance : Restores1(i)

-----------------------------------------------------------------------------
(* Why a cluster that serves has the newest revision, the strengthening of   *)
(* ServesLatest: any majority of its members that may still come together    *)
(* holds it, those who have just been added included.                       *)
MayRun(f) ==
    {j \in members[f] : \/ cluster[j] = f /\ data[j] > 0
                        \/ pc[j] = "start" /\ target[j] = f}
Newest(j) == \A r \in Copies : r <= data[j]
Lives(f) == \E k \in Instance : Alive(k) /\ cluster[k] = f
LogInv ==
    \A f \in Instance : Lives(f) =>
        \A M \in SUBSET MayRun(f) : Majority(M, members[f]) => \E j \in M : Newest(j)

(* The inductive invariant of all of them. *)
FleetInv == ElectionInv /\ ClusterInv /\ RestoreInv /\ LogInv

(* Why an acknowledged write survives: with starts that fail, the newest copy *)
(* is not only in the hands of a rejoin, which gives it up.                  *)
KeptCopies ==
    {store[i] : i \in Instance} \cup {temp[i] : i \in Instance} \cup
    {data[i] : i \in {j \in Instance : "boot" \in Faults => pc[j] # "rejoin"}}
NewestKept == \A r \in Copies : \E s \in KeptCopies : r <= s
AckedInv == NewestKept /\ \E r \in Copies : acked <= r

(* The setting in which no acknowledged write is lost: nothing fails between *)
(* the removal of a database and the end of its restoration, and disks are   *)
(* not lost while starts fail.                                              *)
Careful ==
    /\ Orderly
    /\ "crashRestore" \notin Faults
    /\ "restore" \notin Faults
    /\ "boot" \notin Faults \/ "wipe" \notin Faults
=============================================================================
