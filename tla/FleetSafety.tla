---------------------------- MODULE FleetSafety ----------------------------
(***************************************************************************)
(* Type correctness of Fleet, for every fleet, store, set of faults and    *)
(* bound; and that SeedAlone is an invariant of every fleet in the Orderly *)
(* setting, with a directory of snapshots per instance or with one bucket. *)
(*                                                                         *)
(* ElectionInv is shown to be inductive.  Most steps are Calm: they start  *)
(* no server, elect nobody, write nothing and announce nothing.  The       *)
(* others either happen when nobody is a candidate and make none, or are   *)
(* one of: a poll that is answered, an instance that gets ready to start,  *)
(* the restoration of a snapshot and the start of a founder.  A bucket is  *)
(* another matter than a directory in two places: what is saved in it is   *)
(* there for everybody (SavesOnly), and getting ready reads it, which is   *)
(* where Undisturbed comes in.                                             *)
(***************************************************************************)
EXTENDS FleetInvariant, TLAPS, FiniteSetTheorems

-----------------------------------------------------------------------------
(* Type correctness. *)

(* Putting a value of the range in a function keeps its type. *)
LEMMA SetAtType ==
    ASSUME NEW S, NEW T, NEW g \in [S -> T], NEW i \in S, NEW v \in T
    PROVE  SetAt(g, i, v) \in [S -> T]
BY DEF SetAt

(* Outside of the domain there is nothing to put. *)
LEMMA SetAtNowhere ==
    ASSUME NEW S, NEW T, NEW g \in [S -> T], NEW i, i \notin S, NEW v
    PROVE  SetAt(g, i, v) \in [S -> T]
<1>1. SetAt(g, i, v) = [x \in S |-> IF x = i THEN v ELSE g[x]]
    BY DEF SetAt
<1> QED
    BY <1>1

(* SnapshotInfo returns a metadata whose revision is the larger of the two.  *)
LEMMA SnapshotInfoType ==
    ASSUME TypeOK, NEW i \in Instance
    PROVE  SnapshotInfo(i) \in Metadata
<1>1. 0 \in Revision
    BY FleetAssumption DEF Revision
<1> QED
    BY <1>1 DEF SnapshotInfo, NoSnapshot, Metadata, TypeOK

(* Saving a revision leaves a revision in every store. *)
LEMMA SavedType ==
    ASSUME TypeOK, NEW i \in Instance, NEW r \in Revision
    PROVE  Saved(i, r) \in [Instance -> Revision]
BY DEF Saved, TypeOK

(* So does what a commit leaves on the members that have it. *)
LEMMA HoldingType ==
    ASSUME TypeOK, NEW Q, NEW r \in Revision
    PROVE  Holding(Q, r) \in [Instance -> Revision]
BY DEF Holding, TypeOK

(* A fault is within its bound. *)
LEMMA FaultType ==
    ASSUME TypeOK, NEW kind, Fault(kind)
    PROVE  faults' \in 0 .. MaxFaults
BY FleetAssumption DEF Fault, TypeOK

(* What the values written by the actions are. *)
LEMMA Constants ==
    /\ 0 \in Revision
    /\ 1 \in Revision
    /\ NoSnapshot \in Metadata
    /\ NoCluster \in Instance \cup {NoCluster}
    /\ NoCluster \notin Instance
BY FleetAssumption DEF Revision, NoSnapshot, Metadata, NoCluster

(* The end of a process leaves well-typed values behind. *)
LEMMA DieType ==
    ASSUME TypeOK, NEW i \in Instance, Die(i), faults' \in 0 .. MaxFaults
    PROVE  TypeOK'
BY Constants, SetAtType DEF Die, TypeOK, Goto, SetAt, Control, State, etcdVars

(* So does a call that gives up. *)
LEMMA BackToWaitType ==
    ASSUME TypeOK, NEW i \in Instance, BackToWait(i), faults' \in 0 .. MaxFaults,
           UNCHANGED <<data, cluster, etcdVars>>
    PROVE  TypeOK'
BY Constants DEF BackToWait, TypeOK, Goto, SetAt, Control, loopVars, etcdVars

(* A status poll collects well-formed statuses. *)
LEMMA EvaluateType ==
    ASSUME TypeOK, NEW i \in Instance, NEW silent, Evaluate(i, silent),
           faults' \in 0 .. MaxFaults
    PROVE  TypeOK'
<1> DEFINE ans == {[instance |-> j, state |-> state[j], revision |-> snapshot[j].revision] :
                      j \in Answering \ silent}
<1>1. ans \in SUBSET Status
    BY DEF Answering, Status, TypeOK, Metadata
<1>2. answers' \in [Instance -> SUBSET Status]
    BY <1>1 DEF Evaluate, TypeOK, SetAt
<1>3. pc' \in [Instance -> Control] /\ etcdRunning' \in [Instance -> BOOLEAN]
    BY DEF Evaluate, TypeOK, SetAt, Goto, Control
<1> QED
    BY <1>2, <1>3 DEF Evaluate, TypeOK, joinVars, dataVars, etcdVars

(* The answer of a health check is a Boolean. *)
LEMMA HealthAnswerType ==
    ASSUME TypeOK, NEW i \in Instance, NEW healthy \in BOOLEAN, HealthAnswer(i, healthy),
           faults' \in 0 .. MaxFaults
    PROVE  TypeOK'
BY DEF HealthAnswer, TypeOK, SetAt, Goto, Control, joinVars, dataVars, etcdVars

(* Taking a branch of execute: the loop's variables. *)
LEMMA BranchType ==
    ASSUME TypeOK, NEW i \in Instance, NEW p \in Control, NEW st \in State, Branch(i, p, st)
    PROVE  /\ pc' \in [Instance -> Control]
           /\ state' \in [Instance -> State]
           /\ etcdRunning' \in [Instance -> BOOLEAN]
           /\ etcdHealthy' \in [Instance -> BOOLEAN]
           /\ answers' \in [Instance -> SUBSET Status]
BY DEF Branch, TypeOK, SetAt, Goto

(* Every step of an instance's own loop keeps the types. *)
LEMMA StepType ==
    ASSUME TypeOK, NEW i \in Instance, Step(i)
    PROVE  TypeOK'
<1> USE Constants
<1>a. faults \in 0 .. MaxFaults
    BY DEF TypeOK
<1>1. CASE FetchStatuses(i)
    BY <1>1, <1>a, EvaluateType DEF FetchStatuses
<1>2. CASE CheckHealth(i)
    BY <1>2, <1>a, HealthAnswerType DEF CheckHealth
<1>3. CASE ExecShutdown(i) \/ ExecJoin(i) \/ ExecStandby(i) \/ ExecPending(i) \/ ExecStop(i)
    <2>1. PICK p \in Control, st \in State : Branch(i, p, st)
        BY <1>3 DEF ExecShutdown, ExecJoin, ExecStandby, ExecPending, ExecStop, StopOr,
                    Control, State
    <2>2. UNCHANGED <<snapshot, shutdown, isRunning, joinVars, dataVars, etcdVars, store,
                      ghostVars>>
        BY <1>3 DEF ExecShutdown, ExecJoin, ExecStandby, ExecPending, ExecStop
    <2> QED
        BY <2>1, <2>2, BranchType DEF TypeOK, joinVars, dataVars, etcdVars, ghostVars
<1>4. CASE ExecExit(i)
    BY <1>4, <1>a, DieType DEF ExecExit
<1>5. CASE ExecReady(i)
    <2>1. snapshot' \in [Instance -> Metadata]
        BY <1>5, SnapshotInfoType DEF ExecReady, TypeOK, SetAt
    <2>2. "wait" \in Control /\ "START" \in State
        BY DEF Control, State
    <2> QED
        BY <1>5, <2>1, <2>2, BranchType
        DEF ExecReady, TypeOK, joinVars, dataVars, etcdVars, ghostVars
<1>6. CASE ExecSeed(i)
    <2>1. PICK p \in Control : Branch(i, p, "START")
        BY <1>6 DEF ExecSeed, Control
    <2>2. data' \in [Instance -> Revision]
        BY <1>6 DEF ExecSeed, TypeOK, SetAt
    <2>3. cluster' \in [Instance -> Instance \cup {NoCluster}]
        BY <1>6 DEF ExecSeed, TypeOK, SetAt
    <2>4. "START" \in State
        BY DEF State
    <2> QED
        BY <1>6, <2>1, <2>2, <2>3, <2>4, BranchType
        DEF ExecSeed, TypeOK, joinVars, etcdVars, ghostVars
<1>7. CASE SeedGet(i)
    <2>1. temp' \in [Instance -> Revision]
        BY <1>7 DEF SeedGet, TypeOK, SetAt, Metadata
    <2> QED
        BY <1>7, <2>1
        DEF SeedGet, TypeOK, SetAt, Goto, Control, loopVars, joinVars, etcdVars, ghostVars
<1>8. CASE SeedGetMissing(i)
    BY <1>8, <1>a, BackToWaitType DEF SeedGetMissing
<1>9. CASE RestoreData(i)
    BY <1>9 DEF RestoreData, TypeOK, SetAt, Goto, Control, loopVars, joinVars, ghostVars
<1>10. CASE JoinUnreachable(i)
    BY <1>10, <1>a, BackToWaitType DEF JoinUnreachable
<1>11. ASSUME NEW f \in Instance, JoinList(i, f) PROVE TypeOK'
    <2>1. pc' \in [Instance -> Control]
        BY <1>11 DEF JoinList, TypeOK, SetAt, Goto, Control
    <2>2. /\ target' \in [Instance -> Instance \cup {NoCluster}]
          /\ initialPURLs' \in [Instance -> SUBSET Instance]
        BY <1>11 DEF JoinList, TypeOK, SetAt
    <2>3. /\ data' \in [Instance -> Revision]
          /\ cluster' \in [Instance -> Instance \cup {NoCluster}]
        BY <1>11 DEF JoinList, TypeOK, SetAt
    <2> QED
        BY <1>11, <2>1, <2>2, <2>3 DEF JoinList, TypeOK, loopVars, etcdVars, ghostVars
<1>12. CASE Rejoin(i)
    BY <1>12 DEF Rejoin, TypeOK, SetAt, Goto, Control, loopVars, joinVars, dataVars, etcdVars,
                 ghostVars
<1>13. CASE AddMember(i)
    <2>1. members' \in [Instance -> SUBSET Instance]
        BY <1>13 DEF AddMember, TypeOK, SetAt
    <2>2. data' \in [Instance -> Revision]
        BY <1>13, HoldingType DEF AddMember
    <2>3. pc' \in [Instance -> Control]
        BY <1>13 DEF AddMember, TypeOK, SetAt, Goto, Control
    <2> QED
        BY <1>13, <2>1, <2>2, <2>3 DEF AddMember, TypeOK, loopVars, joinVars, ghostVars
<1>14. CASE AddRefused(i)
    BY <1>14, <1>a, BackToWaitType DEF AddRefused
<1>15. CASE StartFounder(i)
    BY <1>15 DEF StartFounder, TypeOK, SetAt, Goto, Control, loopVars, joinVars, ghostVars
<1>16. CASE StartJoiner(i)
    BY <1>16 DEF StartJoiner, TypeOK, SetAt, Goto, Control, loopVars, joinVars, etcdVars,
                 ghostVars
<1>17. CASE StartRefused(i)
    BY <1>17, <1>a, BackToWaitType DEF StartRefused
<1>18. CASE BecomeReady(i)
    <2>1. data' \in [Instance -> Revision]
        BY <1>18 DEF BecomeReady, TypeOK, SetAt
    <2>2. named' \in [Instance -> SUBSET Instance]
        <3>1. /\ named' = SetAt(named, cluster[i], named[cluster[i]] \cup {i})
              /\ named \in [Instance -> SUBSET Instance]
            BY <1>18 DEF BecomeReady, TypeOK
        <3>2. CASE cluster[i] \in Instance
            <4>1. named[cluster[i]] \cup {i} \in SUBSET Instance
                BY <3>1, <3>2
            <4> QED
                BY <3>1, <3>2, <4>1, SetAtType
        <3>3. CASE cluster[i] \notin Instance
            BY <3>1, <3>3, SetAtNowhere
        <3> QED
            BY <3>2, <3>3
    <2>3. /\ target' \in [Instance -> Instance \cup {NoCluster}]
          /\ initialPURLs' \in [Instance -> SUBSET Instance]
          /\ pc' \in [Instance -> Control]
        BY <1>18 DEF BecomeReady, TypeOK, SetAt, Goto, Control
    <2> QED
        BY <1>18, <2>1, <2>2, <2>3 DEF BecomeReady, TypeOK, loopVars, ghostVars
<1>19. CASE StartTimeout(i)
    BY <1>19, <1>a, DieType DEF StartTimeout
<1>20. CASE StopSnapshot(i)
    <2>1. store' \in [Instance -> Revision]
        BY <1>20, SavedType DEF StopSnapshot, TypeOK
    <2> QED
        BY <1>20, <2>1
        DEF StopSnapshot, TypeOK, SetAt, Goto, Control, loopVars, joinVars, dataVars, etcdVars,
            ghostVars
<1>21. CASE CloseServer(i)
    BY <1>21 DEF CloseServer, TypeOK, SetAt, Goto, Control, loopVars, joinVars, dataVars,
                 etcdVars, ghostVars
<1>22. CASE Exit(i)
    BY <1>22, <1>a, DieType DEF Exit
<1>23. CASE Restart(i)
    BY <1>23 DEF Restart, TypeOK, SetAt, Goto, Control, loopVars, joinVars, dataVars, etcdVars,
                 ghostVars
<1> QED
    BY <1>1, <1>2, <1>3, <1>4, <1>5, <1>6, <1>7, <1>8, <1>9, <1>10, <1>11, <1>12, <1>13, <1>14,
       <1>15, <1>16, <1>17, <1>18, <1>19, <1>20, <1>21, <1>22, <1>23
    DEF Step

(* Neither do faults break them. *)
LEMMA FailureType ==
    ASSUME TypeOK, NEW i \in Instance, Failure(i)
    PROVE  TypeOK'
<1> USE Constants
<1>1. ASSUME NEW silent \in SUBSET Instance, MissStatuses(i, silent) PROVE TypeOK'
    BY <1>1, EvaluateType, FaultType DEF MissStatuses
<1>2. CASE MissHealth(i)
    BY <1>2, HealthAnswerType, FaultType DEF MissHealth
<1>3. CASE ExecReadyNoStore(i)
    <2>1. PICK st \in State : Branch(i, "wait", st)
        BY <1>3 DEF ExecReadyNoStore, State, TypeOK
    <2>2. snapshot' \in [Instance -> Metadata]
        <3>1. [revision |-> data[i], source |-> "local"] \in Metadata
            BY DEF TypeOK, Metadata
        <3> QED
            BY <1>3, <3>1 DEF ExecReadyNoStore, TypeOK, SetAt
    <2>3. "wait" \in Control
        BY DEF Control
    <2>4. faults' \in 0 .. MaxFaults
        BY <1>3, FaultType DEF ExecReadyNoStore
    <2> QED
        BY <1>3, <2>1, <2>2, <2>3, <2>4, BranchType
        DEF ExecReadyNoStore, TypeOK, joinVars, dataVars, etcdVars
<1>4. CASE SeedGetFails(i)
    BY <1>4, BackToWaitType, FaultType DEF SeedGetFails
<1>5. CASE RestoreFails(i)
    BY <1>5, BackToWaitType, FaultType DEF RestoreFails
<1>6. CASE RejoinFails(i)
    <2>1. faults' \in 0 .. MaxFaults
        BY <1>6, FaultType DEF RejoinFails
    <2>2. /\ members' \in [Instance -> SUBSET Instance]
          /\ named' \in [Instance -> SUBSET Instance]
        BY <1>6 DEF RejoinFails, TypeOK, SetAt, etcdVars
    <2>3. data' \in [Instance -> Revision]
        <3>1. PICK d \in [Instance -> Revision] : data' = SetAt(d, i, 0)
            BY <1>6, HoldingType DEF RejoinFails, TypeOK
        <3> QED
            BY <3>1, SetAtType
    <2>4. /\ pc' \in [Instance -> Control]
          /\ cluster' \in [Instance -> Instance \cup {NoCluster}]
        BY <1>6 DEF RejoinFails, TypeOK, SetAt, Goto, Control
    <2> QED
        BY <1>6, <2>1, <2>2, <2>3, <2>4 DEF RejoinFails, TypeOK, loopVars, joinVars
<1>7. CASE StartFails(i)
    BY <1>7, BackToWaitType, FaultType DEF StartFails
<1>8. CASE StopSnapshotFails(i)
    <2>1. faults' \in 0 .. MaxFaults
        BY <1>8, FaultType DEF StopSnapshotFails
    <2> QED
        BY <1>8, <2>1
        DEF StopSnapshotFails, TypeOK, SetAt, Goto, Control, loopVars, joinVars, dataVars,
            etcdVars
<1>9. CASE Crash(i)
    BY <1>9, DieType, FaultType DEF Crash
<1>10. CASE Wipe(i)
    <2>1. faults' \in 0 .. MaxFaults
        BY <1>10, FaultType DEF Wipe
    <2>2. acked' \in Revision
        BY <1>10 DEF Wipe, TypeOK
    <2>3. store' \in [Instance -> Revision]
        BY <1>10 DEF Wipe, TypeOK, SetAt
    <2> QED
        BY <1>10, <2>1, <2>2, <2>3 DEF Wipe, TypeOK, SetAt, loopVars, joinVars, etcdVars
<1>11. CASE Terminate(i)
    <2>1. faults' \in 0 .. MaxFaults
        BY <1>11, FaultType DEF Terminate
    <2> QED
        BY <1>11, <2>1
        DEF Terminate, TypeOK, SetAt, loopVars, joinVars, dataVars, etcdVars
<1>12. CASE EtcdFails(i)
    <2>1. faults' \in 0 .. MaxFaults
        BY <1>12, FaultType DEF EtcdFails
    <2> QED
        BY <1>12, <2>1
        DEF EtcdFails, TypeOK, SetAt, loopVars, joinVars, dataVars, etcdVars
<1>13. CASE MissAllStatuses(i)
    BY <1>13, DieType, FaultType DEF MissAllStatuses
<1> QED
    BY <1>1, <1>2, <1>3, <1>4, <1>5, <1>6, <1>7, <1>8, <1>9, <1>10, <1>11, <1>12, <1>13 DEF Failure

(* Nor the cleaner, the periodic snapshots and the clients. *)
LEMMA BackgroundType ==
    ASSUME TypeOK, Cleaning \/ Environment
    PROVE  TypeOK'
<1>1. ASSUME NEW i \in Instance, NEW j \in Instance, CleanMember(i, j) PROVE TypeOK'
    <2>1. /\ members' \in [Instance -> SUBSET Instance]
          /\ named' \in [Instance -> SUBSET Instance]
        BY <1>1 DEF CleanMember, TypeOK, SetAt
    <2>2. data' \in [Instance -> Revision]
        BY <1>1, HoldingType DEF CleanMember
    <2> QED
        BY <1>1, <2>1, <2>2 DEF CleanMember, TypeOK, loopVars, joinVars, ghostVars
<1>2. ASSUME NEW i \in Instance, PeriodicSnapshot(i) PROVE TypeOK'
    <2>1. store' \in [Instance -> Revision]
        BY <1>2, SavedType DEF PeriodicSnapshot, TypeOK
    <2> QED
        BY <1>2, <2>1
        DEF PeriodicSnapshot, TypeOK, loopVars, joinVars, dataVars, etcdVars, ghostVars
<1>3. ASSUME NEW f \in Instance, NEW Q \in SUBSET Instance, Write(f, Q) PROVE TypeOK'
    <2>1. PICK r \in Revision :
            /\ r < MaxRevision
            /\ data' = Holding(Q, r + 1)
            /\ acked' = r + 1
        BY <1>3 DEF Write
    <2>2. r + 1 \in Revision
        BY <2>1, FleetAssumption DEF Revision
    <2>3. data' \in [Instance -> Revision] /\ acked' \in Revision
        BY <2>1, <2>2, HoldingType
    <2> QED
        BY <1>3, <2>3 DEF Write, TypeOK, loopVars, joinVars, etcdVars
<1> QED
    BY <1>1, <1>2, <1>3 DEF Cleaning, Environment

LEMMA InitType == Init => TypeOK
BY Constants, FleetAssumption DEF Init, TypeOK, Control, State

LEMMA NextType == TypeOK /\ [Next]_vars => TypeOK'
<1> SUFFICES ASSUME TypeOK, [Next]_vars PROVE TypeOK'
    OBVIOUS
<1>1. CASE Next
    BY <1>1, StepType, FailureType, BackgroundType DEF Next
<1>2. CASE UNCHANGED vars
    BY <1>2 DEF vars, TypeOK, loopVars, joinVars, dataVars, etcdVars, ghostVars
<1> QED
    BY <1>1, <1>2

(* Type correctness: the operators' records, the revisions and the membership *)
(* that New, evaluate, execute, Seed, Join and Stop leave are well formed.    *)
THEOREM TypeCorrect == Spec => []TypeOK
BY InitType, NextType, PTL DEF Spec

-----------------------------------------------------------------------------
(* What the answers of a poll mean. *)

(* All instances count as START only if each of them answered START. *)
LEMMA AllReadyMeans ==
    ASSUME NEW st, NEW rv, NEW T \in SUBSET Instance,
           Cardinality({s \in {[instance |-> j, state |-> st[j], revision |-> rv[j]] : j \in T} :
                            s.state = "START"}) = ClusterSize
    PROVE  T = Instance /\ \A j \in Instance : st[j] = "START"
<1> DEFINE rec(j) == [instance |-> j, state |-> st[j], revision |-> rv[j]]
           R == {j \in T : st[j] = "START"}
           S == {s \in {rec(j) : j \in T} : s.state = "START"}
           f == [j \in R |-> rec(j)]
<1>1. S = {rec(j) : j \in R}
    OBVIOUS
<1>2. f \in Surjection(R, S)
    BY <1>1 DEF Surjection
<1>3. IsFiniteSet(Instance) /\ R \in SUBSET Instance
    BY FleetAssumption
<1>4. IsFiniteSet(R) /\ Cardinality(R) <= Cardinality(Instance)
      /\ (Cardinality(Instance) = Cardinality(R) => Instance = R)
    BY <1>3, FS_Subset
<1>5. IsFiniteSet(S) /\ Cardinality(S) <= Cardinality(R)
    BY <1>2, <1>4, FS_Surjection
<1>6. Cardinality(S) = Cardinality(Instance)
    BY DEF ClusterSize
<1>7. Cardinality(R) \in Nat /\ Cardinality(Instance) \in Nat
    BY <1>3, <1>4, FS_CardinalityType
<1>8. Cardinality(Instance) = Cardinality(R)
    BY <1>4, <1>5, <1>6, <1>7
<1> QED
    BY <1>4, <1>8

(* A poll that finds everybody ready and the poller last in the order was    *)
(* answered by all, all show START, and the others rank behind the poller.  *)
LEMMA ElectionMeans ==
    ASSUME TypeOK, NEW i \in Instance, NEW silent, Evaluate(i, silent),
           AllReady(i)', IsSeeder(i)'
    PROVE  /\ \A j \in Instance : state[j] = "START"
           /\ \A j \in Instance \ {i} : Ranks(snapshot[j].revision, j, i)
<1> DEFINE T == Answering \ silent
           rec(j) == [instance |-> j, state |-> state[j], revision |-> snapshot[j].revision]
           rv == [j \in Instance |-> snapshot[j].revision]
<1>1. answers'[i] = {rec(j) : j \in T} /\ T \in SUBSET Instance
    BY DEF Evaluate, SetAt, TypeOK, Answering
<1>2. answers'[i] = {[instance |-> j, state |-> state[j], revision |-> rv[j]] : j \in T}
    BY <1>1
<1>3. Cardinality({s \in answers'[i] : s.state = "START"}) = ClusterSize
    BY DEF AllReady, Count, ClusterSize
<1>4. T = Instance /\ \A j \in Instance : state[j] = "START"
    <2> HIDE DEF T, rv
    <2>1. Cardinality({s \in {[instance |-> j, state |-> state[j], revision |-> rv[j]] : j \in T} :
                            s.state = "START"}) = ClusterSize
        BY <1>2, <1>3
    <2>2. T \in SUBSET Instance
        BY <1>1
    <2> DEFINE inv == [j \in Instance |-> snapshot[j].revision]
    <2>3. rv = inv
        BY DEF rv
    <2> QED
        BY <2>1, <2>2, AllReadyMeans
<1>5. PICK s \in answers'[i] : s.instance = i /\ \A t \in answers'[i] : t = s \/ Before(t, s)
    BY DEF IsSeeder
<1>6. s = rec(i)
    BY <1>1, <1>5
<1>7. ASSUME NEW j \in Instance \ {i} PROVE Ranks(snapshot[j].revision, j, i)
    <2>1. rec(j) \in answers'[i] /\ rec(j) # s
        BY <1>1, <1>4, <1>6, <1>7
    <2>2. Before(rec(j), rec(i))
        BY <1>5, <1>6, <2>1
    <2> QED
        BY <2>2 DEF Before, Ranks
<1> QED
    BY <1>4, <1>7

(* Two instances cannot rank behind each other. *)
LEMMA RanksAsymmetric ==
    ASSUME TypeOK, NEW i \in Instance, NEW j \in Instance,
           Ranks(snapshot[j].revision, j, i), Ranks(snapshot[i].revision, i, j)
    PROVE  FALSE
<1>1. snapshot[i].revision \in Nat /\ snapshot[j].revision \in Nat /\ i \in Nat /\ j \in Nat
    BY FleetAssumption DEF TypeOK, Metadata, Revision
<1> QED
    BY <1>1 DEF Ranks

-----------------------------------------------------------------------------
(* Steps that elect nobody. *)

(* A majority of the members of a cluster is somebody. *)
LEMMA MajorityRuns ==
    ASSUME TypeOK, NEW f \in Instance, NEW Q \in SUBSET Up(f), Majority(Q, members[f])
    PROVE  \E j \in Instance : isRunning[j]
<1>1. IsFiniteSet(members[f]) /\ Cardinality(members[f]) \in Nat
    <2>1. members[f] \in SUBSET Instance
        BY DEF TypeOK
    <2>2. IsFiniteSet(members[f])
        BY <2>1, FleetAssumption, FS_Subset
    <2> QED
        BY <2>2, FS_CardinalityType
<1>2. ASSUME Q = {} PROVE FALSE
    BY <1>1, <1>2, FS_EmptySet DEF Majority
<1>3. PICK j \in Q : j \in Up(f)
    BY <1>2
<1> QED
    BY <1>3 DEF Up, TypeOK

LEMMA QuorumRuns ==
    ASSUME TypeOK, NEW f \in Instance, HasQuorum(f)
    PROVE  \E j \in Instance : isRunning[j]
BY MajorityRuns DEF HasQuorum

(* While anybody runs etcd, nobody is a candidate. *)
LEMMA NobodyIsCandidate ==
    ASSUME CandidateAlone, NEW j \in Instance, isRunning[j] \/ pc[j] = "rejoin"
    PROVE  \A i \in Instance : ~Candidate(i)
BY DEF CandidateAlone

(* What instance j knows and shows does not change. *)
Untouched(j) ==
    /\ pc'[j] = pc[j]
    /\ state'[j] = state[j]
    /\ snapshot'[j] = snapshot[j]
    /\ isRunning'[j] = isRunning[j]
    /\ etcdRunning'[j] = etcdRunning[j]
    /\ etcdHealthy'[j] = etcdHealthy[j]
    /\ answers'[j] = answers[j]
    /\ target'[j] = target[j]
    /\ temp'[j] = temp[j]

(* The same answers elect the same instance. *)
LEMMA SameAnswers ==
    ASSUME NEW j \in Instance, answers'[j] = answers[j]
    PROVE  (AllReady(j)' <=> AllReady(j)) /\ (IsSeeder(j)' <=> IsSeeder(j))
<1>1. AllReady(j)' <=> AllReady(j)
    BY DEF AllReady, Count, ClusterSize
<1>2. IsSeeder(j)' <=> IsSeeder(j)
    BY DEF IsSeeder, Before
<1> QED
    BY <1>1, <1>2

LEMMA UntouchedCandidate ==
    ASSUME NEW j \in Instance, Untouched(j)
    PROVE  Candidate(j)' <=> Candidate(j)
BY SameAnswers DEF Untouched, Candidate, Elected, Founding, NoCluster

LEMMA UntouchedLocal ==
    ASSUME TypeOK, TypeOK', NEW j \in Instance, Untouched(j), Control1(j), Announces(j),
           isRunning[j] \/ (data'[j] <= data[j] /\ (SharedStore \/ store'[j] <= store[j]))
    PROVE  Control1(j)' /\ Announces(j)'
<1>1. Control1(j)'
    BY DEF Untouched, Control1, NoCluster
<1>2. /\ data[j] \in Nat /\ data'[j] \in Nat /\ store[j] \in Nat /\ store'[j] \in Nat
      /\ snapshot[j].revision \in Nat
    BY FleetAssumption DEF TypeOK, Revision, Metadata
<1>3. Announces(j)'
    BY <1>2 DEF Untouched, Announces
<1> QED
    BY <1>1, <1>3

(* A step elects nobody, announces nothing and adds to the stores only beside a server; *)
(* if there is a candidate, it starts no server and adds nothing to what the others     *)
(* have on disk.                                                                        *)
Calm ==
    /\ \A j \in Instance : Candidate(j)' => Candidate(j) /\ state'[j] = "START"
    /\ \A j \in Instance :
          state'[j] = "START" => state[j] = "START" /\ snapshot'[j] = snapshot[j]
    /\ \A j \in Instance : state'[j] = "START" => isRunning'[j] = isRunning[j]
    /\ \/ \E j \in Instance : isRunning[j]
       \/ \A j \in Instance : store'[j] <= store[j]
    /\ \/ \A j \in Instance : ~Candidate(j)
       \/ \A j \in Instance :
             /\ isRunning'[j] => isRunning[j]
             /\ pc'[j] = "rejoin" => pc[j] = "rejoin"
             /\ Candidate(j) \/ data'[j] <= data[j]

(* Ranking behind is kept by whoever has no more than before. *)
LEMMA BehindKept ==
    ASSUME TypeOK, TypeOK', NEW i \in Instance, NEW j \in Instance, Behind(j, i),
           snapshot'[i] = snapshot[i],
           data'[j] <= data[j], store'[j] <= store[j],
           state'[j] = "START" => state[j] = "START" /\ snapshot'[j] = snapshot[j]
    PROVE  Behind(j, i)'
<1>1. /\ data[j] \in Nat /\ data'[j] \in Nat /\ store[j] \in Nat /\ store'[j] \in Nat
      /\ snapshot[i].revision \in Nat
    BY FleetAssumption DEF TypeOK, Revision, Metadata
<1>2. Ranks(data[j], j, i)' /\ (~SharedStore => Ranks(store[j], j, i)')
    BY <1>1 DEF Behind, Ranks
<1>3. (state[j] = "START" => Ranks(snapshot[j].revision, j, i))'
    BY DEF Behind, Ranks
<1> QED
    BY <1>2, <1>3 DEF Behind

LEMMA CalmKeeps ==
    ASSUME TypeOK, TypeOK', CandidateAlone, StoreKnown, FounderAhead, Calm
    PROVE  CandidateAlone' /\ StoreKnown' /\ FounderAhead'
<1>1. FounderAhead'
    BY DEF FounderAhead, Calm, Ranks
<1>2. ASSUME NEW i \in Instance, Candidate(i)'
      PROVE  /\ state'[i] = "START"
             /\ \A j \in Instance : ~isRunning'[j] /\ pc'[j] # "rejoin"
             /\ \A j \in Instance : store'[j] <= snapshot'[i].revision
             /\ \A j \in Instance \ {i} : ~Candidate(j)' /\ Behind(j, i)'
    <2>1. Candidate(i) /\ state'[i] = "START"
        BY <1>2 DEF Calm
    <2>2. /\ \A j \in Instance : ~isRunning[j] /\ pc[j] # "rejoin"
          /\ \A j \in Instance : store[j] <= snapshot[i].revision
          /\ \A j \in Instance \ {i} : ~Candidate(j) /\ Behind(j, i)
        BY <2>1 DEF CandidateAlone
    <2>3. \A j \in Instance :
             /\ isRunning'[j] => isRunning[j]
             /\ pc'[j] = "rejoin" => pc[j] = "rejoin"
             /\ Candidate(j) \/ data'[j] <= data[j]
        BY <2>1 DEF Calm
    <2>4. snapshot'[i] = snapshot[i]
        BY <2>1 DEF Calm
    <2>5. \A j \in Instance : store'[j] <= store[j]
        BY <2>2 DEF Calm
    <2>6. ASSUME NEW j \in Instance \ {i} PROVE ~Candidate(j)' /\ Behind(j, i)'
        <3>1. data'[j] <= data[j] /\ store'[j] <= store[j] /\ Behind(j, i)
            BY <2>2, <2>3, <2>5
        <3>2. state'[j] = "START" => state[j] = "START" /\ snapshot'[j] = snapshot[j]
            BY DEF Calm
        <3>3. ~Candidate(j)'
            BY <2>2 DEF Calm
        <3> QED
            BY <2>4, <3>1, <3>2, <3>3, BehindKept
    <2>7. \A j \in Instance : ~isRunning'[j] /\ pc'[j] # "rejoin"
        BY <2>2, <2>3
    <2>8. ASSUME NEW j \in Instance PROVE store'[j] <= snapshot'[i].revision
        <3>1. store'[j] \in Nat /\ store[j] \in Nat /\ snapshot[i].revision \in Nat
            BY FleetAssumption DEF TypeOK, Revision, Metadata
        <3> QED
            BY <2>2, <2>4, <2>5, <3>1
    <2> QED
        BY <2>1, <2>6, <2>7, <2>8
<1>3. CandidateAlone'
    BY <1>2 DEF CandidateAlone
<1>4. ASSUME \A i \in Instance : state'[i] = "START" /\ ~isRunning'[i], NEW j \in Instance
      PROVE  \E k \in Instance : store'[j] <= snapshot'[k].revision
    <2>1. \A i \in Instance :
             state[i] = "START" /\ ~isRunning[i] /\ snapshot'[i] = snapshot[i]
        BY <1>4 DEF Calm
    <2>2. PICK k \in Instance : store[j] <= snapshot[k].revision
        BY <2>1 DEF StoreKnown
    <2>3. store'[j] <= store[j] /\ snapshot'[k] = snapshot[k]
        BY <2>1 DEF Calm
    <2>4. store'[j] \in Nat /\ store[j] \in Nat /\ snapshot[k].revision \in Nat
        BY FleetAssumption DEF TypeOK, Revision, Metadata
    <2> QED
        BY <2>2, <2>3, <2>4
<1>5. StoreKnown'
    BY <1>4 DEF StoreKnown
<1> QED
    BY <1>1, <1>3, <1>5

(* A step of instance i changes nothing else. *)
Only(i) ==
    \A j \in Instance \ {i} : Untouched(j) /\ data'[j] = data[j] /\ store'[j] = store[j]

(* It saves a snapshot of its server: a bucket is there for the others as well. *)
SavesOnly(i) ==
    /\ isRunning[i]
    /\ \A j \in Instance \ {i} :
          Untouched(j) /\ data'[j] = data[j] /\ (store'[j] = store[j] \/ SharedStore)

(* What is asked of instance i for its step to be calm. *)
CalmAt(i) ==
    /\ Candidate(i)' => Candidate(i) /\ state'[i] = "START"
    /\ state'[i] = "START" => state[i] = "START" /\ snapshot'[i] = snapshot[i]
    /\ state'[i] = "START" => isRunning'[i] = isRunning[i]
    /\ isRunning[i] \/ store'[i] <= store[i]
    /\ \/ \A j \in Instance : ~Candidate(j)
       \/ /\ isRunning'[i] => isRunning[i]
          /\ pc'[i] = "rejoin" => pc[i] = "rejoin"
          /\ Candidate(i) \/ data'[i] <= data[i]

(* The other instances are as they were, so are their own invariants. *)
LEMMA OnlyLocal ==
    ASSUME ElectionInv, TypeOK', NEW i \in Instance, Only(i) \/ SavesOnly(i),
           Control1(i)', Announces(i)'
    PROVE  Local'
<1>1. ASSUME NEW j \in Instance \ {i} PROVE Control1(j)' /\ Announces(j)'
    <2>1. data'[j] <= data[j] /\ (SharedStore \/ store'[j] <= store[j])
        <3>1. data[j] \in Nat /\ store[j] \in Nat
            BY FleetAssumption DEF ElectionInv, TypeOK, Revision
        <3> QED
            BY <3>1 DEF Only, SavesOnly
    <2>2. Untouched(j)
        BY DEF Only, SavesOnly
    <2> QED
        BY <2>1, <2>2, UntouchedLocal DEF ElectionInv, Local
<1> QED
    BY <1>1 DEF Local

LEMMA CalmStep ==
    ASSUME ElectionInv, TypeOK', OneBucket', NEW i \in Instance, Only(i) \/ SavesOnly(i), CalmAt(i),
           Control1(i)', Announces(i)'
    PROVE  ElectionInv'
<1>1. Local'
    BY OnlyLocal
<1>2. ASSUME NEW j \in Instance \ {i}
      PROVE  /\ Candidate(j)' => Candidate(j) /\ state'[j] = "START"
             /\ state'[j] = "START" => state[j] = "START" /\ snapshot'[j] = snapshot[j]
             /\ isRunning'[j] = isRunning[j]
             /\ pc'[j] = pc[j]
             /\ data'[j] <= data[j] /\ (isRunning[i] \/ store'[j] <= store[j])
    <2>1. Untouched(j) /\ data'[j] = data[j] /\ (store'[j] = store[j] \/ isRunning[i])
        BY DEF Only, SavesOnly
    <2>2. data[j] \in Nat /\ store[j] \in Nat
        BY FleetAssumption DEF ElectionInv, TypeOK, Revision
    <2>3. Candidate(j)' => Candidate(j) /\ state'[j] = "START"
        BY <2>1, UntouchedCandidate DEF Untouched, ElectionInv, CandidateAlone
    <2> QED
        BY <2>1, <2>2, <2>3 DEF Untouched
<1>3. Calm
    BY <1>2 DEF Calm, CalmAt
<1> QED
    BY <1>1, <1>3, CalmKeeps DEF ElectionInv

(* The others loop as they did; a commit may have reached those that run. *)
Others(i) ==
    \A j \in Instance \ {i} :
        Untouched(j) /\ store'[j] = store[j] /\ (isRunning[j] \/ data'[j] = data[j])

(* Nobody is a candidate before the step of i, and nobody is after it. *)
LEMMA BusyStep ==
    ASSUME ElectionInv, TypeOK', OneBucket', NEW i \in Instance, Others(i),
           \A j \in Instance : ~Candidate(j), store' = store,
           ~Candidate(i)', state'[i] # "START", Control1(i)', Announces(i)'
    PROVE  ElectionInv'
<1>1. ASSUME NEW j \in Instance \ {i} PROVE Control1(j)' /\ Announces(j)' /\ ~Candidate(j)'
    <2>1. isRunning[j] \/ (data'[j] <= data[j] /\ store'[j] <= store[j])
        <3>1. data[j] \in Nat /\ store[j] \in Nat
            BY FleetAssumption DEF ElectionInv, TypeOK, Revision
        <3> QED
            BY <3>1 DEF Others
    <2>2. Untouched(j) /\ Control1(j) /\ Announces(j)
        BY DEF Others, ElectionInv, Local
    <2>3. Control1(j)' /\ Announces(j)'
        BY <2>1, <2>2, UntouchedLocal DEF ElectionInv
    <2> QED
        BY <2>2, <2>3, UntouchedCandidate
<1>2. Local'
    BY <1>1 DEF Local
<1>3. Calm
    <2>1. ASSUME NEW j \in Instance
          PROVE  /\ state'[j] = "START" => state[j] = "START" /\ snapshot'[j] = snapshot[j]
                 /\ state'[j] = "START" => isRunning'[j] = isRunning[j]
                 /\ store'[j] <= store[j]
        <3>1. store[j] \in Nat
            BY FleetAssumption DEF ElectionInv, TypeOK, Revision
        <3> QED
            BY <3>1 DEF Others, Untouched
    <2> QED
        BY <1>1, <2>1 DEF Calm
<1> QED
    BY <1>2, <1>3, CalmKeeps DEF ElectionInv

(* All loop as they did, one of them with a server; a commit reached some that run. *)
LEMMA CommitStep ==
    ASSUME ElectionInv, TypeOK', OneBucket', NEW k \in Instance, isRunning[k],
           \A j \in Instance : Untouched(j) /\ store'[j] = store[j],
           \A j \in Instance : isRunning[j] \/ data'[j] = data[j]
    PROVE  ElectionInv'
<1>1. \A j \in Instance : ~Candidate(j)
    BY NobodyIsCandidate DEF ElectionInv
<1>2. \A j \in Instance : ~Candidate(j)'
    BY <1>1, UntouchedCandidate
<1>3. Calm
    BY <1>1, <1>2 DEF Calm, Untouched
<1>4. ASSUME NEW j \in Instance PROVE Control1(j)' /\ Announces(j)'
    <2>1. isRunning[j] \/ (data'[j] <= data[j] /\ store'[j] <= store[j])
        <3>1. data[j] \in Nat /\ store[j] \in Nat
            BY FleetAssumption DEF ElectionInv, TypeOK, Revision
        <3> QED
            BY <3>1
    <2> QED
        BY <2>1, UntouchedLocal DEF ElectionInv, Local
<1>5. Local'
    BY <1>4 DEF Local
<1> QED
    BY <1>3, <1>5, CalmKeeps DEF ElectionInv

-----------------------------------------------------------------------------
(* Calm steps: the branches of execute that start and announce nothing. *)

(* Outside of these places an instance is no candidate. *)
LEMMA NotCandidate ==
    ASSUME NEW i \in Instance,
           pc[i] \notin {"health", "execute", "seed", "restore"},
           pc[i] = "start" => target[i] # NoCluster
    PROVE  ~Candidate(i)
BY DEF Candidate, Elected, Founding

(* What the invariant says of one instance. *)
LEMMA AtOnce ==
    ASSUME ElectionInv, NEW i \in Instance
    PROVE  /\ Control1(i) /\ Announces(i)
           /\ Candidate(i) => state[i] = "START" /\ \A j \in Instance : ~isRunning[j]
           /\ data[i] \in Nat /\ store[i] \in Nat /\ temp[i] \in Nat
           /\ snapshot[i].revision \in Nat
           /\ isRunning[i] \in BOOLEAN /\ etcdRunning[i] \in BOOLEAN
BY FleetAssumption DEF ElectionInv, TypeOK, Local, CandidateAlone, Revision, Metadata

(* PENDING and OK start nothing. *)
LEMMA PlainBranches ==
    ASSUME ElectionInv, TypeOK', OneBucket', NEW i \in Instance,
           \/ ExecShutdown(i) \/ ExecJoin(i) \/ ExecStandby(i) \/ ExecPending(i) \/ ExecStop(i)
    PROVE  ElectionInv'
<1>1. PICK p \in {"wait", "stop", "join"}, st \in {"PENDING", "OK"} :
        /\ Branch(i, p, st)
        /\ p # "wait" => st = "PENDING"
        /\ isRunning[i] => p # "join"
    BY AtOnce
    DEF ExecShutdown, ExecJoin, ExecStandby, ExecPending, ExecStop, StopOr, Branch, Control1
<1>2. UNCHANGED <<snapshot, shutdown, isRunning, joinVars, dataVars, etcdVars, store, ghostVars>>
    BY DEF ExecShutdown, ExecJoin, ExecStandby, ExecPending, ExecStop
<1>3. pc'[i] = p /\ state'[i] = st
    BY <1>1 DEF Branch, Goto, SetAt, ElectionInv, TypeOK
<1>4. Only(i)
    BY <1>1, <1>2 DEF Only, Untouched, Branch, Goto, SetAt, ElectionInv, TypeOK, joinVars, dataVars
<1>5. ~Candidate(i)'
    BY <1>3, NotCandidate DEF Candidate, Elected, Founding
<1>6. CalmAt(i)
    BY <1>2, <1>3, <1>5, AtOnce DEF CalmAt, dataVars
<1>7. Control1(i)' /\ Announces(i)'
    BY <1>1, <1>2, <1>3, AtOnce DEF Control1, Announces, joinVars, dataVars, NoCluster, Branch
<1> QED
    BY <1>4, <1>6, <1>7, CalmStep

(* The end of a process. *)
LEMMA DyingIsCalm ==
    ASSUME ElectionInv, TypeOK', OneBucket', NEW i \in Instance, Die(i)
    PROVE  ElectionInv'
<1>1. /\ pc'[i] = "down" /\ state'[i] = "UNKNOWN" /\ ~isRunning'[i] /\ target'[i] = NoCluster
      /\ UNCHANGED <<data, store>>
    BY DEF Die, Goto, SetAt, ElectionInv, TypeOK
<1>2. Only(i)
    BY DEF Only, Untouched, Die, Goto, SetAt, ElectionInv, TypeOK
<1>3. ~Candidate(i)'
    BY <1>1 DEF Candidate, Elected, Founding
<1>4. CalmAt(i)
    BY <1>1, <1>3, AtOnce DEF CalmAt
<1>5. Control1(i)' /\ Announces(i)'
    BY <1>1 DEF Control1, Announces, NoCluster
<1> QED
    BY <1>2, <1>4, <1>5, CalmStep

(* A call that gives up, without a new data directory. *)
LEMMA GivingUpIsCalm ==
    ASSUME ElectionInv, TypeOK', OneBucket', NEW i \in Instance, BackToWait(i), UNCHANGED <<data, cluster>>,
           pc[i] \in {"seed", "restore", "join", "add", "start"}
    PROVE  ElectionInv'
<1>1. /\ pc'[i] = "wait" /\ target'[i] = NoCluster
      /\ UNCHANGED <<state, snapshot, isRunning, data, store>>
    BY DEF BackToWait, Goto, SetAt, ElectionInv, TypeOK
<1>2. Only(i)
    BY DEF Only, Untouched, BackToWait, Goto, SetAt, ElectionInv, TypeOK, loopVars
<1>3. ~Candidate(i)'
    BY <1>1 DEF Candidate, Elected, Founding
<1>4. CalmAt(i)
    BY <1>1, <1>3, AtOnce DEF CalmAt
<1>5. Control1(i)' /\ Announces(i)'
    BY <1>1, AtOnce DEF Control1, Announces, NoCluster
<1> QED
    BY <1>2, <1>4, <1>5, CalmStep

(* A health check keeps the answers it was started with. *)
LEMMA HealthIsCalm ==
    ASSUME ElectionInv, TypeOK', OneBucket', NEW i \in Instance, NEW healthy, HealthAnswer(i, healthy)
    PROVE  ElectionInv'
<1>1. /\ pc[i] = "health" /\ pc'[i] = "execute"
      /\ UNCHANGED <<state, snapshot, isRunning, etcdRunning, answers, target, temp, data, store>>
    BY DEF HealthAnswer, Goto, SetAt, ElectionInv, TypeOK, joinVars, dataVars
<1>2. Only(i)
    BY DEF Only, Untouched, HealthAnswer, Goto, SetAt, ElectionInv, TypeOK, joinVars, dataVars
<1>3. (AllReady(i)' <=> AllReady(i)) /\ (IsSeeder(i)' <=> IsSeeder(i))
    BY <1>1, SameAnswers
<1>4. Candidate(i)' => Candidate(i)
    BY <1>1, <1>3 DEF Candidate, Elected, Founding
<1>5. CalmAt(i)
    BY <1>1, <1>4, AtOnce DEF CalmAt
<1>6. Control1(i)' /\ Announces(i)'
    BY <1>1, AtOnce DEF Control1, Announces, NoCluster
<1> QED
    BY <1>2, <1>5, <1>6, CalmStep

(* Seed's first step: the candidate takes its data directory away. *)
LEMMA ExecSeedIsCalm ==
    ASSUME ElectionInv, TypeOK', OneBucket', NEW i \in Instance, ExecSeed(i)
    PROVE  ElectionInv'
<1> USE DEF dataVars, joinVars
<1>a. Candidate(i) /\ pc[i] = "execute" /\ ~etcdRunning[i]
    BY DEF ExecSeed, Branch, Candidate, Elected
<1>b. ~isRunning[i] /\ target[i] = NoCluster
    BY <1>a, AtOnce DEF Control1
<1>c. /\ pc'[i] \in {"start", "seed"} /\ state'[i] = "START"
      /\ UNCHANGED <<snapshot, isRunning, target, store>>
    BY DEF ExecSeed, Branch, Goto, SetAt, ElectionInv, TypeOK
<1>d. data'[i] \in {0, data[i]}
    BY DEF ExecSeed, SetAt, ElectionInv, TypeOK
<1>1. /\ Candidate(i) /\ pc'[i] \in {"start", "seed"} /\ state'[i] = "START"
      /\ data'[i] \in {0, data[i]} /\ ~isRunning[i] /\ target[i] = NoCluster
      /\ UNCHANGED <<snapshot, isRunning, target, store>>
    BY <1>a, <1>b, <1>c, <1>d
<1>2. Only(i)
    BY DEF Only, Untouched, ExecSeed, Branch, Goto, SetAt, ElectionInv, TypeOK
<1>3. CalmAt(i)
    BY <1>1, AtOnce DEF CalmAt
<1>4. Control1(i)' /\ Announces(i)'
    BY <1>1, AtOnce DEF Control1, Announces, NoCluster
<1> QED
    BY <1>2, <1>3, <1>4, CalmStep

(* Restore, first half: the copy it works from is no newer than announced. *)
LEMMA SeedGetIsCalm ==
    ASSUME ElectionInv, TypeOK', OneBucket', NEW i \in Instance, SeedGet(i)
    PROVE  ElectionInv'
<1>1. /\ Candidate(i) /\ pc[i] = "seed" /\ pc'[i] = "restore" /\ data'[i] = 0
      /\ temp'[i] \in {data[i], snapshot[i].revision}
      /\ UNCHANGED <<state, snapshot, isRunning, target, store>>
    BY DEF SeedGet, Goto, SetAt, ElectionInv, TypeOK, Candidate, Founding, joinVars
<1>2. Only(i)
    BY DEF Only, Untouched, SeedGet, Goto, SetAt, ElectionInv, TypeOK, joinVars, loopVars
<1>3. CalmAt(i)
    BY <1>1, AtOnce DEF CalmAt
<1>4. Control1(i)' /\ Announces(i)'
    BY <1>1, AtOnce DEF Control1, Announces, NoCluster
<1> QED
    BY <1>2, <1>3, <1>4, CalmStep

(* Restore, second half. *)
LEMMA RestoreIsCalm ==
    ASSUME ElectionInv, TypeOK', OneBucket', NEW i \in Instance, RestoreData(i)
    PROVE  ElectionInv'
<1>1. /\ Candidate(i) /\ pc[i] = "restore" /\ pc'[i] = "start" /\ data'[i] = temp[i]
      /\ UNCHANGED <<state, snapshot, isRunning, target, store>>
    BY DEF RestoreData, Goto, SetAt, ElectionInv, TypeOK, Candidate, Founding, joinVars
<1>2. Only(i)
    BY DEF Only, Untouched, RestoreData, Goto, SetAt, ElectionInv, TypeOK, joinVars, loopVars
<1>3. CalmAt(i)
    BY <1>1, AtOnce DEF CalmAt
<1>4. Control1(i)' /\ Announces(i)'
    BY <1>1, AtOnce DEF Control1, Announces, NoCluster
<1> QED
    BY <1>2, <1>3, <1>4, CalmStep

-----------------------------------------------------------------------------
(* Calm steps: joining, for which some cluster has to serve. *)

LEMMA JoinListIsCalm ==
    ASSUME ElectionInv, TypeOK', OneBucket', NEW i \in Instance, NEW f \in Instance, JoinList(i, f)
    PROVE  ElectionInv'
<1>1. /\ pc[i] = "join" /\ pc'[i] \in {"rejoin", "add"} /\ target'[i] = f
      /\ data'[i] \in {0, data[i]}
      /\ UNCHANGED <<state, snapshot, isRunning, store>>
    BY DEF JoinList, Goto, SetAt, ElectionInv, TypeOK
<1>2. Only(i)
    BY DEF Only, Untouched, JoinList, Goto, SetAt, ElectionInv, TypeOK, loopVars
<1>3. \A j \in Instance : ~Candidate(j)
    BY QuorumRuns, NobodyIsCandidate DEF JoinList, ElectionInv
<1>4. state[i] = "PENDING" /\ ~Candidate(i)'
    BY <1>1, AtOnce DEF Candidate, Elected, Founding, Control1
<1>5. CalmAt(i)
    BY <1>1, <1>3, <1>4, AtOnce DEF CalmAt
<1>6. f # NoCluster
    BY Constants
<1>7. Control1(i)' /\ Announces(i)'
    BY <1>1, <1>4, <1>6, AtOnce DEF Control1, Announces, NoCluster
<1> QED
    BY <1>2, <1>5, <1>7, CalmStep

LEMMA RejoinIsCalm ==
    ASSUME ElectionInv, TypeOK', OneBucket', NEW i \in Instance, Rejoin(i)
    PROVE  ElectionInv'
<1>1. /\ pc[i] = "rejoin" /\ pc'[i] = "ready" /\ isRunning'[i]
      /\ UNCHANGED <<state, snapshot, target, data, store>>
    BY DEF Rejoin, Goto, SetAt, ElectionInv, TypeOK, joinVars, dataVars
<1>2. Only(i)
    BY DEF Only, Untouched, Rejoin, Goto, SetAt, ElectionInv, TypeOK, loopVars, joinVars, dataVars
<1>3. \A j \in Instance : ~Candidate(j)
    BY <1>1, NobodyIsCandidate DEF ElectionInv
<1>4. state[i] = "PENDING" /\ ~Candidate(i)'
    BY <1>1, AtOnce DEF Candidate, Elected, Founding, Control1
<1>5. CalmAt(i)
    BY <1>1, <1>3, <1>4, AtOnce DEF CalmAt
<1>6. Control1(i)' /\ Announces(i)'
    BY <1>1, <1>4, AtOnce DEF Control1, Announces, NoCluster
<1> QED
    BY <1>2, <1>5, <1>6, CalmStep

(* What a commit leaves where it does not reach. *)
LEMMA HoldingElsewhere ==
    ASSUME NEW f, NEW Q \in SUBSET Up(f), NEW r
    PROVE  \A j \in Instance : isRunning[j] \/ Holding(Q, r)[j] = data[j]
BY DEF Up, Holding

LEMMA RejoinFailsIsCalm ==
    ASSUME ElectionInv, TypeOK', OneBucket', NEW i \in Instance, RejoinFails(i)
    PROVE  ElectionInv'
<1>1. /\ pc[i] = "rejoin" /\ pc'[i] = "add"
      /\ UNCHANGED <<state, snapshot, isRunning, target, temp, store, loopVars>>
    BY DEF RejoinFails, Goto, SetAt, ElectionInv, TypeOK, joinVars
<1>2. \A j \in Instance \ {i} : isRunning[j] \/ data'[j] = data[j]
    <2>1. PICK d : /\ data' = SetAt(d, i, 0)
                   /\ \A j \in Instance : isRunning[j] \/ d[j] = data[j]
                   /\ DOMAIN d = Instance
        <3>1. CASE ReleasesMember(target[i], i)
            <4>1. PICK Q \in SUBSET Up(target[i]), r \in Revision :
                    data' = SetAt(Holding(Q, r), i, 0)
                BY <3>1 DEF RejoinFails
            <4>2. \A j \in Instance : isRunning[j] \/ Holding(Q, r)[j] = data[j]
                BY HoldingElsewhere
            <4>3. DOMAIN Holding(Q, r) = Instance
                BY DEF Holding
            <4> QED
                BY <4>1, <4>2, <4>3
        <3>2. CASE ~ReleasesMember(target[i], i)
            BY <3>2 DEF RejoinFails, ElectionInv, TypeOK
        <3> QED
            BY <3>1, <3>2
    <2> QED
        BY <2>1 DEF SetAt
<1>3. Others(i)
    BY <1>1, <1>2 DEF Others, Untouched, RejoinFails, Goto, SetAt, ElectionInv, TypeOK, loopVars
<1>4. \A j \in Instance : ~Candidate(j)
    BY <1>1, NobodyIsCandidate DEF ElectionInv
<1>5. state[i] = "PENDING" /\ ~Candidate(i)'
    BY <1>1, AtOnce DEF Candidate, Elected, Founding, Control1
<1>6. Control1(i)' /\ Announces(i)'
    BY <1>1, <1>5, AtOnce DEF Control1, Announces, NoCluster
<1> QED
    BY <1>1, <1>3, <1>4, <1>5, <1>6, BusyStep

LEMMA AddMemberIsCalm ==
    ASSUME ElectionInv, TypeOK', OneBucket', NEW i \in Instance, AddMember(i)
    PROVE  ElectionInv'
<1>1. /\ pc[i] = "add" /\ pc'[i] = "start"
      /\ UNCHANGED <<state, snapshot, isRunning, target, temp, store, loopVars>>
    BY DEF AddMember, Goto, SetAt, ElectionInv, TypeOK, joinVars
<1>2. \A j \in Instance : isRunning[j] \/ data'[j] = data[j]
    BY HoldingElsewhere DEF AddMember
<1>3. Others(i)
    BY <1>1, <1>2 DEF Others, Untouched, AddMember, Goto, SetAt, ElectionInv, TypeOK, loopVars
<1>4. state[i] = "PENDING" /\ target[i] # NoCluster /\ ~isRunning[i]
    BY <1>1, AtOnce DEF Control1
<1>5. target[i] \in Instance
    BY <1>4 DEF ElectionInv, TypeOK
<1>6. \A j \in Instance : ~Candidate(j)
    <2>1. HasQuorum(target[i])
        BY DEF AddMember
    <2>2. PICK j \in Instance : isRunning[j]
        BY <1>5, <2>1, QuorumRuns DEF ElectionInv
    <2> QED
        BY <2>2, NobodyIsCandidate DEF ElectionInv
<1>7. ~Candidate(i)'
    BY <1>1, <1>4 DEF Candidate, Elected, Founding, NoCluster
<1>8. Control1(i)' /\ Announces(i)'
    BY <1>1, <1>4, AtOnce DEF Control1, Announces, NoCluster
<1> QED
    BY <1>1, <1>3, <1>4, <1>6, <1>7, <1>8, BusyStep

LEMMA StartJoinerIsCalm ==
    ASSUME ElectionInv, TypeOK', OneBucket', NEW i \in Instance, StartJoiner(i)
    PROVE  ElectionInv'
<1>1. /\ pc[i] = "start" /\ pc'[i] = "ready" /\ isRunning'[i] /\ target[i] # NoCluster
      /\ UNCHANGED <<state, snapshot, target, store>>
    BY DEF StartJoiner, Goto, SetAt, ElectionInv, TypeOK, joinVars
<1>2. Only(i)
    BY DEF Only, Untouched, StartJoiner, Goto, SetAt, ElectionInv, TypeOK, joinVars, loopVars
<1>3. \A j \in Instance : ~Candidate(j)
    <2>1. PICK j \in Up(target[i]) : TRUE
        BY DEF StartJoiner
    <2>2. j \in Instance /\ isRunning[j]
        BY <1>1, <2>1 DEF Up, ElectionInv, TypeOK
    <2> QED
        BY <2>2, NobodyIsCandidate DEF ElectionInv
<1>4. state[i] = "PENDING" /\ ~Candidate(i)'
    BY <1>1, AtOnce DEF Candidate, Elected, Founding, Control1
<1>5. CalmAt(i)
    BY <1>1, <1>3, <1>4, AtOnce DEF CalmAt
<1>6. Control1(i)' /\ Announces(i)'
    BY <1>1, <1>4, AtOnce DEF Control1, Announces, NoCluster
<1> QED
    BY <1>2, <1>5, <1>6, CalmStep

LEMMA BecomeReadyIsCalm ==
    ASSUME ElectionInv, TypeOK', OneBucket', NEW i \in Instance, BecomeReady(i)
    PROVE  ElectionInv'
<1>1. /\ pc[i] = "ready" /\ pc'[i] = "wait" /\ target'[i] = NoCluster
      /\ UNCHANGED <<state, snapshot, isRunning, store>>
    BY DEF BecomeReady, Goto, SetAt, ElectionInv, TypeOK
<1>2. Only(i)
    BY DEF Only, Untouched, BecomeReady, Goto, SetAt, ElectionInv, TypeOK, loopVars
<1>3. isRunning[i] /\ \A j \in Instance : ~Candidate(j)
    BY <1>1, AtOnce, NobodyIsCandidate DEF ElectionInv, Control1
<1>4. ~Candidate(i)'
    BY <1>1 DEF Candidate, Elected, Founding
<1>5. CalmAt(i)
    BY <1>1, <1>3, <1>4, AtOnce DEF CalmAt
<1>6. Control1(i)' /\ Announces(i)'
    BY <1>1, <1>3 DEF Control1, Announces, NoCluster
<1> QED
    BY <1>2, <1>5, <1>6, CalmStep

-----------------------------------------------------------------------------
(* Calm steps: stopping, restarting and what surrounds the loop. *)

(* With a directory per instance, Save adds to one store only. *)
LEMMA SavedElsewhere ==
    ASSUME TypeOK, NEW i \in Instance, NEW r, store' = Saved(i, r)
    PROVE  \A j \in Instance \ {i} : store'[j] = store[j] \/ SharedStore
BY DEF Saved, TypeOK

(* Stop saves only while its own etcd runs, when nobody is a candidate. *)
LEMMA StoppingIsCalm ==
    ASSUME ElectionInv, TypeOK', OneBucket', NEW i \in Instance,
           StopSnapshot(i) \/ StopSnapshotFails(i)
    PROVE  ElectionInv'
<1>1. /\ pc[i] = "stop" /\ pc'[i] = "close"
      /\ UNCHANGED <<state, snapshot, isRunning, target, data>>
      /\ store' = store \/ (isRunning[i] /\ store' = Saved(i, data[i]))
    <2>1. CASE StopSnapshot(i)
        BY <2>1, AtOnce
        DEF StopSnapshot, Goto, SetAt, ElectionInv, TypeOK, joinVars, dataVars
    <2>2. CASE StopSnapshotFails(i)
        BY <2>2
        DEF StopSnapshotFails, Goto, SetAt, ElectionInv, TypeOK, joinVars, dataVars
    <2> QED
        BY <2>1, <2>2
<1>2. \A j \in Instance \ {i} : Untouched(j) /\ data'[j] = data[j]
    BY <1>1
    DEF Untouched, StopSnapshot, StopSnapshotFails, Goto, SetAt, ElectionInv, TypeOK,
        joinVars, dataVars, loopVars
<1>3. Only(i) \/ SavesOnly(i)
    BY <1>1, <1>2, SavedElsewhere DEF Only, SavesOnly, ElectionInv
<1>4. state[i] = "PENDING" /\ ~Candidate(i)'
    BY <1>1, AtOnce DEF Candidate, Elected, Founding, Control1
<1>5. isRunning[i] => \A j \in Instance : ~Candidate(j)
    BY NobodyIsCandidate DEF ElectionInv
<1>6. CalmAt(i)
    BY <1>1, <1>4, <1>5, AtOnce DEF CalmAt
<1>7. Control1(i)' /\ Announces(i)'
    BY <1>1, <1>4, AtOnce DEF Control1, Announces, NoCluster
<1> QED
    BY <1>3, <1>6, <1>7, CalmStep

LEMMA ClosingIsCalm ==
    ASSUME ElectionInv, TypeOK', OneBucket', NEW i \in Instance, CloseServer(i) \/ Restart(i)
    PROVE  ElectionInv'
<1>1. /\ pc[i] \in {"close", "down"} /\ pc'[i] = "wait"
      /\ ~isRunning'[i]
      /\ pc[i] = "close" => state[i] = "PENDING"
      /\ UNCHANGED <<state, snapshot, target, data, store>>
    BY AtOnce
    DEF CloseServer, Restart, Goto, SetAt, ElectionInv, TypeOK, joinVars, dataVars, Control1
<1>2. Only(i)
    BY DEF Only, Untouched, CloseServer, Restart, Goto, SetAt, ElectionInv, TypeOK, loopVars,
           joinVars, dataVars
<1>3. ~Candidate(i)'
    BY <1>1 DEF Candidate, Elected, Founding
<1>4. pc[i] = "down" => isRunning'[i] = isRunning[i]
    BY <1>1, AtOnce DEF Control1, TypeOK
<1>5. CalmAt(i)
    BY <1>1, <1>3, <1>4, AtOnce DEF CalmAt
<1>6. Control1(i)' /\ Announces(i)'
    BY <1>1, <1>4, AtOnce DEF Control1, Announces, NoCluster
<1> QED
    BY <1>2, <1>5, <1>6, CalmStep

(* A server that stops by itself leaves the loop where it is. *)
LEMMA EtcdFailsIsCalm ==
    ASSUME Orderly, ElectionInv, TypeOK', OneBucket', NEW i \in Instance, EtcdFails(i)
    PROVE  ElectionInv'
<1>1. /\ pc[i] # "ready" /\ ~isRunning'[i] /\ isRunning[i]
      /\ UNCHANGED <<pc, state, snapshot, target, data, store, etcdRunning, etcdHealthy,
                     answers, temp>>
    BY DEF EtcdFails, SetAt, ElectionInv, TypeOK, loopVars, joinVars, dataVars
<1>2. state[i] # "START"
    BY DEF EtcdFails, Fault, Orderly
<1>3. Only(i)
    BY <1>1 DEF Only, Untouched, EtcdFails, SetAt, ElectionInv, TypeOK
<1>4. \A j \in Instance : ~Candidate(j)
    BY <1>1, NobodyIsCandidate DEF ElectionInv
<1>5. ~Candidate(i)'
    BY <1>1, <1>4, SameAnswers DEF Candidate, Elected, Founding
<1>6. CalmAt(i)
    BY <1>1, <1>2, <1>4, <1>5 DEF CalmAt
<1>7. Control1(i)' /\ Announces(i)'
    BY <1>1, <1>2, AtOnce DEF Control1, Announces, NoCluster
<1> QED
    BY <1>3, <1>6, <1>7, CalmStep

(* A new disk and a new name in the shutdown flag change no decision. *)
LEMMA WipeIsCalm ==
    ASSUME ElectionInv, TypeOK', OneBucket', NEW i \in Instance, Wipe(i)
    PROVE  ElectionInv'
<1>1. /\ pc[i] = "down" /\ data'[i] = 0 /\ store'[i] \in {0, store[i]}
      /\ UNCHANGED <<pc, state, snapshot, isRunning, target, etcdRunning, etcdHealthy,
                     answers, temp>>
    BY DEF Wipe, SetAt, ElectionInv, TypeOK, loopVars, joinVars
<1>2. Only(i)
    BY <1>1 DEF Only, Untouched, Wipe, SetAt, ElectionInv, TypeOK
<1>3. ~Candidate(i)'
    BY <1>1 DEF Candidate, Elected, Founding
<1>4. CalmAt(i)
    BY <1>1, <1>3, AtOnce DEF CalmAt
<1>5. Control1(i)' /\ Announces(i)'
    BY <1>1, AtOnce DEF Control1, Announces, NoCluster
<1> QED
    BY <1>2, <1>4, <1>5, CalmStep

(* Nothing at all happens to what the invariant is about. *)
LEMMA StutterKeeps ==
    ASSUME ElectionInv, TypeOK', OneBucket',
           UNCHANGED <<pc, state, snapshot, isRunning, loopVars, target, data, temp, store>>
    PROVE  ElectionInv'
<1>1. \A j \in Instance : Untouched(j)
    BY DEF Untouched, loopVars
<1>2. \A j \in Instance : Candidate(j)' <=> Candidate(j)
    BY <1>1, UntouchedCandidate
<1>3. Local' /\ StoreKnown' /\ FounderAhead'
    BY DEF ElectionInv, Local, StoreKnown, FounderAhead, Control1, Announces, Ranks, NoCluster,
           loopVars
<1>4. \A i, j \in Instance : Behind(j, i)' <=> Behind(j, i)
    BY DEF Behind, Ranks
<1>5. CandidateAlone'
    BY <1>2, <1>4 DEF ElectionInv, CandidateAlone
<1> QED
    BY <1>3, <1>5 DEF ElectionInv

LEMMA PeriodicIsCalm ==
    ASSUME ElectionInv, TypeOK', OneBucket', NEW i \in Instance, PeriodicSnapshot(i)
    PROVE  ElectionInv'
<1>1. /\ isRunning[i] /\ store' = Saved(i, data[i])
      /\ UNCHANGED <<pc, state, snapshot, isRunning, target, data, etcdRunning, etcdHealthy,
                     answers, temp>>
    BY DEF PeriodicSnapshot, Serving, loopVars, joinVars, dataVars
<1>2. SavesOnly(i)
    BY <1>1, SavedElsewhere DEF SavesOnly, Untouched, ElectionInv
<1>3. \A j \in Instance : ~Candidate(j)
    BY <1>1, NobodyIsCandidate DEF ElectionInv
<1>4. Untouched(i)
    BY <1>1 DEF Untouched
<1>5. CalmAt(i)
    BY <1>1, <1>3, <1>4, UntouchedCandidate DEF CalmAt
<1>6. Control1(i)' /\ Announces(i)'
    BY <1>4, <1>1, UntouchedLocal, AtOnce DEF ElectionInv
<1> QED
    BY <1>2, <1>5, <1>6, CalmStep

(* A write takes a majority of running members. *)
LEMMA WriteIsCalm ==
    ASSUME ElectionInv, TypeOK', OneBucket', NEW f \in Instance, NEW Q \in SUBSET Instance, Write(f, Q)
    PROVE  ElectionInv'
<1>1. PICK r \in Revision : Commits(f, Q, r) /\ data' = Holding(Q, r + 1)
    BY DEF Write
<1>2. Q \in SUBSET Up(f) /\ Majority(Q, members[f])
    BY <1>1 DEF Commits
<1>3. \A j \in Instance : Untouched(j) /\ store'[j] = store[j]
    BY DEF Write, Untouched, loopVars, joinVars
<1>4. \A j \in Instance : isRunning[j] \/ data'[j] = data[j]
    BY <1>1, <1>2, HoldingElsewhere
<1>5. PICK k \in Instance : isRunning[k]
    BY <1>2, MajorityRuns DEF ElectionInv
<1> QED
    BY <1>3, <1>4, <1>5, CommitStep

(* The cleaner runs beside a server. *)
LEMMA CleaningIsCalm ==
    ASSUME ElectionInv, TypeOK', OneBucket', NEW i \in Instance, NEW j \in Instance, CleanMember(i, j)
    PROVE  ElectionInv'
<1>1. isRunning[i]
    BY DEF CleanMember, Serving
<1>2. \A k \in Instance : Untouched(k) /\ store'[k] = store[k]
    BY DEF CleanMember, Untouched, loopVars, joinVars
<1>3. \A k \in Instance : isRunning[k] \/ data'[k] = data[k]
    BY HoldingElsewhere DEF CleanMember
<1> QED
    BY <1>1, <1>2, <1>3, CommitStep

-----------------------------------------------------------------------------
(* The three steps that are not calm. *)

(* A poll that elects its instance finds everybody waiting in START, and its *)
(* own copy ahead of all the others.                                        *)
LEMMA EvaluateElectsOne ==
    ASSUME ElectionInv, TypeOK', OneBucket', NEW i \in Instance, NEW silent, Evaluate(i, silent)
    PROVE  ElectionInv'
<1>1. /\ pc[i] = "wait" /\ pc'[i] = "health" /\ etcdRunning'[i] = isRunning[i]
      /\ UNCHANGED <<state, snapshot, isRunning, target, temp, data, store>>
    BY DEF Evaluate, Goto, SetAt, ElectionInv, TypeOK, joinVars, dataVars
<1>2. Only(i)
    BY DEF Only, Untouched, Evaluate, Goto, SetAt, ElectionInv, TypeOK, joinVars, dataVars
<1>3. Control1(i)' /\ Announces(i)'
    BY <1>1, AtOnce DEF Control1, Announces, NoCluster
<1>4. CASE ~Candidate(i)'
    <2>1. CalmAt(i)
        BY <1>1, <1>4, AtOnce DEF CalmAt
    <2> QED
        BY <1>2, <1>3, <2>1, CalmStep
<1>5. CASE Candidate(i)'
    <2>1. AllReady(i)' /\ IsSeeder(i)' /\ ~isRunning[i]
        BY <1>1, <1>5 DEF Candidate, Elected, Founding
    <2>2. /\ \A j \in Instance : state[j] = "START"
          /\ \A j \in Instance \ {i} : Ranks(snapshot[j].revision, j, i)
        BY <2>1, ElectionMeans DEF ElectionInv
    <2>3. ASSUME NEW j \in Instance \ {i}
          PROVE  ~Ranks(snapshot[i].revision, i, j)
        BY <2>2, RanksAsymmetric DEF ElectionInv
    <2>4. \A j \in Instance : ~isRunning[j]
        <3>1. ASSUME NEW j \in Instance \ {i}, isRunning[j] PROVE FALSE
            BY <2>2, <2>3, <3>1 DEF ElectionInv, FounderAhead
        <3> QED
            BY <2>1, <3>1
    <2>5. \A j \in Instance : pc[j] # "rejoin"
        BY <2>2, AtOnce DEF Control1
    <2>6. ASSUME NEW j \in Instance \ {i} PROVE ~Candidate(j)
        <3>1. Candidate(j) => Ranks(snapshot[i].revision, i, j)
            BY <2>2 DEF ElectionInv, CandidateAlone, Behind
        <3> QED
            BY <2>3, <3>1
    <2>7. ASSUME NEW j \in Instance \ {i} PROVE Behind(j, i)
        <3>1. /\ data[j] <= snapshot[j].revision
              /\ ~SharedStore => store[j] <= snapshot[j].revision
              /\ Ranks(snapshot[j].revision, j, i)
            BY <2>2, <2>4, AtOnce DEF Announces
        <3>2. snapshot[i].revision \in Nat
            BY AtOnce
        <3> QED
            BY <3>1, <3>2, AtOnce DEF Behind, Ranks
    <2>8. Local'
        BY <1>2, <1>3, OnlyLocal
    <2>9. FounderAhead'
        BY <1>1, <2>4 DEF FounderAhead, ElectionInv, TypeOK
    <2>11. ASSUME NEW j \in Instance PROVE store[j] <= snapshot[i].revision
        <3>1. PICK k \in Instance : store[j] <= snapshot[k].revision
            BY <2>2, <2>4 DEF ElectionInv, StoreKnown
        <3>2. snapshot[k].revision <= snapshot[i].revision
            BY <2>2, AtOnce DEF Ranks
        <3> QED
            BY <3>1, <3>2, AtOnce
    <2>12. StoreKnown'
        BY <1>1 DEF ElectionInv, StoreKnown
    <2>10. ASSUME NEW k \in Instance, Candidate(k)'
           PROVE  /\ state'[k] = "START"
                  /\ \A j \in Instance : ~isRunning'[j] /\ pc'[j] # "rejoin"
                  /\ \A j \in Instance : store'[j] <= snapshot'[k].revision
                  /\ \A j \in Instance \ {k} : ~Candidate(j)' /\ Behind(j, k)'
        <3>1. \A j \in Instance \ {i} : ~Candidate(j)'
            BY <1>2, <2>6, UntouchedCandidate DEF Only
        <3>2. k = i
            BY <2>10, <3>1
        <3>3. \A j \in Instance : ~isRunning'[j] /\ pc'[j] # "rejoin"
            BY <1>1, <1>2, <2>4, <2>5 DEF Only, Untouched
        <3>4. \A j \in Instance \ {i} : Behind(j, i)'
            BY <1>1, <2>7 DEF Behind, Ranks
        <3>5. state'[i] = "START"
            BY <1>1, <2>2
        <3> QED
            BY <1>1, <2>11, <3>1, <3>2, <3>3, <3>4, <3>5
    <2> QED
        BY <2>8, <2>9, <2>10, <2>12 DEF ElectionInv, CandidateAlone
<1> QED
    BY <1>4, <1>5

(* An instance that gets ready to start announces what it has, which the      *)
(* candidate was ahead of already; no founder shows START to be overtaken.   *)
LEMMA ReadyKeeps ==
    ASSUME Orderly, ElectionInv, TypeOK', OneBucket', Undisturbed, NEW i \in Instance,
           ExecReady(i)
    PROVE  ElectionInv'
<1>1. /\ pc[i] = "execute" /\ pc'[i] = "wait" /\ state'[i] = "START"
      /\ ~etcdRunning[i]
      /\ UNCHANGED <<isRunning, target, temp, data, store>>
    BY DEF ExecReady, NotElected, Branch, Goto, SetAt, ElectionInv, TypeOK, joinVars, dataVars
<1>2. Only(i)
    BY <1>1 DEF Only, Untouched, ExecReady, Branch, Goto, SetAt, ElectionInv, TypeOK
<1>3. ~isRunning[i] /\ target[i] = NoCluster
    BY <1>1, AtOnce DEF Control1
<1>4. ~Candidate(i)'
    BY <1>1 DEF Candidate, Elected, Founding
<1>5. CASE state[i] = "START"
    <2>1. snapshot' = snapshot
        BY <1>5 DEF ExecReady
    <2>2. Control1(i)' /\ Announces(i)'
        BY <1>1, <1>3, <1>5, <2>1, AtOnce DEF Control1, Announces, NoCluster
    <2>3. CalmAt(i)
        BY <1>1, <1>3, <1>4, <1>5, <2>1, AtOnce DEF CalmAt
    <2> QED
        BY <1>2, <2>2, <2>3, CalmStep
<1>6. CASE state[i] # "START"
    <2>1. snapshot'[i] = SnapshotInfo(i)
        BY <1>6 DEF ExecReady, SetAt, ElectionInv, TypeOK
    <2>2. /\ snapshot'[i].revision \in {data[i], store[i]}
          /\ data[i] <= snapshot'[i].revision /\ store[i] <= snapshot'[i].revision
        BY <2>1, AtOnce DEF SnapshotInfo, NoSnapshot
    <2>3. Control1(i)' /\ Announces(i)'
        BY <1>1, <1>3, <2>2 DEF Control1, Announces, NoCluster
    <2>4. Local'
        BY <1>2, <2>3, OnlyLocal
    <2>5. \A j \in Instance \ {i} : ~(isRunning[j] /\ state[j] = "START")
        BY <1>6 DEF ExecReady, NoFounderIsLeftBehind, Orderly
    <2>6. FounderAhead'
        BY <1>1, <1>2, <1>3, <2>5 DEF FounderAhead, Only, Untouched
    <2>7. ASSUME NEW k \in Instance, Candidate(k)'
          PROVE  /\ state'[k] = "START"
                 /\ \A j \in Instance : ~isRunning'[j] /\ pc'[j] # "rejoin"
                 /\ \A j \in Instance : store'[j] <= snapshot'[k].revision
                 /\ \A j \in Instance \ {k} : ~Candidate(j)' /\ Behind(j, k)'
        <3>1. k \in Instance \ {i} /\ Untouched(k)
            BY <1>2, <1>4, <2>7 DEF Only
        <3>2. Candidate(k)
            BY <2>7, <3>1, UntouchedCandidate
        <3>3. /\ state[k] = "START"
              /\ \A j \in Instance : ~isRunning[j] /\ pc[j] # "rejoin"
              /\ \A j \in Instance : store[j] <= snapshot[k].revision
              /\ \A j \in Instance \ {k} : ~Candidate(j) /\ Behind(j, k)
            BY <3>2 DEF ElectionInv, CandidateAlone
        <3>4. state'[k] = "START" /\ \A j \in Instance : ~isRunning'[j] /\ pc'[j] # "rejoin"
            BY <1>1, <1>2, <3>1, <3>3 DEF Only, Untouched
        <3>5. \A j \in Instance \ {k} : ~Candidate(j)'
            BY <1>2, <1>4, <3>3, UntouchedCandidate DEF Only
        <3>6. Behind(i, k)'
            <4>1. ~SharedStore
                BY <1>1, <1>6, <3>1, <3>2 DEF Undisturbed
            <4> QED
                BY <1>1, <2>2, <3>1, <3>3, <4>1 DEF Behind, Ranks, Untouched
        <3>7. \A j \in Instance \ {i, k} : Behind(j, k)'
            BY <1>2, <3>1, <3>3 DEF Behind, Ranks, Only, Untouched
        <3>8. snapshot'[k] = snapshot[k]
            BY <3>1 DEF Untouched
        <3> QED
            BY <1>1, <3>3, <3>4, <3>5, <3>6, <3>7, <3>8
    <2>8. ASSUME \A j \in Instance : state'[j] = "START" /\ ~isRunning'[j], NEW j \in Instance
          PROVE  \E k \in Instance : store'[j] <= snapshot'[k].revision
        <3>1. CASE SharedStore
            <4>1. store[j] = store[i]
                BY <3>1 DEF ElectionInv, OneBucket
            <4> QED
                BY <1>1, <2>2, <4>1
        <3>2. CASE ~SharedStore
            BY <2>4, <2>8, <3>2 DEF Local, Announces
        <3> QED
            BY <3>1, <3>2
    <2>9. StoreKnown'
        BY <2>8 DEF StoreKnown
    <2> QED
        BY <2>4, <2>6, <2>7, <2>9 DEF ElectionInv, CandidateAlone
<1> QED
    BY <1>5, <1>6

(* The founder's server comes up while it still shows START: it is ahead. *)
LEMMA FounderKeeps ==
    ASSUME ElectionInv, TypeOK', OneBucket', NEW i \in Instance, StartFounder(i)
    PROVE  ElectionInv'
<1>1. /\ Candidate(i) /\ pc[i] = "start" /\ pc'[i] = "ready" /\ isRunning'[i]
      /\ target[i] = NoCluster
      /\ UNCHANGED <<state, snapshot, target, temp, store>>
    BY DEF StartFounder, Goto, SetAt, ElectionInv, TypeOK, joinVars, Candidate, Founding
<1>2. Only(i)
    BY DEF Only, Untouched, StartFounder, Goto, SetAt, ElectionInv, TypeOK, joinVars, loopVars
<1>3. Control1(i)' /\ Announces(i)'
    BY <1>1 DEF Control1, Announces, NoCluster
<1>4. Local'
    BY <1>2, <1>3, OnlyLocal
<1>5. \A j \in Instance : ~isRunning[j]
    BY <1>1 DEF ElectionInv, CandidateAlone
<1>6. \A j \in Instance \ {i} : ~Candidate(j) /\ Behind(j, i)
    BY <1>1 DEF ElectionInv, CandidateAlone
<1>7. \A j \in Instance : ~Candidate(j)'
    <2>1. ~Candidate(i)'
        BY <1>1 DEF Candidate, Elected, Founding
    <2> QED
        BY <1>2, <1>6, <2>1, UntouchedCandidate DEF Only
<1>8. FounderAhead'
    BY <1>1, <1>2, <1>5, <1>6 DEF FounderAhead, Behind, Ranks, Only, Untouched
<1>9. StoreKnown'
    BY <1>1 DEF StoreKnown
<1> QED
    BY <1>4, <1>7, <1>8, <1>9 DEF ElectionInv, CandidateAlone

-----------------------------------------------------------------------------
(* The invariant is inductive. *)

LEMMA ElectionInit == Init => ElectionInv
<1> SUFFICES ASSUME Init PROVE ElectionInv
    OBVIOUS
<1>1. TypeOK
    BY InitType
<1>2. Local
    BY DEF Init, Local, Control1, Announces, NoSnapshot, NoCluster
<1>3. \A i \in Instance : ~Candidate(i)
    BY DEF Init, Candidate, Elected, Founding
<1>4. FounderAhead /\ OneBucket /\ StoreKnown
    BY DEF Init, FounderAhead, OneBucket, StoreKnown
<1> QED
    BY <1>1, <1>2, <1>3, <1>4 DEF ElectionInv, CandidateAlone

LEMMA ElectionStep ==
    ASSUME Orderly, ElectionInv, TypeOK', OneBucket', Undisturbed, NEW i \in Instance,
           Step(i)
    PROVE  ElectionInv'
<1>1. CASE FetchStatuses(i)
    BY <1>1, EvaluateElectsOne DEF FetchStatuses
<1>2. CASE CheckHealth(i)
    BY <1>2, HealthIsCalm DEF CheckHealth
<1>3. CASE ExecShutdown(i) \/ ExecJoin(i) \/ ExecStandby(i) \/ ExecPending(i) \/ ExecStop(i)
    BY <1>3, PlainBranches
<1>4. CASE ExecExit(i) \/ StartTimeout(i) \/ Exit(i)
    BY <1>4, DyingIsCalm DEF ExecExit, StartTimeout, Exit
<1>5. CASE ExecReady(i)
    BY <1>5, ReadyKeeps
<1>6. CASE ExecSeed(i)
    BY <1>6, ExecSeedIsCalm
<1>7. CASE SeedGet(i)
    BY <1>7, SeedGetIsCalm
<1>8. CASE SeedGetMissing(i) \/ JoinUnreachable(i) \/ AddRefused(i) \/ StartRefused(i)
    BY <1>8, GivingUpIsCalm DEF SeedGetMissing, JoinUnreachable, AddRefused, StartRefused
<1>9. CASE RestoreData(i)
    BY <1>9, RestoreIsCalm
<1>10. CASE \E f \in Instance : JoinList(i, f)
    BY <1>10, JoinListIsCalm
<1>11. CASE Rejoin(i)
    BY <1>11, RejoinIsCalm
<1>12. CASE AddMember(i)
    BY <1>12, AddMemberIsCalm
<1>13. CASE StartFounder(i)
    BY <1>13, FounderKeeps
<1>14. CASE StartJoiner(i)
    BY <1>14, StartJoinerIsCalm
<1>15. CASE BecomeReady(i)
    BY <1>15, BecomeReadyIsCalm
<1>16. CASE StopSnapshot(i)
    BY <1>16, StoppingIsCalm
<1>17. CASE CloseServer(i) \/ Restart(i)
    BY <1>17, ClosingIsCalm
<1> QED
    BY <1>1, <1>2, <1>3, <1>4, <1>5, <1>6, <1>7, <1>8, <1>9, <1>10, <1>11, <1>12, <1>13, <1>14,
       <1>15, <1>16, <1>17
    DEF Step

LEMMA ElectionFailure ==
    ASSUME Orderly, ElectionInv, TypeOK', OneBucket', Undisturbed, NEW i \in Instance,
           Failure(i)
    PROVE  ElectionInv'
<1>1. ASSUME NEW silent \in SUBSET Instance, MissStatuses(i, silent) PROVE ElectionInv'
    BY <1>1, EvaluateElectsOne DEF MissStatuses
<1>2. CASE MissHealth(i)
    BY <1>2, HealthIsCalm DEF MissHealth
<1>3. CASE ExecReadyNoStore(i)
    BY <1>3 DEF ExecReadyNoStore, Fault, Orderly
<1>4. CASE SeedGetFails(i) \/ RestoreFails(i) \/ StartFails(i)
    BY <1>4, GivingUpIsCalm DEF SeedGetFails, RestoreFails, StartFails
<1>5. CASE RejoinFails(i)
    BY <1>5, RejoinFailsIsCalm
<1>6. CASE StopSnapshotFails(i)
    BY <1>6, StoppingIsCalm
<1>7. CASE Crash(i)
    BY <1>7, DyingIsCalm DEF Crash
<1>8. CASE Wipe(i)
    BY <1>8, WipeIsCalm
<1>9. CASE Terminate(i)
    BY <1>9, StutterKeeps DEF Terminate, joinVars, dataVars
<1>10. CASE EtcdFails(i)
    BY <1>10, EtcdFailsIsCalm
<1>11. CASE MissAllStatuses(i)
    BY <1>11, DyingIsCalm DEF MissAllStatuses
<1> QED
    BY <1>1, <1>2, <1>3, <1>4, <1>5, <1>6, <1>7, <1>8, <1>9, <1>10, <1>11 DEF Failure

(* What is saved in a bucket is there for all, and a new disk is not a new bucket. *)
LEMMA BucketNext ==
    ASSUME TypeOK, OneBucket, [Next]_vars
    PROVE  OneBucket'
<1> SUFFICES ASSUME SharedStore PROVE \A i, j \in Instance : store'[i] = store'[j]
    BY DEF OneBucket
<1>1. ASSUME NEW i \in Instance, Step(i)
      PROVE  store' = store \/ store' = Saved(i, data[i])
    BY <1>1
    DEF Step, FetchStatuses, Evaluate, CheckHealth, HealthAnswer, ExecShutdown, ExecExit, ExecJoin,
        ExecStandby, ExecPending, ExecStop, ExecReady, ExecSeed, SeedGet, SeedGetMissing,
        RestoreData, BackToWait, Die, JoinUnreachable, JoinList, Rejoin, AddMember, AddRefused,
        StartFounder, StartJoiner, StartRefused, BecomeReady, StartTimeout, StopSnapshot,
        CloseServer, Exit, Restart
<1>2. ASSUME NEW i \in Instance, Failure(i)
      PROVE  store' = store
    BY <1>2
    DEF Failure, MissStatuses, Evaluate, MissAllStatuses, MissHealth, HealthAnswer,
        ExecReadyNoStore, SeedGetFails,
        RestoreFails, BackToWait, RejoinFails, StartFails, StopSnapshotFails, Crash, Die, Wipe,
        Terminate, EtcdFails
<1>3. ASSUME Cleaning \/ Environment
      PROVE  store' = store \/ \E i \in Instance : store' = Saved(i, data[i])
    BY <1>3 DEF Cleaning, Environment, CleanMember, PeriodicSnapshot, Write
<1>4. CASE UNCHANGED vars
    BY <1>4 DEF vars, OneBucket
<1> QED
    BY <1>1, <1>2, <1>3, <1>4 DEF Next, OneBucket, Saved, TypeOK

LEMMA ElectionNext ==
    ASSUME Orderly, ElectionInv, [Next /\ Undisturbed]_vars
    PROVE  ElectionInv'
<1>1. TypeOK' /\ OneBucket'
    BY NextType, BucketNext DEF ElectionInv
<1>2. CASE UNCHANGED vars
    BY <1>1, <1>2, StutterKeeps DEF vars, joinVars, dataVars
<1>3. CASE Next /\ Undisturbed
    <2>1. CASE \E i \in Instance : Step(i) \/ Failure(i)
        BY <1>1, <1>3, <2>1, ElectionStep, ElectionFailure
    <2>2. CASE Cleaning
        BY <1>1, <2>2, CleaningIsCalm DEF Cleaning
    <2>3. CASE Environment
        BY <1>1, <2>3, PeriodicIsCalm, WriteIsCalm DEF Environment
    <2> QED
        BY <1>3, <2>1, <2>2, <2>3 DEF Next
<1> QED
    BY <1>2, <1>3

LEMMA ElectionImplies == ElectionInv => SeedAlone
<1>1. ASSUME ElectionInv, NEW i \in Instance, NEW j \in Instance, i # j, Founding(i)
      PROVE  ~isRunning[j] /\ ~Founding(j)
    BY <1>1 DEF ElectionInv, CandidateAlone, Candidate
<1> QED
    BY <1>1 DEF SeedAlone

(* A cluster of which one member has just crashed: nobody shows START. *)
LEMMA ElectionStart == MinorityDown => ElectionInv
<1> SUFFICES ASSUME NEW founder \in Instance, NEW dead \in Instance, OneDown(founder, dead)
             PROVE  ElectionInv
    BY DEF MinorityDown
<1>1. TypeOK
    BY Constants, FleetAssumption
    DEF OneDown, TypeOK, Control, State, Metadata, NoSnapshot, Revision, NoCluster
<1>2. Local
    BY DEF OneDown, Local, Control1, Announces, NoCluster
<1>3. \A i \in Instance : ~Candidate(i)
    BY DEF OneDown, Candidate, Elected, Founding
<1>4. FounderAhead /\ OneBucket /\ StoreKnown
    BY DEF OneDown, FounderAhead, OneBucket, StoreKnown
<1> QED
    BY <1>1, <1>2, <1>3, <1>4 DEF ElectionInv, CandidateAlone

(* With a directory of snapshots on each instance, that nobody disturbs a seed is *)
(* no restriction: every behaviour of the fleet is one the theorems are about.    *)
LEMMA OwnStores ==
    ASSUME ~SharedStore
    PROVE  Spec => OrderlySpec
<1>1. [Next]_vars => [Next /\ Undisturbed]_vars
    BY DEF Undisturbed
<1> QED
    BY <1>1, PTL DEF Spec, OrderlySpec

(* The election, whatever the number of instances, of faults and of revisions, *)
(* keeps its inductive invariant: evaluate's polls and execute's seed branch    *)
(* elect at most one instance, ahead of every copy the others hold.             *)
THEOREM ElectionHolds ==
    ASSUME Orderly
    PROVE  OrderlySpec => []ElectionInv
BY ElectionInit, ElectionStart, ElectionNext, PTL DEF OrderlySpec

(* One seeder: from the moment it decides to Seed until its etcd runs, no other *)
(* instance runs etcd or seeds, with a directory of snapshots per instance or   *)
(* with one bucket (in which case nobody gets ready to start meanwhile), the    *)
(* timing assumptions, no founder whose etcd dies before its first loop, and a  *)
(* store that answers SnapshotInfo.                                             *)
THEOREM OneSeeder ==
    ASSUME Orderly
    PROVE  OrderlySpec => []SeedAlone
BY ElectionHolds, ElectionImplies, PTL

=============================================================================
