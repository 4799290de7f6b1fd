------------------------------ MODULE FleetLog ------------------------------
(***************************************************************************)
(* What a cluster that serves has: the steps keep LogInv, so FleetInv is   *)
(* inductive in the Orderly setting, and from it follow OneCluster,        *)
(* SeedsLatest and ServesLatest.                                           *)
(*                                                                         *)
(* The argument is that of a replicated log: what is committed is on a     *)
(* majority, and two majorities meet, also when the members differ by the  *)
(* one that the change in between added or removed.                        *)
(***************************************************************************)
EXTENDS FleetCluster

-----------------------------------------------------------------------------
(* Majorities meet. *)

LEMMA MajoritiesMeet ==
    ASSUME NEW S, IsFiniteSet(S), NEW Q \in SUBSET S, NEW M \in SUBSET S,
           Majority(Q, S), Majority(M, S)
    PROVE  \E k \in Q : k \in M
<1>1. /\ Cardinality(S) \in Nat /\ Cardinality(Q) \in Nat /\ Cardinality(M) \in Nat
    <2>1. IsFiniteSet(Q) /\ IsFiniteSet(M)
        BY FS_Subset
    <2> QED
        BY <2>1, FS_CardinalityType
<1>2. Cardinality(Q) + Cardinality(M) > Cardinality(S)
    BY <1>1 DEF Majority
<1>3. Q \cap M # {}
    BY <1>2, FS_MajoritiesIntersect
<1> QED
    BY <1>3

LEMMA MajorityMeetsAdded ==
    ASSUME NEW S, IsFiniteSet(S), NEW x, x \notin S, NEW Q \in SUBSET S, Majority(Q, S),
           NEW M \in SUBSET (S \cup {x}), Majority(M, S \cup {x})
    PROVE  \E k \in Q : k \in M
<1>1. /\ IsFiniteSet(S \cup {x})
      /\ Cardinality(S \cup {x}) = Cardinality(S) + 1
    BY FS_AddElement
<1>2. /\ Cardinality(S) \in Nat /\ Cardinality(Q) \in Nat /\ Cardinality(M) \in Nat
    <2>1. IsFiniteSet(Q) /\ IsFiniteSet(M)
        BY <1>1, FS_Subset
    <2> QED
        BY <2>1, FS_CardinalityType
<1>3. Cardinality(Q) + Cardinality(M) > Cardinality(S \cup {x})
    BY <1>1, <1>2 DEF Majority
<1>4. Q \subseteq S \cup {x}
    OBVIOUS
<1>5. Q \cap M # {}
    BY <1>1, <1>3, <1>4, FS_MajoritiesIntersect
<1> QED
    BY <1>5

LEMMA MajorityMeetsRemoved ==
    ASSUME NEW S, IsFiniteSet(S), NEW x, NEW Q \in SUBSET S, Majority(Q, S),
           NEW M \in SUBSET (S \ {x}), Majority(M, S \ {x})
    PROVE  \E k \in Q : k \in M
<1>1. /\ Cardinality(S) \in Nat /\ Cardinality(Q) \in Nat /\ Cardinality(M) \in Nat
    <2>1. IsFiniteSet(Q) /\ IsFiniteSet(M)
        BY FS_Subset
    <2> QED
        BY <2>1, FS_CardinalityType
<1>2. Cardinality(S \ {x}) = Cardinality(S) \/ Cardinality(S \ {x}) = Cardinality(S) - 1
    BY FS_RemoveElement
<1>3. Cardinality(Q) + Cardinality(M) > Cardinality(S)
    BY <1>1, <1>2 DEF Majority
<1>4. M \subseteq S
    OBVIOUS
<1>5. Q \cap M # {}
    BY <1>3, <1>4, FS_MajoritiesIntersect
<1> QED
    BY <1>5

LEMMA MembersAreFinite ==
    ASSUME TypeOK, NEW f \in Instance
    PROVE  members[f] \in SUBSET Instance /\ IsFiniteSet(members[f])
<1>1. members[f] \in SUBSET Instance
    BY DEF TypeOK
<1> QED
    BY <1>1, FleetAssumption, FS_Subset

-----------------------------------------------------------------------------
(* The copies. *)

Covered(v) == \E r \in Copies : v <= r

LEMMA CopiesAre ==
    ASSUME TypeOK
    PROVE  /\ \A r \in Copies : r \in Nat
           /\ \A j \in Instance : data[j] \in Copies /\ store[j] \in Copies /\ temp[j] \in Copies
           /\ \A r \in Copies : Covered(r)
           /\ Covered(0)
<1>1. \A r \in Copies : r \in Nat
    BY FleetAssumption DEF Copies, TypeOK, Revision
<1>2. \A j \in Instance : data[j] \in Copies /\ store[j] \in Copies /\ temp[j] \in Copies
    BY DEF Copies
<1>3. PICK j \in Instance : TRUE
    BY FleetAssumption
<1>4. \A r \in Copies : Covered(r)
    BY <1>1 DEF Covered
<1>5. Covered(0)
    BY <1>1, <1>2, <1>3 DEF Covered
<1> QED
    BY <1>1, <1>2, <1>4, <1>5

(* The copies after a step, one by one. *)
LEMMA CopiesCovered ==
    ASSUME \A j \in Instance : Covered(data'[j]) /\ Covered(store'[j]) /\ Covered(temp'[j])
    PROVE  \A r \in Copies' : Covered(r)
BY DEF Copies

LEMMA CopiesBounded ==
    ASSUME NEW v,
           \A j \in Instance : data'[j] <= v /\ store'[j] <= v /\ temp'[j] <= v
    PROVE  \A r \in Copies' : r <= v
BY DEF Copies

-----------------------------------------------------------------------------
(* Steps that commit nothing. *)

(* No new cluster, no new member, nobody comes back that could not, and nothing newer. *)
LEMMA LogKept ==
    ASSUME FleetInv, TypeOK',
           \A f \in Instance : Lives(f)' =>
             /\ Lives(f)
             /\ members'[f] = members[f]
             /\ \A j \in MayRun(f)' : j \in MayRun(f) /\ data[j] <= data'[j],
           \A r \in Copies' : Covered(r)
    PROVE  LogInv'
<1> SUFFICES ASSUME NEW f \in Instance, Lives(f)',
                    NEW M \in SUBSET MayRun(f)', Majority(M, members'[f])
             PROVE  \E j \in M : Newest(j)'
    BY DEF LogInv, Majority
<1>1. PICK j \in M : Newest(j)
    BY DEF FleetInv, LogInv
<1>2. j \in Instance /\ data[j] <= data'[j]
    BY MembersAreFinite, FleetAt DEF MayRun
<1>3. data[j] \in Nat /\ data'[j] \in Nat
    BY <1>2, FleetAssumption, FleetAt DEF TypeOK, Revision
<1>4. ASSUME NEW r \in Copies' PROVE r <= data'[j]
    <2>1. PICK c \in Copies : r <= c
        BY DEF Covered
    <2>2. r \in Nat /\ c \in Nat
        <3>1. \A x \in Copies' : x \in Nat
            BY FleetAssumption DEF Copies, TypeOK, Revision
        <3> QED
            BY <3>1, CopiesAre, FleetAt
    <2>3. c <= data[j]
        BY <1>1 DEF Newest
    <2> QED
        BY <1>2, <1>3, <2>1, <2>2, <2>3
<1> QED
    BY <1>4 DEF Newest

(* The only cluster that lives is that of any instance that is alive. *)
LEMMA LivesAlone ==
    ASSUME FleetInv, NEW f \in Instance, NEW g \in Instance, Lives(f), Lives(g)
    PROVE  f = g
BY DEF Lives, FleetInv, ClusterInv, AliveTogether

LEMMA IdleKeepsLog ==
    ASSUME FleetInv, TypeOK', NEW i \in Instance, Idle(i)
    PROVE  LogInv'
<1>1. ASSUME NEW f \in Instance, Lives(f)' PROVE Lives(f)
    BY <1>1 DEF Lives, Idle, Untouched, Alive
<1>2. ASSUME NEW f \in Instance, NEW j \in MayRun(f)'
      PROVE  j \in MayRun(f) /\ data[j] <= data'[j]
    <2>1. j \in members[f] /\ j \in Instance
        BY <1>2, MembersAreFinite, FleetAt DEF MayRun, Idle
    <2>2. j \in MayRun(f)
        BY <1>2, <2>1 DEF MayRun, Idle, Untouched
    <2>3. data[j] <= data'[j]
        BY <2>1, FleetAt DEF Idle
    <2> QED
        BY <2>2, <2>3
<1>3. ASSUME NEW j \in Instance PROVE Covered(data'[j]) /\ Covered(store'[j]) /\ Covered(temp'[j])
    <2>1. data'[j] = data[j] /\ temp'[j] \in {0, temp[j]}
        BY DEF Idle, Untouched
    <2>2. store'[j] = store[j] \/ \E k \in Instance : store'[j] = data[k]
        BY DEF Idle, Stored
    <2> QED
        BY <2>1, <2>2, CopiesAre, FleetAt
<1>4. \A r \in Copies' : Covered(r)
    BY <1>3, CopiesCovered
<1> QED
    BY <1>1, <1>2, <1>4, LogKept DEF Idle

(* A step around i, whose own copies are covered. *)
LEMMA AroundCovers ==
    ASSUME FleetInv, NEW i \in Instance, Around(i),
           Covered(data'[i]), Covered(store'[i]), Covered(temp'[i])
    PROVE  \A r \in Copies' : Covered(r)
<1>1. ASSUME NEW j \in Instance PROVE Covered(data'[j]) /\ Covered(store'[j]) /\ Covered(temp'[j])
    <2>1. CASE j = i
        BY <2>1
    <2>2. CASE j # i
        BY <2>2, CopiesAre, FleetAt DEF Around, Untouched
    <2> QED
        BY <2>1, <2>2
<1> QED
    BY <1>1, CopiesCovered

(* A step around i in a cluster that lives: what i may run, it might before. *)
LEMMA AroundKeepsLog ==
    ASSUME FleetInv, TypeOK', NEW i \in Instance, Around(i), members' = members,
           Covered(data'[i]), Covered(store'[i]), Covered(temp'[i]),
           Alive(i)' => Lives(cluster'[i]),
           \A f \in Instance : Lives(f) =>
             (i \in MayRun(f)' => i \in MayRun(f) /\ data[i] <= data'[i])
    PROVE  LogInv'
<1>1. ASSUME NEW f \in Instance, Lives(f)' PROVE Lives(f)
    <2>1. PICK k \in Instance : Alive(k)' /\ cluster'[k] = f
        BY <1>1 DEF Lives
    <2>2. CASE k = i
        BY <2>1, <2>2
    <2>3. CASE k # i
        BY <2>1, <2>3 DEF Lives, Around, Untouched, Alive
    <2> QED
        BY <2>2, <2>3
<1>2. ASSUME NEW f \in Instance, Lives(f), NEW j \in MayRun(f)'
      PROVE  j \in MayRun(f) /\ data[j] <= data'[j]
    <2>1. j \in members[f] /\ j \in Instance
        BY <1>2, MembersAreFinite, FleetAt DEF MayRun
    <2>2. CASE j = i
        BY <1>2, <2>2
    <2>3. CASE j # i
        BY <1>2, <2>1, <2>3, FleetAt DEF MayRun, Around, Untouched
    <2> QED
        BY <2>2, <2>3
<1>3. \A r \in Copies' : Covered(r)
    BY AroundCovers
<1> QED
    BY <1>1, <1>2, <1>3, LogKept

LEMMA JoinListKeepsLog ==
    ASSUME FleetInv, TypeOK', NEW i \in Instance, NEW f \in Instance, JoinList(i, f)
    PROVE  LogInv'
<1>1. PICK k \in Instance : Alive(k) /\ cluster[k] = f
    BY JoinListDoes, QuorumIsAlive DEF Alive
<1>2. Lives(f)
    BY <1>1 DEF Lives
<1>3. Covered(data'[i]) /\ Covered(store'[i]) /\ Covered(temp'[i])
    BY JoinListDoes, CopiesAre, FleetAt
<1>4. ASSUME Alive(i)' PROVE Lives(cluster'[i])
    <2>1. pc'[i] = "rejoin" /\ i \in named[f] /\ data[i] > 0 /\ cluster' = cluster
        BY <1>4, JoinListDoes DEF Alive
    <2>2. cluster[i] = cluster[k]
        BY <1>1, <2>1 DEF FleetInv, ClusterInv, NamedBelong
    <2> QED
        BY <1>1, <1>2, <2>1, <2>2
<1>5. ASSUME NEW g \in Instance, i \in MayRun(g)'
      PROVE  i \in MayRun(g) /\ data[i] <= data'[i]
    <2>1. i \in members[g] /\ cluster'[i] = g /\ data'[i] > 0
        BY <1>5, JoinListDoes DEF MayRun
    <2>2. UNCHANGED <<data, cluster>>
        BY <2>1, JoinListDoes
    <2> QED
        BY <2>1, <2>2, FleetAt DEF MayRun
<1> QED
    BY <1>3, <1>4, <1>5, JoinListDoes, AroundKeepsLog

LEMMA StartJoinerKeepsLog ==
    ASSUME FleetInv, TypeOK', NEW i \in Instance, StartJoiner(i)
    PROVE  LogInv'
<1>1. PICK k \in Instance : Alive(k) /\ cluster[k] = target[i]
    BY StartJoinerDoes DEF Alive
<1>2. Lives(target[i])
    BY <1>1 DEF Lives
<1>3. Covered(data'[i])
    BY <1>1, StartJoinerDoes, CopiesAre, FleetAt DEF Covered
<1>4. Covered(store'[i]) /\ Covered(temp'[i])
    BY StartJoinerDoes, CopiesAre, FleetAt
<1>5. ASSUME NEW g \in Instance, i \in MayRun(g)'
      PROVE  i \in MayRun(g) /\ data[i] <= data'[i]
    <2>1. i \in members[g] /\ target[i] = g
        BY <1>5, StartJoinerDoes DEF MayRun
    <2> QED
        BY <2>1, StartJoinerDoes DEF MayRun
<1> QED
    BY <1>2, <1>3, <1>4, <1>5, StartJoinerDoes, AroundKeepsLog

LEMMA BecomeReadyKeepsLog ==
    ASSUME FleetInv, TypeOK', NEW i \in Instance, BecomeReady(i)
    PROVE  LogInv'
<1>1. Alive(i) /\ data[i] > 0 /\ Lives(cluster[i])
    BY BecomeReadyDoes, FleetAt DEF Alive, Lives
<1>2. Covered(data'[i]) /\ Covered(store'[i]) /\ Covered(temp'[i])
    BY BecomeReadyDoes, CopiesAre, FleetAt
<1>3. ASSUME NEW g \in Instance, i \in MayRun(g)'
      PROVE  i \in MayRun(g) /\ data[i] <= data'[i]
    <2>1. i \in members[g] /\ cluster[i] = g
        BY <1>3, BecomeReadyDoes DEF MayRun
    <2> QED
        BY <1>1, <2>1, BecomeReadyDoes DEF MayRun
<1> QED
    BY <1>1, <1>2, <1>3, BecomeReadyDoes, AroundKeepsLog

LEMMA WipeKeepsLog ==
    ASSUME FleetInv, TypeOK', NEW i \in Instance, Wipe(i)
    PROVE  LogInv'
<1>1. Covered(data'[i]) /\ Covered(store'[i]) /\ Covered(temp'[i])
    BY WipeDoes, CopiesAre, FleetAt
<1>2. ~Alive(i)'
    BY WipeDoes DEF Alive
<1>3. \A g \in Instance : i \notin MayRun(g)'
    BY WipeDoes DEF MayRun
<1> QED
    BY <1>1, <1>2, <1>3, WipeDoes, AroundKeepsLog

(* No copy is more recent than what a candidate announced. *)
LEMMA CandidateIsAhead ==
    ASSUME FleetInv, NEW i \in Instance, Candidate(i)
    PROVE  \A r \in Copies : r <= snapshot[i].revision
<1>1. state[i] = "START" /\ ~isRunning[i]
    BY CandidateMeans
<1>2. ASSUME NEW j \in Instance
      PROVE  /\ data[j] <= snapshot[i].revision /\ store[j] <= snapshot[i].revision
             /\ temp[j] <= snapshot[i].revision
    <2>1. CASE j = i
        BY <1>1, <2>1, CandidateMeans, FleetAt DEF Announces, Restores1
    <2>2. CASE j # i
        <3>1. ~Candidate(j) /\ Behind(j, i)
            BY <2>2, CandidateMeans
        <3>2. temp[j] = 0
            BY <3>1, FleetAt DEF Restores1, Candidate, Founding
        <3> QED
            BY <3>1, <3>2, CandidateMeans, FleetAt DEF Behind, Ranks
    <2> QED
        BY <2>1, <2>2
<1> QED
    BY <1>2 DEF Copies

(* The cluster that is founded has one member, and that one has everything. *)
LEMMA FounderKeepsLog ==
    ASSUME FleetInv, TypeOK', NEW i \in Instance, StartFounder(i)
    PROVE  LogInv'
<1>1. /\ Candidate(i) /\ Around(i)
      /\ UNCHANGED <<state, snapshot, target, temp, store>>
      /\ cluster'[i] = i /\ members'[i] = {i}
      /\ data[i] = snapshot[i].revision /\ temp[i] = 0
      /\ data'[i] > 0 /\ data[i] <= data'[i]
    BY StartFounderDoes
<1>2. data'[i] \in Nat
    BY FleetAssumption DEF TypeOK, Revision
<1>3. ASSUME NEW j \in Instance PROVE data'[j] <= data'[i] /\ store'[j] <= data'[i] /\ temp'[j] <= data'[i]
    <2>1. /\ data[j] <= data[i] /\ store[j] <= data[i] /\ temp[j] <= data[i]
          /\ data[j] \in Nat /\ store[j] \in Nat /\ temp[j] \in Nat /\ data[i] \in Nat
        BY <1>1, CandidateIsAhead, CopiesAre, FleetAt
    <2>2. store'[j] = store[j] /\ temp'[j] = temp[j] /\ data'[j] \in {data[j], data'[i]}
        BY <1>1 DEF Around
    <2> QED
        BY <1>1, <1>2, <2>1, <2>2
<1>4. \A r \in Copies' : r <= data'[i]
    BY <1>3, CopiesBounded
<1>5. ASSUME NEW f \in Instance, Lives(f)' PROVE f = i
    BY <1>1, <1>5, CandidateMeans DEF Lives, Around, Untouched, Alive
<1>6. ASSUME NEW M \in SUBSET MayRun(i)', Majority(M, members'[i]) PROVE i \in M
    <2>1. M \in SUBSET {i}
        BY <1>1 DEF MayRun
    <2>2. ASSUME M = {} PROVE FALSE
        <3>1. Cardinality({}) = 0 /\ Cardinality({i}) = 1
            BY FS_EmptySet, FS_Singleton
        <3>2. 2 * Cardinality({}) > Cardinality({i})
            BY <1>1, <1>6, <2>2 DEF Majority
        <3> QED
            BY <3>1, <3>2
    <2> QED
        BY <2>1, <2>2
<1> QED
    BY <1>4, <1>5, <1>6 DEF LogInv, Newest, Majority

-----------------------------------------------------------------------------
(* Commits. *)

(* A commit comes after everything there is. *)
LEMMA CommitIsNewest ==
    ASSUME FleetInv, NEW f \in Instance, NEW Q, NEW r \in Revision, Commits(f, Q, r)
    PROVE  \A c \in Copies : c <= r
<1>1. Q \in SUBSET MayRun(f) /\ Majority(Q, members[f]) /\ Lives(f)
    BY CommitMeans DEF MayRun, Lives, Alive
<1>2. PICK j \in Q : Newest(j)
    BY <1>1 DEF FleetInv, LogInv
<1>3. j \in Instance /\ data[j] <= r /\ data[j] \in Nat /\ r \in Nat
    BY CommitMeans, FleetAt
<1> QED
    BY <1>2, <1>3, CopiesAre, FleetAt DEF Newest

(* It stays on top if every majority there may be afterwards meets those that have it. *)
LEMMA CommitKeepsLog ==
    ASSUME FleetInv, TypeOK', NEW f \in Instance, NEW Q, NEW r \in Revision, Commits(f, Q, r),
           NEW v \in Nat, r <= v,
           \A j \in Instance : Alive(j)' => Alive(j) /\ cluster'[j] = cluster[j],
           \A j \in Instance : data'[j] = v \/ (j \notin Q /\ data'[j] \in {0, data[j]}),
           \A j \in Instance : store'[j] = store[j] /\ temp'[j] \in {0, temp[j]},
           \A M \in SUBSET members'[f] : Majority(M, members'[f]) => \E k \in Q : k \in M
    PROVE  LogInv'
<1>1. r \in Nat /\ \A c \in Copies : c <= r
    BY CommitIsNewest, RevisionIsNat
<1>2. \A c \in Copies : c <= v
    BY <1>1, CopiesAre, FleetAt
<1>3. ASSUME NEW j \in Instance PROVE data'[j] <= v /\ store'[j] <= v /\ temp'[j] <= v
    <2>1. data[j] <= v /\ store[j] <= v /\ temp[j] <= v /\ 0 <= v
        BY <1>2, CopiesAre, FleetAt
    <2> QED
        BY <2>1
<1>4. \A c \in Copies' : c <= v
    BY <1>3, CopiesBounded
<1>5. \A k \in Q : k \in Instance /\ data'[k] = v
    BY CommitMeans
<1>6. ASSUME NEW g \in Instance, Lives(g)' PROVE g = f
    BY <1>6, CommitMeans DEF Lives
<1>7. \A M \in SUBSET MayRun(f)' : M \in SUBSET members'[f]
    BY DEF MayRun
<1> QED
    BY <1>4, <1>5, <1>6, <1>7 DEF LogInv, Newest, Majority

LEMMA AddMemberKeepsLog ==
    ASSUME FleetInv, TypeOK', NEW i \in Instance, AddMember(i)
    PROVE  LogInv'
<1> DEFINE f == target[i]
<1>1. f \in Instance /\ i \notin members[f]
    BY AddMemberDoes
<1>2. PICK Q \in SUBSET Up(f), r \in Revision : Commits(f, Q, r) /\ data' = Holding(Q, r)
    BY AddMemberDoes
<1>3. members'[f] = members[f] \cup {i}
    BY <1>1, AddMemberDoes, FleetAt DEF SetAt, TypeOK
<1>4. Q \in SUBSET members[f] /\ Majority(Q, members[f])
    BY <1>1, <1>2, CommitMeans
<1>5. \A M \in SUBSET members'[f] : Majority(M, members'[f]) => \E k \in Q : k \in M
    BY <1>1, <1>3, <1>4, MembersAreFinite, FleetAt, MajorityMeetsAdded
<1>6. \A j \in Instance : Alive(j)' => Alive(j) /\ cluster'[j] = cluster[j]
    BY AddMemberDoes DEF Untouched, Alive
<1>7. \A j \in Instance : data'[j] = r \/ (j \notin Q /\ data'[j] \in {0, data[j]})
    BY <1>2 DEF Holding
<1>8. \A j \in Instance : store'[j] = store[j] /\ temp'[j] \in {0, temp[j]}
    BY AddMemberDoes
<1> HIDE DEF f
<1> QED
    BY <1>1, <1>2, <1>5, <1>6, <1>7, <1>8, RevisionIsNat, CommitKeepsLog

LEMMA CleaningKeepsLog ==
    ASSUME FleetInv, TypeOK', NEW i \in Instance, NEW x \in Instance, CleanMember(i, x)
    PROVE  LogInv'
<1> DEFINE f == cluster[i]
<1>1. f \in Instance
    BY CleanMemberDoes
<1>2. PICK Q \in SUBSET Up(f), r \in Revision : Commits(f, Q, r) /\ data' = Holding(Q, r)
    BY CleanMemberDoes
<1>3. members' = SetAt(members, f, members[f] \ {x})
    BY CleanMemberDoes
<1>4. \A j \in Instance : Alive(j)' => Alive(j) /\ cluster'[j] = cluster[j]
    BY CleanMemberDoes DEF Alive
<1>5. \A j \in Instance : data'[j] = r \/ (j \notin Q /\ data'[j] \in {0, data[j]})
    BY <1>2 DEF Holding
<1>6. \A j \in Instance : store'[j] = store[j] /\ temp'[j] \in {0, temp[j]}
    BY CleanMemberDoes
<1> HIDE DEF f
<1>7. members'[f] = members[f] \ {x}
    BY <1>1, <1>3, FleetAt DEF SetAt, TypeOK
<1>8. Q \in SUBSET members[f] /\ Majority(Q, members[f])
    BY <1>1, <1>2, CommitMeans
<1>9. IsFiniteSet(members[f])
    BY <1>1, MembersAreFinite, FleetAt DEF TypeOK
<1>10. ASSUME NEW M \in SUBSET members'[f], Majority(M, members'[f])
       PROVE  \E k \in Q : k \in M
    <2>1. M \in SUBSET (members[f] \ {x}) /\ Majority(M, members[f] \ {x})
        BY <1>7, <1>10
    <2> QED
        BY <1>8, <1>9, <2>1, MajorityMeetsRemoved
<1> QED
    BY <1>1, <1>2, <1>4, <1>5, <1>6, <1>10, RevisionIsNat, CommitKeepsLog

LEMMA WriteKeepsLog ==
    ASSUME FleetInv, TypeOK', NEW f \in Instance, NEW Q, Write(f, Q)
    PROVE  LogInv'
<1>1. PICK r \in Revision : Commits(f, Q, r) /\ data' = Holding(Q, r + 1)
    BY WriteDoes
<1>2. r + 1 \in Nat /\ r <= r + 1
    BY RevisionIsNat
<1>3. members'[f] = members[f] /\ Q \in SUBSET members[f] /\ Majority(Q, members[f])
    BY <1>1, CommitMeans, WriteDoes
<1>4. \A M \in SUBSET members'[f] : Majority(M, members'[f]) => \E k \in Q : k \in M
    BY <1>3, MembersAreFinite, FleetAt, MajoritiesMeet
<1>5. \A j \in Instance : Alive(j)' => Alive(j) /\ cluster'[j] = cluster[j]
    BY WriteDoes DEF Alive
<1>6. \A j \in Instance : data'[j] = r + 1 \/ (j \notin Q /\ data'[j] \in {0, data[j]})
    BY <1>1 DEF Holding
<1>7. \A j \in Instance : store'[j] = store[j] /\ temp'[j] \in {0, temp[j]}
    BY WriteDoes
<1> QED
    BY <1>1, <1>2, <1>4, <1>5, <1>6, <1>7, CommitKeepsLog

(* Whether it is released or not, a member that could not start takes no copy that *)
(* a majority needs.                                                               *)
LEMMA RejoinFailsKeepsLog ==
    ASSUME FleetInv, TypeOK', NEW i \in Instance, RejoinFails(i)
    PROVE  LogInv'
<1> DEFINE f == target[i]
<1>1. f \in Instance
    BY RejoinFailsDoes
<1>2. \A j \in Instance : Alive(j)' => Alive(j) /\ cluster'[j] = cluster[j]
    BY RejoinFailsDoes DEF Untouched, Alive
<1>3. \A j \in Instance : store'[j] = store[j] /\ temp'[j] = temp[j]
    BY RejoinFailsDoes
<1>4. CASE /\ \E Q \in SUBSET Up(f), r \in Revision :
                 Commits(f, Q, r) /\ data' = SetAt(Holding(Q, r), i, 0)
           /\ members' = SetAt(members, f, members[f] \ {i})
    <2> HIDE DEF f
    <2>1. PICK Q \in SUBSET Up(f), r \in Revision :
            Commits(f, Q, r) /\ data' = SetAt(Holding(Q, r), i, 0)
        BY <1>4
    <2>2. members'[f] = members[f] \ {i}
        BY <1>1, <1>4, FleetAt DEF SetAt, TypeOK
    <2>3. Q \in SUBSET members[f] /\ Majority(Q, members[f])
        BY <1>1, <2>1, CommitMeans
    <2>4. ASSUME NEW M \in SUBSET members'[f], Majority(M, members'[f])
          PROVE  \E k \in Q : k \in M
        <3>1. IsFiniteSet(members[f])
            BY <1>1, MembersAreFinite, FleetAt DEF TypeOK
        <3>2. M \in SUBSET (members[f] \ {i}) /\ Majority(M, members[f] \ {i})
            BY <2>2, <2>4
        <3> QED
            BY <2>3, <3>1, <3>2, MajorityMeetsRemoved
    <2>5. i \notin Q
        BY <1>1, <2>1, CommitMeans, FleetAt DEF RejoinFails, Control1
    <2>6. \A j \in Instance : data'[j] = r \/ (j \notin Q /\ data'[j] \in {0, data[j]})
        BY <2>1, <2>5 DEF Holding, SetAt
    <2> QED
        BY <1>1, <1>2, <1>3, <2>1, <2>4, <2>6, RevisionIsNat, CommitKeepsLog
<1>5. CASE data' = SetAt(data, i, 0) /\ members' = members
    <2>1. Around(i)
        BY <1>3, <1>5, RejoinFailsDoes, FleetAt DEF Around, SetAt, TypeOK
    <2>2. Covered(data'[i]) /\ Covered(store'[i]) /\ Covered(temp'[i])
        BY <1>3, RejoinFailsDoes, CopiesAre, FleetAt
    <2>3. ~Alive(i)'
        BY RejoinFailsDoes DEF Alive
    <2>4. \A g \in Instance : i \notin MayRun(g)'
        BY <1>5, RejoinFailsDoes, FleetAt DEF MayRun, SetAt, TypeOK
    <2> QED
        BY <1>5, <2>1, <2>2, <2>3, <2>4, AroundKeepsLog
<1> QED
    BY <1>4, <1>5, RejoinFailsDoes

-----------------------------------------------------------------------------
(* The step. *)

(* All but eleven actions are idle; none of those takes the copy Restore works from, *)
(* but a restoration that fails or a crash before it ends.                           *)
LEMMA StepIsIdle ==
    ASSUME Orderly, FleetInv, NEW i \in Instance, Step(i)
    PROVE  \/ Idle(i) /\ Announced(i) /\ pc[i] # "restore"
           \/ ExecSeed(i) \/ SeedGet(i) \/ RestoreData(i) \/ StartFounder(i)
           \/ \E f \in Instance : JoinList(i, f)
           \/ StartJoiner(i) \/ BecomeReady(i) \/ AddMember(i)
<1>1. CASE FetchStatuses(i)
    BY <1>1, EvaluateIsIdle DEF FetchStatuses, Evaluate
<1>2. CASE CheckHealth(i)
    BY <1>2, HealthIsIdle DEF CheckHealth, HealthAnswer
<1>3. CASE \/ ExecShutdown(i) \/ ExecJoin(i) \/ ExecStandby(i) \/ ExecPending(i) \/ ExecStop(i)
           \/ ExecReady(i)
    <2>1. pc[i] = "execute"
        BY <1>3 DEF ExecShutdown, ExecJoin, ExecStandby, ExecPending, ExecStop, ExecReady, Branch
    <2> QED
        BY <1>3, <2>1, BranchIsIdle
<1>4. CASE ExecExit(i) \/ StartTimeout(i) \/ Exit(i)
    BY <1>4, DyingIsIdle DEF ExecExit, StartTimeout, Exit
<1>5. CASE SeedGetMissing(i) \/ JoinUnreachable(i) \/ AddRefused(i) \/ StartRefused(i)
    BY <1>5, GivingUpIsIdle DEF SeedGetMissing, JoinUnreachable, AddRefused, StartRefused
<1>6. CASE Rejoin(i)
    BY <1>6, RejoinIsIdle DEF Rejoin
<1>7. CASE StopSnapshot(i)
    BY <1>7, StoppingIsIdle DEF StopSnapshot
<1>8. CASE CloseServer(i) \/ Restart(i)
    BY <1>8, ClosingIsIdle DEF CloseServer, Restart
<1> QED
    BY <1>1, <1>2, <1>3, <1>4, <1>5, <1>6, <1>7, <1>8 DEF Step

LEMMA FailureIsIdle ==
    ASSUME Orderly, FleetInv, NEW i \in Instance, Failure(i)
    PROVE  \/ Idle(i) /\ Announced(i) /\ (Careful => pc[i] # "restore")
           \/ RejoinFails(i) \/ Wipe(i)
<1>1. ASSUME NEW silent \in SUBSET Instance, MissStatuses(i, silent)
      PROVE  Idle(i) /\ Announced(i) /\ pc[i] # "restore"
    BY <1>1, EvaluateIsIdle DEF MissStatuses, Evaluate
<1>2. CASE MissHealth(i)
    BY <1>2, HealthIsIdle DEF MissHealth, HealthAnswer
<1>3. CASE ExecReadyNoStore(i)
    BY <1>3 DEF ExecReadyNoStore, Fault, Orderly
<1>4. CASE SeedGetFails(i) \/ StartFails(i)
    BY <1>4, GivingUpIsIdle DEF SeedGetFails, StartFails
<1>5. CASE RestoreFails(i)
    BY <1>5, GivingUpIsIdle DEF RestoreFails, Fault, Careful
<1>6. CASE StopSnapshotFails(i)
    BY <1>6, StoppingIsIdle DEF StopSnapshotFails
<1>7. CASE Crash(i)
    <2>1. pc[i] = "restore" => "crashRestore" \in Faults
        <3>1. ASSUME pc[i] = "restore" PROVE CrashKind(i) = "crashRestore"
            BY <3>1, FleetAt DEF CrashKind, Control1
        <3>2. CrashKind(i) \in Faults
            BY <1>7 DEF Crash, Fault
        <3> QED
            BY <3>1, <3>2
    <2> QED
        BY <1>7, <2>1, DyingIsIdle DEF Crash, Careful
<1>8. CASE Terminate(i)
    BY <1>8, TerminateIsIdle DEF Terminate
<1>9. CASE EtcdFails(i)
    BY <1>9, EtcdFailsIsIdle, FleetAt DEF EtcdFails, Control1
<1>10. CASE MissAllStatuses(i)
    BY <1>10, DyingIsIdle DEF MissAllStatuses
<1> QED
    BY <1>1, <1>2, <1>3, <1>4, <1>5, <1>6, <1>7, <1>8, <1>9, <1>10 DEF Failure

LEMMA NothingMoves ==
    ASSUME FleetInv, UNCHANGED vars
    PROVE  ClusterInv' /\ RestoreInv' /\ LogInv'
<1>1. /\ \A j \in Instance : Untouched(j)
      /\ UNCHANGED <<pc, isRunning, target, data, cluster, temp, members, named, store>>
    BY DEF Untouched, vars, joinVars, dataVars, etcdVars, loopVars
<1>2. ClusterInv'
    BY <1>1, ClusterKept, FleetAt DEF Alive
<1>3. RestoreInv'
    BY <1>1, RestoresKept DEF RestoreInv, Stored
<1>4. \A f \in Instance : MayRun(f)' = MayRun(f) /\ (Lives(f)' <=> Lives(f))
    BY <1>1 DEF MayRun, Lives, Alive
<1>5. \A j \in Instance : Newest(j)' <=> Newest(j)
    BY <1>1 DEF Newest, Copies
<1>6. LogInv'
    <2> SUFFICES ASSUME NEW f \in Instance, Lives(f), NEW M \in SUBSET MayRun(f),
                        Majority(M, members[f])
                 PROVE  \E j \in M : Newest(j)'
        BY <1>1, <1>4 DEF LogInv, Majority
    <2>1. PICK j \in M : Newest(j)
        BY DEF FleetInv, LogInv
    <2>2. j \in Instance
        BY MembersAreFinite, FleetAt DEF MayRun
    <2> QED
        BY <1>5, <2>1, <2>2
<1> QED
    BY <1>2, <1>3, <1>6

LEMMA FleetStep ==
    ASSUME Orderly, FleetInv, TypeOK', NEW i \in Instance, Step(i)
    PROVE  ClusterInv' /\ RestoreInv' /\ LogInv'
<1>1. CASE Idle(i) /\ Announced(i)
    BY <1>1, IdleKeeps, IdleKeepsLog
<1>2. CASE ExecSeed(i) \/ SeedGet(i) \/ RestoreData(i)
    BY <1>2, FoundingKeeps
<1>3. CASE StartFounder(i)
    BY <1>3, FounderKeepsCluster, FounderKeepsLog
<1>4. ASSUME NEW f \in Instance, JoinList(i, f)
      PROVE  ClusterInv' /\ RestoreInv' /\ LogInv'
    BY <1>4, JoinListKeeps, JoinListKeepsLog
<1>5. CASE StartJoiner(i)
    BY <1>5, StartJoinerKeeps, StartJoinerKeepsLog
<1>6. CASE BecomeReady(i)
    BY <1>6, BecomeReadyKeeps, BecomeReadyKeepsLog
<1>7. CASE AddMember(i)
    BY <1>7, AddMemberKeeps, AddMemberKeepsLog
<1> QED
    BY <1>1, <1>2, <1>3, <1>4, <1>5, <1>6, <1>7, StepIsIdle

LEMMA FleetFailure ==
    ASSUME Orderly, FleetInv, TypeOK', NEW i \in Instance, Failure(i)
    PROVE  ClusterInv' /\ RestoreInv' /\ LogInv'
<1>1. CASE Idle(i) /\ Announced(i)
    BY <1>1, IdleKeeps, IdleKeepsLog
<1>2. CASE RejoinFails(i)
    BY <1>2, RejoinFailsKeeps, RejoinFailsKeepsLog
<1>3. CASE Wipe(i)
    BY <1>3, WipeKeeps, WipeKeepsLog
<1> QED
    BY <1>1, <1>2, <1>3, FailureIsIdle

LEMMA FleetEnvironment ==
    ASSUME Orderly, FleetInv, TypeOK', Cleaning \/ Environment
    PROVE  ClusterInv' /\ RestoreInv' /\ LogInv'
<1>1. ASSUME NEW i \in Instance, NEW j \in Instance, CleanMember(i, j)
      PROVE  ClusterInv' /\ RestoreInv' /\ LogInv'
    BY <1>1, CleaningKeeps, CleaningKeepsLog
<1>2. ASSUME NEW i \in Instance, PeriodicSnapshot(i)
      PROVE  ClusterInv' /\ RestoreInv' /\ LogInv'
    BY <1>2, PeriodicIsIdle, IdleKeeps, IdleKeepsLog
<1>3. ASSUME NEW f \in Instance, NEW Q, Write(f, Q)
      PROVE  ClusterInv' /\ RestoreInv' /\ LogInv'
    BY <1>3, WriteKeeps, WriteKeepsLog
<1> QED
    BY <1>1, <1>2, <1>3 DEF Cleaning, Environment

LEMMA FleetNext ==
    ASSUME Orderly, FleetInv, [Next /\ Undisturbed]_vars
    PROVE  FleetInv'
<1>1. ElectionInv' /\ TypeOK'
    BY ElectionNext DEF FleetInv, ElectionInv
<1>2. ClusterInv' /\ RestoreInv' /\ LogInv'
    BY <1>1, FleetStep, FleetFailure, FleetEnvironment, NothingMoves DEF Next
<1> QED
    BY <1>1, <1>2 DEF FleetInv

LEMMA FleetInit == Init => FleetInv
<1> SUFFICES ASSUME Init PROVE FleetInv
    OBVIOUS
<1>1. ElectionInv
    BY ElectionInit
<1>2. \A i \in Instance : ~Alive(i)
    BY DEF Init, Alive
<1>3. ClusterInv /\ LogInv
    BY <1>2 DEF ClusterInv, HasData, AliveTogether, NamedBelong, LogInv, Lives
<1>4. RestoreInv
    BY DEF Init, RestoreInv, Restores1, NoSnapshot
<1> QED
    BY <1>1, <1>3, <1>4 DEF FleetInv

(* A cluster that runs on: everybody has the same data, in the cluster of the founder. *)
LEMMA FleetStart == MinorityDown => FleetInv
<1> SUFFICES ASSUME NEW founder \in Instance, NEW dead \in Instance, OneDown(founder, dead)
             PROVE  FleetInv
    BY DEF MinorityDown
<1>1. ElectionInv
    BY ElectionStart DEF MinorityDown
<1>2. \A i \in Instance :
          /\ data[i] = 1 /\ store[i] = 1 /\ temp[i] = 0 /\ cluster[i] = founder
          /\ target[i] = NoCluster /\ pc[i] \in {"down", "wait"}
          /\ snapshot[i] = NoSnapshot /\ state[i] # "START"
    BY DEF OneDown
<1>3. ClusterInv
    BY <1>2 DEF ClusterInv, HasData, AliveTogether, NamedBelong
<1>4. RestoreInv
    BY <1>2 DEF RestoreInv, Restores1, NoSnapshot
<1>5. \A i \in Instance : Newest(i)
    BY <1>2 DEF Newest, Copies
<1>6. ASSUME NEW f \in Instance, NEW M \in SUBSET MayRun(f), Majority(M, members[f])
      PROVE  \E j \in M : Newest(j)
    <2>1. TypeOK
        BY <1>1 DEF ElectionInv
    <2>2. members[f] \in SUBSET Instance /\ IsFiniteSet(members[f])
        BY <2>1, MembersAreFinite
    <2>3. Cardinality(members[f]) \in Nat
        BY <2>2, FS_CardinalityType
    <2>4. ASSUME M = {} PROVE FALSE
        BY <1>6, <2>3, <2>4, FS_EmptySet DEF Majority
    <2> QED
        BY <1>5, <2>2, <2>4 DEF MayRun
<1>7. LogInv
    BY <1>6 DEF LogInv
<1> QED
    BY <1>1, <1>3, <1>4, <1>7 DEF FleetInv

-----------------------------------------------------------------------------
(* What it shows. *)

(* Among those that run in a cluster with quorum is one that has the newest copy. *)
LEMMA QuorumHasNewest ==
    ASSUME FleetInv, NEW f \in Instance, NEW Q \in SUBSET Up(f), Majority(Q, members[f])
    PROVE  \E k \in Q : k \in Instance /\ isRunning[k] /\ cluster[k] = f /\ Newest(k)
<1>1. PICK m \in Q : m \in Instance /\ isRunning[m] /\ cluster[m] = f
    BY MajorityIsSomebody, FleetAt
<1>2. Lives(f)
    BY <1>1 DEF Lives, Alive
<1>3. ASSUME NEW k \in Q PROVE k \in Instance /\ isRunning[k] /\ cluster[k] = f /\ k \in MayRun(f)
    <2>1. k \in members[f] /\ k \in Instance /\ isRunning[k] /\ cluster[k] = f
        BY MembersAreFinite, FleetAt DEF Up
    <2> QED
        BY <2>1, FleetAt DEF MayRun, Alive
<1>4. PICK k \in Q : Newest(k)
    BY <1>2, <1>3 DEF FleetInv, LogInv
<1> QED
    BY <1>3, <1>4

LEMMA FleetMeansOneCluster == FleetInv => OneCluster
BY DEF FleetInv, ClusterInv, AliveTogether, Alive, OneCluster

LEMMA FleetMeansSeedsLatest == FleetInv => SeedsLatest
<1> SUFFICES ASSUME FleetInv, NEW i \in Instance, pc[i] = "restore"
             PROVE  \A r \in Copies : r <= temp[i]
    BY DEF SeedsLatest
<1>1. Candidate(i) /\ temp[i] = snapshot[i].revision
    BY FleetAt DEF Candidate, Founding, Restores1
<1> QED
    BY <1>1, CandidateIsAhead

LEMMA FleetMeansServesLatest == FleetInv => ServesLatest
<1> SUFFICES ASSUME FleetInv, NEW f \in Instance, HasQuorum(f), NEW r \in Copies
             PROVE  \E j \in Up(f) : r <= data[j]
    BY DEF ServesLatest
<1>1. PICK k \in Up(f) : Newest(k)
    BY QuorumHasNewest DEF HasQuorum
<1> QED
    BY <1>1 DEF Newest

(* The fleet keeps its inductive invariant, whatever the number of instances, of       *)
(* faults and of revisions: the loop and its joins, its rejoins and its seeds, the     *)
(* cleaner and the clients of etcd, with a directory of snapshots per instance or one  *)
(* bucket, from a cold start or from a cluster that has lost a process.                *)
THEOREM FleetHolds ==
    ASSUME Orderly
    PROVE  OrderlySpec => []FleetInv
BY FleetInit, FleetStart, FleetNext, PTL DEF OrderlySpec

(* No split brain: all the etcd servers that run belong to one cluster, those that     *)
(* Join started with the data they had included.                                       *)
THEOREM OneClusterRuns ==
    ASSUME Orderly
    PROVE  OrderlySpec => []OneCluster
BY FleetHolds, FleetMeansOneCluster, PTL

(* Seed takes the data directory away only for a copy that no other copy exceeds,      *)
(* although it decides from what was announced one poll and one health check earlier.  *)
THEOREM NewestIsSeeded ==
    ASSUME Orderly
    PROVE  OrderlySpec => []SeedsLatest
BY FleetHolds, FleetMeansSeedsLatest, PTL

(* A cluster with a quorum has a member with the newest revision there is, whatever    *)
(* the changes of its members: an instance that is added or comes back makes no        *)
(* majority out of members that missed what was committed.                             *)
THEOREM NewestIsServed ==
    ASSUME Orderly
    PROVE  OrderlySpec => []ServesLatest
BY FleetHolds, FleetMeansServesLatest, PTL
=============================================================================
