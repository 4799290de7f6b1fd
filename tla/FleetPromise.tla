---------------------------- MODULE FleetPromise ----------------------------
(***************************************************************************)
(* What the fleet does for its data: no acknowledged write is lost, and    *)
(* the loop of operator.go with all its slow calls and stale reads         *)
(* implements DisasterRecovery, in the Careful setting.                    *)
(*                                                                         *)
(* Both rest on the same facts: every step leaves a copy, in nobody's way, *)
(* at least as recent as any copy there was.                               *)
(***************************************************************************)
EXTENDS FleetLog, WellFoundedInduction

-----------------------------------------------------------------------------
(* The highest of a set of revisions. *)

LEMMA LeastExists ==
    ASSUME NEW T \in SUBSET Nat, T # {}
    PROVE  \E m \in T : \A n \in T : m <= n
<1> DEFINE R == OpToRel(<, Nat)
<1>1. IsWellFoundedOn(R, Nat)
    BY NatLessThanWellFounded
<1>2. \A m, n \in Nat : m < n => <<m, n>> \in R
    BY DEF OpToRel
<1> HIDE DEF R
<1>3. PICK m \in T : \A n \in T : <<n, m>> \notin R
    BY <1>1, WFMin
<1>4. \A n \in T : ~(n < m)
    BY <1>2, <1>3
<1> QED
    BY <1>4

LEMMA HighestExists ==
    ASSUME NEW N \in Nat, NEW S \in SUBSET (0 .. N), S # {}
    PROVE  \E r \in S : \A s \in S : s <= r
<1> DEFINE T == {n \in Nat : N - n \in S}
<1>1. \A s \in S : N - s \in T
    OBVIOUS
<1>2. \A n \in T : n \in Nat /\ N - n \in S
    OBVIOUS
<1> HIDE DEF T
<1>3. PICK m \in T : \A n \in T : m <= n
    BY <1>1, <1>2, LeastExists
<1>4. ASSUME NEW s \in S PROVE s <= N - m
    BY <1>1, <1>2, <1>3
<1> QED
    BY <1>2, <1>4

LEMMA HighestMeans ==
    ASSUME NEW S \in SUBSET Revision, S # {}
    PROVE  IsHighest(Highest(S), S)
<1>1. \E r \in S : \A s \in S : s <= r
    BY FleetAssumption, HighestExists DEF Revision
<1> QED
    BY <1>1 DEF Highest, IsHighest

LEMMA HighestIs ==
    ASSUME NEW S \in SUBSET Nat, NEW r, IsHighest(r, S)
    PROVE  Highest(S) = r
<1>1. IsHighest(Highest(S), S)
    BY DEF Highest, IsHighest
<1>2. Highest(S) <= r /\ r <= Highest(S) /\ Highest(S) \in Nat /\ r \in Nat
    BY <1>1 DEF IsHighest
<1> QED
    BY <1>2

-----------------------------------------------------------------------------
(* What is kept. *)

(* There is a copy afterwards, not in the hands of a rejoin, that has v. *)
Saves(v) == \E r \in KeptCopies' : v <= r

Holds1(j) == "boot" \in Faults => pc[j] # "rejoin"

LEMMA KeptAre ==
    ASSUME TypeOK
    PROVE  /\ KeptCopies \subseteq Copies
           /\ \A r \in KeptCopies : r \in Nat
           /\ \A j \in Instance : store[j] \in KeptCopies /\ temp[j] \in KeptCopies
           /\ \A j \in Instance : Holds1(j) => data[j] \in KeptCopies
<1>1. KeptCopies \subseteq Copies
    BY DEF KeptCopies, Copies
<1> QED
    BY <1>1, CopiesAre DEF KeptCopies, Holds1

LEMMA SavedMeansNat ==
    ASSUME TypeOK'
    PROVE  /\ \A r \in KeptCopies' : r \in Nat
           /\ \A r \in KeptCopies' : Saves(r)
           /\ \A j \in Instance : /\ store'[j] \in KeptCopies' /\ temp'[j] \in KeptCopies'
                                  /\ Holds1(j)' => data'[j] \in KeptCopies'
           /\ Saves(0)
<1>1. \A r \in KeptCopies' : r \in Nat
    BY FleetAssumption DEF KeptCopies, TypeOK, Revision
<1>2. \A j \in Instance : /\ store'[j] \in KeptCopies' /\ temp'[j] \in KeptCopies'
                          /\ Holds1(j)' => data'[j] \in KeptCopies'
    BY DEF KeptCopies, Holds1
<1>3. \A r \in KeptCopies' : Saves(r)
    BY <1>1 DEF Saves
<1>4. PICK j \in Instance : TRUE
    BY FleetAssumption
<1>5. Saves(0)
    BY <1>1, <1>2, <1>4 DEF Saves
<1> QED
    BY <1>1, <1>2, <1>3, <1>5

(* It is enough to look at what each instance kept. *)
LEMMA EachSaves ==
    ASSUME TypeOK, TypeOK', NewestKept,
           \A j \in Instance : /\ Saves(store[j]) /\ Saves(temp[j])
                               /\ Holds1(j) => Saves(data[j])
    PROVE  \A c \in Copies : Saves(c)
<1>1. ASSUME NEW r \in KeptCopies PROVE Saves(r)
    <2>1. \E j \in Instance : r = store[j] \/ r = temp[j] \/ (r = data[j] /\ Holds1(j))
        BY DEF KeptCopies, Holds1
    <2> QED
        BY <2>1
<1> SUFFICES ASSUME NEW c \in Copies PROVE Saves(c)
    OBVIOUS
<1>2. PICK r \in KeptCopies : c <= r
    BY DEF NewestKept
<1>3. PICK s \in KeptCopies' : r <= s
    BY <1>1 DEF Saves
<1>4. c \in Nat /\ r \in Nat /\ s \in Nat
    BY CopiesAre, KeptAre, SavedMeansNat
<1> QED
    BY <1>2, <1>3, <1>4 DEF Saves

(* No copy is lost and none is made: the invariant holds and Kept is the same. *)
NothingLost ==
    /\ \A c \in Copies : Saves(c)
    /\ \A c \in Copies' : Covered(c)

LEMMA NothingLostKeeps ==
    ASSUME TypeOK, TypeOK', AckedInv, NothingLost, acked' = acked
    PROVE  AckedInv' /\ Kept' = Kept
<1>1. /\ \A c \in Copies : c \in Nat /\ \E s \in KeptCopies' : c <= s
      /\ \A c \in Copies' : c \in Nat /\ \E s \in Copies : c <= s
      /\ KeptCopies' \subseteq Copies' /\ acked \in Nat
    <2>1. KeptCopies' \subseteq Copies' /\ \A c \in Copies' : c \in Nat
        BY FleetAssumption DEF KeptCopies, Copies, TypeOK, Revision
    <2>2. acked \in Nat
        BY FleetAssumption DEF TypeOK, Revision
    <2> QED
        BY <2>1, <2>2, CopiesAre DEF NothingLost, Saves, Covered
<1>2. NewestKept'
    <2> SUFFICES ASSUME NEW c \in Copies' PROVE \E s \in KeptCopies' : c <= s
        BY DEF NewestKept
    <2>1. PICK b \in Copies : c <= b
        BY <1>1
    <2>2. PICK s \in KeptCopies' : b <= s
        BY <1>1
    <2>3. c \in Nat /\ b \in Nat /\ s \in Nat
        BY <1>1
    <2> QED
        BY <2>1, <2>2, <2>3
<1>3. \E r \in Copies' : acked' <= r
    <2>1. PICK b \in Copies : acked <= b
        BY DEF AckedInv
    <2>2. PICK s \in KeptCopies' : b <= s
        BY <1>1
    <2>3. b \in Nat /\ s \in Nat /\ s \in Copies'
        BY <1>1, <2>2
    <2> QED
        BY <1>1, <2>1, <2>2, <2>3
<1>4. Kept' = Kept
    <2> DEFINE A == Copies
               B == Copies'
    <2>1. IsHighest(Kept, A)
        <3>1. A \in SUBSET Revision
            BY DEF Copies, TypeOK
        <3>2. A # {}
            BY FleetAssumption DEF Copies
        <3> HIDE DEF A
        <3>3. IsHighest(Highest(A), A)
            BY <3>1, <3>2, HighestMeans
        <3> QED
            BY <3>3 DEF Kept, A
    <2>2. PICK b \in B : Kept <= b
        BY <1>1, <2>1 DEF IsHighest
    <2>3. \A c \in B : c <= Kept
        <3> SUFFICES ASSUME NEW c \in B PROVE c <= Kept
            OBVIOUS
        <3>1. PICK a \in A : c <= a
            BY <1>1
        <3>2. a <= Kept /\ a \in Nat /\ c \in Nat /\ Kept \in Nat
            BY <1>1, <2>1 DEF IsHighest
        <3> QED
            BY <3>1, <3>2
    <2>4. b = Kept
        <3>1. b <= Kept /\ b \in Nat /\ Kept \in Nat
            BY <1>1, <2>1, <2>3 DEF IsHighest
        <3> QED
            BY <2>2, <3>1
    <2>5. IsHighest(Kept, B) /\ B \in SUBSET Nat
        BY <1>1, <2>3, <2>4 DEF IsHighest
    <2>6. Highest(B) = Kept
        BY <2>5, HighestIs
    <2> QED
        BY <2>6 DEF Kept
<1> QED
    BY <1>2, <1>3, <1>4 DEF AckedInv

(* A step around i. *)
LEMMA AroundLosesNothing ==
    ASSUME FleetInv, TypeOK', AckedInv, NEW i \in Instance, Around(i),
           Covered(data'[i]), Covered(store'[i]), Covered(temp'[i]),
           Saves(store[i]), Saves(temp[i]), Holds1(i) => Saves(data[i])
    PROVE  NothingLost
<1>1. ASSUME NEW j \in Instance
      PROVE  Saves(store[j]) /\ Saves(temp[j]) /\ (Holds1(j) => Saves(data[j]))
    <2>1. CASE j = i
        BY <2>1
    <2>2. CASE j # i
        <3>1. /\ store'[j] = store[j] /\ temp'[j] = temp[j] /\ data'[j] = data[j]
              /\ pc'[j] = pc[j]
            BY <2>2 DEF Around, Untouched
        <3>2. Saves(store'[j]) /\ Saves(temp'[j]) /\ (Holds1(j)' => Saves(data'[j]))
            BY SavedMeansNat
        <3> QED
            BY <3>1, <3>2 DEF Holds1
    <2> QED
        BY <2>1, <2>2
<1>2. \A c \in Copies : Saves(c)
    BY <1>1, EachSaves, FleetAt DEF AckedInv
<1>3. \A c \in Copies' : Covered(c)
    BY AroundCovers
<1> QED
    BY <1>2, <1>3 DEF NothingLost

(* A step that leaves the newest copy with one that runs. *)
LEMMA NewestLosesNothing ==
    ASSUME FleetInv, TypeOK', NEW k \in Instance, Newest(k), isRunning[k], pc'[k] = pc[k],
           data[k] <= data'[k],
           \A j \in Instance : Covered(data'[j]) /\ Covered(store'[j]) /\ Covered(temp'[j])
    PROVE  NothingLost
<1>1. Holds1(k)'
    BY FleetAt DEF Holds1, Control1
<1>2. data'[k] \in KeptCopies' /\ data'[k] \in Nat /\ data[k] \in Nat
    BY <1>1, SavedMeansNat, FleetAt
<1>3. ASSUME NEW c \in Copies PROVE c <= data'[k]
    BY <1>2, CopiesAre, FleetAt DEF Newest
<1> QED
    BY <1>2, <1>3, CopiesCovered DEF NothingLost, Saves

-----------------------------------------------------------------------------
(* The head. *)

HeadOf(d, L) == Highest({d[i] : i \in L} \cup {0})

LEMMA HeadMeans ==
    ASSUME NEW L \in SUBSET Instance, NEW d \in [Instance -> Revision]
    PROVE  /\ HeadOf(d, L) \in Nat
           /\ \A j \in L : d[j] <= HeadOf(d, L)
           /\ HeadOf(d, L) = 0 \/ \E j \in L : d[j] = HeadOf(d, L)
<1> DEFINE S == {d[i] : i \in L} \cup {0}
<1>1. S \in SUBSET Revision /\ S # {}
    BY FleetAssumption DEF Revision
<1>2. \A j \in L : d[j] \in S
    OBVIOUS
<1>3. \A s \in S : s = 0 \/ \E j \in L : d[j] = s
    OBVIOUS
<1>4. HeadOf(d, L) = Highest(S)
    BY DEF HeadOf
<1> HIDE DEF S
<1>5. IsHighest(Highest(S), S)
    BY <1>1, HighestMeans
<1>6. Highest(S) \in Nat
    BY <1>1, <1>5, RevisionIsNat DEF IsHighest
<1> QED
    BY <1>2, <1>3, <1>4, <1>5, <1>6 DEF IsHighest

LEMMA HeadIs ==
    ASSUME NEW L \in SUBSET Instance, NEW d \in [Instance -> Revision], NEW v \in Nat,
           \A j \in L : d[j] <= v,
           v = 0 \/ \E j \in L : d[j] = v
    PROVE  HeadOf(d, L) = v
<1>1. HeadOf(d, L) <= v
    BY HeadMeans
<1>2. v <= HeadOf(d, L)
    BY HeadMeans
<1> QED
    BY <1>1, <1>2, HeadMeans

(* Those that are alive have data: no head without them, and no one without a head. *)
LEMMA HeadNow ==
    ASSUME FleetInv
    PROVE  /\ Head \in Nat /\ Live \in SUBSET Instance
           /\ \A j \in Live : data[j] <= Head
           /\ Head = 0 \/ \E j \in Live : data[j] = Head
           /\ Head = 0 <=> Live = {}
<1>1. data \in [Instance -> Revision] /\ Live \in SUBSET Instance
    BY DEF FleetInv, ElectionInv, TypeOK, Live
<1>2. /\ Head \in Nat
      /\ \A j \in Live : data[j] <= Head
      /\ Head = 0 \/ \E j \in Live : data[j] = Head
    <2>1. Head = HeadOf(data, Live)
        BY DEF Head, HeadOf
    <2> QED
        BY <1>1, <2>1, HeadMeans
<1>3. \A j \in Live : data[j] > 0 /\ data[j] \in Nat
    BY FleetAt DEF Live
<1>4. Head = 0 => Live = {}
    BY <1>2, <1>3
<1> QED
    BY <1>1, <1>2, <1>3, <1>4

LEMMA HeadThen ==
    ASSUME FleetInv'
    PROVE  /\ Head' \in Nat /\ Live' \in SUBSET Instance
           /\ \A j \in Live' : data'[j] <= Head'
           /\ Head' = 0 \/ \E j \in Live' : data'[j] = Head'
           /\ Head' = 0 <=> Live' = {}
<1>1. data' \in [Instance -> Revision] /\ Live' \in SUBSET Instance
    BY DEF FleetInv, ElectionInv, TypeOK, Live
<1>2. /\ Head' \in Nat
      /\ \A j \in Live' : data'[j] <= Head'
      /\ Head' = 0 \/ \E j \in Live' : data'[j] = Head'
    <2>1. Head' = HeadOf(data', Live')
        BY DEF Head, HeadOf
    <2> QED
        BY <1>1, <2>1, HeadMeans
<1>3. \A j \in Live' : data'[j] > 0 /\ data'[j] \in Nat
    BY <1>1, RevisionIsNat DEF FleetInv, ClusterInv, HasData, Live
<1>4. Head' = 0 => Live' = {}
    BY <1>2, <1>3
<1> QED
    BY <1>1, <1>2, <1>3, <1>4

(* Nobody leaves and nobody gets ahead of it: the head stays. *)
LEMMA HeadSame ==
    ASSUME FleetInv, FleetInv', Live \subseteq Live',
           \A j \in Live' : data'[j] <= Head,
           \A j \in Live : data[j] <= data'[j]
    PROVE  Head' = Head
<1>1. \A j \in Live : data[j] \in Nat /\ data'[j] \in Nat
    BY FleetAssumption DEF FleetInv, ElectionInv, TypeOK, Revision, Live
<1>2. Head' <= Head
    BY HeadNow, HeadThen
<1>3. Head <= Head'
    BY <1>1, HeadNow, HeadThen
<1> QED
    BY <1>2, <1>3, HeadNow, HeadThen

-----------------------------------------------------------------------------
(* How steps look from far. *)

Implements == Promise!Next \/ UNCHANGED <<Live, Head, Kept, acked>>

LEMMA QuietImplements ==
    ASSUME FleetInv, FleetInv', Live' = Live,
           \A j \in Live : data[j] <= data'[j] /\ data'[j] <= Head,
           UNCHANGED <<Kept, acked>>
    PROVE  Implements
BY HeadSame DEF Implements

LEMMA EnteringImplements ==
    ASSUME FleetInv, FleetInv', NEW i \in Instance, Live # {}, Live' = Live \cup {i},
           \A j \in Live : data[j] <= data'[j],
           \A j \in Live' : data'[j] <= Head,
           UNCHANGED <<Kept, acked>>
    PROVE  Implements
<1>1. Head' = Head
    BY HeadSame
<1>2. Promise!Enter(i)
    BY <1>1 DEF Promise!Enter
<1> QED
    BY <1>2 DEF Implements, Promise!Next

LEMMA LeavingImplements ==
    ASSUME FleetInv, FleetInv', NEW i \in Instance, i \in Live, Live' = Live \ {i},
           \A j \in Live' : data'[j] <= Head,
           UNCHANGED <<Kept, acked>>
    PROVE  Implements
<1>1. Head' \in 0 .. Head
    <2>1. Head' <= Head
        BY HeadNow, HeadThen
    <2> QED
        BY <2>1, HeadNow, HeadThen
<1>2. Promise!Leave(i)
    BY <1>1, HeadThen DEF Promise!Leave
<1> QED
    BY <1>2 DEF Implements, Promise!Next

(* An idle step: nobody comes to life, at most one dies. *)
LEMMA IdleImplements ==
    ASSUME FleetInv, FleetInv', AckedInv, NEW i \in Instance, Idle(i), pc[i] # "restore"
    PROVE  AckedInv' /\ Implements
<1>1. TypeOK /\ TypeOK'
    BY DEF FleetInv, ElectionInv
<1>2. UNCHANGED <<data, acked>>
    BY DEF Idle
<1>3. ASSUME NEW j \in Instance
      PROVE  Saves(store[j]) /\ Saves(temp[j]) /\ (Holds1(j) => Saves(data[j]))
    <2>1. Saves(store[j])
        <3>1. store[j] <= store'[j] /\ store'[j] \in KeptCopies'
            BY <1>1, SavedMeansNat, StoredGrows DEF Idle
        <3> QED
            BY <3>1 DEF Saves
    <2>2. Saves(temp[j])
        <3>1. temp[j] = temp'[j] \/ temp[j] = 0
            BY FleetAt DEF Idle, Untouched, Restores1
        <3> QED
            BY <1>1, <3>1, SavedMeansNat
    <2>3. Holds1(j) => Holds1(j)'
        BY DEF Holds1, Idle, Untouched
    <2> QED
        BY <1>1, <1>2, <2>1, <2>2, <2>3, SavedMeansNat
<1>4. \A c \in Copies : Saves(c)
    BY <1>1, <1>3, EachSaves DEF AckedInv
<1>5. ASSUME NEW j \in Instance PROVE Covered(data'[j]) /\ Covered(store'[j]) /\ Covered(temp'[j])
    <2>1. data'[j] = data[j] /\ temp'[j] \in {0, temp[j]}
        BY DEF Idle, Untouched
    <2>2. store'[j] = store[j] \/ \E k \in Instance : store'[j] = data[k]
        BY DEF Idle, Stored
    <2> QED
        BY <1>1, <2>1, <2>2, CopiesAre
<1>6. AckedInv' /\ Kept' = Kept
    BY <1>1, <1>2, <1>4, <1>5, CopiesCovered, NothingLostKeeps DEF NothingLost
<1>7. Live' = Live \/ (i \in Live /\ Live' = Live \ {i})
    BY DEF Live, Idle, Untouched, Alive
<1>8. \A j \in Live : data[j] <= data'[j] /\ data'[j] <= Head
    BY <1>2, HeadNow, FleetAt DEF Live
<1>9. CASE Live' = Live
    BY <1>2, <1>6, <1>8, <1>9, QuietImplements
<1>10. CASE i \in Live /\ Live' = Live \ {i}
    BY <1>2, <1>6, <1>8, <1>10, LeavingImplements
<1> QED
    BY <1>6, <1>7, <1>9, <1>10

(* While nobody is alive, and nobody comes to life. *)
LEMMA NobodyImplements ==
    ASSUME FleetInv, FleetInv', \A j \in Instance : ~Alive(j) /\ ~Alive(j)', UNCHANGED <<Kept, acked>>
    PROVE  Implements
<1>1. Live = {} /\ Live' = {}
    BY DEF Live
<1> QED
    BY <1>1, QuietImplements

(* Seed, up to the start of the server. *)
LEMMA FoundingImplements ==
    ASSUME FleetInv, FleetInv', AckedInv, NEW i \in Instance,
           ExecSeed(i) \/ SeedGet(i) \/ RestoreData(i)
    PROVE  AckedInv' /\ Implements
<1>1. TypeOK /\ TypeOK'
    BY DEF FleetInv, ElectionInv
<1>2. /\ Candidate(i) /\ ~isRunning'[i] /\ Around(i) /\ pc'[i] # "rejoin" /\ acked' = acked
      /\ store' = store
    BY ExecSeedDoes, SeedGetDoes, RestoreDoes
<1>3. \A j \in Instance : ~Alive(j) /\ ~Alive(j)'
    BY <1>2, CandidateMeans DEF Around, Untouched, Alive
<1>4. /\ Covered(data'[i]) /\ Covered(temp'[i])
      /\ Saves(temp[i]) /\ Saves(data[i])
    <2> USE <1>1, CopiesAre, SavedMeansNat
    <2>1. CASE ExecSeed(i)
        <3>1. UNCHANGED <<data, temp>> /\ Holds1(i)'
            BY <1>2, <2>1, ExecSeedDoes DEF Holds1
        <3> QED
            BY <3>1
    <2>2. CASE SeedGet(i)
        <3>1. /\ data'[i] = 0 /\ temp'[i] = snapshot[i].revision /\ data[i] <= temp'[i]
              /\ temp[i] = 0
            BY <2>2, SeedGetDoes
        <3>2. Covered(snapshot[i].revision)
            <4>1. snapshot[i].source \in {"none", "local", "store"}
                BY DEF TypeOK, Metadata
            <4>2. state[i] = "START" /\ ~isRunning[i]
                BY <1>2, CandidateMeans
            <4>3. snapshot[i].source = "local" => snapshot[i].revision = data[i]
                BY <2>2, <4>2, FleetAt DEF SeedGet, Restores1
            <4>4. snapshot[i].source = "store" => snapshot[i].revision <= store[i]
                BY FleetAt DEF Restores1
            <4>5. snapshot[i].source = "none" => snapshot[i].revision = 0
                BY FleetAt DEF Restores1
            <4>6. snapshot[i].source = "store" => Covered(snapshot[i].revision)
                BY <4>4 DEF Covered
            <4> QED
                BY <4>1, <4>3, <4>5, <4>6
        <3>3. Saves(data[i])
            BY <3>1 DEF Saves
        <3> QED
            BY <3>1, <3>2, <3>3
    <2>3. CASE RestoreData(i)
        <3>1. /\ data'[i] = temp[i] /\ temp'[i] = 0 /\ data[i] <= data'[i] /\ Holds1(i)'
            BY <1>2, <2>3, RestoreDoes DEF Holds1
        <3>2. Saves(data[i])
            BY <3>1 DEF Saves
        <3> QED
            BY <3>1, <3>2
    <2> QED
        BY <2>1, <2>2, <2>3
<1>5. Covered(store'[i]) /\ Saves(store[i])
    BY <1>1, <1>2, CopiesAre, SavedMeansNat
<1>6. AckedInv' /\ Kept' = Kept
    BY <1>1, <1>2, <1>4, <1>5, AroundLosesNothing, NothingLostKeeps
<1> QED
    BY <1>2, <1>3, <1>6, NobodyImplements

-----------------------------------------------------------------------------
(* A cluster is founded. *)

LEMMA KeptIs ==
    ASSUME TypeOK, NEW r \in Copies, \A c \in Copies : c <= r
    PROVE  Kept = r
<1> DEFINE S == Copies
<1>1. S \in SUBSET Nat /\ IsHighest(r, S)
    BY CopiesAre DEF IsHighest
<1> HIDE DEF S
<1>2. Highest(S) = r
    BY <1>1, HighestIs
<1> QED
    BY <1>2 DEF Kept, S

LEMMA KeptThen ==
    ASSUME TypeOK', NEW r \in Copies', \A c \in Copies' : c <= r
    PROVE  Kept' = r
<1> DEFINE S == Copies'
<1>1. S \in SUBSET Nat /\ IsHighest(r, S)
    BY FleetAssumption DEF IsHighest, Copies, TypeOK, Revision
<1> HIDE DEF S
<1>2. Highest(S) = r
    BY <1>1, HighestIs
<1> QED
    BY <1>2 DEF Kept, S

LEMMA FounderImplements ==
    ASSUME FleetInv, FleetInv', AckedInv, NEW i \in Instance, StartFounder(i)
    PROVE  AckedInv' /\ Implements
<1>1. TypeOK /\ TypeOK'
    BY DEF FleetInv, ElectionInv
<1>2. /\ Candidate(i) /\ Around(i) /\ isRunning'[i] /\ pc'[i] = "ready"
      /\ UNCHANGED <<temp, store, acked>>
      /\ data[i] = snapshot[i].revision
    BY StartFounderDoes
<1>3. data'[i] = IF data[i] = 0 THEN 1 ELSE data[i]
    BY <1>1 DEF StartFounder, SetAt, TypeOK
<1>4. data'[i] \in Nat /\ data[i] \in Nat /\ data[i] <= data'[i]
    BY <1>1, <1>3, FleetAt
<1>5. \A c \in Copies : c \in Nat /\ c <= data[i]
    BY <1>1, <1>2, CandidateIsAhead, CopiesAre
<1>6. \A c \in Copies' : c <= data'[i]
    <2>1. ASSUME NEW j \in Instance
          PROVE  data'[j] <= data'[i] /\ store'[j] <= data'[i] /\ temp'[j] <= data'[i]
        <3>1. store'[j] = store[j] /\ temp'[j] = temp[j] /\ data'[j] \in {data[j], data'[i]}
            BY <1>2 DEF Around
        <3>2. /\ data[j] <= data[i] /\ store[j] <= data[i] /\ temp[j] <= data[i]
              /\ data[j] \in Nat /\ store[j] \in Nat /\ temp[j] \in Nat
            BY <1>1, <1>5, CopiesAre
        <3> QED
            BY <1>4, <3>1, <3>2
    <2> QED
        BY <2>1, CopiesBounded
<1>7. data'[i] \in KeptCopies' /\ data'[i] \in Copies'
    BY <1>1, <1>2, SavedMeansNat DEF Holds1, Copies
<1>8. AckedInv'
    <2>1. PICK c \in Copies : acked <= c
        BY DEF AckedInv
    <2>2. acked \in Nat
        BY <1>1, RevisionIsNat DEF TypeOK
    <2>3. acked' <= data'[i]
        BY <1>2, <1>4, <1>5, <2>1, <2>2
    <2> QED
        BY <1>6, <1>7, <2>3 DEF AckedInv, NewestKept
<1>9. Live = {} /\ Live' = {i}
    BY <1>2, CandidateMeans DEF Live, Around, Untouched, Alive
<1>10. Kept' = data'[i]
    BY <1>1, <1>6, <1>7, KeptThen
<1>11. Kept = data[i]
    BY <1>1, <1>5, CopiesAre, KeptIs
<1>12. Head' = data'[i]
    BY <1>3, <1>9, HeadThen
<1>13. Promise!Found(i)
    BY <1>2, <1>3, <1>9, <1>10, <1>11, <1>12 DEF Promise!Found
<1> QED
    BY <1>8, <1>13 DEF Implements, Promise!Next

-----------------------------------------------------------------------------
(* The cluster that is alive. *)

(* While it has a quorum, one of its members runs with all there is. *)
LEMMA QuorumKeeps ==
    ASSUME FleetInv, TypeOK', AckedInv, NEW f \in Instance, NEW Q \in SUBSET Up(f),
           Majority(Q, members[f]),
           \A k \in Instance : isRunning[k] => pc'[k] = pc[k] /\ data[k] <= data'[k],
           \A j \in Instance : Covered(data'[j]) /\ Covered(store'[j]) /\ Covered(temp'[j]),
           acked' = acked
    PROVE  AckedInv' /\ Kept' = Kept
<1>1. PICK k \in Q : k \in Instance /\ isRunning[k] /\ cluster[k] = f /\ Newest(k)
    BY QuorumHasNewest
<1>2. NothingLost
    BY <1>1, NewestLosesNothing
<1> QED
    BY <1>2, NothingLostKeeps, FleetAt

LEMMA AroundCoveredEach ==
    ASSUME TypeOK, NEW i \in Instance, Around(i),
           Covered(data'[i]), Covered(store'[i]), Covered(temp'[i])
    PROVE  \A j \in Instance : Covered(data'[j]) /\ Covered(store'[j]) /\ Covered(temp'[j])
<1> SUFFICES ASSUME NEW j \in Instance
             PROVE  Covered(data'[j]) /\ Covered(store'[j]) /\ Covered(temp'[j])
    OBVIOUS
<1>1. CASE j = i
    BY <1>1
<1>2. CASE j # i
    BY <1>2, CopiesAre DEF Around, Untouched
<1> QED
    BY <1>1, <1>2

LEMMA JoinListImplements ==
    ASSUME FleetInv, FleetInv', AckedInv, NEW i \in Instance, NEW f \in Instance, JoinList(i, f)
    PROVE  AckedInv' /\ Implements
<1>1. TypeOK /\ TypeOK'
    BY DEF FleetInv, ElectionInv
<1>2. /\ HasQuorum(f) /\ Around(i) /\ ~Alive(i) /\ ~isRunning'[i]
      /\ UNCHANGED <<temp, store, acked>>
    BY JoinListDoes
<1>3. data'[i] \in {0, data[i]}
    BY JoinListDoes
<1>4. \A j \in Instance : Covered(data'[j]) /\ Covered(store'[j]) /\ Covered(temp'[j])
    <2>1. Covered(data'[i]) /\ Covered(store'[i]) /\ Covered(temp'[i])
        BY <1>1, <1>2, <1>3, CopiesAre
    <2> QED
        BY <1>1, <1>2, <2>1, AroundCoveredEach
<1>5. \A k \in Instance : isRunning[k] => k # i /\ pc'[k] = pc[k] /\ data'[k] = data[k]
    BY <1>2 DEF Around, Untouched, Alive
<1>6. \A k \in Instance : data[k] \in Nat /\ data[k] <= data[k]
    BY FleetAt
<1>7. AckedInv' /\ Kept' = Kept
    <2>1. \A k \in Instance : isRunning[k] => pc'[k] = pc[k] /\ data[k] <= data'[k]
        BY <1>5, <1>6
    <2> QED
        BY <1>1, <1>2, <1>4, <2>1, QuorumKeeps DEF HasQuorum
<1>8. \A j \in Live : j # i /\ data'[j] = data[j] /\ data[j] <= data'[j] /\ data'[j] <= Head
    BY <1>2, <1>6, HeadNow DEF Live, Around
<1>9. CASE pc'[i] = "rejoin"
    <2>1. PICK k \in Up(f) : k \in Instance /\ isRunning[k] /\ Newest(k)
        BY <1>2, QuorumHasNewest DEF HasQuorum
    <2>2. k \in Live
        BY <2>1 DEF Live, Alive
    <2>3. data'[i] <= Head
        <3>1. data[i] <= data[k] /\ data[k] <= Head
            BY <1>1, <2>1, <2>2, CopiesAre, HeadNow DEF Newest
        <3>2. data[i] \in Nat /\ data[k] \in Nat /\ Head \in Nat
            BY <1>6, <2>1, HeadNow
        <3>3. data[i] <= Head /\ 0 <= Head
            BY <3>1, <3>2
        <3> QED
            BY <1>3, <3>3
    <2>4. Live' = Live \cup {i}
        BY <1>2, <1>9 DEF Live, Around, Untouched, Alive
    <2> QED
        BY <1>2, <1>7, <1>8, <2>2, <2>3, <2>4, EnteringImplements
<1>10. CASE pc'[i] # "rejoin"
    <2>1. Live' = Live
        BY <1>2, <1>10 DEF Live, Around, Untouched, Alive
    <2> QED
        BY <1>2, <1>7, <1>8, <2>1, QuietImplements
<1> QED
    BY <1>9, <1>10

LEMMA StartJoinerImplements ==
    ASSUME FleetInv, FleetInv', AckedInv, NEW i \in Instance, StartJoiner(i)
    PROVE  AckedInv' /\ Implements
<1>1. TypeOK /\ TypeOK'
    BY DEF FleetInv, ElectionInv
<1>2. /\ Around(i) /\ ~Alive(i) /\ data[i] = 0 /\ isRunning'[i] /\ data'[i] = 1
      /\ UNCHANGED <<temp, store, acked>>
    BY StartJoinerDoes
<1>3. PICK k \in Instance : isRunning[k] /\ k # i
    BY StartJoinerDoes
<1>4. k \in Live /\ data[k] \in Nat /\ 1 <= data[k]
    BY <1>3, FleetAt DEF Live, Alive
<1>5. /\ Covered(data'[i]) /\ Covered(store'[i]) /\ Covered(temp'[i])
      /\ Saves(store[i]) /\ Saves(temp[i]) /\ Saves(data[i])
    BY <1>1, <1>2, <1>3, <1>4, CopiesAre, SavedMeansNat DEF Covered
<1>6. AckedInv' /\ Kept' = Kept
    BY <1>1, <1>2, <1>5, AroundLosesNothing, NothingLostKeeps
<1>7. Live' = Live \cup {i}
    BY <1>2 DEF Live, Around, Untouched, Alive
<1>8. \A j \in Live : data[j] <= data'[j] /\ data'[j] <= Head
    BY <1>2, HeadNow, FleetAt DEF Live, Around
<1>9. data'[i] <= Head
    BY <1>2, <1>4, HeadNow
<1> QED
    BY <1>2, <1>4, <1>6, <1>7, <1>8, <1>9, EnteringImplements

LEMMA BecomeReadyImplements ==
    ASSUME FleetInv, FleetInv', AckedInv, NEW i \in Instance, BecomeReady(i)
    PROVE  AckedInv' /\ Implements
<1>1. TypeOK /\ TypeOK'
    BY DEF FleetInv, ElectionInv
<1>2. /\ Around(i) /\ isRunning[i] /\ pc'[i] = "wait" /\ data[i] <= data'[i]
      /\ UNCHANGED <<isRunning, temp, store, acked>>
    BY BecomeReadyDoes
<1>3. PICK r \in Revision : /\ IsHighest(r, {data[j] : j \in Up(cluster[i])})
                            /\ data' = SetAt(data, i, r)
    BY DEF BecomeReady
<1>4. PICK k \in Up(cluster[i]) : data'[i] = data[k]
    BY <1>1, <1>3 DEF IsHighest, SetAt, TypeOK
<1>5. k \in Instance /\ k \in Live
    BY <1>1, <1>4, BecomeReadyDoes DEF Up, Live, Alive, TypeOK
<1>6. /\ Covered(data'[i]) /\ Covered(store'[i]) /\ Covered(temp'[i])
      /\ Saves(store[i]) /\ Saves(temp[i])
    BY <1>1, <1>2, <1>4, <1>5, CopiesAre, SavedMeansNat
<1>7. Saves(data[i])
    BY <1>1, <1>2, SavedMeansNat DEF Saves, Holds1
<1>8. AckedInv' /\ Kept' = Kept
    BY <1>1, <1>2, <1>6, <1>7, AroundLosesNothing, NothingLostKeeps
<1>9. Live' = Live
    BY <1>2 DEF Live, Around, Untouched, Alive
<1>10. \A j \in Live : data[j] <= data'[j] /\ data'[j] <= Head
    BY <1>2, <1>4, <1>5, HeadNow, FleetAt DEF Live, Around
<1> QED
    BY <1>2, <1>8, <1>9, <1>10, QuietImplements

-----------------------------------------------------------------------------
(* Commits. *)

(* A commit of what is there already. *)
LEMMA CommitSpreads ==
    ASSUME FleetInv, NEW f \in Instance, NEW Q \in SUBSET Up(f), NEW r \in Revision,
           Commits(f, Q, r), NEW j \in Instance
    PROVE  /\ data[j] <= Holding(Q, r)[j]
           /\ Covered(Holding(Q, r)[j])
           /\ j \in Live => Holding(Q, r)[j] <= Head
<1>1. r \in Nat /\ r <= r
    BY RevisionIsNat
<1>2. data[j] <= Holding(Q, r)[j]
    BY <1>1, HoldingMeans
<1>3. Holding(Q, r)[j] \in {r, data[j]}
    BY DEF Holding
<1>4. PICK k \in Up(f) : data[k] = r
    BY DEF Commits, IsHighest
<1>5. k \in Instance /\ k \in Live
    BY <1>4, FleetAt DEF Up, Live, Alive, TypeOK
<1>6. Covered(r) /\ Covered(data[j])
    BY <1>4, <1>5, CopiesAre, FleetAt
<1>7. r <= Head /\ (j \in Live => data[j] <= Head)
    BY <1>4, <1>5, HeadNow
<1> QED
    BY <1>2, <1>3, <1>6, <1>7

LEMMA ChangeImplements ==
    ASSUME FleetInv, FleetInv', AckedInv, NEW f \in Instance, NEW Q \in SUBSET Up(f),
           NEW r \in Revision, Commits(f, Q, r), data' = Holding(Q, r),
           \A j \in Instance : isRunning[j] => pc'[j] = pc[j],
           \A j \in Instance : Alive(j)' <=> Alive(j),
           UNCHANGED <<store, temp, acked>>
    PROVE  AckedInv' /\ Implements
<1>1. TypeOK /\ TypeOK'
    BY DEF FleetInv, ElectionInv
<1>2. \A j \in Instance : /\ data[j] <= data'[j] /\ Covered(data'[j])
                          /\ j \in Live => data'[j] <= Head
    BY CommitSpreads
<1>3. \A j \in Instance : Covered(store'[j]) /\ Covered(temp'[j])
    BY <1>1, CopiesAre
<1>4. AckedInv' /\ Kept' = Kept
    BY <1>1, <1>2, <1>3, CommitMeans, QuorumKeeps
<1>5. Live' = Live
    BY DEF Live
<1>6. \A j \in Live : data[j] <= data'[j] /\ data'[j] <= Head
    BY <1>2 DEF Live
<1> QED
    BY <1>4, <1>5, <1>6, QuietImplements

LEMMA AddMemberImplements ==
    ASSUME FleetInv, FleetInv', AckedInv, NEW i \in Instance, AddMember(i)
    PROVE  AckedInv' /\ Implements
<1>1. target[i] \in Instance /\ pc[i] = "add"
    BY AddMemberDoes DEF AddMember
<1>2. PICK Q \in SUBSET Up(target[i]), r \in Revision :
        Commits(target[i], Q, r) /\ data' = Holding(Q, r)
    BY AddMemberDoes
<1>3. ~isRunning[i] /\ pc'[i] = "start" /\ UNCHANGED <<isRunning, store, temp, acked>>
    BY <1>1, AddMemberDoes, FleetAt DEF Control1
<1>4. \A j \in Instance \ {i} : pc'[j] = pc[j]
    BY AddMemberDoes DEF Untouched
<1>5. /\ \A j \in Instance : isRunning[j] => pc'[j] = pc[j]
      /\ \A j \in Instance : Alive(j)' <=> Alive(j)
    BY <1>1, <1>3, <1>4 DEF Alive
<1> QED
    BY <1>1, <1>2, <1>3, <1>5, ChangeImplements

LEMMA CleaningImplements ==
    ASSUME FleetInv, FleetInv', AckedInv, NEW i \in Instance, NEW x \in Instance, CleanMember(i, x)
    PROVE  AckedInv' /\ Implements
<1>1. PICK Q \in SUBSET Up(cluster[i]), r \in Revision :
        Commits(cluster[i], Q, r) /\ data' = Holding(Q, r)
    BY CleanMemberDoes
<1>2. cluster[i] \in Instance /\ UNCHANGED <<pc, isRunning, store, temp, acked>>
    BY CleanMemberDoes
<1>3. \A j \in Instance : Alive(j)' <=> Alive(j)
    BY <1>2 DEF Alive
<1> QED
    BY <1>1, <1>2, <1>3, ChangeImplements

(* A write: whoever commits it has the newest copy of all. *)
LEMMA WriteImplements ==
    ASSUME FleetInv, FleetInv', AckedInv, NEW f \in Instance, NEW Q, Write(f, Q)
    PROVE  AckedInv' /\ Implements
<1>1. TypeOK /\ TypeOK'
    BY DEF FleetInv, ElectionInv
<1>2. PICK r \in Revision : Commits(f, Q, r) /\ data' = Holding(Q, r + 1) /\ acked' = r + 1
    BY WriteDoes
<1>3. r \in Nat /\ Q \in SUBSET Up(f) /\ Majority(Q, members[f])
    BY <1>2, CommitMeans
<1>4. UNCHANGED <<pc, isRunning, store, temp>>
    BY WriteDoes
<1>5. PICK k \in Q : k \in Instance /\ isRunning[k] /\ Newest(k)
    BY <1>3, QuorumHasNewest
<1>6. data[k] = r
    <2>1. data[k] <= r /\ data[k] \in Nat
        BY <1>2, <1>5, CommitMeans, FleetAt
    <2>2. r \in Copies
        BY <1>1, <1>2, CommitMeans, CopiesAre
    <2> QED
        BY <1>3, <1>5, <2>1, <2>2 DEF Newest
<1>7. \A c \in Copies : c <= r
    BY <1>5, <1>6 DEF Newest
<1>8. k \in Live /\ Live' = Live
    BY <1>4, <1>5 DEF Live, Alive
<1>9. Kept = r
    BY <1>1, <1>5, <1>6, <1>7, CopiesAre, KeptIs
<1>10. Head = r
    <2>1. r <= Head
        BY <1>6, <1>8, HeadNow
    <2>2. Head <= r
        BY <1>1, <1>3, <1>7, CopiesAre, HeadNow DEF Live
    <2> QED
        BY <1>3, <2>1, <2>2, HeadNow
<1>11. data'[k] = r + 1 /\ \A j \in Instance : data'[j] \in {r + 1, data[j]}
    BY <1>2, <1>5 DEF Holding
<1>12. \A j \in Instance : data'[j] <= r + 1 /\ store'[j] <= r + 1 /\ temp'[j] <= r + 1
    <2>1. \A j \in Instance : data[j] <= r + 1 /\ store[j] <= r + 1 /\ temp[j] <= r + 1
        BY <1>1, <1>3, <1>7, CopiesAre
    <2> QED
        BY <1>3, <1>4, <1>11, <2>1
<1>13. \A c \in Copies' : c <= r + 1
    BY <1>12, CopiesBounded
<1>14. r + 1 \in Copies' /\ r + 1 \in KeptCopies'
    <2>1. Holds1(k)'
        BY <1>4, <1>5, FleetAt DEF Holds1, Control1
    <2> QED
        BY <1>1, <1>5, <1>11, <2>1, SavedMeansNat DEF Copies
<1>15. AckedInv'
    BY <1>2, <1>3, <1>13, <1>14 DEF AckedInv, NewestKept
<1>16. Kept' = r + 1
    BY <1>1, <1>13, <1>14, KeptThen
<1>17. Head' = r + 1
    <2>1. r + 1 <= Head'
        BY <1>8, <1>11, HeadThen
    <2>2. Head' <= r + 1
        BY <1>3, <1>12, HeadThen DEF Live
    <2> QED
        BY <1>3, <2>1, <2>2, HeadThen
<1>18. Promise!Commit
    BY <1>2, <1>8, <1>9, <1>10, <1>16, <1>17 DEF Promise!Commit
<1> QED
    BY <1>15, <1>18 DEF Implements, Promise!Next

-----------------------------------------------------------------------------
(* What is lost: a database that does not start, and a disk. *)

(* Released by the cluster or not, its copy is one that others have. *)
LEMMA RejoinFailsImplements ==
    ASSUME FleetInv, FleetInv', AckedInv, NEW i \in Instance, RejoinFails(i)
    PROVE  AckedInv' /\ Implements
<1> DEFINE f == target[i]
<1>1. TypeOK /\ TypeOK'
    BY DEF FleetInv, ElectionInv
<1>2. /\ f \in Instance /\ pc[i] = "rejoin" /\ pc'[i] = "add" /\ "boot" \in Faults
      /\ ~isRunning'[i] /\ data'[i] = 0 /\ UNCHANGED <<isRunning, temp, store, acked>>
      /\ \A j \in Instance \ {i} : Untouched(j) /\ cluster'[j] = cluster[j]
    BY RejoinFailsDoes
<1>3. i \in Live /\ Live' = Live \ {i} /\ ~isRunning[i]
    BY <1>2 DEF Live, Alive, Untouched
<1>4. \A k \in Instance : isRunning[k] => pc'[k] = pc[k] /\ k # i
    BY <1>2, <1>3 DEF Untouched
<1>5. CASE \E Q \in SUBSET Up(f), r \in Revision :
             Commits(f, Q, r) /\ data' = SetAt(Holding(Q, r), i, 0)
    <2> HIDE DEF f
    <2>1. PICK Q \in SUBSET Up(f), r \in Revision :
            Commits(f, Q, r) /\ data' = SetAt(Holding(Q, r), i, 0)
        BY <1>5
    <2>2. \A j \in Instance \ {i} : data'[j] = Holding(Q, r)[j]
        BY <2>1 DEF SetAt, Holding
    <2>3. \A j \in Instance \ {i} : /\ data[j] <= data'[j] /\ Covered(data'[j])
                                    /\ j \in Live => data'[j] <= Head
        BY <1>2, <2>1, <2>2, CommitSpreads
    <2>4. \A j \in Instance : Covered(data'[j]) /\ Covered(store'[j]) /\ Covered(temp'[j])
        BY <1>1, <1>2, <2>3, CopiesAre
    <2>5. \A k \in Instance : isRunning[k] => pc'[k] = pc[k] /\ data[k] <= data'[k]
        BY <1>4, <2>3
    <2>6. f \in Instance /\ acked' = acked /\ Majority(Q, members[f])
        BY <1>2, <2>1, CommitMeans
    <2>7. AckedInv' /\ Kept' = Kept
        BY <1>1, <2>1, <2>4, <2>5, <2>6, QuorumKeeps
    <2>8. \A j \in Live' : data'[j] <= Head
        BY <1>3, <2>3 DEF Live
    <2> QED
        BY <1>3, <2>6, <2>7, <2>8, LeavingImplements
<1>6. CASE data' = SetAt(data, i, 0)
    <2>1. \A j \in Instance \ {i} : data'[j] = data[j]
        BY <1>1, <1>6 DEF SetAt, TypeOK
    <2>2. Around(i)
        BY <1>2, <2>1 DEF Around
    <2>3. /\ Covered(data'[i]) /\ Covered(store'[i]) /\ Covered(temp'[i])
          /\ Saves(store[i]) /\ Saves(temp[i]) /\ ~Holds1(i)
        BY <1>1, <1>2, CopiesAre, SavedMeansNat DEF Holds1
    <2>4. AckedInv' /\ Kept' = Kept
        BY <1>1, <1>2, <2>2, <2>3, AroundLosesNothing, NothingLostKeeps
    <2>5. \A j \in Live' : data'[j] <= Head
        BY <1>3, <2>1, HeadNow DEF Live
    <2> QED
        BY <1>2, <1>3, <2>4, <2>5, LeavingImplements
<1> QED
    BY <1>5, <1>6, RejoinFailsDoes

(* A disk that is lost was nobody's: its instance was down. *)
LEMMA WipeImplements ==
    ASSUME Careful, FleetInv, FleetInv', NEW i \in Instance, Wipe(i)
    PROVE  AckedInv' /\ Implements
<1>1. TypeOK /\ TypeOK'
    BY DEF FleetInv, ElectionInv
<1>2. /\ "boot" \notin Faults /\ ~Alive(i) /\ Around(i)
      /\ UNCHANGED <<pc, isRunning, temp>>
      /\ data'[i] = 0 /\ store'[i] \in {0, store[i]} /\ temp[i] = 0
    BY WipeDoes DEF Careful
<1>3. PICK r \in Revision : /\ IsHighest(r, Copies')
                            /\ acked' = IF acked <= r THEN acked ELSE r
    BY DEF Wipe
<1>4. r \in Nat /\ acked \in Nat
    BY <1>1, RevisionIsNat DEF TypeOK
<1>5. Kept' = r
    BY <1>1, <1>3, KeptThen DEF IsHighest
<1>6. \A c \in Copies' : c \in Nat /\ c <= r
    BY <1>1, <1>3, FleetAssumption DEF IsHighest, Copies, TypeOK, Revision
<1>7. AckedInv'
    <2>1. \A c \in Copies' : c \in KeptCopies'
        BY <1>2 DEF KeptCopies, Copies
    <2>2. r \in Copies' /\ acked' <= r
        BY <1>3, <1>4 DEF IsHighest
    <2> QED
        BY <1>6, <2>1, <2>2 DEF AckedInv, NewestKept
<1>8. Live' = Live /\ i \notin Live
    BY <1>2 DEF Live, Alive
<1>9. \A j \in Live : data'[j] = data[j]
    BY <1>2, <1>8 DEF Around, Live
<1>10. Head' = Head
    BY <1>8, <1>9, HeadSame, HeadNow, FleetAt DEF Live
<1>11. r <= Kept /\ Kept \in Nat
    <2>1. Covered(data'[i]) /\ Covered(store'[i]) /\ Covered(temp'[i])
        BY <1>1, <1>2, CopiesAre
    <2>2. PICK c \in Copies : r <= c
        BY <1>2, <1>3, <2>1, AroundCovers DEF IsHighest, Covered
    <2>3. Copies \in SUBSET Revision
        BY <1>1 DEF Copies, TypeOK
    <2>4. IsHighest(Kept, Copies)
        BY <2>2, <2>3, HighestMeans DEF Kept
    <2>5. c <= Kept /\ Kept \in Nat /\ c \in Nat
        BY <2>2, <2>3, <2>4, RevisionIsNat DEF IsHighest
    <2> QED
        BY <1>4, <2>2, <2>5
<1>12. Head <= r
    <2>1. CASE Head = 0
        BY <1>4, <2>1
    <2>2. CASE \E j \in Live : data[j] = Head
        <3>1. PICK j \in Live : data[j] = Head
            BY <2>2
        <3>2. data'[j] \in Copies'
            BY DEF Copies, Live
        <3> QED
            BY <1>6, <1>9, <3>1, <3>2
    <2> QED
        BY <2>1, <2>2, HeadNow
<1>13. Kept' \in Head .. Kept
    BY <1>4, <1>5, <1>11, <1>12, HeadNow
<1>14. Promise!Destroyed
    BY <1>3, <1>5, <1>8, <1>10, <1>13 DEF Promise!Destroyed
<1> QED
    BY <1>7, <1>14 DEF Implements, Promise!Next

-----------------------------------------------------------------------------
(* The step. *)

LEMMA StutterImplements ==
    ASSUME FleetInv, AckedInv, UNCHANGED vars
    PROVE  AckedInv' /\ Implements
<1>1. UNCHANGED <<pc, isRunning, data, temp, store, acked>>
    BY DEF vars, dataVars, ghostVars
<1>2. Copies' = Copies /\ KeptCopies' = KeptCopies /\ Live' = Live
    BY <1>1 DEF Copies, KeptCopies, Live, Alive
<1>3. AckedInv'
    BY <1>1, <1>2 DEF AckedInv, NewestKept
<1>4. Head' = Head /\ Kept' = Kept
    BY <1>1, <1>2 DEF Head, Kept
<1> QED
    BY <1>1, <1>2, <1>3, <1>4 DEF Implements

LEMMA StepImplements ==
    ASSUME Careful, FleetInv, FleetInv', AckedInv, NEW i \in Instance, Step(i)
    PROVE  AckedInv' /\ Implements
<1>1. CASE Idle(i) /\ pc[i] # "restore"
    BY <1>1, IdleImplements
<1>2. CASE ExecSeed(i) \/ SeedGet(i) \/ RestoreData(i)
    BY <1>2, FoundingImplements
<1>3. CASE StartFounder(i)
    BY <1>3, FounderImplements
<1>4. ASSUME NEW f \in Instance, JoinList(i, f) PROVE AckedInv' /\ Implements
    BY <1>4, JoinListImplements
<1>5. CASE StartJoiner(i)
    BY <1>5, StartJoinerImplements
<1>6. CASE BecomeReady(i)
    BY <1>6, BecomeReadyImplements
<1>7. CASE AddMember(i)
    BY <1>7, AddMemberImplements
<1> QED
    BY <1>1, <1>2, <1>3, <1>4, <1>5, <1>6, <1>7, StepIsIdle DEF Careful

LEMMA FailureImplements ==
    ASSUME Careful, FleetInv, FleetInv', AckedInv, NEW i \in Instance, Failure(i)
    PROVE  AckedInv' /\ Implements
<1>1. CASE Idle(i) /\ pc[i] # "restore"
    BY <1>1, IdleImplements
<1>2. CASE RejoinFails(i)
    BY <1>2, RejoinFailsImplements
<1>3. CASE Wipe(i)
    BY <1>3, WipeImplements
<1> QED
    BY <1>1, <1>2, <1>3, FailureIsIdle DEF Careful

LEMMA EnvironmentImplements ==
    ASSUME Careful, FleetInv, FleetInv', AckedInv, Cleaning \/ Environment
    PROVE  AckedInv' /\ Implements
<1>1. ASSUME NEW i \in Instance, NEW j \in Instance, CleanMember(i, j)
      PROVE  AckedInv' /\ Implements
    BY <1>1, CleaningImplements
<1>2. ASSUME NEW i \in Instance, PeriodicSnapshot(i) PROVE AckedInv' /\ Implements
    <2>1. Idle(i) /\ pc[i] # "restore"
        BY <1>2, PeriodicIsIdle, FleetAt DEF Careful, PeriodicSnapshot, Serving, Control1
    <2> QED
        BY <2>1, IdleImplements
<1>3. ASSUME NEW f \in Instance, NEW Q, Write(f, Q) PROVE AckedInv' /\ Implements
    BY <1>3, WriteImplements
<1> QED
    BY <1>1, <1>2, <1>3 DEF Cleaning, Environment

LEMMA NextImplements ==
    ASSUME Careful, FleetInv, AckedInv, [Next /\ Undisturbed]_vars
    PROVE  AckedInv' /\ Implements
<1>1. FleetInv'
    BY FleetNext DEF Careful
<1> QED
    BY <1>1, StepImplements, FailureImplements, EnvironmentImplements, StutterImplements DEF Next

LEMMA InitImplements == Init => AckedInv /\ Promise!Init
<1> SUFFICES ASSUME Init PROVE AckedInv /\ Promise!Init
    OBVIOUS
<1>1. FleetInv /\ TypeOK
    BY FleetInit, InitType
<1>2. \A c \in Copies : c = 0
    BY DEF Init, Copies
<1>3. 0 \in Copies /\ 0 \in KeptCopies
    BY FleetAssumption DEF Init, Copies, KeptCopies
<1>4. AckedInv
    BY <1>2, <1>3 DEF Init, AckedInv, NewestKept
<1>5. Live = {}
    BY DEF Init, Live, Alive
<1>6. Head = 0
    BY <1>1, <1>5, HeadNow
<1>7. Kept = 0
    BY <1>1, <1>2, <1>3, KeptIs
<1>8. acked = 0
    BY DEF Init
<1> QED
    BY <1>4, <1>5, <1>6, <1>7, <1>8 DEF Promise!Init

(* A cluster that runs on has acknowledged nothing yet, and all copies are the same. *)
LEMMA StartIsAcked == MinorityDown => AckedInv
<1> SUFFICES ASSUME NEW founder \in Instance, NEW dead \in Instance, OneDown(founder, dead)
             PROVE  AckedInv
    BY DEF MinorityDown
<1>1. \A c \in Copies : c \in {0, 1}
    BY DEF OneDown, Copies
<1>2. 1 \in Copies /\ 1 \in KeptCopies
    BY DEF OneDown, Copies, KeptCopies
<1>3. acked = 0
    BY DEF OneDown
<1> QED
    BY <1>1, <1>2, <1>3 DEF AckedInv, NewestKept

(* There is always a copy that nobody is about to give up and that is as recent as any. *)
THEOREM CopiesAreKept ==
    ASSUME Careful
    PROVE  OrderlySpec => []AckedInv
<1>1. Careful => Orderly
    BY DEF Careful
<1> QED
    BY <1>1, InitImplements, StartIsAcked, NextImplements, FleetHolds, PTL DEF OrderlySpec

(* No acknowledged write is lost while copies only vanish with disks, one after the    *)
(* other, or with members that do not start: not in an election, not in Join's          *)
(* RemoveAll of the data directory, not in Restore's, not by a change of the members.  *)
THEOREM NoWriteIsLost ==
    ASSUME Careful
    PROVE  OrderlySpec => []AckedSurvives
<1>1. AckedInv => AckedSurvives
    BY DEF AckedInv, AckedSurvives
<1> QED
    BY <1>1, CopiesAreKept, PTL

(* Every step of the operators is one of DisasterRecovery or does not show there: a     *)
(* cluster is founded when nothing runs, by one instance, from the most recent copy,    *)
(* the others only enter what runs, and a write only ever continues the most recent     *)
(* history.                                                                             *)
THEOREM StepsKeepPromise ==
    ASSUME Careful
    PROVE  OrderlySpec => [][Promise!Next]_(Promise!vars)
<1>1. Careful => Orderly
    BY DEF Careful
<1>2. Implements <=> [Promise!Next]_(Promise!vars)
    BY DEF Implements, Promise!vars
<1>3. FleetInv /\ AckedInv /\ [Next /\ Undisturbed]_vars => [Promise!Next]_(Promise!vars)
    BY <1>2, NextImplements
<1> QED
    BY <1>1, <1>3, CopiesAreKept, FleetHolds, PTL DEF OrderlySpec

(* From a cold start the operators implement DisasterRecovery, with a bucket for all of *)
(* them as well as with a directory for each.                                           *)
THEOREM PromiseIsKept ==
    ASSUME Careful
    PROVE  Spec /\ OrderlySpec => KeepsPromise
BY InitImplements, StepsKeepPromise, PTL DEF Spec, KeepsPromise, Promise!Spec

(* With a directory for each, nothing is asked of the order of their steps. *)
THEOREM FilesKeepPromise ==
    ASSUME Careful, ~SharedStore
    PROVE  Spec => []FleetInv /\ []AckedInv /\ KeepsPromise
<1>1. Careful => Orderly
    BY DEF Careful
<1>2. Spec => OrderlySpec
    BY OwnStores
<1> QED
    BY <1>1, <1>2, FleetHolds, CopiesAreKept, PromiseIsKept, PTL
=============================================================================
