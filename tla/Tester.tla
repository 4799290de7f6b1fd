------------------------------- MODULE Tester -------------------------------
(***************************************************************************)
(* The functional tester: runTest for one test after the other, against a  *)
(* cluster of operators that is the environment here.  Every test cleans   *)
(* up, sets a marker, checks the health of the cluster, starts a stresser, *)
(* injects a failure through ForEachMember, waits until the cluster has    *)
(* been healthy for some checks in a row, stops the stresser and compares  *)
(* the members.  The fleet promises to repair what is broken (Fleet).      *)
(***************************************************************************)
EXTENDS ForEachMember, Sequences

CONSTANTS
    Size,       \* cfg.Cluster.Size
    Tests,      \* the tests that are run, by whom they hit
    Rounds,     \* BOUND: health checks in a row after a failure, 4 in the code
    Tries,      \* BOUND: attempts of IsConsistent, 15 in the code
    Faults,     \* the kinds of fault that may happen
    MaxFaults,  \* BOUND: how many of them
    none,       \* no member
    gone        \* the ID of a member that has been removed

Target == {"leader", "slave", "majority", "all"}
FaultKind == {"crash", "stepdown", "client", "request", "exec", "race", "alarm"}

ASSUME TesterAssumption ==
    /\ Tests \in Seq(Target)
    /\ Size \in Nat /\ Rounds \in Nat \ {0} /\ Tries \in Nat \ {0}
    /\ Faults \subseteq FaultKind /\ MaxFaults \in Nat
    /\ none \notin Member /\ gone \notin Member \cup {none}

VARIABLES
    pc,         \* where runTest is, or how the program ended
    test,       \* which test
    round,      \* 0 before the failure, then the number of the health check
    tries,      \* attempts of IsConsistent
    leaderID,   \* what isHealthy returned before the failure
    stressers,  \* the tests whose stresser runs
    healthy,    \* isHealthy: healthyMembers
    unhealthy,  \* isHealthy: whether there are unhealthyMembers
    lead,       \* isHealthy: leader
    changed,    \* isHealthy: leaderChanged
    taken,      \* the failure injector's killed, once or i
    onceErr,    \* killWipeOneSlave: the err that the goroutines share
    hit,        \* the members that the command of this test reached
    differ,     \* IsConsistent: two members answered differently
    up,         \* the members whose etcd answers
    listed,     \* the members of the cluster
    leader,     \* the one they agree on
    stray,      \* pairs <<test, member>>: kills that an abandoned injection still does
    skipped,    \* history: a test was skipped after its stresser had started
    disturbed,  \* history: something went wrong since the last health check began
    faults      \* faults spent

runVars   == <<test, round, tries, leaderID, stressers>>
checkVars == <<healthy, unhealthy, lead, changed>>
fiVars    == <<taken, onceErr, hit>>
envVars   == <<up, listed, leader>>
history   == <<skipped, disturbed>>
vars == <<callVars, pc, runVars, checkVars, fiVars, differ, envVars, stray, history, faults>>

Ended == {"finished", "unclean", "unhealthy", "inconsistent"}
Calls == {"revisions", "defrag", "status", "inject", "consistent"}

TypeOK ==
    /\ CallTypeOK
    /\ pc \in Calls \cup {"compact", "marker", "quorum"} \cup Ended
    /\ test \in 1 .. Len(Tests) + 1
    /\ round \in 0 .. Rounds /\ tries \in 0 .. Tries
    /\ leaderID \in Member \cup {none, gone} /\ lead \in Member \cup {none, gone}
    /\ stressers \subseteq DOMAIN Tests
    /\ healthy \subseteq Member
    /\ unhealthy \in BOOLEAN /\ changed \in BOOLEAN
    /\ taken \in Nat /\ onceErr \in BOOLEAN /\ hit \subseteq Member
    /\ differ \in BOOLEAN
    /\ up \subseteq Member /\ listed \subseteq Member /\ leader \in up \cup {none}
    /\ stray \subseteq (DOMAIN Tests) \X Member
    /\ skipped \in BOOLEAN /\ disturbed \in BOOLEAN
    /\ faults \in 0 .. MaxFaults

Init ==
    /\ CallInit
    /\ pc = "revisions" /\ test = 1 /\ round = 0 /\ tries = 0
    /\ leaderID = none /\ stressers = {}
    /\ healthy = {} /\ unhealthy = FALSE /\ lead = none /\ changed = FALSE
    /\ taken = 0 /\ onceErr = FALSE /\ hit = {} /\ differ = FALSE
    /\ up = Member /\ listed = Member /\ leader \in Member
    /\ stray = {} /\ skipped = FALSE /\ disturbed = FALSE /\ faults = 0

Fault(kind) == kind \in Faults /\ faults < MaxFaults /\ faults' = faults + 1
Goto(p) == pc' = p

Quorum(S) == 2 * Cardinality(S \cap listed) > Cardinality(listed)

(* The etcd of member m stops. *)
Down(m) ==
    /\ up' = up \ {m}
    /\ leader' = IF m = leader \/ ~Quorum(up') THEN none ELSE leader
    /\ disturbed' = TRUE
    /\ UNCHANGED listed

(* A request that only a cluster with a leader answers. *)
Answered == leader # none /\ UNCHANGED faults
Refused  == (leader = none /\ UNCHANGED faults) \/ Fault("request")

-----------------------------------------------------------------------------
(* runTest, between two calls of ForEachMember *)

Call ==
    /\ pc \in Calls /\ Answered
    /\ Begin(listed)
    /\ differ' = FALSE
    /\ UNCHANGED <<pc, runVars, checkVars, fiVars, envVars, stray, history>>

CallFails ==
    /\ pc \in Calls /\ Refused
    /\ ListFails
    /\ disturbed' = TRUE
    /\ UNCHANGED <<pc, runVars, checkVars, fiVars, differ, envVars, stray, skipped>>

(* Cleanup is over.  An error of the last one is fatal, any other ignored. *)
Cleaned(ok) ==
    /\ Goto(IF test <= Len(Tests) THEN "marker" ELSE IF ok THEN "finished" ELSE "unclean")
    /\ UNCHANGED <<runVars, checkVars, fiVars, differ, envVars, stray, history>>

RevisionsRead ==
    /\ pc = "revisions" /\ Leave
    /\ IF caller = "error" THEN Cleaned(FALSE)
       ELSE /\ Goto("compact")
            /\ UNCHANGED <<runVars, checkVars, fiVars, differ, envVars, stray, history>>
    /\ UNCHANGED faults

Compact ==
    /\ pc = "compact"
    /\ \/ Answered /\ Goto("defrag")
          /\ UNCHANGED <<runVars, checkVars, fiVars, differ, envVars, stray, history>>
       \/ Refused /\ Cleaned(FALSE)
    /\ UNCHANGED callVars

Defragmented ==
    /\ pc = "defrag" /\ Leave
    /\ Cleaned(caller = "nil")
    /\ UNCHANGED faults

NextTest ==
    /\ test' = test + 1 /\ round' = 0 /\ tries' = 0 /\ leaderID' = none
    /\ healthy' = {} /\ unhealthy' = FALSE /\ lead' = none /\ changed' = FALSE
    /\ taken' = 0 /\ onceErr' = FALSE /\ hit' = {}
    /\ Goto("revisions")

(* A marker that cannot be set skips the test. *)
SetMarker ==
    /\ pc = "marker"
    /\ \/ Answered /\ Goto("quorum") /\ UNCHANGED <<runVars, checkVars, fiVars>>
       \/ Refused /\ NextTest /\ UNCHANGED stressers
    /\ UNCHANGED <<callVars, differ, envVars, stray, history>>

-----------------------------------------------------------------------------
(* isHealthy *)

(* An error is fatal before the failure; after it, the count begins again. *)
Unhealthy ==
    /\ IF round = 0 THEN Goto("unhealthy") /\ UNCHANGED round
                    ELSE Goto("quorum") /\ round' = 1
    /\ UNCHANGED <<test, tries, leaderID, stressers>>

(* Variant: the stresser goes on while the members are compared. *)
HealthyStressed ==
    /\ \/ /\ round = 0
          /\ leaderID' = lead
          /\ stressers' = stressers \cup {test}
          /\ Goto("inject") /\ UNCHANGED round
       \/ /\ round \in 1 .. Rounds - 1
          /\ round' = round + 1
          /\ Goto("quorum") /\ UNCHANGED <<leaderID, stressers>>
       \/ /\ round = Rounds
          /\ Goto("consistent") /\ UNCHANGED <<leaderID, round, stressers>>
    /\ UNCHANGED <<test, tries>>

(* The last check is the one after which the stresser is stopped. *)
Healthy ==
    /\ \/ /\ round = 0
          /\ leaderID' = lead
          /\ stressers' = stressers \cup {test}
          /\ Goto("inject") /\ UNCHANGED round
       \/ /\ round \in 1 .. Rounds - 1
          /\ round' = round + 1
          /\ Goto("quorum") /\ UNCHANGED <<leaderID, stressers>>
       \/ /\ round = Rounds
          /\ stressers' = stressers \ {test}
          /\ Goto("consistent") /\ UNCHANGED <<leaderID, round>>
    /\ UNCHANGED <<test, tries>>

(* IsHealthy: a linearizable read, tried five times. *)
CheckQuorum ==
    /\ pc = "quorum"
    /\ healthy' = {} /\ unhealthy' = FALSE /\ lead' = none /\ changed' = FALSE
    /\ disturbed' = FALSE
    /\ IF leader # none THEN Goto("status") /\ UNCHANGED runVars ELSE Unhealthy
    /\ UNCHANGED <<callVars, fiVars, differ, envVars, stray, skipped, faults>>

(* f: Status of one member.  The goroutines share leader and healthyMembers  *)
(* and take no lock: "race" is one that had read them before another wrote.  *)
Status(m) ==
    /\ pc = "status"
    /\ Outcome(m, "ok")
    /\ \/ /\ (m \notin up /\ UNCHANGED faults) \/ Fault("request")
          /\ unhealthy' = TRUE
          /\ UNCHANGED <<healthy, lead, changed>>
       \/ /\ m \in up
          /\ healthy' = healthy \cup {m}
          /\ lead' = IF lead = none THEN leader ELSE lead
          /\ changed' = (changed \/ lead \notin {none, leader})
          /\ UNCHANGED <<unhealthy, faults>>
       \/ /\ m \in up /\ Fault("race")
          /\ healthy' \in {healthy, healthy \cup {m}}
          /\ lead' = leader
          /\ UNCHANGED <<unhealthy, changed>>
    /\ UNCHANGED <<pc, runVars, fiVars, differ, envVars, stray, history>>

(* Variant: whoever is listed counts. *)
AllHealthyOfListed == ~changed /\ ~unhealthy /\ healthy = called
(* What isHealthy concludes; the error of ForEachMember is ignored. *)
AllHealthy == ~changed /\ ~unhealthy /\ Cardinality(healthy) = Size

StatusRead ==
    /\ pc = "status" /\ Leave
    /\ \/ AllHealthy /\ Answered /\ Healthy
       \/ AllHealthy /\ (Refused \/ Fault("alarm")) /\ Unhealthy
       \/ ~AllHealthy /\ UNCHANGED faults /\ Unhealthy
    /\ UNCHANGED <<checkVars, fiVars, differ, envVars, stray, history>>

-----------------------------------------------------------------------------
(* The failure injectors *)

(* Whom the test may hit, and how many of them: f of every injector. *)
Selects(m) ==
    CASE Tests[test] = "leader" -> m = leaderID
      [] Tests[test] = "slave"  -> m # leaderID
      [] OTHER                  -> TRUE
Quota ==
    CASE Tests[test] = "slave"    -> 1
      [] Tests[test] = "majority" -> Size \div 2 + 1
      [] OTHER                    -> Cardinality(Member)

(* Nothing to do for this member.  In killWipeOneSlave the error of the one  *)
(* command is everybody's error, in killOneSlave it is not.                 *)
Spare(m) ==
    /\ pc = "inject" /\ ~(Selects(m) /\ taken < Quota)
    /\ \/ Outcome(m, "ok")
       \/ Tests[test] = "slave" /\ Selects(m) /\ onceErr /\ Outcome(m, "err")
    /\ UNCHANGED <<pc, runVars, checkVars, fiVars, differ, envVars, stray, history, faults>>

Untouched == UNCHANGED <<hit, envVars, disturbed>>

(* execRemote: done, or failed, before or after the command had its effect.  *)
(* It fails by itself when there is no operator to kill.                     *)
Kill(m) ==
    /\ pc = "inject" /\ Selects(m) /\ taken < Quota
    /\ taken' = taken + 1
    /\ \/ /\ Outcome(m, "ok")
          /\ hit' = hit \cup {m} /\ Down(m)
          /\ UNCHANGED <<onceErr, faults>>
       \/ /\ Outcome(m, "err")
          /\ (m \notin up /\ UNCHANGED faults) \/ Fault("exec")
          /\ (hit' = hit \cup {m} /\ Down(m)) \/ Untouched
          /\ onceErr' = TRUE
    /\ UNCHANGED <<pc, runVars, checkVars, differ, stray, skipped>>

(* The members whose goroutine is still in f and will run the command. *)
StillToHit ==
    LET rest == {m \in Member : task[m] = "f" /\ Selects(m)} IN
    {K \in SUBSET rest : Cardinality(K) = Quota - taken
                          \/ (K = rest /\ Cardinality(rest) < Quota - taken)}

(* Variant: killLeader does not look at killed. *)
InjectedAnyway == caller = "nil"
Injected == caller = "nil" /\ (Tests[test] = "leader" => taken > 0)

(* It has succeeded; nobody looks at leaderID or at the injector's count again. *)
InjectionDone ==
    /\ pc = "inject" /\ Injected
    /\ Leave
    /\ round' = 1 /\ Goto("quorum")
    /\ leaderID' = none /\ taken' = 0 /\ onceErr' = FALSE /\ hit' = {}
    /\ UNCHANGED <<test, tries, stressers, checkVars, differ, envVars, stray, history, faults>>

(* An error skips the test: nobody stops its stresser, nobody waits for the  *)
(* goroutines that are still running.                                        *)
InjectionFails ==
    /\ pc = "inject" /\ ~Injected
    /\ Leave
    /\ \E K \in StillToHit : stray' = stray \cup ({test} \X K)
    /\ NextTest
    /\ skipped' = TRUE
    /\ UNCHANGED <<stressers, differ, envVars, disturbed, faults>>

(* What an abandoned goroutine does in the end, or fails to do. *)
StrayKill(s) ==
    /\ s \in stray
    /\ stray' = stray \ {s}
    /\ Down(s[2]) \/ UNCHANGED <<envVars, disturbed>>
    /\ UNCHANGED <<callVars, pc, runVars, checkVars, fiVars, differ, skipped, faults>>

-----------------------------------------------------------------------------
(* Cleanup and IsConsistent *)

(* Until it is stopped, a stresser writes: sixteen goroutines, without end.  *)
Writing == stressers # {}

(* f of GetRevisionsHashes: Status and HashKV.  Under writes the answers differ. *)
Hashes(m) ==
    /\ pc \in {"revisions", "consistent"}
    /\ IF m \in up
       THEN /\ Outcome(m, "ok")
            /\ differ' \in {differ, pc = "consistent" /\ Writing}
       ELSE Outcome(m, "err") /\ UNCHANGED differ
    /\ UNCHANGED <<pc, runVars, checkVars, fiVars, envVars, stray, history, faults>>

(* f of Cleanup.  That the members are defragmented in turn does not show here. *)
Defragment(m) ==
    /\ pc = "defrag"
    /\ Outcome(m, IF m \in up THEN "ok" ELSE "err")
    /\ UNCHANGED <<pc, runVars, checkVars, fiVars, differ, envVars, stray, history, faults>>

(* NewClient fails, or a request of f to a member that is up. *)
ClientFails(m) ==
    /\ \/ Fault("client") /\ Outcome(m, "lost")
       \/ /\ pc \in {"revisions", "consistent", "defrag"}
          /\ Fault("request") /\ Outcome(m, "err")
    /\ disturbed' = TRUE
    /\ UNCHANGED <<pc, runVars, checkVars, fiVars, differ, envVars, stray, skipped>>

Consistent == caller = "nil" /\ ~differ

(* Variant: one attempt more. *)
LastTryIsExtra == tries = Tries
LastTry == tries + 1 = Tries

(* The marker is verified afterwards; that only logs. *)
Compared ==
    /\ pc = "consistent" /\ Leave
    /\ IF Consistent THEN NextTest /\ UNCHANGED stressers
       ELSE /\ tries' = tries + 1
            /\ Goto(IF LastTry THEN "inconsistent" ELSE "consistent")
            /\ UNCHANGED <<test, round, leaderID, stressers, checkVars, fiVars>>
    /\ UNCHANGED <<differ, envVars, stray, history, faults>>

-----------------------------------------------------------------------------
(* The cluster: what befalls it, and what the fleet makes of it *)

Crash(m) ==
    /\ m \in up /\ Fault("crash")
    /\ Down(m)
    /\ UNCHANGED <<callVars, pc, runVars, checkVars, fiVars, differ, stray, skipped>>

StepDown ==
    /\ leader # none /\ Fault("stepdown")
    /\ leader' = none /\ disturbed' = TRUE
    /\ UNCHANGED <<callVars, pc, runVars, checkVars, fiVars, differ, up, listed, stray, skipped>>

Rest == UNCHANGED <<callVars, pc, runVars, checkVars, fiVars, differ, stray, history, faults>>

Elect ==
    /\ leader = none /\ Quorum(up)
    /\ leader' \in up \cap listed
    /\ Rest /\ UNCHANGED <<up, listed>>

(* The cleaner of another member takes it off the list. *)
Expel(m) ==
    /\ leader # none /\ m \in listed \ up
    /\ listed' = listed \ {m}
    /\ Rest /\ UNCHANGED <<up, leader>>

(* A member that joins anew has another ID than the one isHealthy was told of.  *)
(* The goroutines of the injection compare with the list that they began with. *)
NewID(m) ==
    /\ lead' = IF lead = m THEN gone ELSE lead
    /\ leaderID' = IF leaderID = m /\ ~(pc = "inject" /\ caller # "idle") THEN gone ELSE leaderID

(* It comes back, as the member it was or, expelled or in a new cluster, anew. *)
Heal(m) ==
    /\ m \notin up
    /\ NewID(m) \/ (m \in listed /\ UNCHANGED <<lead, leaderID>>)
    /\ up' = up \cup {m} /\ listed' = listed \cup {m}
    /\ leader' = IF 2 * Cardinality(up' \cap listed') > Cardinality(listed') THEN leader ELSE none
    /\ UNCHANGED <<callVars, pc, test, round, tries, stressers, healthy, unhealthy, changed,
                   fiVars, differ, stray, history, faults>>

-----------------------------------------------------------------------------
RunTest ==
    Call \/ CallFails \/ RevisionsRead \/ Compact \/ Defragmented \/ SetMarker
    \/ CheckQuorum \/ StatusRead \/ InjectionDone \/ InjectionFails \/ Compared
F(m) == Status(m) \/ Spare(m) \/ Kill(m) \/ Hashes(m) \/ Defragment(m)
Results == Transport /\ UNCHANGED <<pc, runVars, checkVars, fiVars, differ, envVars, stray,
                                    history, faults>>
Trouble == StepDown \/ \E m \in Member : Crash(m) \/ ClientFails(m) \/ Expel(m)

Next ==
    \/ RunTest
    \/ \E m \in Member : F(m)
    \/ Results
    \/ \E s \in stray : StrayKill(s)
    \/ Elect \/ \E m \in Member : Heal(m)
    \/ Trouble

(* The runtime schedules every goroutine, requests end, the fleet repairs.   *)
Spec ==
    /\ Init /\ [][Next]_vars
    /\ WF_vars(RunTest) /\ WF_vars(Results)
    /\ \A m \in Member : WF_vars(F(m)) /\ WF_vars(Heal(m))
    /\ WF_vars(Elect)

-----------------------------------------------------------------------------
(* The failure starts in a cluster whose configured members have all         *)
(* answered, although the goroutines that count them race and a member       *)
(* nobody could connect to is not counted at all (client.go:33-78).         *)
StartsHealthy == pc = "inject" /\ caller = "idle" => called = Member /\ healthy = Member

(* A test that goes on has hit what its name says, and nobody else: the      *)
(* leader it was told of, one other member, a majority, or whoever is listed *)
(* (test_cases.go:50-178).                                                  *)
Named ==
    CASE Tests[test] = "leader" -> hit = {leaderID}
      [] Tests[test] = "slave"  -> /\ leaderID \notin hit
                                   /\ Cardinality(hit) = 1 \/ called = {leaderID}
      [] Tests[test] = "majority" ->
            Cardinality(hit) = Size \div 2 + 1 \/ (hit = called /\ 2 * Cardinality(hit) <= Size)
      [] Tests[test] = "all"    -> hit = called
HitAsNamed == [][pc = "inject" /\ pc' = "quorum" => Named]_vars

(* The verdict that the members are inconsistent is never due to the tester's *)
(* own writes, unless a skipped test left its stresser behind               *)
(* (tester.go:98-122).                                                      *)
TrueVerdict == pc = "inconsistent" => skipped \/ disturbed

(* The run ends: once nothing goes wrong any more, no result is waited for   *)
(* in vain and the cluster passes the checks in a row (tester.go:102-113,   *)
(* client.go:118-123).                                                      *)
SuiteEnds == <>(pc \in Ended)
=============================================================================
