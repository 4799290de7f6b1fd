---------------------------- MODULE TesterProofs ----------------------------
(***************************************************************************)
(* Proofs about the tester, for any number of members, tests and faults.   *)
(*                                                                         *)
(* ForEachMember keeps its promise whatever the functions it calls do      *)
(* (CallInv, RoomInv); a failure starts from a healthy cluster (CheckInv); *)
(* the state is well formed (RunInv); a verdict is not the tester's own    *)
(* doing (VerdictInv); an injection hits whom it names (HitInv).           *)
(***************************************************************************)
EXTENDS Tester, FiniteSetTheorems, TLAPS

(* The members whose only result was "", and has been read. *)
Clean == {m \in called : task[m] = "ended" /\ \A ok \in BOOLEAN : <<m, ok>> \notin unread}

(* Where a goroutine is, and what it has sent. *)
TaskInv ==
    \A m \in Member :
        /\ m \notin called => task[m] = "ended"
        /\ task[m] \in {"err", "lost"} => m \in failed
        /\ <<m, TRUE>> \in unread => task[m] = "ended"

(* Until an error has been read, every read was the "" of another member, and *)
(* the error of a member that failed is still to come.                       *)
ReadInv ==
    caller = "reading" /\ ~errAgg =>
        /\ reads = Cardinality(Clean)
        /\ \A m \in failed : task[m] \in {"err", "lost"} \/ <<m, FALSE>> \in unread

EndInv ==
    /\ caller \in {"idle", "nil"} => \A m \in Member : task[m] = "ended"
    /\ caller = "nil" => failed = {}

CallInv == CallTypeOK /\ TaskInv /\ ReadInv /\ EndInv

LEMMA InitCall ==
  ASSUME CallInit
  PROVE  CallInv
<1>1. errAgg \in BOOLEAN
  BY DEF CallInit
<1>2. \A m \in Member : task[m] = "ended"
  BY DEF CallInit
<1>3. CallTypeOK
  BY <1>1 DEF CallInit, CallTypeOK, Stage
<1> QED BY <1>2, <1>3 DEF CallInit, CallInv, TaskInv, ReadInv, EndInv

LEMMA CalledIsFinite == CallTypeOK => IsFiniteSet(called)
  BY MemberAssumption, FS_Subset DEF CallTypeOK

LEMMA BeginCall ==
  ASSUME CallInv, NEW ms \in SUBSET Member, Begin(ms)
  PROVE  CallInv'
<1>1. CallTypeOK' /\ TaskInv' /\ EndInv'
  BY DEF CallInv, CallTypeOK, TaskInv, EndInv, Begin, Stage
<1>2. Clean' = {}
  BY DEF Clean, Begin
<1>3. ReadInv'
  BY <1>2, FS_EmptySet DEF ReadInv, Begin
<1> QED BY <1>1, <1>3 DEF CallInv

LEMMA OutcomeCall ==
  ASSUME CallInv, NEW m \in Member, NEW stage \in {"ok", "err", "lost"}, Outcome(m, stage)
  PROVE  CallInv'
<1>1. m \in called
  BY DEF CallInv, TaskInv, Outcome
<1>2. CallTypeOK' /\ TaskInv' /\ EndInv'
  BY <1>1 DEF CallInv, CallTypeOK, TaskInv, EndInv, Outcome, Stage
<1>3. Clean' = Clean
  BY DEF Clean, Outcome, CallInv, CallTypeOK
<1>4. ReadInv'
  BY <1>1, <1>3 DEF ReadInv, Outcome, CallInv, CallTypeOK
<1> QED BY <1>2, <1>4 DEF CallInv

LEMMA SendCall ==
  ASSUME CallInv, NEW m \in Member, Send(m)
  PROVE  CallInv'
<1>1. m \in called
  BY DEF CallInv, TaskInv, Send
<1>2. CallTypeOK' /\ TaskInv' /\ EndInv'
  <2> PICK ok \in BOOLEAN, stage \in {"ok", "ended"} :
              /\ unread' = unread \cup {<<m, ok>>}
              /\ task' = [task EXCEPT ![m] = stage]
              /\ ok => stage = "ended"
    BY DEF Send, Result
  <2>1. CallTypeOK'
    BY <1>1 DEF CallInv, CallTypeOK, Send, Stage
  <2>2. TaskInv'
    BY <1>1 DEF CallInv, CallTypeOK, TaskInv, Send
  <2>3. EndInv'
    BY DEF CallInv, EndInv, Send
  <2> QED BY <2>1, <2>2, <2>3
<1>3. Clean' = Clean
  BY <1>1 DEF Clean, Send, Result, CallInv, CallTypeOK, TaskInv
<1>4. ReadInv'
  BY <1>1, <1>3 DEF ReadInv, Send, Result, CallInv, CallTypeOK, TaskInv
<1> QED BY <1>2, <1>4 DEF CallInv

LEMMA ReceiveCall ==
  ASSUME CallInv, NEW m \in Member, NEW ok \in BOOLEAN, Receive(m, ok)
  PROVE  CallInv'
<1>1. CallTypeOK' /\ TaskInv' /\ EndInv'
  <2>1. errAgg' \in BOOLEAN /\ unread' \subseteq unread /\ reads' \in Nat
    BY DEF CallInv, CallTypeOK, Receive
  <2> QED BY <2>1 DEF CallInv, CallTypeOK, TaskInv, EndInv, Receive
<1>2. ReadInv'
  <2> SUFFICES ASSUME caller' = "reading", ~errAgg'
               PROVE  /\ reads' = Cardinality(Clean')
                      /\ \A n \in failed' : task'[n] \in {"err", "lost"} \/ <<n, FALSE>> \in unread'
    BY DEF ReadInv
  <2>1. ok /\ ~errAgg /\ <<m, TRUE>> \in unread /\ <<m, FALSE>> \notin unread
    BY DEF Receive, CallInv, CallTypeOK
  <2>2. m \in called /\ task[m] = "ended" /\ m \notin Clean
    BY <2>1 DEF CallInv, CallTypeOK, TaskInv, Clean
  <2>3. Clean' = Clean \cup {m}
    BY <2>1, <2>2 DEF Clean, Receive, CallInv, CallTypeOK
  <2>4. IsFiniteSet(Clean)
    BY CalledIsFinite, FS_Subset DEF Clean, CallInv
  <2>5. Cardinality(Clean') = Cardinality(Clean) + 1
    BY <2>2, <2>3, <2>4, FS_AddElement
  <2>6. reads' = Cardinality(Clean')
    BY <2>1, <2>5 DEF Receive, CallInv, ReadInv
  <2>7. \A n \in failed' : task'[n] \in {"err", "lost"} \/ <<n, FALSE>> \in unread'
    BY <2>1 DEF Receive, CallInv, ReadInv
  <2> QED BY <2>6, <2>7
<1> QED BY <1>1, <1>2 DEF CallInv

(* Reads of different members, as many as were called: nobody is left out. *)
LEMMA ReturnCall ==
  ASSUME CallInv, Return
  PROVE  CallInv'
<1>1. CallTypeOK' /\ TaskInv' /\ ReadInv'
  BY DEF CallInv, CallTypeOK, TaskInv, ReadInv, Return
<1>2. EndInv'
  <2> SUFFICES ASSUME caller' = "nil"
               PROVE  failed = {} /\ \A m \in Member : task[m] = "ended"
    BY DEF EndInv, Return
  <2>1. ~errAgg /\ Cardinality(Clean) = Cardinality(called)
    BY DEF Return, CallInv, ReadInv, CallTypeOK
  <2>2. Clean = called
    BY <2>1, CalledIsFinite, FS_Subset DEF Clean, CallInv
  <2>3. \A m \in Member : task[m] = "ended"
    BY <2>2 DEF Clean, CallInv, TaskInv
  <2>4. failed = {}
    BY <2>1, <2>2 DEF Clean, CallInv, CallTypeOK, ReadInv, Return
  <2> QED BY <2>3, <2>4
<1> QED BY <1>1, <1>2 DEF CallInv

LEMMA CallStep == CallInv /\ [CallNext]_callVars => CallInv'
<1> SUFFICES ASSUME CallInv, [CallNext]_callVars PROVE CallInv'
  OBVIOUS
<1>1. ASSUME NEW ms \in SUBSET Member, Begin(ms) PROVE CallInv'
  BY <1>1, BeginCall
<1>2. CASE ListFails
  BY <1>2 DEF ListFails, CallInv, CallTypeOK, TaskInv, ReadInv, EndInv, Stage
<1>3. ASSUME NEW m \in Member, NEW stage \in {"ok", "err", "lost"}, Outcome(m, stage)
      PROVE  CallInv'
  BY <1>3, OutcomeCall
<1>4. CASE Transport
  <2>1. CASE Return
    BY <2>1, ReturnCall
  <2>2. ASSUME NEW m \in Member, Send(m) PROVE CallInv'
    BY <2>2, SendCall
  <2>3. ASSUME NEW m \in Member, NEW ok \in BOOLEAN, Receive(m, ok) PROVE CallInv'
    BY <2>3, ReceiveCall
  <2> QED BY <1>4, <2>1, <2>2, <2>3 DEF Transport
<1>5. CASE Leave
  BY <1>5 DEF Leave, CallInv, CallTypeOK, TaskInv, ReadInv, EndInv, Stage
<1>6. CASE UNCHANGED callVars
  BY <1>6 DEF callVars, CallInv, CallTypeOK, TaskInv, ReadInv, EndInv, Clean
<1> QED BY <1>1, <1>2, <1>3, <1>4, <1>5, <1>6 DEF CallNext
-----------------------------------------------------------------------------
(* What is in errChan or may still be sent to it. *)
Owed == unread \cup ToSend

(* A goroutine sends at most two results and each read takes one of them, so *)
(* after as many reads as there are members at most as many are left.        *)
RoomInv ==
    /\ \A m \in Member : <<m, FALSE>> \in unread => task[m] \in {"ok", "ended"}
    /\ caller # "idle" => Cardinality(Owed) + reads <= 2 * Cardinality(called)
    /\ caller \in {"nil", "error"} => reads = Cardinality(called)

LEMMA PairCount ==
  ASSUME NEW a, NEW b, a # b
  PROVE  IsFiniteSet({a, b}) /\ Cardinality({a, b}) = 2
<1>1. IsFiniteSet({a}) /\ Cardinality({a}) = 1
  BY FS_Singleton
<1>2. IsFiniteSet({a} \cup {b}) /\ Cardinality({a} \cup {b}) = 2
  BY <1>1, FS_AddElement
<1>3. {a} \cup {b} = {a, b}
  OBVIOUS
<1> QED BY <1>2, <1>3

LEMMA AtMostTwice ==
  ASSUME NEW C, IsFiniteSet(C), NEW O \in SUBSET (C \X BOOLEAN)
  PROVE  IsFiniteSet(O) /\ Cardinality(O) \in Nat /\ Cardinality(O) <= 2 * Cardinality(C)
<1>1. IsFiniteSet(BOOLEAN) /\ Cardinality(BOOLEAN) = 2
  <2>1. TRUE # FALSE
    OBVIOUS
  <2>2. IsFiniteSet({TRUE, FALSE}) /\ Cardinality({TRUE, FALSE}) = 2
    BY <2>1, PairCount, Zenon
  <2>3. BOOLEAN = {TRUE, FALSE}
    OBVIOUS
  <2> QED BY <2>2, <2>3, Zenon
<1>2. Cardinality(C) \in Nat
  BY FS_CardinalityType
<1>3. IsFiniteSet(C \X BOOLEAN) /\ Cardinality(C \X BOOLEAN) = 2 * Cardinality(C)
  BY <1>1, <1>2, FS_Product
<1>4. IsFiniteSet(O) /\ Cardinality(O) <= Cardinality(C \X BOOLEAN)
  BY <1>3, FS_Subset
<1> QED BY <1>3, <1>4, FS_CardinalityType

LEMMA SentOfSome ==
  ASSUME NEW C, NEW A \in SUBSET C, NEW B \in SUBSET C
  PROVE  {<<m, FALSE>> : m \in A} \cup {<<m, TRUE>> : m \in B} \subseteq C \X BOOLEAN
<1>1. {<<m, FALSE>> : m \in A} \subseteq C \X BOOLEAN
  <2>1. \A m \in A : <<m, FALSE>> \in C \X BOOLEAN
    OBVIOUS
  <2> QED BY <2>1, Zenon
<1>2. {<<m, TRUE>> : m \in B} \subseteq C \X BOOLEAN
  <2>1. \A m \in B : <<m, TRUE>> \in C \X BOOLEAN
    OBVIOUS
  <2> QED BY <2>1, Zenon
<1>3. \A S, T, U : S \subseteq U /\ T \subseteq U => S \cup T \subseteq U
  OBVIOUS
<1> QED BY <1>1, <1>2, <1>3, Zenon

LEMMA SentOfCalled == ToSend \subseteq called \X BOOLEAN
<1> DEFINE Failing == {n \in called : task[n] \in {"f", "err", "lost"}}
           Ending  == {n \in called : task[n] \in {"f", "err", "ok"}}
<1>1. Failing \in SUBSET called /\ Ending \in SUBSET called
  OBVIOUS
<1>2. ToSend = {<<m, FALSE>> : m \in Failing} \cup {<<m, TRUE>> : m \in Ending}
  BY DEF ToSend
<1> HIDE DEF Failing, Ending
<1> QED BY <1>1, <1>2, SentOfSome, Zenon

LEMMA OwedIsCounted ==
  ASSUME CallInv
  PROVE  /\ Owed \in SUBSET (called \X BOOLEAN) /\ IsFiniteSet(Owed)
         /\ Cardinality(Owed) \in Nat /\ Cardinality(called) \in Nat /\ reads \in Nat
<1>1. Owed \in SUBSET (called \X BOOLEAN)
  <2>1. unread \subseteq called \X BOOLEAN
    BY DEF CallInv, CallTypeOK
  <2> QED BY <2>1, SentOfCalled DEF Owed
<1>2. IsFiniteSet(called)
  BY CalledIsFinite DEF CallInv
<1> QED BY <1>1, <1>2, AtMostTwice, FS_CardinalityType DEF CallInv, CallTypeOK

(* The steps that owe nothing more to the caller, who does not read. *)
LEMMA LessIsOwed ==
  ASSUME CallInv, RoomInv, Owed' \subseteq Owed, called' = called, reads' = reads,
         caller' = "idle" => caller = "idle", caller = "idle" => caller' = "idle"
  PROVE  caller' # "idle" => Cardinality(Owed') + reads' <= 2 * Cardinality(called')
<1>1. Cardinality(Owed') \in Nat /\ Cardinality(Owed') <= Cardinality(Owed)
  BY OwedIsCounted, FS_Subset, FS_CardinalityType
<1> QED BY <1>1, OwedIsCounted DEF RoomInv

LEMMA RoomStep == CallInv /\ RoomInv /\ [CallNext]_callVars => RoomInv'
<1> SUFFICES ASSUME CallInv, RoomInv, [CallNext]_callVars PROVE RoomInv'
  OBVIOUS
<1>1. ASSUME NEW ms \in SUBSET Member, Begin(ms) PROVE RoomInv'
  <2>1. Owed' \in SUBSET (called' \X BOOLEAN) /\ IsFiniteSet(called')
    <3>1. unread' = {} /\ called' = ms
      BY <1>1 DEF Begin
    <3>2. ToSend' \subseteq called' \X BOOLEAN
      <4> DEFINE Failing == {n \in called' : task'[n] \in {"f", "err", "lost"}}
                 Ending  == {n \in called' : task'[n] \in {"f", "err", "ok"}}
      <4>1. Failing \in SUBSET called' /\ Ending \in SUBSET called'
        OBVIOUS
      <4>2. ToSend' = {<<m, FALSE>> : m \in Failing} \cup {<<m, TRUE>> : m \in Ending}
        BY DEF ToSend
      <4> HIDE DEF Failing, Ending
      <4> QED BY <4>1, <4>2, SentOfSome, Zenon
    <3>3. IsFiniteSet(called')
      BY <3>1, MemberAssumption, FS_Subset
    <3> QED BY <3>1, <3>2, <3>3 DEF Owed
  <2>2. Cardinality(Owed') \in Nat /\ Cardinality(Owed') <= 2 * Cardinality(called')
    BY <2>1, AtMostTwice
  <2> QED BY <1>1, <2>2 DEF RoomInv, Begin
<1>2. CASE ListFails
  <2>1. Owed' = {} /\ called' = {}
    BY <1>2 DEF Owed, ToSend, ListFails
  <2> QED BY <1>2, <2>1, FS_EmptySet DEF RoomInv, ListFails
<1>3. ASSUME NEW m \in Member, NEW stage \in {"ok", "err", "lost"}, Outcome(m, stage)
      PROVE  RoomInv'
  <2>1. Owed' \subseteq Owed
    BY <1>3 DEF Owed, ToSend, Outcome, CallInv, CallTypeOK
  <2>2. \A n \in Member : <<n, FALSE>> \in unread' => task'[n] \in {"ok", "ended"}
    BY <1>3 DEF RoomInv, Outcome, CallInv, CallTypeOK
  <2>3. called' = called /\ reads' = reads /\ caller' = caller
    BY <1>3 DEF Outcome
  <2> QED BY <2>1, <2>2, <2>3, LessIsOwed DEF RoomInv
<1>4. ASSUME NEW m \in Member, Send(m) PROVE RoomInv'
  <2>1. Owed' \subseteq Owed
    BY <1>4 DEF Owed, ToSend, Send, Result, CallInv, CallTypeOK, TaskInv
  <2>2. \A n \in Member : <<n, FALSE>> \in unread' => task'[n] \in {"ok", "ended"}
    BY <1>4 DEF RoomInv, Send, Result, CallInv, CallTypeOK
  <2>3. called' = called /\ reads' = reads /\ caller' = caller
    BY <1>4 DEF Send
  <2> QED BY <2>1, <2>2, <2>3, LessIsOwed DEF RoomInv
<1>5. ASSUME NEW m \in Member, NEW ok \in BOOLEAN, Receive(m, ok) PROVE RoomInv'
  <2>1. <<m, ok>> \in Owed /\ <<m, ok>> \notin ToSend
    BY <1>5 DEF Owed, ToSend, Receive, RoomInv, CallInv, TaskInv
  <2>2. Owed' = Owed \ {<<m, ok>>}
    BY <1>5, <2>1 DEF Owed, ToSend, Receive
  <2>3. Cardinality(Owed') = Cardinality(Owed) - 1
    BY <2>1, <2>2, OwedIsCounted, FS_RemoveElement
  <2>4. \A n \in Member : <<n, FALSE>> \in unread' => task'[n] \in {"ok", "ended"}
    BY <1>5 DEF RoomInv, Receive
  <2>5. Cardinality(Owed) + reads <= 2 * Cardinality(called)
    BY <1>5 DEF Receive, RoomInv
  <2>6. caller' = "reading" /\ reads' = reads + 1 /\ called' = called
    BY <1>5 DEF Receive
  <2>7. Cardinality(Owed') + reads' <= 2 * Cardinality(called')
    BY <2>3, <2>5, <2>6, OwedIsCounted
  <2> QED BY <2>4, <2>6, <2>7 DEF RoomInv
<1>6. CASE Return
  <2>1. Owed' = Owed
    BY <1>6 DEF Owed, ToSend, Return
  <2> QED BY <1>6, <2>1, OwedIsCounted DEF RoomInv, Return
<1>7. CASE Leave
  BY <1>7 DEF RoomInv, Leave
<1>8. CASE UNCHANGED callVars
  BY <1>8 DEF RoomInv, Owed, ToSend, callVars
<1> QED BY <1>1, <1>2, <1>3, <1>4, <1>5, <1>6, <1>7, <1>8 DEF CallNext, Transport

-----------------------------------------------------------------------------
(* Between two calls nobody is called, and those that isHealthy counted are  *)
(* among those it asked.                                                    *)
CheckInv ==
    /\ listed \subseteq Member
    /\ pc \notin Calls => caller = "idle"
    /\ pc = "status" => IF caller = "idle" THEN healthy = {} ELSE healthy \subseteq called

(* Every step of the tester is one of its current call, or leaves it alone. *)
LEMMA StepOfCall ==
  ASSUME listed \subseteq Member, [Next]_vars
  PROVE  [CallNext]_callVars
<1>1. CASE RunTest
  <2>1. CASE Call
    BY <2>1 DEF Call, CallNext
  <2>2. CASE CallFails
    BY <2>2 DEF CallFails, CallNext
  <2>3. CASE RevisionsRead \/ Defragmented \/ StatusRead \/ InjectionDone \/ InjectionFails \/ Compared
    BY <2>3 DEF RevisionsRead, Defragmented, StatusRead, InjectionDone, InjectionFails, Compared,
                CallNext
  <2>4. CASE Compact \/ SetMarker \/ CheckQuorum
    BY <2>4 DEF Compact, SetMarker, CheckQuorum
  <2> QED BY <1>1, <2>1, <2>2, <2>3, <2>4 DEF RunTest
<1>2. ASSUME NEW m \in Member, F(m) \/ ClientFails(m)
      PROVE  [CallNext]_callVars
  <2>1. \E stage \in {"ok", "err", "lost"} : Outcome(m, stage)
    BY <1>2 DEF F, ClientFails, Status, Spare, Kill, Hashes, Defragment
  <2> QED BY <2>1 DEF CallNext
<1>3. CASE Results
  BY <1>3 DEF Results, CallNext
<1>4. CASE \E s \in stray : StrayKill(s)
  BY <1>4 DEF StrayKill
<1>5. CASE Elect \/ StepDown \/ \E m \in Member : Heal(m) \/ Crash(m) \/ Expel(m)
  BY <1>5 DEF Elect, StepDown, Heal, Crash, Expel, Rest
<1>6. CASE UNCHANGED vars
  BY <1>6 DEF vars
<1> QED BY <1>1, <1>2, <1>3, <1>4, <1>5, <1>6 DEF Next, Trouble

LEMMA CheckStep ==
  ASSUME CallInv, CheckInv, [Next]_vars
  PROVE  CheckInv'
<1> USE DEF CheckInv
<1>1. CASE RunTest
  <2>1. CASE Call
    BY <2>1 DEF Call, Begin, Calls, envVars, checkVars
  <2>2. CASE CallFails
    BY <2>2 DEF CallFails, ListFails, Calls, envVars, checkVars
  <2>3. CASE RevisionsRead
    BY <2>3 DEF RevisionsRead, Cleaned, Goto, Leave, Calls, envVars
  <2>4. CASE Compact
    BY <2>4 DEF Compact, Cleaned, Goto, Calls, envVars, callVars
  <2>5. CASE Defragmented
    BY <2>5 DEF Defragmented, Cleaned, Goto, Leave, Calls, envVars
  <2>6. CASE SetMarker
    BY <2>6 DEF SetMarker, NextTest, Goto, Calls, envVars, callVars
  <2>7. CASE CheckQuorum
    BY <2>7 DEF CheckQuorum, Unhealthy, Goto, Calls, envVars, callVars
  <2>8. CASE StatusRead
    BY <2>8 DEF StatusRead, Healthy, Unhealthy, Goto, Leave, Calls, envVars
  <2>9. CASE InjectionDone
    BY <2>9 DEF InjectionDone, Goto, Leave, Calls, envVars
  <2>10. CASE InjectionFails
    BY <2>10 DEF InjectionFails, NextTest, Goto, Leave, Calls, envVars
  <2>11. CASE Compared
    BY <2>11 DEF Compared, NextTest, Goto, Leave, Calls, envVars
  <2> QED BY <1>1, <2>1, <2>2, <2>3, <2>4, <2>5, <2>6, <2>7, <2>8, <2>9, <2>10, <2>11 DEF RunTest
<1>2. ASSUME NEW m \in Member, F(m) \/ ClientFails(m)
      PROVE  CheckInv'
  <2>1. PICK stage \in {"ok", "err", "lost"} : Outcome(m, stage)
    BY <1>2 DEF F, ClientFails, Status, Spare, Kill, Hashes, Defragment
  <2>2. m \in called /\ caller # "idle"
    BY <2>1 DEF Outcome, CallInv, TaskInv, EndInv
  <2>3. pc' = pc /\ caller' = caller /\ called' = called /\ listed' = listed
    BY <1>2, <2>1 DEF F, ClientFails, Status, Spare, Kill, Hashes, Defragment, Outcome, Down,
                      Untouched, envVars
  <2>4. healthy' = healthy \/ healthy' = healthy \cup {m}
    BY <1>2 DEF F, ClientFails, Status, Spare, Kill, Hashes, Defragment, checkVars
  <2> QED BY <2>2, <2>3, <2>4
<1>3. CASE Results
  BY <1>3 DEF Results, Transport, Return, Send, Receive, Calls, envVars, checkVars
<1>4. CASE \E s \in stray : StrayKill(s)
  BY <1>4 DEF StrayKill, Down, callVars, checkVars, envVars
<1>5. CASE Elect \/ StepDown \/ \E m \in Member : Heal(m) \/ Crash(m) \/ Expel(m)
  BY <1>5 DEF Elect, StepDown, Heal, Crash, Expel, Rest, Down, callVars, checkVars
<1>6. CASE UNCHANGED vars
  BY <1>6 DEF vars, callVars, checkVars, envVars
<1> QED BY <1>1, <1>2, <1>3, <1>4, <1>5, <1>6 DEF Next, Trouble

LEMMA CallsHold == Spec => [](CallInv /\ CheckInv)
<1>1. Init => CallInv /\ CheckInv
  BY InitCall DEF Init, CheckInv, Calls, CallInit
<1>2. CallInv /\ CheckInv /\ [Next]_vars => (CallInv /\ CheckInv)'
  BY StepOfCall, CallStep, CheckStep DEF CheckInv
<1> QED BY <1>1, <1>2, PTL DEF Spec

(* In every run of the tester, a ForEachMember that returns nil has run its  *)
(* function on every listed member with success (client.go:94-129).         *)
THEOREM NilIsHonest == Spec => []NilMeansAll
<1>1. CallInv => NilMeansAll
  BY DEF CallInv, CallTypeOK, EndInv, NilMeansAll
<1> QED BY <1>1, CallsHold, PTL

(* In every run of the tester, errChan has room for whatever the goroutines  *)
(* that a returned ForEachMember left behind may still send: none of them    *)
(* blocks for ever, although a member that failed sends twice               *)
(* (client.go:101-117).                                                     *)
THEOREM NobodyBlocks == Spec => []RoomForAll
<1>1. Init => RoomInv
  BY DEF Init, CallInit, RoomInv
<1>2. CallInv /\ CheckInv /\ RoomInv /\ [Next]_vars => RoomInv'
  BY StepOfCall, RoomStep DEF CheckInv
<1>3. CallInv /\ RoomInv => RoomForAll
  BY OwedIsCounted DEF RoomInv, RoomForAll, Capacity, Owed
<1> QED BY <1>1, <1>2, <1>3, CallsHold, PTL DEF Spec

(* If the configured size is that of the cluster, no failure is injected     *)
(* before every member has answered, whatever the race between the           *)
(* goroutines of isHealthy does to its counts (tester/client.go:33-66).     *)
THEOREM HealthyAtFirst ==
  ASSUME Size = Cardinality(Member)
  PROVE  Spec => []StartsHealthy
<1>1. Init => StartsHealthy
  BY DEF Init, StartsHealthy
<1>2. CallInv /\ CheckInv /\ StartsHealthy /\ [Next]_vars => StartsHealthy'
  <2> SUFFICES ASSUME CallInv, CheckInv, StartsHealthy, [Next]_vars,
                      pc' = "inject", caller' = "idle"
               PROVE  called' = Member /\ healthy' = Member
    BY DEF StartsHealthy
  <2>1. CASE RunTest
    <3>1. CASE StatusRead
      <4>1. AllHealthy /\ called' = called /\ healthy' = healthy /\ healthy \subseteq called
        BY <3>1 DEF StatusRead, Unhealthy, Goto, Leave, checkVars, CheckInv
      <4>2. called \subseteq Member /\ healthy \subseteq Member
        BY <4>1 DEF CallInv, CallTypeOK
      <4>3. healthy = Member
        BY <4>1, <4>2, MemberAssumption, FS_Subset DEF AllHealthy
      <4> QED BY <4>1, <4>2, <4>3
    <3>2. ~(Call \/ CallFails \/ Compact \/ SetMarker \/ CheckQuorum)
      BY DEF Call, Begin, CallFails, ListFails, Compact, Cleaned, SetMarker, NextTest, CheckQuorum,
             Unhealthy, Goto
    <3>3. ~(RevisionsRead \/ Defragmented \/ InjectionDone \/ InjectionFails \/ Compared)
      BY DEF RevisionsRead, Defragmented, Cleaned, InjectionDone, InjectionFails, Compared,
             NextTest, Goto
    <3> QED BY <2>1, <3>1, <3>2, <3>3 DEF RunTest
  <2>2. ASSUME NEW m \in Member, F(m) \/ ClientFails(m)
        PROVE  FALSE
    <3>1. PICK stage \in {"ok", "err", "lost"} : Outcome(m, stage)
      BY <2>2 DEF F, ClientFails, Status, Spare, Kill, Hashes, Defragment
    <3> QED BY <3>1 DEF Outcome, CallInv, EndInv
  <2>3. CASE Results
    BY <2>3 DEF Results, Transport, Return, Send, Receive, checkVars, StartsHealthy
  <2>4. CASE \E s \in stray : StrayKill(s)
    BY <2>4 DEF StrayKill, callVars, checkVars, StartsHealthy
  <2>5. CASE Elect \/ StepDown \/ \E m \in Member : Heal(m) \/ Crash(m) \/ Expel(m)
    BY <2>5 DEF Elect, StepDown, Heal, Crash, Expel, Rest, callVars, checkVars, StartsHealthy
  <2>6. CASE UNCHANGED vars
    BY <2>6 DEF vars, callVars, checkVars, StartsHealthy
  <2> QED BY <2>1, <2>2, <2>3, <2>4, <2>5, <2>6 DEF Next, Trouble
<1> QED BY <1>1, <1>2, CallsHold, PTL DEF Spec
-----------------------------------------------------------------------------
(* The types.  A test that is under way is one of Tests, and has attempts left. *)
RunInv ==
    /\ TypeOK
    /\ pc \in {"marker", "quorum", "status", "inject", "consistent"} => test <= Len(Tests)
    /\ pc # "inconsistent" => tries < Tries

TypedRun ==
    /\ test \in 1 .. Len(Tests) + 1 /\ round \in 0 .. Rounds /\ tries \in 0 .. Tries
    /\ leaderID \in Member \cup {none, gone} /\ stressers \subseteq DOMAIN Tests
TypedCheck ==
    /\ healthy \subseteq Member /\ unhealthy \in BOOLEAN
    /\ lead \in Member \cup {none, gone} /\ changed \in BOOLEAN
TypedHit == taken \in Nat /\ onceErr \in BOOLEAN /\ hit \subseteq Member
TypedEnv == up \subseteq Member /\ listed \subseteq Member /\ leader \in up \cup {none}
TypedHistory == skipped \in BOOLEAN /\ disturbed \in BOOLEAN
TypedStray == stray \subseteq (DOMAIN Tests) \X Member
(* Where runTest is, and what may be done there. *)
Placed ==
    /\ pc \in Calls \cup {"compact", "marker", "quorum"} \cup Ended
    /\ pc \in {"marker", "quorum", "status", "inject", "consistent"} => test <= Len(Tests)
    /\ pc # "inconsistent" => tries < Tries

LEMMA RunInvIs ==
  RunInv <=> /\ CallTypeOK /\ Placed /\ TypedRun /\ TypedCheck /\ TypedHit /\ TypedEnv
             /\ TypedHistory /\ TypedStray /\ differ \in BOOLEAN /\ faults \in 0 .. MaxFaults
  BY DEF RunInv, TypeOK, Placed, TypedRun, TypedCheck, TypedHit, TypedEnv, TypedHistory, TypedStray

LEMMA RunTyped ==
  ASSUME CallTypeOK', Placed', TypedRun', TypedCheck', TypedHit', TypedEnv', TypedHistory',
         TypedStray', differ' \in BOOLEAN, faults' \in 0 .. MaxFaults
  PROVE  RunInv'
  BY DEF RunInv, TypeOK, Placed, TypedRun, TypedCheck, TypedHit, TypedEnv, TypedHistory, TypedStray

LEMMA StaysTyped ==
  ASSUME RunInv
  PROVE  /\ UNCHANGED runVars => TypedRun' /\ (UNCHANGED pc => Placed')
         /\ UNCHANGED checkVars => TypedCheck'
         /\ UNCHANGED fiVars => TypedHit'
         /\ UNCHANGED envVars => TypedEnv'
         /\ UNCHANGED history => TypedHistory'
         /\ UNCHANGED stray => TypedStray'
         /\ UNCHANGED differ => differ' \in BOOLEAN
         /\ UNCHANGED faults => faults' \in 0 .. MaxFaults
<1>1. TypedRun /\ Placed /\ (UNCHANGED runVars => TypedRun' /\ (UNCHANGED pc => Placed'))
  BY RunInvIs DEF TypedRun, runVars, Placed
<1>2. UNCHANGED checkVars => TypedCheck'
  BY RunInvIs DEF TypedCheck, checkVars
<1>3. UNCHANGED fiVars => TypedHit'
  BY RunInvIs DEF TypedHit, fiVars
<1>4. UNCHANGED envVars => TypedEnv'
  BY RunInvIs DEF TypedEnv, envVars
<1>5. /\ UNCHANGED history => TypedHistory'
      /\ UNCHANGED stray => TypedStray'
      /\ UNCHANGED differ => differ' \in BOOLEAN
      /\ UNCHANGED faults => faults' \in 0 .. MaxFaults
  BY RunInvIs DEF TypedHistory, TypedStray, history
<1> QED BY <1>1, <1>2, <1>3, <1>4, <1>5

LEMMA FaultIsTyped ==
  ASSUME RunInv, NEW kind, Fault(kind)
  PROVE  faults' \in 0 .. MaxFaults
  BY RunInvIs, TesterAssumption DEF Fault

LEMMA DownIsTyped ==
  ASSUME RunInv, NEW m, Down(m)
  PROVE  TypedEnv' /\ disturbed' = TRUE
  BY RunInvIs DEF Down, TypedEnv

LEMMA NextTestIsTyped ==
  ASSUME RunInv, pc # "finished", NextTest, test <= Len(Tests), stressers' = stressers
  PROVE  Placed' /\ TypedRun' /\ TypedCheck' /\ TypedHit'
<1>1. /\ test' = test + 1 /\ round' = 0 /\ tries' = 0 /\ leaderID' = none /\ pc' = "revisions"
      /\ healthy' = {} /\ unhealthy' = FALSE /\ lead' = none /\ changed' = FALSE
      /\ taken' = 0 /\ onceErr' = FALSE /\ hit' = {}
  BY DEF NextTest, Goto
<1>2. Len(Tests) \in Nat /\ Rounds \in Nat /\ Tries \in Nat /\ 0 < Tries
  BY TesterAssumption
<1>3. TypedRun /\ test + 1 \in 1 .. Len(Tests) + 1
  BY <1>2, RunInvIs DEF TypedRun
<1>4. TypedRun'
  BY <1>1, <1>2, <1>3 DEF TypedRun
<1>5. Placed'
  BY <1>1, <1>2 DEF Placed, Calls
<1> QED BY <1>1, <1>4, <1>5 DEF TypedCheck, TypedHit

(* What runTest makes of the answer of isHealthy. *)
LEMMA HealthyIsTyped ==
  ASSUME RunInv, pc \in {"quorum", "status"}, Healthy \/ Unhealthy
  PROVE  Placed' /\ TypedRun'
<1>1. Rounds \in Nat /\ 0 < Rounds /\ Len(Tests) \in Nat /\ DOMAIN Tests = 1 .. Len(Tests)
  BY TesterAssumption
<1>2. TypedRun /\ Placed /\ test <= Len(Tests) /\ tries < Tries
      /\ lead \in Member \cup {none, gone}
  BY RunInvIs DEF Placed, TypedCheck
<1>3. test \in DOMAIN Tests
  BY <1>1, <1>2 DEF TypedRun
<1>4. CASE Unhealthy
  <2>1. /\ UNCHANGED <<test, tries, leaderID, stressers>>
        /\ round' = round \/ round' = 1
        /\ pc' \in {"unhealthy", "quorum"}
    BY <1>4 DEF Unhealthy, Goto
  <2>2. TypedRun'
    BY <1>1, <1>2, <2>1 DEF TypedRun
  <2> QED BY <1>2, <2>1, <2>2 DEF Placed, Ended
<1>5. CASE Healthy
  <2>1. /\ UNCHANGED <<test, tries>>
        /\ round' = round \/ (round \in 1 .. Rounds - 1 /\ round' = round + 1)
        /\ leaderID' = leaderID \/ leaderID' = lead
        /\ stressers' \in {stressers, stressers \cup {test}, stressers \ {test}}
        /\ pc' \in {"inject", "quorum", "consistent"}
    BY <1>5 DEF Healthy, Goto
  <2>2. round' \in 0 .. Rounds
    BY <1>1, <1>2, <2>1 DEF TypedRun
  <2>3. TypedRun'
    BY <1>2, <1>3, <2>1, <2>2 DEF TypedRun
  <2> QED BY <1>2, <2>1, <2>3 DEF Placed, Calls
<1> QED BY <1>4, <1>5

(* Types: what runTest does between two calls. *)
LEMMA RunTestIsTyped ==
  ASSUME RunInv, CallTypeOK', RunTest
  PROVE  RunInv'
<1> USE StaysTyped, FaultIsTyped
<1> SUFFICES /\ Placed' /\ TypedRun' /\ TypedCheck' /\ TypedHit' /\ TypedEnv'
             /\ TypedHistory' /\ TypedStray' /\ differ' \in BOOLEAN /\ faults' \in 0 .. MaxFaults
  BY RunTyped
<1>1. CASE Call
  BY <1>1 DEF Call, Answered
<1>2. CASE CallFails
  <2>1. TypedHistory'
    BY <1>2, RunInvIs DEF CallFails, TypedHistory
  <2> QED BY <1>2, <2>1 DEF CallFails, Refused
<1>3. CASE RevisionsRead \/ Compact \/ Defragmented
  <2>1. /\ UNCHANGED <<runVars, checkVars, fiVars, differ, envVars, stray, history>>
        /\ UNCHANGED faults \/ Fault("request")
        /\ \/ pc' \in {"compact", "defrag", "finished", "unclean"}
           \/ pc' = "marker" /\ test <= Len(Tests)
        /\ pc \in {"revisions", "compact", "defrag"}
    BY <1>3 DEF RevisionsRead, Compact, Defragmented, Cleaned, Goto, Answered, Refused
  <2>2. tries < Tries
    BY <2>1, RunInvIs DEF Placed
  <2>3. Placed'
    BY <2>1, <2>2 DEF Placed, Calls, Ended, runVars
  <2> QED BY <2>1, <2>3
<1>4. CASE SetMarker
  <2>1. UNCHANGED <<differ, envVars, stray, history>>
    BY <1>4 DEF SetMarker
  <2>2. CASE Answered /\ Goto("quorum") /\ UNCHANGED <<runVars, checkVars, fiVars>>
    <3>1. test <= Len(Tests) /\ tries < Tries
      BY <1>4, RunInvIs DEF SetMarker, Placed
    <3>2. Placed'
      BY <2>2, <3>1 DEF Placed, runVars, Goto
    <3> QED BY <2>1, <2>2, <3>2 DEF Answered
  <2>3. CASE Refused /\ NextTest /\ UNCHANGED stressers
    <3>1. pc # "finished" /\ test <= Len(Tests)
      BY <1>4, RunInvIs DEF SetMarker, Placed
    <3> QED BY <2>1, <2>3, <3>1, NextTestIsTyped DEF Refused
  <2> QED BY <1>4, <2>2, <2>3 DEF SetMarker
<1>5. CASE CheckQuorum
  <2>1. /\ UNCHANGED <<fiVars, differ, envVars, stray, skipped, faults>> /\ disturbed' = FALSE
        /\ healthy' = {} /\ unhealthy' = FALSE /\ lead' = none /\ changed' = FALSE
        /\ pc = "quorum"
        /\ (pc' = "status" /\ UNCHANGED runVars) \/ Unhealthy
    BY <1>5 DEF CheckQuorum, Goto
  <2>2. TypedCheck' /\ TypedHistory'
    BY <2>1, RunInvIs DEF TypedCheck, TypedHistory
  <2>3. Placed' /\ TypedRun'
    <3>1. CASE pc' = "status" /\ UNCHANGED runVars
      <4>1. test <= Len(Tests) /\ tries < Tries
        BY <2>1, RunInvIs DEF Placed
      <4> QED BY <3>1, <4>1 DEF Placed, runVars, Calls
    <3> QED BY <2>1, <3>1, HealthyIsTyped
  <2> QED BY <2>1, <2>2, <2>3
<1>6. CASE StatusRead
  <2>1. /\ pc = "status" /\ UNCHANGED <<checkVars, fiVars, differ, envVars, stray, history>>
        /\ UNCHANGED faults \/ Fault("request") \/ Fault("alarm")
        /\ Healthy \/ Unhealthy
    BY <1>6 DEF StatusRead, Answered, Refused
  <2> QED BY <2>1, HealthyIsTyped
<1>7. CASE InjectionDone
  <2>1. /\ pc = "inject" /\ pc' = "quorum" /\ round' = 1 /\ leaderID' = none
        /\ taken' = 0 /\ onceErr' = FALSE /\ hit' = {}
        /\ UNCHANGED <<test, tries, stressers, checkVars, differ, envVars, stray, history, faults>>
    BY <1>7 DEF InjectionDone, Goto
  <2>2. Placed /\ TypedRun
    BY RunInvIs
  <2>3. Placed'
    BY <2>1, <2>2 DEF Placed
  <2>4. TypedRun'
    BY <2>1, <2>2, TesterAssumption DEF TypedRun
  <2>5. TypedHit'
    BY <2>1 DEF TypedHit
  <2> QED BY <2>1, <2>3, <2>4, <2>5
<1>8. CASE InjectionFails
  <2>1. /\ pc = "inject" /\ NextTest /\ skipped' = TRUE
        /\ UNCHANGED <<stressers, differ, envVars, disturbed, faults>>
        /\ \E K \in StillToHit : stray' = stray \cup ({test} \X K)
    BY <1>8 DEF InjectionFails
  <2>2. test <= Len(Tests) /\ test \in 1 .. Len(Tests) + 1
    BY <2>1, RunInvIs DEF Placed, TypedRun
  <2>3. test \in DOMAIN Tests
    BY <2>2, TesterAssumption
  <2>4. \A K \in StillToHit : K \subseteq Member
    BY DEF StillToHit
  <2>5. TypedStray'
    BY <2>1, <2>3, <2>4, RunInvIs DEF TypedStray
  <2>6. TypedHistory'
    BY <2>1, RunInvIs DEF TypedHistory
  <2> QED BY <2>1, <2>2, <2>5, <2>6, NextTestIsTyped
<1>9. CASE Compared
  <2>1. pc = "consistent" /\ UNCHANGED <<differ, envVars, stray, history, faults>>
    BY <1>9 DEF Compared
  <2>2. test <= Len(Tests) /\ tries < Tries /\ TypedRun
    BY <2>1, RunInvIs DEF Placed
  <2>3. CASE NextTest /\ UNCHANGED stressers
    BY <2>1, <2>2, <2>3, NextTestIsTyped
  <2>4. CASE ~Consistent
    <3>1. /\ tries' = tries + 1 /\ pc' = IF tries + 1 = Tries THEN "inconsistent" ELSE "consistent"
          /\ UNCHANGED <<test, round, leaderID, stressers, checkVars, fiVars>>
      BY <1>9, <2>4 DEF Compared, Goto, LastTry
    <3>2. tries + 1 \in 0 .. Tries /\ (tries + 1 # Tries => tries + 1 < Tries)
      BY <2>2, TesterAssumption DEF TypedRun
    <3>3. TypedRun'
      BY <2>2, <3>1, <3>2 DEF TypedRun
    <3>4. Placed'
      BY <2>2, <3>1, <3>2 DEF Placed, Calls, Ended
    <3> QED BY <2>1, <3>1, <3>3, <3>4
  <2> QED BY <1>9, <2>3, <2>4 DEF Compared
<1> QED BY <1>1, <1>2, <1>3, <1>4, <1>5, <1>6, <1>7, <1>8, <1>9 DEF RunTest


(* Types: what the functions that are called do. *)
LEMMA FIsTyped ==
  ASSUME RunInv, CallTypeOK', NEW m \in Member, F(m) \/ ClientFails(m)
  PROVE  RunInv'
<1> USE StaysTyped, FaultIsTyped, DownIsTyped
<1> SUFFICES /\ Placed' /\ TypedRun' /\ TypedCheck' /\ TypedHit' /\ TypedEnv'
             /\ TypedHistory' /\ TypedStray' /\ differ' \in BOOLEAN /\ faults' \in 0 .. MaxFaults
  BY RunTyped
<1>1. CASE Status(m)
  <2>1. /\ UNCHANGED <<pc, runVars, fiVars, differ, envVars, stray, history>>
        /\ UNCHANGED faults \/ Fault("race") \/ Fault("request")
        /\ healthy' \in {healthy, healthy \cup {m}}
        /\ unhealthy' \in {unhealthy, TRUE}
        /\ lead' \in {lead, leader}
        /\ changed' \in {changed, changed \/ lead \notin {none, leader}}
    BY <1>1 DEF Status
  <2>2. TypedCheck'
    BY <2>1, RunInvIs DEF TypedCheck, TypedEnv
  <2> QED BY <2>1, <2>2
<1>2. CASE Spare(m)
  BY <1>2 DEF Spare
<1>3. CASE Kill(m)
  <2>1. /\ UNCHANGED <<pc, runVars, checkVars, differ, stray, skipped>>
        /\ UNCHANGED faults \/ Fault("exec")
        /\ taken' = taken + 1
        /\ onceErr' \in {onceErr, TRUE}
        /\ (hit' = hit \cup {m} /\ Down(m)) \/ Untouched
    BY <1>3 DEF Kill
  <2>2. hit' \in {hit, hit \cup {m}}
    BY <2>1 DEF Untouched
  <2>4. taken \in Nat /\ onceErr \in BOOLEAN /\ hit \subseteq Member
    BY RunInvIs DEF TypedHit
  <2>5. taken' \in Nat
    BY <2>1, <2>4
  <2>6. onceErr' \in BOOLEAN /\ hit' \subseteq Member
    BY <2>1, <2>2, <2>4
  <2>3. TypedEnv' /\ TypedHistory'
    BY <2>1, RunInvIs DEF Untouched, TypedHistory
  <2> QED BY <2>1, <2>3, <2>5, <2>6 DEF TypedHit
<1>4. CASE Hashes(m)
  <2>1. differ' \in BOOLEAN
    BY <1>4, RunInvIs DEF Hashes
  <2> QED BY <1>4, <2>1 DEF Hashes
<1>5. CASE Defragment(m)
  BY <1>5 DEF Defragment
<1>6. CASE ClientFails(m)
  <2>1. TypedHistory'
    BY <1>6, RunInvIs DEF ClientFails, TypedHistory
  <2> QED BY <1>6, <2>1 DEF ClientFails
<1> QED BY <1>1, <1>2, <1>3, <1>4, <1>5, <1>6 DEF F

LEMMA RunStep ==
  ASSUME RunInv, CallTypeOK', [Next]_vars
  PROVE  RunInv'
<1> USE StaysTyped, FaultIsTyped, DownIsTyped
<1>1. CASE RunTest
  BY <1>1, RunTestIsTyped
<1>2. ASSUME NEW m \in Member, F(m) \/ ClientFails(m)
      PROVE  RunInv'
  BY <1>2, FIsTyped
<1> SUFFICES ASSUME ~RunTest, \A m \in Member : ~F(m) /\ ~ClientFails(m)
             PROVE  /\ Placed' /\ TypedRun' /\ TypedCheck' /\ TypedHit' /\ TypedEnv'
                    /\ TypedHistory' /\ TypedStray' /\ differ' \in BOOLEAN
                    /\ faults' \in 0 .. MaxFaults
  BY <1>1, <1>2, RunTyped
<1>3. CASE Results
  BY <1>3 DEF Results
<1>4. ASSUME NEW s \in stray, StrayKill(s)
      PROVE  TypedStray' /\ TypedEnv' /\ TypedHistory'
  BY <1>4, RunInvIs DEF StrayKill, TypedStray, TypedHistory
<1>5. CASE \E s \in stray : StrayKill(s)
  BY <1>4, <1>5 DEF StrayKill
<1>6. CASE Elect \/ StepDown \/ \E m \in Member : Crash(m) \/ Expel(m)
  <2>1. TypedEnv'
    BY <1>6, RunInvIs DEF Elect, StepDown, Crash, Expel, Rest, TypedEnv
  <2>2. TypedHistory'
    BY <1>6, RunInvIs DEF Elect, StepDown, Crash, Expel, Rest, TypedHistory
  <2>3. UNCHANGED faults \/ Fault("stepdown") \/ Fault("crash")
    BY <1>6 DEF Elect, StepDown, Crash, Expel, Rest
  <2>4. UNCHANGED <<pc, runVars, checkVars, fiVars, differ, stray>>
    BY <1>6 DEF Elect, StepDown, Crash, Expel, Rest
  <2> QED BY <2>1, <2>2, <2>3, <2>4
<1>7. CASE \E m \in Member : Heal(m)
  <2>1. /\ leaderID' \in {leaderID, gone} /\ lead' \in {lead, gone}
        /\ UNCHANGED <<pc, test, round, tries, stressers, healthy, unhealthy, changed, fiVars,
                       differ, stray, history, faults>>
    BY <1>7 DEF Heal, NewID
  <2>2. TypedRun' /\ TypedCheck' /\ Placed'
    BY <2>1, RunInvIs DEF TypedRun, TypedCheck, Placed
  <2>3. TypedEnv'
    BY <1>7, RunInvIs DEF Heal, TypedEnv
  <2> QED BY <2>1, <2>2, <2>3
<1>8. CASE UNCHANGED vars
  BY <1>8 DEF vars
<1> QED BY <1>3, <1>5, <1>6, <1>7, <1>8 DEF Next, Trouble

LEMMA RunInit == Init => RunInv
<1> SUFFICES ASSUME Init PROVE RunInv
  OBVIOUS
<1>1. CallTypeOK
  BY InitCall DEF Init, CallInv
<1>2. 1 \in 1 .. Len(Tests) + 1 /\ 0 \in 0 .. Rounds /\ 0 \in 0 .. Tries /\ 0 < Tries
      /\ 0 \in 0 .. MaxFaults
  BY TesterAssumption
<1>3. TypedRun /\ Placed
  BY <1>2 DEF Init, TypedRun, Placed, Calls
<1>4. TypedCheck /\ TypedHit /\ TypedEnv /\ TypedHistory /\ TypedStray /\ differ \in BOOLEAN
      /\ faults \in 0 .. MaxFaults
  BY <1>2 DEF Init, TypedCheck, TypedHit, TypedEnv, TypedHistory, TypedStray
<1> QED BY <1>1, <1>3, <1>4, RunInvIs


-----------------------------------------------------------------------------
(* Why the verdict is true: unless a test was skipped, no stresser but that of  *)
(* this test runs, and none while the members are compared; unless something   *)
(* went wrong since the last check, all members that it counted are still up,   *)
(* so that no goroutine that compares them has an error to report.             *)
Stressed == pc = "inject" \/ (pc \in {"quorum", "status"} /\ round > 0)
VerdictInv ==
    /\ pc \in {"revisions", "compact", "defrag", "marker"} => round = 0
    /\ ~skipped => ~differ /\ stressers = IF Stressed THEN {test} ELSE {}
    /\ ~disturbed =>
         /\ pc = "status" => healthy \subseteq up
         /\ pc = "consistent" =>
              /\ up = Member
              /\ caller # "idle" => /\ failed = {} /\ ~errAgg /\ caller # "error"
                                    /\ \A m \in Member : <<m, FALSE>> \notin unread
    /\ TrueVerdict

(* Once something went wrong, only the stressers matter. *)
LEMMA VerdictDisturbed ==
  ASSUME VerdictInv, UNCHANGED <<pc, runVars, differ, skipped>>, disturbed' = TRUE
  PROVE  VerdictInv'
<1>1. UNCHANGED <<test, round, stressers>>
  BY DEF runVars
<1>2. Stressed' = Stressed
  BY <1>1 DEF Stressed
<1> QED BY <1>1, <1>2 DEF VerdictInv, TrueVerdict

(* Steps that nothing in it depends on. *)
LEMMA VerdictKept ==
  ASSUME VerdictInv, UNCHANGED <<pc, test, round, stressers, differ, history, healthy>>,
         \A m \in Member : m \in up => m \in up',
         up = Member => up' = Member, healthy \subseteq Member,
         UNCHANGED <<caller, failed, errAgg, unread>>
  PROVE  VerdictInv'
<1>1. UNCHANGED <<test, round, stressers, skipped, disturbed>>
  BY DEF history
<1>2. Stressed' = Stressed
  BY <1>1 DEF Stressed
<1>3. pc = "status" /\ healthy \subseteq up => healthy' \subseteq up'
  OBVIOUS
<1>4. /\ pc' \in {"revisions", "compact", "defrag", "marker"} => round' = 0
      /\ ~skipped' => ~differ' /\ stressers' = IF Stressed' THEN {test'} ELSE {}
      /\ TrueVerdict'
  BY <1>1, <1>2 DEF VerdictInv, TrueVerdict
<1>5. ~disturbed' =>
         /\ pc' = "status" => healthy' \subseteq up'
         /\ pc' = "consistent" =>
              /\ up' = Member
              /\ caller' # "idle" => /\ failed' = {} /\ ~errAgg' /\ caller' # "error"
                                    /\ \A m \in Member : <<m, FALSE>> \notin unread'
  BY <1>1, <1>3 DEF VerdictInv
<1> QED BY <1>4, <1>5 DEF VerdictInv

LEMMA VerdictRunTest ==
  ASSUME Size = Cardinality(Member),
         CallInv, CheckInv, RunInv, VerdictInv, RunTest
  PROVE  VerdictInv'
<1> USE DEF VerdictInv, Stressed, TrueVerdict
<1>1. CASE Call
  BY <1>1 DEF Call, Begin, Calls, runVars, checkVars, envVars, history
<1>2. CASE CallFails
  BY <1>2 DEF CallFails, runVars, checkVars, envVars
<1>3. CASE RevisionsRead \/ Compact \/ Defragmented
  <2>1. /\ UNCHANGED <<runVars, checkVars, fiVars, differ, envVars, stray, history>>
        /\ pc' \in {"compact", "defrag", "finished", "unclean", "marker"}
        /\ pc \in {"revisions", "compact", "defrag"}
    BY <1>3 DEF RevisionsRead, Compact, Defragmented, Cleaned, Goto
  <2> QED BY <2>1 DEF runVars, checkVars, envVars, history
<1>4. CASE SetMarker
  <2>1. /\ UNCHANGED <<differ, envVars, stray, history>> /\ pc = "marker" /\ stressers' = stressers
        /\ (pc' = "quorum" /\ round' = round) \/ (pc' = "revisions" /\ round' = 0)
    BY <1>4 DEF SetMarker, NextTest, Goto, runVars
  <2>2. round = 0 /\ round' = 0
    BY <2>1
  <2>3. ~Stressed /\ ~Stressed'
    BY <2>1, <2>2
  <2>4. ~skipped' => ~differ' /\ stressers' = {}
    BY <2>1, <2>3 DEF history
  <2> QED BY <2>1, <2>2, <2>3, <2>4
<1>5. CASE CheckQuorum
  <2>1. /\ UNCHANGED <<differ, stressers, test, skipped>> /\ disturbed' = FALSE
        /\ healthy' = {} /\ pc = "quorum"
        /\ \/ pc' = "status" /\ round' = round
           \/ pc' = "unhealthy" /\ round' = 0 /\ round = 0
           \/ pc' = "quorum" /\ round' = 1 /\ round # 0
    BY <1>5 DEF CheckQuorum, Unhealthy, Goto, runVars
  <2>2. round \in Nat
    BY RunInvIs, TesterAssumption DEF TypedRun
  <2>3. Stressed' = Stressed
    BY <2>1, <2>2
  <2>4. ~skipped' => ~differ' /\ stressers' = IF Stressed' THEN {test'} ELSE {}
    BY <2>1, <2>3
  <2>5. pc' \notin {"consistent", "inconsistent", "revisions", "compact", "defrag", "marker"}
    BY <2>1
  <2> QED BY <2>1, <2>4, <2>5
<1>6. CASE StatusRead
  <2>1. /\ pc = "status" /\ UNCHANGED <<checkVars, fiVars, differ, envVars, stray, history>>
        /\ caller' = "idle"
        /\ (AllHealthy /\ Healthy) \/ Unhealthy
    BY <1>6 DEF StatusRead, Leave
  <2>2. CASE Unhealthy
    BY <2>1, <2>2, RunInvIs DEF Unhealthy, Goto, TypedRun, history
  <2>3. CASE AllHealthy /\ Healthy
    <3>1. ~disturbed => up = Member
      <4>1. healthy \subseteq Member /\ up \subseteq Member
        BY RunInvIs DEF TypedCheck, TypedEnv
      <4>2. healthy = Member
        BY <2>3, <4>1, MemberAssumption, FS_Subset DEF AllHealthy
      <4> QED BY <2>1, <4>1, <4>2
    <3> QED BY <2>1, <2>3, <3>1, RunInvIs, TesterAssumption DEF Healthy, Goto, TypedRun, history, envVars
  <2> QED BY <2>1, <2>2, <2>3
<1>7. CASE InjectionDone
  BY <1>7 DEF InjectionDone, Goto, history
<1>8. CASE InjectionFails
  BY <1>8 DEF InjectionFails, NextTest, Goto
<1>9. CASE Compared
  <2>1. /\ pc = "consistent" /\ UNCHANGED <<differ, envVars, stray, history>>
        /\ caller \in {"nil", "error"} /\ caller' = "idle" /\ stressers' = stressers
        /\ \/ pc' = "revisions" /\ round' = 0
           \/ pc' = "consistent"
           \/ pc' = "inconsistent" /\ ~Consistent
    BY <1>9 DEF Compared, NextTest, Goto, Leave
  <2>2. ~Consistent => skipped \/ disturbed
    BY <2>1 DEF Consistent
  <2> QED BY <2>1, <2>2 DEF history, envVars
<1> QED BY <1>1, <1>2, <1>3, <1>4, <1>5, <1>6, <1>7, <1>8, <1>9 DEF RunTest

(* A goroutine of the comparison. *)
LEMMA VerdictF ==
  ASSUME CallInv, VerdictInv, RunInv, NEW m \in Member, F(m) \/ ClientFails(m)
  PROVE  VerdictInv'
<1> USE DEF VerdictInv, Stressed, TrueVerdict
<1>1. CASE ClientFails(m)
  BY <1>1 DEF ClientFails, runVars
<1>2. CASE Status(m)
  BY <1>2 DEF Status, runVars, history, envVars
<1>3. CASE Spare(m) \/ Defragment(m) \/ Kill(m)
  <2>1. pc \in {"inject", "defrag"} /\ UNCHANGED <<pc, runVars, differ, skipped>>
    BY <1>3 DEF Spare, Defragment, Kill, history
  <2>2. UNCHANGED <<test, round, stressers>>
    BY <2>1 DEF runVars
  <2>3. Stressed' = Stressed
    BY <2>1, <2>2
  <2> QED BY <2>1, <2>2, <2>3
<1>5. CASE Hashes(m)
  <2>1. /\ UNCHANGED <<pc, runVars, checkVars, fiVars, envVars, stray, history>>
        /\ differ' \in {differ, pc = "consistent" /\ Writing}
        /\ m \in up => Outcome(m, "ok")
        /\ \E stage \in {"ok", "err"} : Outcome(m, stage)
        /\ pc \in {"revisions", "consistent"}
    BY <1>5 DEF Hashes
  <2>2. ~skipped => ~differ'
    BY <2>1 DEF Writing
  <2>3. caller' = caller /\ errAgg' = errAgg /\ unread' = unread
    BY <2>1 DEF Outcome
  <2>4. m \in up => failed' = failed
    BY <2>1 DEF Outcome
  <2> QED BY <2>1, <2>2, <2>3, <2>4 DEF runVars, checkVars, envVars, history
<1> QED BY <1>1, <1>2, <1>3, <1>5 DEF F

LEMMA VerdictStep ==
  ASSUME Size = Cardinality(Member), CallInv, CheckInv, RunInv, VerdictInv, [Next]_vars
  PROVE  VerdictInv'
<1>1. CASE RunTest
  BY <1>1, VerdictRunTest
<1>2. ASSUME NEW m \in Member, F(m) \/ ClientFails(m)
      PROVE  VerdictInv'
  BY <1>2, VerdictF
<1>3. CASE Results
  <2>1. UNCHANGED <<pc, runVars, checkVars, fiVars, differ, envVars, stray, history>>
    BY <1>3 DEF Results
  <2>2. ASSUME failed = {}, ~errAgg, caller # "error", \A m \in Member : <<m, FALSE>> \notin unread
        PROVE  /\ failed' = {} /\ ~errAgg' /\ caller' # "error"
               /\ \A m \in Member : <<m, FALSE>> \notin unread'
    <3>1. CASE Return
      BY <2>2, <3>1 DEF Return
    <3>2. ASSUME NEW n \in Member, Send(n)
          PROVE  /\ failed' = {} /\ ~errAgg' /\ caller' # "error"
                 /\ \A m \in Member : <<m, FALSE>> \notin unread'
      <4>1. task[n] \notin {"err", "lost"}
        BY <2>2 DEF CallInv, TaskInv
      <4>2. unread' = unread \cup {<<n, TRUE>>}
        BY <3>2, <4>1 DEF Send, Result
      <4> QED BY <2>2, <3>2, <4>2 DEF Send
    <3>3. ASSUME NEW n \in Member, NEW ok \in BOOLEAN, Receive(n, ok)
          PROVE  /\ failed' = {} /\ ~errAgg' /\ caller' # "error"
                 /\ \A m \in Member : <<m, FALSE>> \notin unread'
      BY <2>2, <3>3 DEF Receive
    <3> QED BY <1>3, <3>1, <3>2, <3>3 DEF Results, Transport
  <2>3. caller = "idle" => caller' = "idle"
    <3>1. caller = "idle" => \A m \in Member : task[m] = "ended"
      BY DEF CallInv, EndInv
    <3> QED BY <1>3, <3>1 DEF Results, Transport, Return, Send, Receive
  <2>4. UNCHANGED <<test, round, stressers, healthy, up, skipped, disturbed>>
    BY <2>1 DEF runVars, checkVars, envVars, history
  <2>5. Stressed' = Stressed
    BY <2>1, <2>4 DEF Stressed
  <2> QED BY <2>1, <2>2, <2>3, <2>4, <2>5 DEF VerdictInv, TrueVerdict
<1>4. CASE \E s \in stray : StrayKill(s)
  <2>1. PICK s \in stray : StrayKill(s)
    BY <1>4
  <2>2. UNCHANGED <<callVars, pc, runVars, checkVars, differ, skipped>>
    BY <2>1 DEF StrayKill
  <2>3. disturbed' = TRUE \/ UNCHANGED <<up, disturbed>>
    BY <2>1 DEF StrayKill, Down, envVars
  <2>4. CASE disturbed' = TRUE
    BY <2>2, <2>4, VerdictDisturbed
  <2>5. CASE UNCHANGED <<up, disturbed>>
    <3>1. healthy \subseteq Member
      BY RunInvIs DEF TypedCheck
    <3> QED BY <2>2, <2>5, <3>1, VerdictKept DEF callVars, runVars, checkVars, history
  <2> QED BY <2>3, <2>4, <2>5
<1>5. CASE StepDown \/ \E m \in Member : Crash(m)
  <2>1. UNCHANGED <<pc, runVars, differ, skipped>> /\ disturbed' = TRUE
    BY <1>5 DEF StepDown, Crash, Down
  <2> QED BY <2>1, VerdictDisturbed
<1>6. CASE Elect \/ \E m \in Member : Heal(m) \/ Expel(m)
  <2>1. /\ UNCHANGED <<pc, test, round, stressers, healthy, differ, history, callVars>>
        /\ up' = up \/ \E m \in Member : up' = up \cup {m}
    BY <1>6 DEF Elect, Heal, Expel, Rest, runVars, checkVars
  <2>2. healthy \subseteq Member /\ up \subseteq Member
    BY RunInvIs DEF TypedCheck, TypedEnv
  <2> QED BY <2>1, <2>2, VerdictKept DEF callVars
<1>7. CASE UNCHANGED vars
  <2>1. healthy \subseteq Member
    BY RunInvIs DEF TypedCheck
  <2> QED BY <1>7, <2>1, VerdictKept DEF vars, runVars, checkVars, callVars, envVars
<1> QED BY <1>1, <1>2, <1>3, <1>4, <1>5, <1>6, <1>7 DEF Next, Trouble

LEMMA VerdictInit == Init => VerdictInv
  BY DEF Init, CallInit, VerdictInv, Stressed, TrueVerdict


-----------------------------------------------------------------------------
(* Why an injection that succeeds hit whom it names.  Nobody is hit before it  *)
(* begins.  While no goroutine failed each command hit one member of its own,  *)
(* and whoever was spared was not to be hit, or enough had been.               *)
Fresh ==
    \/ pc \in {"revisions", "compact", "defrag", "marker"}
    \/ pc \in {"quorum", "status"} /\ round = 0
    \/ pc = "inject" /\ caller = "idle"
Spared(m) == ~Selects(m) \/ taken >= Quota
Accounted ==
    /\ taken = Cardinality(hit) /\ taken <= Quota
    /\ \A m \in hit : m \in called /\ task[m] # "f" /\ Selects(m)
    /\ \A m \in called : m \in hit \/ task[m] = "f" \/ Spared(m)
HitInv ==
    /\ leader # none => leader \in listed
    /\ Fresh => taken = 0 /\ hit = {}
    /\ pc = "inject" /\ caller \notin {"idle", "error"} => called # {}
    /\ pc = "inject" /\ caller # "idle" /\ failed = {} => Accounted

LEMMA QuotaIsNat == Quota \in Nat
  BY MemberAssumption, TesterAssumption, FS_CardinalityType DEF Quota

(* Whom the test names depends on the test and on the leader it was told of. *)
LEMMA SameTarget ==
  ASSUME UNCHANGED <<test, leaderID>>
  PROVE  Quota' = Quota /\ \A m : Selects(m)' = Selects(m)
  BY DEF Quota, Selects

LEMMA LeaderStaysListed ==
  ASSUME RunInv, leader # none => leader \in listed, [Next]_vars, leader' # none
  PROVE  leader' \in listed'
<1> DEFINE Kept == leader' \in {leader, none} /\ listed' = listed
<1>1. CASE RunTest
  <2>1. UNCHANGED envVars
    BY <1>1 DEF RunTest, Call, CallFails, RevisionsRead, Compact, Defragmented, Cleaned, SetMarker,
                CheckQuorum, StatusRead, InjectionDone, InjectionFails, Compared
  <2> QED BY <2>1 DEF envVars
<1>2. ASSUME NEW m \in Member, F(m) \/ ClientFails(m)
      PROVE  Kept
  BY <1>2 DEF F, ClientFails, Status, Spare, Kill, Hashes, Defragment, Down, Untouched, envVars
<1>3. CASE Results
  BY <1>3 DEF Results, envVars
<1>4. CASE \E s \in stray : StrayKill(s)
  BY <1>4 DEF StrayKill, Down, envVars
<1>5. CASE StepDown \/ \E m \in Member : Crash(m)
  BY <1>5 DEF StepDown, Crash, Down
<1>6. CASE Elect \/ \E m \in Member : Heal(m)
  BY <1>6 DEF Elect, Heal
<1>7. CASE \E m \in Member : Expel(m)
  <2>1. leader \in up \cup {none}
    BY RunInvIs DEF TypedEnv
  <2> QED BY <1>7, <2>1 DEF Expel
<1>8. CASE UNCHANGED vars
  BY <1>8 DEF vars, envVars
<1> QED BY <1>1, <1>2, <1>3, <1>4, <1>5, <1>6, <1>7, <1>8 DEF Next, Trouble

(* The command of a goroutine that did not fail. *)
LEMMA KillCounts ==
  ASSUME CallInv, RunInv, Accounted, NEW m \in Member, Kill(m), failed' = {}
  PROVE  Accounted'
<1>1. /\ UNCHANGED <<pc, runVars>> /\ Selects(m) /\ taken < Quota /\ taken' = taken + 1
      /\ \E stage \in {"ok", "err"} : Outcome(m, stage)
      /\ Outcome(m, "err") \/ (Outcome(m, "ok") /\ hit' = hit \cup {m})
  BY DEF Kill
<1>2. ~Outcome(m, "err")
  BY DEF Outcome
<1>3. Outcome(m, "ok") /\ hit' = hit \cup {m}
  BY <1>1, <1>2
<1>4. /\ task[m] = "f" /\ called' = called /\ m \in called
      /\ task' = [task EXCEPT ![m] = "ok"]
  BY <1>3 DEF Outcome, CallInv, TaskInv
<1>5. m \notin hit
  BY <1>4 DEF Accounted
<1>6. IsFiniteSet(hit) /\ Cardinality(hit) \in Nat /\ taken \in Nat
  BY RunInvIs, MemberAssumption, FS_Subset, FS_CardinalityType DEF TypedHit
<1>7. Cardinality(hit') = Cardinality(hit) + 1
  BY <1>3, <1>5, <1>6, FS_AddElement
<1>8. Quota' = Quota /\ Quota \in Nat /\ \A n : Selects(n)' = Selects(n)
  BY <1>1, SameTarget, QuotaIsNat DEF runVars
<1>9. taken' = Cardinality(hit') /\ taken' <= Quota'
  BY <1>1, <1>6, <1>7, <1>8 DEF Accounted
<1>10. \A n \in Member : task'[n] = IF n = m THEN "ok" ELSE task[n]
  BY <1>4 DEF CallInv, CallTypeOK
<1>11. hit \subseteq Member /\ called \subseteq Member
  BY RunInvIs DEF TypedHit, CallInv, CallTypeOK
<1>12. \A n \in hit' : n \in called' /\ task'[n] # "f" /\ Selects(n)'
  BY <1>1, <1>3, <1>4, <1>8, <1>10, <1>11 DEF Accounted
<1>13. \A n : Spared(n) => Spared(n)'
  BY <1>1, <1>6, <1>8 DEF Spared
<1>14. \A n \in called' : n \in hit' \/ task'[n] = "f" \/ Spared(n)'
  BY <1>3, <1>4, <1>10, <1>11, <1>13 DEF Accounted
<1> QED BY <1>9, <1>12, <1>14 DEF Accounted

(* A goroutine that leaves its member alone, or has a result to send. *)
LEMMA SparedCounts ==
  ASSUME Accounted, UNCHANGED <<test, leaderID, taken, hit, called>>,
         \A m \in called : (task[m] = "f" /\ ~Spared(m)) = (task'[m] = "f" /\ ~Spared(m)),
         \A m \in called : task'[m] = "f" => task[m] = "f"
  PROVE  Accounted'
<1>1. Quota' = Quota /\ \A m : Selects(m)' = Selects(m)
  BY SameTarget
<1>2. \A m : Spared(m)' = Spared(m)
  BY <1>1 DEF Spared
<1> QED BY <1>1, <1>2 DEF Accounted


(* Nothing was hit when an injection begins, and nobody is called unless there *)
(* is a leader, who is listed.                                                *)
LEMMA HitRunTest ==
  ASSUME CallInv, CheckInv, RunInv, HitInv, RunTest, leader' # none => leader' \in listed'
  PROVE  HitInv'
<1>1. /\ leader # none => leader \in listed
      /\ Fresh => taken = 0 /\ hit = {}
  BY DEF HitInv
<1>2. CASE Call
  <2>1. /\ leader # none /\ called' = listed /\ caller = "idle" /\ caller' = "reading"
        /\ UNCHANGED <<pc, runVars, fiVars>>
        /\ task' = [m \in Member |-> IF m \in listed THEN "f" ELSE "ended"]
    BY <1>2 DEF Call, Answered, Begin
  <2>2. Fresh' => Fresh
    BY <2>1 DEF Fresh, runVars
  <2>3. pc = "inject" => taken' = 0 /\ hit' = {}
    BY <1>1, <2>1 DEF Fresh, fiVars
  <2>4. pc = "inject" => Accounted'
    <3>1. Cardinality({}) = 0
      BY FS_EmptySet
    <3>2. Quota' = Quota /\ Quota \in Nat
      BY <2>1, SameTarget, QuotaIsNat DEF runVars
    <3>3. listed \subseteq Member
      BY DEF CheckInv
    <3> QED BY <2>1, <2>3, <3>1, <3>2, <3>3 DEF Accounted
  <2>5. called' # {}
    BY <1>1, <2>1
  <2> QED BY <1>1, <2>1, <2>2, <2>4, <2>5 DEF HitInv, fiVars
<1>3. CASE CallFails
  <2>1. /\ called' = {} /\ caller = "idle" /\ caller' = "error" /\ UNCHANGED <<pc, runVars, fiVars>>
    BY <1>3 DEF CallFails, ListFails
  <2>2. Fresh' => Fresh
    BY <2>1 DEF Fresh, runVars
  <2>3. pc = "inject" => taken' = 0 /\ hit' = {}
    BY <1>1, <2>1 DEF Fresh, fiVars
  <2>4. pc = "inject" => Accounted'
    <3>1. Cardinality({}) = 0
      BY FS_EmptySet
    <3>2. Quota' = Quota /\ Quota \in Nat
      BY <2>1, SameTarget, QuotaIsNat DEF runVars
    <3> QED BY <2>1, <2>3, <3>1, <3>2 DEF Accounted
  <2> QED BY <1>1, <2>1, <2>2, <2>4 DEF HitInv, fiVars
<1>4. CASE RevisionsRead \/ Compact \/ Defragmented
  <2>1. /\ UNCHANGED <<runVars, fiVars>> /\ pc' # "inject"
        /\ pc \in {"revisions", "compact", "defrag"}
    BY <1>4 DEF RevisionsRead, Compact, Defragmented, Cleaned, Goto, Ended
  <2> QED BY <1>1, <2>1 DEF HitInv, Fresh, fiVars
<1>5. CASE SetMarker
  <2>1. /\ pc = "marker" /\ pc' # "inject"
        /\ UNCHANGED fiVars \/ (taken' = 0 /\ hit' = {})
    BY <1>5 DEF SetMarker, NextTest, Goto
  <2> QED BY <1>1, <2>1 DEF HitInv, Fresh, fiVars
<1>6. CASE CheckQuorum \/ StatusRead
  <2>1. /\ UNCHANGED fiVars /\ pc \in {"quorum", "status"}
        /\ \/ pc' = "status" /\ round' = round
           \/ pc' \in {"unhealthy", "consistent"}
           \/ pc' = "quorum" /\ round' # 0
           \/ pc' = "inject" /\ round = 0 /\ caller' = "idle"
    BY <1>6, RunInvIs, TesterAssumption
       DEF CheckQuorum, StatusRead, Healthy, Unhealthy, Goto, runVars, Leave
  <2> QED BY <1>1, <2>1 DEF HitInv, Fresh, fiVars
<1>7. CASE InjectionDone
  <2>1. pc' = "quorum" /\ round' = 1
    BY <1>7 DEF InjectionDone, Goto
  <2> QED BY <2>1 DEF HitInv, Fresh
<1>8. CASE InjectionFails \/ Compared
  <2>1. \/ taken' = 0 /\ hit' = {} /\ pc' = "revisions"
        \/ pc' \in {"consistent", "inconsistent"}
    BY <1>8 DEF InjectionFails, Compared, NextTest, Goto
  <2> QED BY <2>1 DEF HitInv, Fresh
<1> QED BY <1>2, <1>3, <1>4, <1>5, <1>6, <1>7, <1>8 DEF RunTest

LEMMA HitStep ==
  ASSUME CallInv, CheckInv, RunInv, HitInv, [Next]_vars
  PROVE  HitInv'
<1>1. leader' # none => leader' \in listed'
  BY LeaderStaysListed DEF HitInv
<1>2. CASE RunTest
  BY <1>1, <1>2, HitRunTest
<1>3. ASSUME NEW m \in Member, F(m) \/ ClientFails(m)
      PROVE  HitInv'
  <2>1. PICK stage \in {"ok", "err", "lost"} : Outcome(m, stage)
    BY <1>3 DEF F, ClientFails, Status, Spare, Kill, Hashes, Defragment
  <2>2. m \in called /\ caller = caller' /\ called = called' /\ caller \notin {"idle", "nil"}
        /\ task[m] = "f" /\ task' = [task EXCEPT ![m] = stage]
    BY <2>1 DEF Outcome, CallInv, TaskInv, EndInv
  <2>3. UNCHANGED <<pc, runVars>> /\ (pc # "inject" => UNCHANGED fiVars)
    BY <1>3 DEF F, ClientFails, Status, Spare, Kill, Hashes, Defragment
  <2>4. Fresh' => pc # "inject" /\ Fresh
    BY <2>2, <2>3 DEF Fresh, runVars
  <2>5. ASSUME pc = "inject", failed' = {}
        PROVE  Accounted'
    <3>1. failed = {} /\ stage = "ok" /\ Accounted
      BY <2>1, <2>2, <2>5 DEF Outcome, HitInv
    <3>2. CASE Kill(m)
      BY <2>5, <3>1, <3>2, KillCounts
    <3>3. CASE Spare(m)
      <4>1. Spared(m) /\ UNCHANGED <<runVars, fiVars>>
        BY <3>3, RunInvIs, QuotaIsNat DEF Spare, Spared, TypedHit
      <4>2. \A n \in called : n # m => task'[n] = task[n]
        BY <2>2 DEF CallInv, CallTypeOK
      <4>3. task'[m] = "ok"
        BY <2>2, <3>1 DEF CallInv, CallTypeOK
      <4> QED BY <2>2, <3>1, <4>1, <4>2, <4>3, SparedCounts DEF runVars, fiVars
    <3>4. ~Status(m) /\ ~Hashes(m) /\ ~Defragment(m)
      BY <2>5 DEF Status, Hashes, Defragment
    <3>5. ~ClientFails(m)
      BY <2>5 DEF ClientFails, Outcome
    <3> QED BY <1>3, <3>2, <3>3, <3>4, <3>5 DEF F
  <2>6. pc' = "inject" /\ caller' \notin {"idle", "error"} => called' # {}
    BY <2>2
  <2>7. Fresh' => taken' = 0 /\ hit' = {}
    BY <2>3, <2>4 DEF HitInv, fiVars
  <2> QED BY <1>1, <2>3, <2>5, <2>6, <2>7 DEF HitInv
<1>6. ASSUME NEW m \in Member, Heal(m)
      PROVE  HitInv'
  <2>1. /\ UNCHANGED <<pc, test, round, fiVars, callVars>>
        /\ pc = "inject" /\ caller # "idle" => UNCHANGED leaderID
    BY <1>6 DEF Heal, NewID
  <2>2. ASSUME pc = "inject", caller # "idle", Accounted
        PROVE  Accounted'
    BY <2>1, <2>2, SparedCounts DEF fiVars, callVars
  <2> QED BY <1>1, <2>1, <2>2 DEF HitInv, Fresh, fiVars, callVars
<1> SUFFICES ASSUME UNCHANGED <<pc, runVars, fiVars>>,
                    Results \/ UNCHANGED callVars
             PROVE  HitInv'
  BY <1>2, <1>3, <1>6 DEF Next, Trouble, Results, StrayKill, Elect, StepDown, Crash, Expel, Rest,
                          vars
<1>4. CASE Results
  <2>1. called' = called /\ failed' = failed /\ (caller' = "idle" => caller = "idle")
        /\ (caller' \notin {"idle", "error"} => caller # "error")
    BY <1>4 DEF Results, Transport, Return, Send, Receive
  <2>2. caller = "idle" => caller' = "idle"
    <3>1. caller = "idle" => \A m \in Member : task[m] = "ended"
      BY DEF CallInv, EndInv
    <3> QED BY <1>4, <3>1 DEF Results, Transport, Return, Send, Receive
  <2>3. \A m \in Member : task'[m] = "f" <=> task[m] = "f"
    BY <1>4 DEF Results, Transport, Return, Send, Receive, CallInv, CallTypeOK, Stage
  <2>4. Accounted => Accounted'
    BY <2>1, <2>3, SparedCounts DEF runVars, fiVars, CallInv, CallTypeOK
  <2> QED BY <1>1, <2>1, <2>2, <2>4 DEF HitInv, Fresh, runVars, fiVars
<1>5. CASE UNCHANGED callVars
  <2>1. Accounted => Accounted'
    BY <1>5, SparedCounts DEF runVars, fiVars, callVars
  <2> QED BY <1>1, <1>5, <2>1 DEF HitInv, Fresh, runVars, fiVars, callVars
<1> QED BY <1>4, <1>5

LEMMA HitInit == Init => HitInv
  BY DEF Init, CallInit, HitInv, Fresh


(* An injection that succeeded has hit its targets. *)
LEMMA InjectionIsNamed ==
  ASSUME CallInv, RunInv, HitInv, [Next]_vars, pc = "inject", pc' = "quorum"
  PROVE  Named
<1>1. InjectionDone
  <2>1. ~(Call \/ CallFails \/ RevisionsRead \/ Compact \/ Defragmented \/ SetMarker
          \/ CheckQuorum \/ StatusRead \/ InjectionFails \/ Compared)
    BY DEF Call, CallFails, RevisionsRead, Compact, Defragmented, SetMarker, CheckQuorum, StatusRead,
           InjectionFails, NextTest, Goto, Compared
  <2>2. \A m \in Member : ~F(m) /\ ~ClientFails(m)
    BY DEF F, ClientFails, Status, Spare, Kill, Hashes, Defragment
  <2>3. ~Results /\ (\A s \in stray : ~StrayKill(s)) /\ pc' # pc
    BY DEF Results, StrayKill
  <2>4. ~(Elect \/ StepDown \/ \E m \in Member : Heal(m) \/ Crash(m) \/ Expel(m))
    BY DEF Elect, StepDown, Heal, Crash, Expel, Rest
  <2> QED BY <2>1, <2>2, <2>3, <2>4 DEF Next, RunTest, Trouble, vars
<1>2. caller = "nil" /\ (Tests[test] = "leader" => taken > 0)
  BY <1>1 DEF InjectionDone, Injected
<1>3. failed = {} /\ (\A m \in called : task[m] = "ended") /\ called \subseteq Member
  BY <1>2 DEF CallInv, EndInv, CallTypeOK
<1>4. called # {} /\ Accounted
  BY <1>2, <1>3 DEF HitInv
<1>5. /\ taken = Cardinality(hit) /\ taken <= Quota
      /\ \A m \in hit : m \in called /\ Selects(m)
      /\ \A m \in called : m \in hit \/ ~Selects(m) \/ taken >= Quota
  BY <1>3, <1>4 DEF Accounted, Spared
<1>6. IsFiniteSet(hit) /\ hit \subseteq Member /\ taken \in Nat /\ Quota \in Nat
  BY RunInvIs, MemberAssumption, FS_Subset, QuotaIsNat DEF TypedHit
<1>7. taken = 0 <=> hit = {}
  BY <1>5, <1>6, FS_EmptySet
<1>8. Tests[test] \in Target
  <2>1. test <= Len(Tests) /\ test \in 1 .. Len(Tests) + 1
    BY RunInvIs DEF Placed, TypedRun
  <2> QED BY <2>1, TesterAssumption
<1>9. CASE Tests[test] = "leader"
  <2>1. \A m : Selects(m) <=> m = leaderID
    BY <1>9 DEF Selects
  <2>2. hit # {}
    BY <1>2, <1>7, <1>9
  <2>3. hit = {leaderID}
    BY <1>5, <2>1, <2>2
  <2> QED BY <1>9, <2>3 DEF Named
<1>10. CASE Tests[test] = "slave"
  <2>1. (\A m : Selects(m) <=> m # leaderID) /\ Quota = 1
    BY <1>10 DEF Selects, Quota
  <2>2. leaderID \notin hit
    BY <1>5, <2>1
  <2>3. taken = 0 => called = {leaderID}
    BY <1>4, <1>5, <1>7, <2>1
  <2>4. taken = 0 \/ Cardinality(hit) = 1
    BY <1>5, <1>6, <2>1
  <2> QED BY <1>10, <2>2, <2>3, <2>4 DEF Named
<1>11. CASE Tests[test] = "majority"
  <2>1. (\A m : Selects(m)) /\ Quota = Size \div 2 + 1
    BY <1>11 DEF Selects, Quota
  <2>2. taken >= Quota => Cardinality(hit) = Size \div 2 + 1
    BY <1>5, <1>6, <2>1
  <2>3. ~(taken >= Quota) => hit = called
    BY <1>5, <2>1
  <2>4. ~(taken >= Quota) => 2 * Cardinality(hit) <= Size
    <3>1. Size \in Nat
      BY TesterAssumption
    <3>2. \A s \in Nat, t \in Nat : ~(t >= s \div 2 + 1) => 2 * t <= s
      OBVIOUS
    <3> QED BY <1>5, <1>6, <2>1, <3>1, <3>2
  <2> QED BY <1>11, <2>2, <2>3, <2>4 DEF Named
<1>12. CASE Tests[test] = "all"
  <2>1. (\A m : Selects(m)) /\ Quota = Cardinality(Member)
    BY <1>12 DEF Selects, Quota
  <2>2. taken >= Quota => hit = Member
    BY <1>5, <1>6, <2>1, MemberAssumption, FS_Subset
  <2>3. hit = called
    BY <1>3, <1>5, <2>1, <2>2
  <2> QED BY <1>12, <2>3 DEF Named
<1> QED BY <1>8, <1>9, <1>10, <1>11, <1>12 DEF Target

-----------------------------------------------------------------------------
(* What holds of every run. *)

LEMMA RunsHold == Spec => [](CallInv /\ CheckInv /\ RunInv)
<1>1. Init => RunInv
  BY RunInit
<1>2. CallInv' => CallTypeOK'
  BY DEF CallInv
<1>3. RunInv /\ CallInv' /\ [Next]_vars => RunInv'
  BY <1>2, RunStep
<1> QED BY <1>1, <1>3, CallsHold, PTL DEF Spec

(* Whatever fails in runTest, isHealthy or an injection, and whenever a test is *)
(* skipped, the state of the tester is well formed: it never runs a test that   *)
(* does not exist, nor more attempts than IsConsistent has (tester.go:67-130).  *)
THEOREM TesterTyped == Spec => []TypeOK
<1>1. RunInv => TypeOK
  BY DEF RunInv
<1> QED BY <1>1, RunsHold, PTL

(* A run that ends because the members are inconsistent does so for a reason of *)
(* the cluster's own, if no test was skipped before: at that time no stresser   *)
(* writes, and no member that the last health check counted has gone            *)
(* (tester.go:98-122).                                                         *)
THEOREM VerdictIsTrue ==
  ASSUME Size = Cardinality(Member)
  PROVE  Spec => []TrueVerdict
<1>1. Init => VerdictInv
  BY VerdictInit
<1>2. CallInv /\ CheckInv /\ RunInv /\ VerdictInv /\ [Next]_vars => VerdictInv'
  BY VerdictStep
<1>3. VerdictInv => TrueVerdict
  BY DEF VerdictInv
<1> QED BY <1>1, <1>2, <1>3, RunsHold, PTL DEF Spec

(* An injection after which the test goes on has hit the leader, one other      *)
(* member, a majority or all, as the test says, whatever the goroutines of      *)
(* ForEachMember share and in which order they run (test_cases.go:50-178).      *)
THEOREM HitsAreNamed == Spec => HitAsNamed
<1>1. Init => HitInv
  BY HitInit
<1>2. CallInv /\ CheckInv /\ RunInv /\ HitInv /\ [Next]_vars => HitInv'
  BY HitStep
<1>3. CallInv /\ RunInv /\ HitInv /\ [Next]_vars
      => [pc = "inject" /\ pc' = "quorum" => Named]_vars
  BY InjectionIsNamed
<1> QED BY <1>1, <1>2, <1>3, RunsHold, PTL DEF Spec, HitAsNamed

=============================================================================
