--------------------------- MODULE LifecycleProofs ---------------------------
(***************************************************************************)
(* OwnerInv is inductive, hence the data directory has one owner, for any  *)
(* number of etcd servers and faults.                                      *)
(***************************************************************************)
EXTENDS ServerLifecycle, TLAPS

LEMMA InitOwner ==
  ASSUME Init
  PROVE  OwnerInv
<1>1. faults \in 0 .. MaxFaults
  BY LifecycleAssumption DEF Init
<1>2. TypeOK
  BY <1>1, LifecycleAssumption DEF Init, TypeOK, Control, Stopping, Job
<1>3. pc[loop] = "wait" /\ \A g \in Etcd : pc[g] = "ended"
  BY LifecycleAssumption DEF Init
<1> QED BY <1>2, <1>3 DEF Init, OwnerInv, Stopping

(* A new process owes nothing to the one before. *)
LEMMA DieOwner ==
  ASSUME OwnerInv, Die, faults' \in 0 .. MaxFaults
  PROVE  OwnerInv'
  BY LifecycleAssumption DEF OwnerInv, TypeOK, Die, Control, Stopping, Job

LEMMA FaultCounts ==
  ASSUME TypeOK, NEW k, Fault(k)
  PROVE  faults' \in 0 .. MaxFaults
  BY LifecycleAssumption DEF TypeOK, Fault

LEMMA LoopOwner ==
  ASSUME OwnerInv, Loop, ~ Stop(loop)
  PROVE  OwnerInv'
<1> USE LifecycleAssumption DEF OwnerInv, TypeOK, Control, Stopping, Job, loopVars, etcdVars, Goto
<1>1. CASE Restart
  BY <1>1 DEF Restart
<1>2. CASE Evaluate
  BY <1>2 DEF Evaluate
<1>3. CASE CheckHealth
  <2>1. faults' \in 0 .. MaxFaults
    BY <1>3, FaultCounts DEF CheckHealth
  <2> QED BY <1>3, <2>1 DEF CheckHealth
<1>4. CASE Execute
  <2>1. PICK p \in {"stop", "wait", "remove", "rejoin"} :
          /\ pc[loop] = "execute" /\ pc' = [pc EXCEPT ![loop] = p]
          /\ p \in {"remove", "rejoin"} => ~etcdRunning
          /\ graceful' \in BOOLEAN
          /\ UNCHANGED <<shutdown, etcdRunning, etcdHealthy, isRunning, server, etcdVars,
                         ticker, faults>>
    BY <1>4 DEF Execute
  <2>2. TypeOK'
    BY <2>1
  <2> QED BY <2>1, <2>2
<1>5. CASE Remove
  BY <1>5 DEF Remove
<1>6. CASE StartEtcd
  <2>1. PICK g \in Etcd :
          /\ Unused(g)
          /\ server' = g
          /\ inner' = inner \cup {g}
          /\ alive' = alive \cup {g}
          /\ errc' = [errc EXCEPT ![g] = "open"]
    BY <1>6 DEF StartEtcd
  <2>2. /\ pc[loop] \in {"rejoin", "start"} /\ pc' = [pc EXCEPT ![loop] = "ready"]
        /\ isRunning' = TRUE /\ UNCHANGED <<loopVars, ticker, faults>>
        /\ \A h \in Etcd : pc[h] \in {"errc", "ended"}
    BY <1>6 DEF StartEtcd, WatchersArePrompt
  <2>3. TypeOK'
    BY <2>1, <2>2
  <2>4. alive = {} /\ pc[g] = "ended"
    BY <2>1, <2>2 DEF Unused
  <2> QED BY <2>1, <2>2, <2>3, <2>4
<1>7. CASE Ready
  BY <1>7 DEF Ready
<1>8. CASE StartTimeout
  <2>1. faults' \in 0 .. MaxFaults
    BY <1>8, FaultCounts DEF StartTimeout
  <2> QED BY <1>8, <2>1, DieOwner DEF StartTimeout
<1>9. CASE StopSnapshot
  BY <1>9, DieOwner DEF StopSnapshot, Usable
<1> QED BY <1>1, <1>2, <1>3, <1>4, <1>5, <1>6, <1>7, <1>8, <1>9 DEF Loop

(* Stop, by the loop or by the watcher of the server in charge. *)
LEMMA StopOwner ==
  ASSUME OwnerInv, NEW s \in {loop} \cup Etcd, Stop(s)
  PROVE  OwnerInv'
<1> USE LifecycleAssumption DEF OwnerInv, TypeOK, Control, Stopping, Job, loopVars, etcdVars, Goto
<1>1. CASE StopEnter(s)
  BY <1>1, DieOwner DEF StopEnter, Leave
<1>2. CASE HardStop(s)
  BY <1>2, DieOwner DEF HardStop, Usable
<1>3. CASE ClearServer(s)
  BY <1>3 DEF ClearServer
<1>4. CASE Close(s)
  <2>1. /\ pc[s] = "close" /\ pc' = [pc EXCEPT ![s] = "errc"] /\ alive' = alive \ {server}
        /\ UNCHANGED <<loopVars, isRunning, server, inner, errc, ticker, faults>>
    BY <1>4 DEF Close
  <2>2. TypeOK' /\ alive' = {}
    BY <2>1
  <2>3. CASE s = loop
    BY <2>1, <2>2, <2>3
  <2>4. CASE s \in Etcd
    BY <2>1, <2>2, <2>4
  <2> QED BY <2>3, <2>4
<1>5. CASE CloseErrc(s)
  BY <1>5, DieOwner DEF CloseErrc
<1>6. CASE ClearIsRunning(s)
  <2>1. CASE Die
    BY <1>6, <2>1, DieOwner DEF ClearIsRunning
  <2>2. CASE ~Die
    <3>1. /\ pc[s] = "done" /\ isRunning' = FALSE
          /\ pc' = [pc EXCEPT ![s] = IF s = loop THEN "wait" ELSE "ended"]
          /\ UNCHANGED <<loopVars, server, etcdVars, ticker, faults>>
      BY <1>6, <2>2 DEF ClearIsRunning, Leave
    <3>2. TypeOK' /\ alive = {}
      BY <3>1
    <3> QED BY <3>1, <3>2
  <2> QED BY <2>1, <2>2
<1> QED BY <1>1, <1>2, <1>3, <1>4, <1>5, <1>6 DEF Stop

LEMMA WatcherOwner ==
  ASSUME OwnerInv, NEW g \in Etcd, WatchStopped(g) \/ WatchError(g)
  PROVE  OwnerInv'
<1> USE LifecycleAssumption DEF OwnerInv, TypeOK, Control, Stopping, Job, loopVars, etcdVars, Goto
<1>1. CASE WatchStopped(g)
  <2>1. g = server /\ alive = {}
    BY <1>1 DEF WatchStopped
  <2> QED BY <1>1, <2>1 DEF WatchStopped
<1>2. CASE WatchError(g)
  BY <1>2 DEF WatchError
<1> QED BY <1>1, <1>2

LEMMA TickerOwner ==
  ASSUME OwnerInv, NEW t \in Etcd \X Job, Ticker(t)
  PROVE  OwnerInv'
<1> USE LifecycleAssumption DEF OwnerInv, TypeOK, Control, Stopping, Job, loopVars, etcdVars
<1>1. CASE Tick(t)
  BY <1>1 DEF Tick
<1>2. CASE Use(t)
  BY <1>2, DieOwner DEF Use, Usable
<1> QED BY <1>1, <1>2 DEF Ticker

LEMMA FailureOwner ==
  ASSUME OwnerInv, Failure
  PROVE  OwnerInv'
<1> USE LifecycleAssumption DEF OwnerInv, TypeOK, Control, Stopping, Job, loopVars, etcdVars, Goto
<1>1. faults' \in 0 .. MaxFaults
  BY FaultCounts DEF Failure, EvaluateFails, Terminate, StartEtcdFails, EtcdError, EtcdRemoved
<1>2. CASE Terminate
  BY <1>1, <1>2 DEF Terminate
<1>3. CASE StartEtcdFails
  BY <1>1, <1>3 DEF StartEtcdFails, WatchersArePrompt
<1>4. ASSUME NEW g \in Etcd, EtcdError(g)
      PROVE  OwnerInv'
  BY <1>1, <1>4 DEF EtcdError
<1>5. ASSUME NEW g \in Etcd, EtcdRemoved(g)
      PROVE  OwnerInv'
  BY <1>1, <1>5 DEF EtcdRemoved
<1>6. CASE EvaluateFails
  BY <1>1, <1>6 DEF EvaluateFails
<1> QED BY <1>2, <1>3, <1>4, <1>5, <1>6 DEF Failure

LEMMA NextOwner == OwnerInv /\ [Next]_vars => OwnerInv'
<1> SUFFICES ASSUME OwnerInv, [Next]_vars PROVE OwnerInv'
  OBVIOUS
<1>1. CASE Loop
  BY <1>1, LoopOwner, StopOwner
<1>2. ASSUME NEW g \in Etcd, Watcher(g) PROVE OwnerInv'
  BY <1>2, StopOwner, WatcherOwner DEF Watcher
<1>3. ASSUME NEW t \in Etcd \X Job, Ticker(t) PROVE OwnerInv'
  BY <1>3, TickerOwner
<1>4. CASE Failure
  BY <1>4, FailureOwner
<1>5. CASE UNCHANGED vars
  BY <1>5 DEF vars, loopVars, etcdVars, OwnerInv, TypeOK
<1> QED BY <1>1, <1>2, <1>3, <1>4, <1>5 DEF Next

(* The protocol of Server's fields: a server is referred to before it runs,   *)
(* and isRunning, the watcher and the channel Err() agree on whether it still  *)
(* does, through startServer, Stop and runErrorWatcher.                       *)
THEOREM FieldsAgree == Spec => []OwnerInv
BY InitOwner, NextOwner, PTL DEF Spec

(* While Seed or Join removes the data directory or starts a server on it,  *)
(* no other server of the process runs: DataDirIsOwned, from OwnerInv.      *)
THEOREM OneOwner == Spec => []DataDirIsOwned
<1>1. OwnerInv => DataDirIsOwned
  BY DEF OwnerInv, DataDirIsOwned
<1> QED BY <1>1, FieldsAgree, PTL
=============================================================================
