--------------------------- MODULE ServerLifecycle ---------------------------
(***************************************************************************)
(* The goroutines of one operator process around one etcd.Server: the      *)
(* operator's loop, which starts and stops the embedded etcd, and the      *)
(* error watcher, the member cleaner and the snapshotter that every start  *)
(* leaves behind.  They share Server.isRunning, Server.server and the      *)
(* field Server of the latter, and no lock.                                *)
(*                                                                         *)
(* A step is what a goroutine does between two reads or writes of what     *)
(* they share.  What a goroutine must not do (call a method of nil, close  *)
(* a channel twice, read a closed database) ends the process; the service  *)
(* manager starts it again.                                                *)
(***************************************************************************)
EXTENDS Naturals

CONSTANTS
    Etcd,       \* embed.Etcd objects; one can be used again when nothing refers to it
    loop, nil,  \* the goroutine of Operator.Run; no object
    Faults,     \* the kinds of fault that may happen
    MaxFaults   \* BOUND: how many of them

FaultKind == {"error", "removed", "health", "terminate", "boot", "slow", "group"}

ASSUME LifecycleAssumption ==
    /\ loop \notin Etcd /\ nil \notin Etcd
    /\ Faults \subseteq FaultKind
    /\ MaxFaults \in Nat

VARIABLES
    pc,            \* where the loop, and the watcher of each etcd, is
    shutdown,      \* Operator.shutdown
    etcdRunning,   \* Operator.etcdRunning
    etcdHealthy,   \* Operator.etcdHealthy
    graceful,      \* the argument of the Stop that the loop is in
    isRunning,     \* Server.isRunning
    server,        \* Server.server
    inner,         \* the embed.Etcd whose field Server is not nil
    alive,         \* those whose EtcdServer runs; ends with StopNotify
    errc,          \* their channel Err(): "open", "error", "closed"
    ticker,        \* per etcd, the cleaner and the snapshotter it was started with
    faults         \* faults spent

loopVars  == <<shutdown, etcdRunning, etcdHealthy, graceful>>
etcdVars  == <<inner, alive, errc>>
vars == <<pc, loopVars, isRunning, server, etcdVars, ticker, faults>>

Job      == {"cleaner", "snapshotter"}
Stopping == {"stop", "snapshot", "hardstop", "clear", "close", "errc", "done"}
Control  == {"down", "wait", "health", "execute", "rejoin", "remove", "start", "ready"}

TypeOK ==
    /\ pc \in [{loop} \cup Etcd -> Control \cup Stopping \cup {"watch", "ended"}]
    /\ shutdown \in BOOLEAN /\ etcdRunning \in BOOLEAN /\ etcdHealthy \in BOOLEAN
    /\ graceful \in BOOLEAN /\ isRunning \in BOOLEAN
    /\ server \in Etcd \cup {nil}
    /\ inner \subseteq Etcd
    /\ alive \subseteq Etcd
    /\ errc \in [Etcd -> {"open", "error", "closed"}]
    /\ ticker \in [Etcd \X Job -> {"tick", "use", "ended"}]
    /\ faults \in 0 .. MaxFaults

Goto(s, p) == pc' = [pc EXCEPT ![s] = p]

Fault(kind) ==
    /\ kind \in Faults
    /\ faults < MaxFaults
    /\ faults' = faults + 1

Init ==
    /\ pc = [s \in {loop} \cup Etcd |-> IF s = loop THEN "wait" ELSE "ended"]
    /\ shutdown = FALSE /\ etcdRunning = FALSE /\ etcdHealthy = FALSE /\ graceful = FALSE
    /\ isRunning = FALSE
    /\ server = nil
    /\ inner = {} /\ alive = {}
    /\ errc = [g \in Etcd |-> "open"]
    /\ ticker = [t \in Etcd \X Job |-> "ended"]
    /\ faults = 0

(* A panic, log.Fatal or os.Exit takes all the goroutines along. *)
Die ==
    /\ pc' = [s \in {loop} \cup Etcd |-> IF s = loop THEN "down" ELSE "ended"]
    /\ shutdown' = FALSE /\ etcdRunning' = FALSE /\ etcdHealthy' = FALSE /\ graceful' = FALSE
    /\ isRunning' = FALSE
    /\ server' = nil
    /\ inner' = {} /\ alive' = {}
    /\ errc' = [g \in Etcd |-> "open"]
    /\ ticker' = [t \in Etcd \X Job |-> "ended"]

Restart ==
    /\ pc[loop] = "down"
    /\ Goto(loop, "wait")
    /\ UNCHANGED <<loopVars, isRunning, server, etcdVars, ticker, faults>>

-----------------------------------------------------------------------------
(* The loop. *)

Evaluate ==
    /\ pc[loop] = "wait"
    /\ etcdRunning' = isRunning
    /\ Goto(loop, "health")
    /\ UNCHANGED <<shutdown, etcdHealthy, graceful, isRunning, server, etcdVars, ticker, faults>>

(* The auto-scaling group cannot be read: nothing is executed, not even the stop. *)
EvaluateFails ==
    /\ pc[loop] = "wait"
    /\ Fault("group")
    /\ UNCHANGED <<pc, loopVars, isRunning, server, etcdVars, ticker>>

(* SIGTERM, received by wait. *)
Terminate ==
    /\ pc[loop] = "wait"
    /\ ~shutdown
    /\ Fault("terminate")
    /\ shutdown' = TRUE
    /\ UNCHANGED <<pc, etcdRunning, etcdHealthy, graceful, isRunning, server, etcdVars, ticker>>

(* Other members may answer for the cluster; a server of ours that runs is   *)
(* enough, unless the check fails or quorum is lost.                        *)
CheckHealth ==
    /\ pc[loop] = "health"
    /\ \/ etcdHealthy' = TRUE /\ UNCHANGED faults
       \/ etcdHealthy' = FALSE /\ alive = {} /\ UNCHANGED faults
       \/ etcdHealthy' = FALSE /\ alive # {} /\ Fault("health")
    /\ Goto(loop, "execute")
    /\ UNCHANGED <<shutdown, etcdRunning, graceful, isRunning, server, etcdVars, ticker>>

(* Variant: the loop looks at etcd before it looks at shutdown. *)
ExecuteShutdownLast ==
    /\ pc[loop] = "execute"
    /\ \/ etcdRunning /\ ~etcdHealthy /\ Goto(loop, "stop") /\ graceful' = FALSE
       \/ etcdRunning /\ Goto(loop, "wait") /\ UNCHANGED graceful
       \/ ~etcdRunning /\ shutdown /\ Goto(loop, "stop") /\ graceful' = etcdHealthy
       \/ ~etcdRunning /\ ~shutdown /\ Goto(loop, "remove") /\ UNCHANGED graceful
       \/ ~etcdRunning /\ ~shutdown /\ etcdHealthy /\ Goto(loop, "rejoin") /\ UNCHANGED graceful
    /\ UNCHANGED <<shutdown, etcdRunning, etcdHealthy, isRunning, server, etcdVars, ticker,
                   faults>>

(* Stop for SIGTERM; Seed or Join removes the data directory, or Join goes  *)
(* back in with it; a healthy server, or one that the others may confirm,   *)
(* is left alone; Stop otherwise.  Waiting in START is Fleet's business.    *)
Execute ==
    /\ pc[loop] = "execute"
    /\ \/ shutdown /\ Goto(loop, "stop") /\ graceful' = etcdHealthy
       \/ ~shutdown /\ etcdRunning /\ ~etcdHealthy /\ Goto(loop, "stop") /\ graceful' = FALSE
       \/ ~shutdown /\ etcdRunning /\ Goto(loop, "wait") /\ UNCHANGED graceful
       \/ ~shutdown /\ ~etcdRunning /\ Goto(loop, "remove") /\ UNCHANGED graceful
       \/ ~shutdown /\ ~etcdRunning /\ etcdHealthy /\ Goto(loop, "rejoin") /\ UNCHANGED graceful
    /\ UNCHANGED <<shutdown, etcdRunning, etcdHealthy, isRunning, server, etcdVars, ticker,
                   faults>>

Remove ==
    /\ pc[loop] = "remove"
    /\ Goto(loop, "start")
    /\ UNCHANGED <<loopVars, isRunning, server, etcdVars, ticker, faults>>

-----------------------------------------------------------------------------
(* startServer. *)

Unused(g) ==
    /\ g # server
    /\ g \notin alive
    /\ pc[g] = "ended"
    /\ \A j \in Job : ticker[<<g, j>>] = "ended"

(* ASSUMPTION: a watcher that can run does so before the loop, which polls  *)
(* all the instances first, starts another server; only Close takes longer. *)
WatchersArePrompt == \A g \in Etcd : pc[g] \in {"errc", "ended"}

(* Variant: isRunning waits for the server to be ready. *)
StartEtcdQuietly ==
    /\ pc[loop] \in {"rejoin", "start"}
    /\ WatchersArePrompt
    /\ \E g \in Etcd :
         /\ Unused(g)
         /\ server' = g
         /\ inner' = inner \cup {g}
         /\ alive' = alive \cup {g}
         /\ errc' = [errc EXCEPT ![g] = "open"]
    /\ Goto(loop, "ready")
    /\ UNCHANGED <<loopVars, isRunning, ticker, faults>>

StartEtcd ==
    /\ pc[loop] \in {"rejoin", "start"}
    /\ WatchersArePrompt
    /\ \E g \in Etcd :
         /\ Unused(g)
         /\ server' = g
         /\ inner' = inner \cup {g}
         /\ alive' = alive \cup {g}
         /\ errc' = [errc EXCEPT ![g] = "open"]
    /\ isRunning' = TRUE
    /\ Goto(loop, "ready")
    /\ UNCHANGED <<loopVars, ticker, faults>>

(* A rejoin that fails is followed by a join. *)
StartEtcdFails ==
    /\ pc[loop] \in {"rejoin", "start"}
    /\ WatchersArePrompt
    /\ Fault("boot")
    /\ server' = nil
    /\ Goto(loop, IF pc[loop] = "rejoin" THEN "remove" ELSE "wait")
    /\ UNCHANGED <<loopVars, isRunning, etcdVars, ticker>>

Ready ==
    /\ pc[loop] = "ready"
    /\ server \in alive
    /\ pc' = [pc EXCEPT ![loop] = "wait", ![server] = "watch"]
    /\ ticker' = [t \in Etcd \X Job |-> IF t[1] = server THEN "tick" ELSE ticker[t]]
    /\ UNCHANGED <<loopVars, isRunning, server, etcdVars, faults>>

(* Err() or the timeout: panic. *)
StartTimeout ==
    /\ pc[loop] = "ready"
    /\ \/ (server \notin alive \/ errc[server] # "open") /\ UNCHANGED faults
       \/ Fault("slow")
    /\ Die

-----------------------------------------------------------------------------
(* Stop(graceful, TRUE) by the loop, Stop(FALSE, FALSE) by a watcher. *)

Usable == server # nil /\ server \in inner

(* Stop returns: to the loop, which exits if it was told to; or the watcher ends. *)
Leave(s) ==
    \/ s = loop /\ shutdown /\ Die
    \/ /\ s = loop => ~shutdown
       /\ Goto(s, IF s = loop THEN "wait" ELSE "ended")
       /\ UNCHANGED <<loopVars, server, etcdVars, ticker>>

(* Variant: isRunning is taken back first. *)
StopEnterEarly(s) ==
    /\ pc[s] = "stop"
    /\ isRunning' = FALSE
    /\ \/ ~isRunning /\ Leave(s)
       \/ /\ isRunning
          /\ Goto(s, IF s = loop THEN "snapshot" ELSE "hardstop")
          /\ UNCHANGED <<loopVars, server, etcdVars, ticker>>
    /\ UNCHANGED faults

StopEnter(s) ==
    /\ pc[s] = "stop"
    /\ \/ ~isRunning /\ Leave(s) /\ UNCHANGED isRunning
       \/ /\ isRunning
          /\ Goto(s, IF s = loop THEN "snapshot" ELSE "hardstop")
          /\ UNCHANGED <<loopVars, isRunning, server, etcdVars, ticker>>
    /\ UNCHANGED faults

StopSnapshot ==
    /\ pc[loop] = "snapshot"
    /\ \/ /\ Usable
          /\ Goto(loop, IF graceful THEN "close" ELSE "hardstop")
          /\ UNCHANGED <<loopVars, isRunning, server, etcdVars, ticker>>
       \/ server \notin alive /\ Die
    /\ UNCHANGED faults

HardStop(s) ==
    /\ pc[s] = "hardstop"
    /\ \/ /\ Usable
          /\ alive' = alive \ {server}
          /\ Goto(s, "clear")
          /\ UNCHANGED <<loopVars, isRunning, server, inner, errc, ticker>>
       \/ ~Usable /\ Die
    /\ UNCHANGED faults

(* server.Server = nil *)
ClearServer(s) ==
    /\ pc[s] = "clear"
    /\ inner' = inner \ {server}
    /\ Goto(s, "close")
    /\ UNCHANGED <<loopVars, isRunning, server, alive, errc, ticker, faults>>

(* embed.Etcd.Close stops the server if there is one, waits for the requests *)
(* and the peers, and closes the channel Err() as its last step.            *)
Close(s) ==
    /\ pc[s] = "close"
    /\ alive' = alive \ {server}
    /\ Goto(s, "errc")
    /\ UNCHANGED <<loopVars, isRunning, server, inner, errc, ticker, faults>>

CloseErrc(s) ==
    /\ pc[s] = "errc"
    /\ LET closing == IF s = loop THEN server ELSE s IN
       \/ /\ errc[closing] # "closed"
          /\ errc' = [errc EXCEPT ![closing] = "closed"]
          /\ Goto(s, "done")
          /\ UNCHANGED <<loopVars, isRunning, server, inner, alive, ticker>>
       \/ errc[closing] = "closed" /\ Die
    /\ UNCHANGED faults

ClearIsRunning(s) ==
    /\ pc[s] = "done"
    /\ isRunning' = FALSE
    /\ Leave(s)
    /\ UNCHANGED faults

Stop(s) ==
    \/ StopEnter(s) \/ HardStop(s) \/ ClearServer(s) \/ Close(s) \/ CloseErrc(s)
    \/ ClearIsRunning(s)

-----------------------------------------------------------------------------
(* The goroutines. *)

(* Variant: a server that stops is only reported. *)
WatchStoppedLogs(g) ==
    /\ pc[g] = "watch"
    /\ g \notin alive
    /\ Goto(g, "ended")
    /\ UNCHANGED <<loopVars, isRunning, server, etcdVars, ticker, faults>>

WatchStopped(g) ==
    /\ pc[g] = "watch"
    /\ g \notin alive
    /\ isRunning' = FALSE
    /\ Goto(g, "ended")
    /\ UNCHANGED <<loopVars, server, etcdVars, ticker, faults>>

WatchError(g) ==
    /\ pc[g] = "watch"
    /\ errc[g] # "open"
    /\ Goto(g, "stop")
    /\ UNCHANGED <<loopVars, isRunning, server, etcdVars, ticker, faults>>

(* runMemberCleaner and runSnapshotter look at IsRunning when they tick ... *)
Tick(t) ==
    /\ ticker[t] = "tick"
    /\ ticker' = [ticker EXCEPT ![t] = IF isRunning THEN "use" ELSE "ended"]
    /\ UNCHANGED <<pc, loopVars, isRunning, server, etcdVars, faults>>

(* ... and then use server.Server, the snapshotter after the store's answer; *)
(* the database of a server that has stopped is closed.                     *)
Use(t) ==
    /\ ticker[t] = "use"
    /\ \/ /\ Usable
          /\ ticker' = [ticker EXCEPT ![t] = "tick"]
          /\ UNCHANGED <<pc, loopVars, isRunning, server, etcdVars>>
       \/ ~Usable /\ Die
       \/ t[2] = "snapshotter" /\ server \notin alive /\ Die
    /\ UNCHANGED faults

-----------------------------------------------------------------------------
(* etcd, by itself: a listener fails; the server stops, removed from its cluster. *)

EtcdError(g) ==
    /\ g \in alive
    /\ errc[g] = "open"
    /\ Fault("error")
    /\ errc' = [errc EXCEPT ![g] = "error"]
    /\ UNCHANGED <<pc, loopVars, isRunning, server, inner, alive, ticker>>

EtcdRemoved(g) ==
    /\ g \in alive
    /\ Fault("removed")
    /\ alive' = alive \ {g}
    /\ UNCHANGED <<pc, loopVars, isRunning, server, inner, errc, ticker>>

-----------------------------------------------------------------------------
Loop ==
    Restart \/ Evaluate \/ CheckHealth \/ Execute \/ Remove \/ StartEtcd \/ Ready
    \/ StartTimeout \/ Stop(loop) \/ StopSnapshot
Watcher(g) == WatchStopped(g) \/ WatchError(g) \/ Stop(g)
Ticker(t)  == Tick(t) \/ Use(t)
Failure ==
    EvaluateFails \/ Terminate \/ StartEtcdFails \/ \E g \in Etcd : EtcdError(g) \/ EtcdRemoved(g)

Next ==
    \/ Loop
    \/ \E g \in Etcd : Watcher(g)
    \/ \E t \in Etcd \X Job : Ticker(t)
    \/ Failure

(* The runtime schedules every goroutine, the tickers fire, the calls return. *)
Spec ==
    /\ Init /\ [][Next]_vars
    /\ WF_vars(Loop)
    /\ \A g \in Etcd : WF_vars(Watcher(g))
    /\ \A t \in Etcd \X Job : WF_vars(Ticker(t))

-----------------------------------------------------------------------------
(* The data directory has one owner: while Seed or Join removes it or starts *)
(* a server on it, no server of this process still runs on it, whoever was   *)
(* in charge of stopping it (server.go:305-321, 398-408).                    *)
DataDirIsOwned == pc[loop] \in {"rejoin", "remove", "start"} => alive = {}

(* Its inductive strengthening: what runs is the server the loop started last, *)
(* isRunning is not taken back before it has stopped, and a watcher that is  *)
(* still at work works on that server, or is about to close a channel that   *)
(* was closed before.                                                       *)
OwnerInv ==
    /\ TypeOK
    /\ alive \subseteq {server}
    /\ ~isRunning => alive = {}
    /\ pc[loop] \in {"health", "execute"} /\ ~etcdRunning => ~isRunning
    /\ pc[loop] \in {"rejoin", "remove", "start"} => ~isRunning
    /\ isRunning \/ pc[loop] = "ready" \/ pc[loop] \in Stopping \ {"stop"} => server # nil
    /\ pc[loop] \in {"clear", "errc", "done"} => alive = {}
    /\ pc[loop] = "done" => errc[server] = "closed"
    /\ \A g \in Etcd :
         /\ pc[g] \notin {"errc", "ended"} => g = server
         /\ pc[g] \in {"clear", "close", "errc", "done"} /\ g = server => alive = {}
         /\ pc[g] \in {"hardstop", "clear", "close", "errc"} /\ (g # server \/ ~isRunning)
              => errc[g] = "closed"

(* However Stop, the watchers and the tickers meet, and whatever panics on   *)
(* the way, the process ends up with a server that runs, that isRunning      *)
(* tells of, and that has its watcher, its cleaner and its snapshotter.      *)
Supervised ==
    /\ isRunning
    /\ server \in alive \cap inner
    /\ pc[server] = "watch"
    /\ \A j \in Job : ticker[<<server, j>>] # "ended"
EndsSupervised == <>[]Supervised

(* SIGTERM ends the process, whatever state etcd is in (operator.go:151-156). *)
Terminates == shutdown ~> pc[loop] = "down"
=============================================================================
