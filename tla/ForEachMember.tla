---------------------------- MODULE ForEachMember ----------------------------
(***************************************************************************)
(* Client.ForEachMember: a goroutine per member runs f and sends what came *)
(* of it to errChan, and the caller reads as many results as there are     *)
(* members.  A goroutine whose f failed sends twice, so the caller can     *)
(* return while others still run.                                          *)
(*                                                                         *)
(* The results of one goroutine are read in the order they were sent;      *)
(* between two goroutines the order is left open, which is more than the   *)
(* queue of the channel allows.  What f does is up to who makes the call.  *)
(***************************************************************************)
EXTENDS Naturals, FiniteSets

CONSTANT Member
ASSUME MemberAssumption == IsFiniteSet(Member)

VARIABLES
    called,   \* the members that were listed when the call began
    task,     \* per member, its goroutine: in f, or about to send, or ended
    failed,   \* history: the members whose goroutine had an error
    unread,   \* errChan: pairs <<member, TRUE for "", FALSE for an error>>
    reads,    \* how many results the caller has read
    errAgg,   \* whether one of them was an error
    caller    \* "idle", "reading", or what ForEachMember returned: "nil", "error"

callVars == <<called, task, failed, unread, reads, errAgg, caller>>

Stage == {"f", "ok", "err", "lost", "ended"}

CallTypeOK ==
    /\ called \subseteq Member
    /\ task \in [Member -> Stage]
    /\ failed \subseteq called
    /\ unread \subseteq called \X BOOLEAN
    /\ reads \in Nat
    /\ errAgg \in BOOLEAN
    /\ caller \in {"idle", "reading", "nil", "error"}

CallInit ==
    /\ called = {} /\ failed = {} /\ unread = {}
    /\ task = [m \in Member |-> "ended"]
    /\ reads = 0 /\ errAgg = FALSE /\ caller = "idle"

(* The members ms were listed: a goroutine each. *)
Begin(ms) ==
    /\ caller = "idle"
    /\ called' = ms
    /\ task' = [m \in Member |-> IF m \in ms THEN "f" ELSE "ended"]
    /\ failed' = {} /\ unread' = {} /\ reads' = 0 /\ errAgg' = FALSE
    /\ caller' = "reading"

(* Members() failed: no goroutine, and nothing is called. *)
ListFails ==
    /\ caller = "idle"
    /\ called' = {} /\ failed' = {} /\ unread' = {}
    /\ reads' = 0 /\ errAgg' = FALSE
    /\ caller' = "error"
    /\ UNCHANGED task

(* Variant: when NewClient fails, nothing is sent. *)
OutcomeSilent(m, stage) ==
    /\ task[m] = "f"
    /\ task' = [task EXCEPT ![m] = IF stage = "lost" THEN "ended" ELSE stage]
    /\ failed' = IF stage = "ok" THEN failed ELSE failed \cup {m}
    /\ UNCHANGED <<called, unread, reads, errAgg, caller>>

(* f came back: "ok", or with an error, "err"; or NewClient failed, "lost". *)
Outcome(m, stage) ==
    /\ task[m] = "f"
    /\ task' = [task EXCEPT ![m] = stage]
    /\ failed' = IF stage = "ok" THEN failed ELSE failed \cup {m}
    /\ UNCHANGED <<called, unread, reads, errAgg, caller>>

(* Variant: "" comes before the error. *)
ResultLast(m) == task[m] = "err" \/ (task[m] = "ok" /\ m \notin failed)
(* An error comes first, and after an error of f, "". *)
Result(m) == task[m] = "ok"

(* Variant: a channel of half the size. *)
HalfCapacity == (Cardinality(called) + 1) \div 2
(* The size errChan was made with. *)
Capacity == Cardinality(called)

Send(m) ==
    /\ task[m] \in {"ok", "err", "lost"}
    /\ Cardinality(unread) < Capacity
    /\ unread' = unread \cup {<<m, Result(m)>>}
    /\ task' = [task EXCEPT ![m] = IF task[m] = "err" THEN "ok" ELSE "ended"]
    /\ UNCHANGED <<called, failed, reads, errAgg, caller>>

Receive(m, ok) ==
    /\ caller = "reading" /\ reads < Cardinality(called)
    /\ <<m, ok>> \in unread
    /\ ok => <<m, FALSE>> \notin unread
    /\ unread' = unread \ {<<m, ok>>}
    /\ reads' = reads + 1
    /\ errAgg' = (errAgg \/ ~ok)
    /\ UNCHANGED <<called, task, failed, caller>>

Return ==
    /\ caller = "reading" /\ reads = Cardinality(called)
    /\ caller' = IF errAgg THEN "error" ELSE "nil"
    /\ UNCHANGED <<called, task, failed, unread, reads, errAgg>>

(* The caller goes on; what is still running is followed elsewhere. *)
Leave ==
    /\ caller \in {"nil", "error"}
    /\ caller' = "idle"
    /\ task' = [m \in Member |-> "ended"]
    /\ unread' = {}
    /\ UNCHANGED <<called, failed, reads, errAgg>>

Transport == Return \/ \E m \in Member : Send(m) \/ \E ok \in BOOLEAN : Receive(m, ok)

CallNext ==
    \/ \E ms \in SUBSET Member : Begin(ms)
    \/ ListFails
    \/ \E m \in Member, stage \in {"ok", "err", "lost"} : Outcome(m, stage)
    \/ Transport
    \/ Leave

-----------------------------------------------------------------------------
(* A call that returns nil has run f on every member that was listed, and f  *)
(* succeeded everywhere, although the caller never asks whose result it      *)
(* reads (client.go:105-126).                                                *)
NilMeansAll ==
    caller = "nil" => failed = {} /\ \A m \in called : task[m] = "ended"

(* A caller that has returned leaves room in errChan for whatever the other  *)
(* goroutines may still send: none of them blocks for ever (client.go:103).  *)
ToSend ==
    {<<m, FALSE>> : m \in {n \in called : task[n] \in {"f", "err", "lost"}}} \cup
    {<<m, TRUE>> : m \in {n \in called : task[n] \in {"f", "err", "ok"}}}
RoomForAll ==
    caller \in {"nil", "error"} => Cardinality(unread \cup ToSend) <= Capacity
=============================================================================
