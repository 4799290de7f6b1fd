-------------------------- MODULE DisasterRecovery --------------------------
(***************************************************************************)
(* What a fleet of operators promises of the data store, seen from far:    *)
(* which instances run etcd, how recent the database they run is, and the  *)
(* most recent copy that exists anywhere.  A cluster is founded only when  *)
(* nothing runs, by one instance, from the most recent copy; the others    *)
(* can only enter what runs; whatever stops, the copies stay.  Only the    *)
(* outside world destroys copies.                                          *)
(***************************************************************************)
EXTENDS Naturals

CONSTANT Instance   \* the instances of the auto-scaling group

VARIABLES
    live,    \* the instances whose etcd server runs, or restarts with the data it has
    head,    \* the highest revision among them, 0 when there is none
    kept,    \* the highest revision of any copy
    acked    \* the highest revision acknowledged to a client

vars == <<live, head, kept, acked>>

Init ==
    /\ live = {}
    /\ head = 0
    /\ kept = 0
    /\ acked = 0

(* An empty keyspace has revision 1. *)
Found(i) ==
    /\ live = {}
    /\ live' = {i}
    /\ head' = IF kept = 0 THEN 1 ELSE kept
    /\ kept' = head'
    /\ UNCHANGED acked

Enter(i) ==
    /\ live # {}
    /\ live' = live \cup {i}
    /\ UNCHANGED <<head, kept, acked>>

Leave(i) ==
    /\ i \in live
    /\ live' = live \ {i}
    /\ head' \in 0 .. head
    /\ head' = 0 <=> live' = {}
    /\ UNCHANGED <<kept, acked>>

(* Writes only ever continue the most recent history. *)
Commit ==
    /\ live # {}
    /\ head = kept
    /\ head' = head + 1
    /\ kept' = head'
    /\ acked' = head'
    /\ UNCHANGED live

Destroyed ==
    /\ kept' \in head .. kept
    /\ acked' = IF acked <= kept' THEN acked ELSE kept'
    /\ UNCHANGED <<live, head>>

Next ==
    \/ \E i \in Instance : Found(i) \/ Enter(i) \/ Leave(i)
    \/ Commit
    \/ Destroyed

Spec == Init /\ [][Next]_vars
=============================================================================
