------------------------------ MODULE Snapshots ------------------------------
(***************************************************************************)
(* The snapshot store: Server.Snapshot of pkg/etcd and the file and s3     *)
(* providers of pkg/providers/snapshot, at the level of names and files.   *)
(*                                                                         *)
(* Snapshot is called by runSnapshotter, again and again, and by Stop, of  *)
(* every etcd server that uses the store; each call starts a Purge in the  *)
(* background.  With the file provider the store is a directory of one     *)
(* instance, and what Save is still writing is visible in it; with the s3  *)
(* provider it is one bucket for all, and an upload appears at once.       *)
(***************************************************************************)
EXTENDS Naturals, FiniteSets

CONSTANTS
    Name,         \* the names of the etcd servers
    Caller,       \* the goroutines that call Snapshot
    Deployment,   \* which provider is configured, and which server each caller belongs to
    Periodic,     \* those of them that are a runSnapshotter
    Tag,          \* the random suffixes of TempFile
    Faults,       \* the kinds of fault that may happen
    MaxFaults,    \* BOUND: how many of them
    MaxRevision   \* BOUND: the highest etcd revision

ASSUME SnapshotsAssumption ==
    /\ Deployment \subseteq [provider : {"file", "s3"}, nameOf : [Caller -> Name]]
    /\ \A d \in Deployment : d.provider = "file" =>
           \A c, e \in Caller : d.nameOf[c] = d.nameOf[e]   \* the directory of one instance
    /\ Name \subseteq Nat
    /\ Periodic \subseteq Caller
    /\ Tag \subseteq Nat \ {0}
    /\ Faults \subseteq {"info", "copy", "rename", "upload", "remove", "crash", "stop"}
    /\ MaxFaults \in Nat
    /\ MaxRevision \in Nat \ {0}

Revision == 1 .. MaxRevision
Final    == 0
Partial  == 0

(* Filename() is the name and the revision; TempFile appends a suffix to it, *)
(* and NewMetadata reads the same revision from either.                     *)
File == [name : Name, revision : Revision, tag : Tag \cup {Final}]

VARIABLES
    provider,   \* what is configured; it never changes
    nameOf,     \* the server each caller belongs to; it never changes
    applied,    \* KV().Rev() of each server
    files,      \* the files or objects in the store
    content,    \* the revision of the keyspace in each; Partial: cut short
    old,        \* those of them that are older than the TTL
    pc,         \* where each caller is in Snapshot
    minRev,     \* what Info told it; 0: no snapshot
    rev,        \* the revision it is saving
    dump,       \* the revision of the keyspace that Backend().Snapshot() holds
    tag,        \* the suffix of its temporary file; Final: it has none
    purge,      \* its Purge: "off", "list", "remove"
    listed,     \* the old files that Purge found and has not removed yet
    faults      \* faults spent

config    == <<provider, nameOf>>
store     == <<files, content, old>>
saveVars  == <<minRev, rev, dump, tag>>
purgeVars == <<purge, listed>>
vars == <<config, applied, store, pc, saveVars, purgeVars, faults>>

TypeOK ==
    /\ provider \in {"file", "s3"}
    /\ nameOf \in [Caller -> Name]
    /\ applied \in [Name -> Revision]
    /\ files \subseteq File
    /\ content \in [File -> Revision \cup {Partial}]
    /\ old \subseteq files
    /\ pc \in [Caller -> {"idle", "info", "compare", "dump", "create", "copy", "rename", "upload"}]
    /\ minRev \in [Caller -> Revision \cup {0}]
    /\ rev \in [Caller -> Revision \cup {0}]
    /\ dump \in [Caller -> Revision \cup {0}]
    /\ tag \in [Caller -> Tag \cup {Final}]
    /\ purge \in [Caller -> {"off", "list", "remove"}]
    /\ listed \in [Caller -> SUBSET File]
    /\ faults \in 0 .. MaxFaults

-----------------------------------------------------------------------------
Goto(c, p) == pc' = [pc EXCEPT ![c] = p]

(* Snapshot returns. *)
Return(c) ==
    /\ Goto(c, "idle")
    /\ minRev' = [minRev EXCEPT ![c] = 0]
    /\ rev' = [rev EXCEPT ![c] = 0]
    /\ dump' = [dump EXCEPT ![c] = 0]
    /\ tag' = [tag EXCEPT ![c] = Final]

(* f is written with contents v, now. *)
Put(f, v) ==
    /\ files' = files \cup {f}
    /\ content' = [content EXCEPT ![f] = v]
    /\ old' = old \ {f}

Drop(f) ==
    /\ files' = files \ {f}
    /\ content' = [content EXCEPT ![f] = Partial]
    /\ old' = old \ {f}

Target(c) == [name |-> nameOf[c], revision |-> rev[c], tag |-> Final]
Temp(c)   == [name |-> nameOf[c], revision |-> rev[c], tag |-> tag[c]]

Fault(kind) ==
    /\ kind \in Faults
    /\ faults < MaxFaults
    /\ faults' = faults + 1

-----------------------------------------------------------------------------
Init ==
    /\ \E d \in Deployment : provider = d.provider /\ nameOf = d.nameOf
    /\ applied = [n \in Name |-> 1]
    /\ files = {}
    /\ content = [f \in File |-> Partial]
    /\ old = {}
    /\ pc = [c \in Caller |-> "idle"]
    /\ minRev = [c \in Caller |-> 0]
    /\ rev = [c \in Caller |-> 0]
    /\ dump = [c \in Caller |-> 0]
    /\ tag = [c \in Caller |-> Final]
    /\ purge = [c \in Caller |-> "off"]
    /\ listed = [c \in Caller |-> {}]
    /\ faults = 0

-----------------------------------------------------------------------------
(* Server.Snapshot *)

(* ASSUMPTION: the Purge of a caller's previous call has ended; the interval *)
(* and the TTL are minutes and hours.                                       *)
Begin(c) ==
    /\ pc[c] = "idle"
    /\ purge[c] = "off"
    /\ Goto(c, "info")
    /\ purge' = [purge EXCEPT ![c] = "list"]
    /\ UNCHANGED <<config, applied, store, saveVars, listed>>

(* The ticker of runSnapshotter, and Stop(_, true), which is bounded like a fault. *)
Tick(c)  == c \in Periodic /\ Begin(c) /\ UNCHANGED faults
Stop(c)  == c \notin Periodic /\ Begin(c) /\ Fault("stop")

(* Info: the highest revision that a name in the store mentions. *)
Info(c) ==
    /\ pc[c] = "info"
    /\ \E r \in {f.revision : f \in files} \cup {0} :
         /\ \A f \in files : f.revision <= r
         /\ minRev' = [minRev EXCEPT ![c] = r]
    /\ Goto(c, "compare")
    /\ UNCHANGED <<config, applied, store, rev, dump, tag, purgeVars, faults>>

(* Snapshotting anyways. *)
InfoFails(c) ==
    /\ pc[c] = "info"
    /\ Fault("info")
    /\ Goto(c, "compare")
    /\ UNCHANGED <<config, applied, store, saveVars, purgeVars>>

(* ErrMemberRevisionTooOld. *)
Skip(c) ==
    /\ pc[c] = "compare"
    /\ applied[nameOf[c]] <= minRev[c]
    /\ Return(c)
    /\ UNCHANGED <<config, applied, store, purgeVars, faults>>

Compare(c) ==
    /\ pc[c] = "compare"
    /\ applied[nameOf[c]] > minRev[c]
    /\ rev' = [rev EXCEPT ![c] = applied[nameOf[c]]]
    /\ minRev' = [minRev EXCEPT ![c] = 0]
    /\ Goto(c, "dump")
    /\ UNCHANGED <<config, applied, store, dump, tag, purgeVars, faults>>

(* Backend().Snapshot(), in the goroutine that feeds the pipe: later than KV().Rev(). *)
Dump(c) ==
    /\ pc[c] = "dump"
    /\ dump' = [dump EXCEPT ![c] = applied[nameOf[c]]]
    /\ Goto(c, IF provider = "file" THEN "create" ELSE "upload")
    /\ UNCHANGED <<config, applied, store, minRev, rev, tag, purgeVars, faults>>

-----------------------------------------------------------------------------
(* file.Save *)

(* Variant: Save writes under the final name. *)
CreateInPlace(c) ==
    /\ pc[c] = "create"
    /\ Put(Target(c), Partial)
    /\ tag' = [tag EXCEPT ![c] = Final]
    /\ Goto(c, "copy")
    /\ UNCHANGED <<config, applied, minRev, rev, dump, purgeVars, faults>>

(* The suffix is random: a name that is in use, or was listed, does not come back. *)
TempFile(c) ==
    /\ pc[c] = "create"
    /\ \E t \in Tag :
         /\ [Target(c) EXCEPT !.tag = t] \notin files \cup UNION {listed[d] : d \in Caller}
         /\ Put([Target(c) EXCEPT !.tag = t], Partial)
         /\ tag' = [tag EXCEPT ![c] = t]
    /\ Goto(c, "copy")
    /\ UNCHANGED <<config, applied, minRev, rev, dump, purgeVars, faults>>

CreateFails(c) ==
    /\ pc[c] = "create"
    /\ Fault("copy")
    /\ Return(c)
    /\ UNCHANGED <<config, applied, store, purgeVars>>

Copy(c) ==
    /\ pc[c] = "copy"
    /\ Put(Temp(c), dump[c])
    /\ Goto(c, "rename")
    /\ UNCHANGED <<config, applied, saveVars, purgeVars, faults>>

(* The error paths of Copy and Rename remove the temporary file. *)
SaveFails(c) ==
    /\ \/ pc[c] = "copy" /\ Fault("copy")
       \/ pc[c] = "rename" /\ Fault("rename")
    /\ Drop(Temp(c))
    /\ Return(c)
    /\ UNCHANGED <<config, applied, purgeVars>>

Rename(c) ==
    /\ pc[c] = "rename"
    /\ files' = (files \ {Temp(c)}) \cup {Target(c)}
    /\ content' = [content EXCEPT ![Temp(c)] = Partial, ![Target(c)] = content[Temp(c)]]
    /\ old' = old \ {Temp(c), Target(c)}
    /\ Return(c)
    /\ UNCHANGED <<config, applied, purgeVars, faults>>

-----------------------------------------------------------------------------
(* s3.Save *)

Upload(c) ==
    /\ pc[c] = "upload"
    /\ Put(Target(c), dump[c])
    /\ Return(c)
    /\ UNCHANGED <<config, applied, purgeVars, faults>>

(* The DeleteObject that follows names no object and deletes nothing. *)
UploadFails(c) ==
    /\ pc[c] = "upload"
    /\ Fault("upload")
    /\ Return(c)
    /\ UNCHANGED <<config, applied, store, purgeVars>>

-----------------------------------------------------------------------------
(* Purge, of either provider: a listing, then one removal after the other.   *)

(* Variant: temporary files are left alone. *)
PurgeListFinal(c) ==
    /\ purge[c] = "list"
    /\ listed' = [listed EXCEPT ![c] = {f \in old : f.tag = Final}]
    /\ purge' = [purge EXCEPT ![c] = "remove"]
    /\ UNCHANGED <<config, applied, store, pc, saveVars, faults>>

PurgeList(c) ==
    /\ purge[c] = "list"
    /\ listed' = [listed EXCEPT ![c] = old]
    /\ purge' = [purge EXCEPT ![c] = "remove"]
    /\ UNCHANGED <<config, applied, store, pc, saveVars, faults>>

PurgeListFails(c) ==
    /\ purge[c] = "list"
    /\ Fault("remove")
    /\ purge' = [purge EXCEPT ![c] = "off"]
    /\ UNCHANGED <<config, applied, store, pc, saveVars, listed>>

(* Listings are sorted by name. *)
Before(f, g) ==
    \/ f.name < g.name
    \/ f.name = g.name /\ f.revision < g.revision
    \/ f.name = g.name /\ f.revision = g.revision /\ f.tag < g.tag
IsFirst(f, S) == f \in S /\ \A g \in S \ {f} : Before(f, g)

(* By name: whatever has that name now is removed, and nothing is no error.  *)
PurgeRemove(c, f) ==
    /\ purge[c] = "remove"
    /\ IsFirst(f, listed[c])
    /\ listed' = [listed EXCEPT ![c] = @ \ {f}]
    /\ Drop(f)
    /\ UNCHANGED <<config, applied, pc, saveVars, purge, faults>>

PurgeRemoveFails(c, f) ==
    /\ purge[c] = "remove"
    /\ IsFirst(f, listed[c])
    /\ Fault("remove")
    /\ listed' = [listed EXCEPT ![c] = @ \ {f}]
    /\ UNCHANGED <<config, applied, store, pc, saveVars, purge>>

PurgeEnd(c) ==
    /\ purge[c] = "remove"
    /\ listed[c] = {}
    /\ purge' = [purge EXCEPT ![c] = "off"]
    /\ UNCHANGED <<config, applied, store, pc, saveVars, listed, faults>>

-----------------------------------------------------------------------------
(* The environment *)

(* Only the servers that use the store matter. *)
Uses(n) == \E c \in Caller : nameOf[c] = n

Apply(n) ==
    /\ Uses(n)
    /\ applied[n] < MaxRevision
    /\ applied' = [applied EXCEPT ![n] = @ + 1]
    /\ UNCHANGED <<config, store, pc, saveVars, purgeVars, faults>>

(* The TTL goes by.  ASSUMPTION: it is longer than a Save or a listing takes. *)
Expire(f) ==
    /\ f \in files \ old
    /\ \A c \in Caller : purge[c] # "list"
    /\ \A c \in Caller : tag[c] # Final => Temp(c) # f
    /\ old' = old \cup {f}
    /\ UNCHANGED <<config, applied, files, content, pc, saveVars, purgeVars, faults>>

(* The process of server n dies, its goroutines with it, and starts again. *)
Crash(n) ==
    /\ Uses(n)
    /\ Fault("crash")
    /\ LET keep(g, v) == [c \in Caller |-> IF nameOf[c] = n THEN v ELSE g[c]] IN
       /\ pc' = keep(pc, "idle")
       /\ minRev' = keep(minRev, 0)
       /\ rev' = keep(rev, 0)
       /\ dump' = keep(dump, 0)
       /\ tag' = keep(tag, Final)
       /\ purge' = keep(purge, "off")
       /\ listed' = keep(listed, {})
    /\ UNCHANGED <<config, applied, store>>

-----------------------------------------------------------------------------
Call(c) ==
    \/ Info(c) \/ Skip(c) \/ Compare(c) \/ Dump(c)
    \/ TempFile(c) \/ Copy(c) \/ Rename(c)
    \/ Upload(c)

Purge(c) ==
    \/ PurgeList(c)
    \/ \E f \in File : PurgeRemove(c, f)
    \/ PurgeEnd(c)

Failure ==
    \/ \E c \in Caller : InfoFails(c) \/ CreateFails(c) \/ SaveFails(c) \/ UploadFails(c)
    \/ \E c \in Caller : PurgeListFails(c) \/ \E f \in File : PurgeRemoveFails(c, f)
    \/ \E n \in Name : Crash(n)

Next ==
    \/ \E c \in Caller : Tick(c) \/ Stop(c) \/ Call(c) \/ Purge(c)
    \/ Failure
    \/ \E n \in Name : Apply(n)
    \/ \E f \in File : Expire(f)

Spec == Init /\ [][Next]_vars

(* The ticker of runSnapshotter fires, calls end, and time passes. *)
Fairness ==
    /\ \A c \in Periodic : WF_vars(Tick(c))
    /\ \A c \in Caller : WF_vars(Call(c)) /\ WF_vars(Purge(c))
    /\ SF_vars(\E f \in File : Expire(f))

FairSpec == Spec /\ Fairness

-----------------------------------------------------------------------------
(* Properties *)

Whole(f) == f.tag = Final /\ content[f] # Partial

(* A snapshot under its final name is complete, and holds at least the       *)
(* revision it is named after, whatever fails while it is saved.            *)
SnapshotsAreWhole == \A f \in files : f.tag = Final => content[f] >= f.revision

(* Every server with periodic snapshots finds, again and again, a complete   *)
(* snapshot of its current revision in the store.                           *)
BackedUp ==
    \A c \in Periodic :
        []<>(\E f \in files : Whole(f) /\ content[f] >= applied[nameOf[c]])
=============================================================================
