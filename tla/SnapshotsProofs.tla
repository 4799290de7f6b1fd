--------------------------- MODULE SnapshotsProofs ---------------------------
(***************************************************************************)
(* A snapshot under its final name is complete, for any number of servers, *)
(* callers, suffixes, faults and revisions.                                *)
(***************************************************************************)
EXTENDS Snapshots, TLAPS

-----------------------------------------------------------------------------
(* The inductive invariant.                                                  *)

(* What is being saved is not newer than the server, and the dump not older. *)
Saving(c) ==
    /\ pc[c] = "dump" => rev[c] \in Revision /\ rev[c] <= applied[nameOf[c]]
    /\ pc[c] \in {"create", "copy", "rename", "upload"} =>
         rev[c] \in Revision /\ dump[c] \in Revision /\ rev[c] <= dump[c]
    /\ pc[c] \in {"copy", "rename"} <=> tag[c] # Final

(* A temporary file in use is there, is not old, and no Purge has listed it. *)
Kept(c) ==
    tag[c] # Final =>
        /\ Temp(c) \in files \ old
        /\ \A d \in Caller : Temp(c) \notin listed[d]

(* It belongs to one caller, and once it is copied it is whole. *)
Owned(c) ==
    tag[c] # Final =>
        /\ pc[c] = "rename" => content[Temp(c)] = dump[c]
        /\ \A d \in Caller \ {c} : tag[d] # Final => Temp(d) # Temp(c)

IInv ==
    /\ TypeOK
    /\ SnapshotsAreWhole
    /\ \A c \in Caller : Saving(c) /\ Kept(c) /\ Owned(c)

-----------------------------------------------------------------------------
(* What the operators on the store do. *)

LEMMA Names ==
    ASSUME IInv, NEW c \in Caller, rev[c] \in Revision
    PROVE  Target(c) \in File /\ Temp(c) \in File
BY DEF IInv, TypeOK, Target, Temp, File

LEMMA FaultType ==
    ASSUME TypeOK, NEW kind, Fault(kind)
    PROVE  faults' \in 0 .. MaxFaults
BY SnapshotsAssumption DEF Fault, TypeOK

LEMMA Revisions == Revision \subseteq Nat
BY SnapshotsAssumption DEF Revision

LEMMA NotATag == Final \notin Tag
BY SnapshotsAssumption DEF Final

(* A step that leaves the callers' saves and the listings alone and only     *)
(* lets revisions grow keeps the invariant.                                 *)
LEMMA QuietStep ==
    ASSUME IInv, TypeOK',
           UNCHANGED <<config, files, content, old, rev, dump, tag, listed>>,
           \A n \in Name : applied[n] <= applied'[n],
           \A c \in Caller : pc'[c] # pc[c] => pc'[c] \in {"idle", "info", "compare"}
                                              /\ pc[c] \in {"idle", "info", "compare"}
    PROVE  IInv'
<1>1. SnapshotsAreWhole'
    BY DEF IInv, SnapshotsAreWhole
<1>2. ASSUME NEW c \in Caller PROVE (Saving(c) /\ Kept(c) /\ Owned(c))'
    <2>1. Saving(c)'
        <3>1. nameOf[c] \in Name /\ nameOf' = nameOf /\ rev' = rev /\ dump' = dump /\ tag' = tag
            BY DEF IInv, TypeOK, config
        <3>2. applied[nameOf[c]] \in Nat /\ applied'[nameOf[c]] \in Nat
            <4>1. applied \in [Name -> Revision]
                BY DEF IInv, TypeOK
            <4>2. applied' \in [Name -> Revision]
                BY DEF TypeOK
            <4> QED
                BY <3>1, <4>1, <4>2, Revisions
        <3>3. applied[nameOf[c]] <= applied'[nameOf[c]]
            BY <3>1
        <3>4. \A r \in Revision : r \in Nat
            BY Revisions
        <3>5. Saving(c)
            BY DEF IInv
        <3>6. pc'[c] # pc[c] => pc'[c] \in {"idle", "info", "compare"} /\ pc[c] \in {"idle", "info", "compare"}
            OBVIOUS
        <3> QED
            BY <3>1, <3>2, <3>3, <3>4, <3>5, <3>6 DEF Saving
    <2>2. Kept(c)'
        BY DEF IInv, Kept, Temp, config
    <2>3. Owned(c)'
        BY DEF IInv, Owned, Temp, config
    <2> QED
        BY <2>1, <2>2, <2>3
<1> QED
    BY <1>1, <1>2 DEF IInv

-----------------------------------------------------------------------------
(* The types. *)

LEMMA InitType == Init => TypeOK
<1> SUFFICES ASSUME Init PROVE TypeOK
    OBVIOUS
<1>1. 1 \in Revision
    BY SnapshotsAssumption DEF Revision
<1>2. provider \in {"file", "s3"} /\ nameOf \in [Caller -> Name]
    BY SnapshotsAssumption DEF Init
<1>3. faults \in 0 .. MaxFaults
    BY SnapshotsAssumption DEF Init
<1> QED
    BY <1>1, <1>2, <1>3 DEF Init, TypeOK

(* The end of a call, with a store that is well typed. *)
LEMMA ReturnType ==
    ASSUME TypeOK, NEW c \in Caller, Return(c)
    PROVE  /\ pc' \in [Caller -> {"idle", "info", "compare", "dump", "create", "copy", "rename", "upload"}]
           /\ minRev' \in [Caller -> Revision \cup {0}]
           /\ rev' \in [Caller -> Revision \cup {0}]
           /\ dump' \in [Caller -> Revision \cup {0}]
           /\ tag' \in [Caller -> Tag \cup {Final}]
BY DEF Return, Goto, TypeOK

LEMMA PutType ==
    ASSUME TypeOK, NEW f \in File, NEW v \in Revision \cup {Partial}, Put(f, v)
    PROVE  files' \subseteq File /\ content' \in [File -> Revision \cup {Partial}] /\ old' \subseteq files'
BY DEF Put, TypeOK

LEMMA DropType ==
    ASSUME TypeOK, NEW f, Drop(f)
    PROVE  files' \subseteq File /\ content' \in [File -> Revision \cup {Partial}] /\ old' \subseteq files'
BY DEF Drop, TypeOK, Partial

LEMMA RenameType ==
    ASSUME IInv, NEW c \in Caller, Rename(c)
    PROVE  TypeOK'
<1>1. rev[c] \in Revision
    BY DEF IInv, Saving, Rename
<1>2. Target(c) \in File /\ Temp(c) \in File
    BY <1>1, Names
<1>3. files' \subseteq File /\ old' \subseteq files'
    BY <1>2 DEF IInv, TypeOK, Rename
<1>4. content' \in [File -> Revision \cup {Partial}]
    BY <1>2 DEF IInv, TypeOK, Rename, Partial
<1>5. Return(c) /\ TypeOK
    BY DEF IInv, Rename
<1> QED
    BY <1>3, <1>4, <1>5, ReturnType DEF Rename, TypeOK, config, purgeVars

(* Whoever moves, the state stays well typed. *)
LEMMA StepType ==
    ASSUME IInv, [Next]_vars
    PROVE  TypeOK'
<1> USE DEF config, store, saveVars, purgeVars
<1>0. TypeOK
    BY DEF IInv
<1>1. CASE UNCHANGED vars
    BY <1>0, <1>1 DEF vars, TypeOK
<1>2. ASSUME NEW c \in Caller, Tick(c) \/ Stop(c) PROVE TypeOK'
    <2>1. Begin(c)
        BY <1>2 DEF Tick, Stop
    <2>2. faults' \in 0 .. MaxFaults
        BY <1>0, <1>2, FaultType DEF Tick, Stop, TypeOK
    <2> QED
        BY <1>0, <2>1, <2>2 DEF Begin, Goto, TypeOK
<1>3. ASSUME NEW c \in Caller, Info(c) PROVE TypeOK'
    <2>1. PICK r \in {f.revision : f \in files} \cup {0} : minRev' = [minRev EXCEPT ![c] = r]
        BY <1>3 DEF Info
    <2>2. r \in Revision \cup {0}
        BY <1>0, <2>1 DEF TypeOK, File
    <2> QED
        BY <1>0, <1>3, <2>1, <2>2 DEF Info, Goto, TypeOK
<1>4. ASSUME NEW c \in Caller, InfoFails(c) PROVE TypeOK'
    BY <1>0, <1>4, FaultType DEF InfoFails, Goto, TypeOK
<1>5. ASSUME NEW c \in Caller, Skip(c) PROVE TypeOK'
    BY <1>0, <1>5, ReturnType DEF Skip, TypeOK
<1>6. ASSUME NEW c \in Caller, Compare(c) PROVE TypeOK'
    BY <1>0, <1>6 DEF Compare, Goto, TypeOK
<1>7. ASSUME NEW c \in Caller, Dump(c) PROVE TypeOK'
    BY <1>0, <1>7 DEF Dump, Goto, TypeOK
<1>8. ASSUME NEW c \in Caller, TempFile(c) PROVE TypeOK'
    <2>1. PICK t \in Tag : /\ Put([Target(c) EXCEPT !.tag = t], Partial)
                           /\ tag' = [tag EXCEPT ![c] = t]
        BY <1>8 DEF TempFile
    <2>2. rev[c] \in Revision
        BY <1>8 DEF IInv, Saving, TempFile
    <2>3. [Target(c) EXCEPT !.tag = t] \in File
        BY <1>0, <2>2 DEF Target, File, TypeOK
    <2>4. files' \subseteq File /\ content' \in [File -> Revision \cup {Partial}] /\ old' \subseteq files'
        BY <1>0, <2>1, <2>3, PutType
    <2> QED
        BY <1>0, <1>8, <2>1, <2>4 DEF TempFile, Goto, TypeOK
<1>9. ASSUME NEW c \in Caller, Copy(c) PROVE TypeOK'
    <2>1. rev[c] \in Revision /\ dump[c] \in Revision
        BY <1>9 DEF IInv, Saving, Copy
    <2>2. Temp(c) \in File
        BY <2>1, Names
    <2>3. files' \subseteq File /\ content' \in [File -> Revision \cup {Partial}] /\ old' \subseteq files'
        BY <1>0, <1>9, <2>1, <2>2, PutType DEF Copy
    <2> QED
        BY <1>0, <1>9, <2>3 DEF Copy, Goto, TypeOK
<1>10. ASSUME NEW c \in Caller, SaveFails(c) PROVE TypeOK'
    <2>1. faults' \in 0 .. MaxFaults
        BY <1>0, <1>10, FaultType DEF SaveFails
    <2>2. files' \subseteq File /\ content' \in [File -> Revision \cup {Partial}] /\ old' \subseteq files'
        BY <1>0, <1>10, DropType DEF SaveFails
    <2> QED
        BY <1>0, <1>10, <2>1, <2>2, ReturnType DEF SaveFails, TypeOK
<1>11. ASSUME NEW c \in Caller, Rename(c) PROVE TypeOK'
    BY <1>11, RenameType
<1>12. ASSUME NEW c \in Caller, Upload(c) PROVE TypeOK'
    <2>1. rev[c] \in Revision /\ dump[c] \in Revision
        BY <1>12 DEF IInv, Saving, Upload
    <2>2. Target(c) \in File
        BY <2>1, Names
    <2>3. files' \subseteq File /\ content' \in [File -> Revision \cup {Partial}] /\ old' \subseteq files'
        BY <1>0, <1>12, <2>1, <2>2, PutType DEF Upload
    <2> QED
        BY <1>0, <1>12, <2>3, ReturnType DEF Upload, TypeOK
<1>13. ASSUME NEW c \in Caller, CreateFails(c) \/ UploadFails(c) PROVE TypeOK'
    BY <1>0, <1>13, ReturnType, FaultType DEF CreateFails, UploadFails, TypeOK
<1>14. ASSUME NEW c \in Caller, PurgeList(c) PROVE TypeOK'
    BY <1>0, <1>14 DEF PurgeList, TypeOK
<1>15. ASSUME NEW c \in Caller, NEW f \in File, PurgeRemove(c, f) PROVE TypeOK'
    <2>1. files' \subseteq File /\ content' \in [File -> Revision \cup {Partial}] /\ old' \subseteq files'
        BY <1>0, <1>15, DropType DEF PurgeRemove
    <2> QED
        BY <1>0, <1>15, <2>1 DEF PurgeRemove, TypeOK
<1>16. ASSUME NEW c \in Caller, NEW f \in File, PurgeRemoveFails(c, f) PROVE TypeOK'
    BY <1>0, <1>16, FaultType DEF PurgeRemoveFails, TypeOK
<1>17. ASSUME NEW c \in Caller, PurgeEnd(c) \/ PurgeListFails(c) PROVE TypeOK'
    <2>1. CASE PurgeEnd(c)
        BY <1>0, <2>1 DEF PurgeEnd, TypeOK
    <2>2. CASE PurgeListFails(c)
        BY <1>0, <2>2, FaultType DEF PurgeListFails, TypeOK
    <2> QED
        BY <1>17, <2>1, <2>2
<1>18. ASSUME NEW n \in Name, Apply(n) PROVE TypeOK'
    <2>1. applied[n] + 1 \in Revision
        BY <1>0, <1>18, SnapshotsAssumption DEF Apply, TypeOK, Revision
    <2> QED
        BY <1>0, <1>18, <2>1 DEF Apply, TypeOK
<1>19. ASSUME NEW f \in File, Expire(f) PROVE TypeOK'
    BY <1>0, <1>19 DEF Expire, TypeOK
<1>20. ASSUME NEW n \in Name, Crash(n) PROVE TypeOK'
    BY <1>0, <1>20, FaultType DEF Crash, TypeOK
<1> QED
    BY <1>1, <1>2, <1>3, <1>4, <1>5, <1>6, <1>7, <1>8, <1>9, <1>10, <1>11, <1>12, <1>13, <1>14,
       <1>15, <1>16, <1>17, <1>18, <1>19, <1>20 DEF Next, Call, Purge, Failure

-----------------------------------------------------------------------------
(* The invariant holds at first. *)

LEMMA InitInvariant == Init => IInv
<1> SUFFICES ASSUME Init PROVE IInv
    OBVIOUS
<1>1. TypeOK
    BY InitType
<1>2. SnapshotsAreWhole
    BY DEF Init, SnapshotsAreWhole
<1>3. \A c \in Caller : Saving(c) /\ Kept(c) /\ Owned(c)
    BY DEF Init, Saving, Kept, Owned
<1> QED
    BY <1>1, <1>2, <1>3 DEF IInv

(* What one caller does leaves the saves of the others alone, if it keeps    *)
(* their temporary files as they are and takes none of their names.         *)
LEMMA Others ==
    ASSUME IInv, NEW c \in Caller,
           UNCHANGED <<config, applied, listed>>,
           \A d \in Caller \ {c} : /\ pc'[d] = pc[d] /\ rev'[d] = rev[d]
                                   /\ dump'[d] = dump[d] /\ tag'[d] = tag[d],
           \A d \in Caller \ {c} : tag[d] # Final =>
               /\ Temp(d) \in files' \ old'
               /\ content'[Temp(d)] = content[Temp(d)]
               /\ tag'[c] # Final => Temp(c)' # Temp(d)
    PROVE  \A d \in Caller \ {c} : (Saving(d) /\ Kept(d) /\ Owned(d))'
<1> SUFFICES ASSUME NEW d \in Caller \ {c} PROVE (Saving(d) /\ Kept(d) /\ Owned(d))'
    OBVIOUS
<1>1. Saving(d) /\ Kept(d) /\ Owned(d) /\ d \in Caller
    BY DEF IInv
<1>2. nameOf' = nameOf /\ applied' = applied
    BY DEF config
<1>3. \A e \in Caller \ {c} : Temp(e)' = Temp(e)
    BY <1>2 DEF Temp
<1>4. Saving(d)'
    BY <1>1, <1>2 DEF Saving
<1>5. Kept(d)'
    BY <1>1, <1>3 DEF Kept
<1>6. Owned(d)'
    <2> SUFFICES ASSUME tag'[d] # Final PROVE Owned(d)'
        BY DEF Owned
    <2>1. tag[d] # Final /\ Temp(d)' = Temp(d)
        BY <1>3
    <2>2. pc'[d] = "rename" => content'[Temp(d)'] = dump'[d]
        BY <1>1, <2>1 DEF Owned
    <2>3. ASSUME NEW e \in Caller \ {d}, tag'[e] # Final PROVE Temp(e)' # Temp(d)'
        <3>1. CASE e = c
            BY <3>1, <2>1, <2>3
        <3>2. CASE e # c
            BY <3>2, <2>1, <2>3, <1>1, <1>3 DEF Owned
        <3> QED
            BY <3>1, <3>2
    <2> QED
        BY <2>2, <2>3 DEF Owned
<1> QED
    BY <1>4, <1>5, <1>6

(* A caller without a temporary file has nothing to keep or to own. *)
LEMMA NoTemp ==
    ASSUME NEW c \in Caller, tag'[c] = Final
    PROVE  (Kept(c) /\ Owned(c))'
BY DEF Kept, Owned

(* A call returns: it keeps the invariant if the others' files are left as   *)
(* they are and the final names in the store are whole.                     *)
LEMMA ReturnStep ==
    ASSUME IInv, TypeOK', NEW c \in Caller, Return(c),
           UNCHANGED <<config, applied, listed>>,
           SnapshotsAreWhole',
           \A d \in Caller \ {c} : tag[d] # Final =>
               Temp(d) \in files' \ old' /\ content'[Temp(d)] = content[Temp(d)]
    PROVE  IInv'
<1>1. TypeOK
    BY DEF IInv
<1>2. tag'[c] = Final /\ pc'[c] = "idle"
    BY <1>1 DEF Return, Goto, TypeOK
<1>3. \A d \in Caller \ {c} : /\ pc'[d] = pc[d] /\ rev'[d] = rev[d]
                              /\ dump'[d] = dump[d] /\ tag'[d] = tag[d]
    BY <1>1 DEF Return, Goto, TypeOK
<1>4. \A d \in Caller \ {c} : (Saving(d) /\ Kept(d) /\ Owned(d))'
    BY <1>2, <1>3, Others
<1>5. Saving(c)'
    BY <1>2 DEF Saving
<1>6. (Kept(c) /\ Owned(c))'
    BY <1>2, NoTemp
<1> QED
    BY <1>4, <1>5, <1>6 DEF IInv

-----------------------------------------------------------------------------
(* The steps of Save. *)

LEMMA TempFileStep ==
    ASSUME IInv, TypeOK', NEW c \in Caller, TempFile(c)
    PROVE  IInv'
<1>1. TypeOK /\ Saving(c)
    BY DEF IInv
<1>2. PICK t \in Tag :
         /\ [Target(c) EXCEPT !.tag = t] \notin files \cup UNION {listed[d] : d \in Caller}
         /\ Put([Target(c) EXCEPT !.tag = t], Partial)
         /\ tag' = [tag EXCEPT ![c] = t]
    BY DEF TempFile
<1> DEFINE f == [name |-> nameOf[c], revision |-> rev[c], tag |-> t]
<1>3. f = [Target(c) EXCEPT !.tag = t] /\ t # Final
    BY NotATag DEF Target
<1>4. f \in File
    BY <1>1 DEF TempFile, Saving, File, TypeOK
<1>5. tag'[c] = t /\ Temp(c)' = f /\ pc'[c] = "copy"
    BY <1>1, <1>2 DEF TempFile, Goto, TypeOK, Temp, config
<1>6. \A d \in Caller \ {c} : /\ pc'[d] = pc[d] /\ rev'[d] = rev[d]
                              /\ dump'[d] = dump[d] /\ tag'[d] = tag[d]
    BY <1>1, <1>2 DEF TempFile, Goto, TypeOK
<1>7. \A d \in Caller \ {c} : tag[d] # Final =>
          /\ Temp(d) \in files' \ old'
          /\ content'[Temp(d)] = content[Temp(d)]
          /\ tag'[c] # Final => Temp(c)' # Temp(d)
    <2> SUFFICES ASSUME NEW d \in Caller \ {c}, tag[d] # Final
                 PROVE  /\ Temp(d) \in files' \ old'
                        /\ content'[Temp(d)] = content[Temp(d)]
                        /\ tag'[c] # Final => Temp(c)' # Temp(d)
        OBVIOUS
    <2>1. Temp(d) \in files \ old
        BY DEF IInv, Kept
    <2>2. Temp(d) # f
        BY <1>2, <1>3, <2>1
    <2>3. Temp(d) \in File
        BY <1>1, <2>1 DEF TypeOK
    <2> QED
        BY <1>1, <1>2, <1>3, <1>5, <2>1, <2>2, <2>3 DEF Put, TypeOK
<1>8. \A d \in Caller \ {c} : (Saving(d) /\ Kept(d) /\ Owned(d))'
    BY <1>6, <1>7, Others DEF TempFile, purgeVars
<1>9. SnapshotsAreWhole'
    <2>1. f.tag # Final
        BY <1>3
    <2> QED
        BY <1>1, <1>2, <1>3, <1>4, <2>1 DEF IInv, SnapshotsAreWhole, Put, TypeOK
<1>10. Saving(c)'
    BY <1>1, <1>3, <1>5 DEF TempFile, Saving
<1>11. Kept(c)'
    BY <1>2, <1>3, <1>5 DEF TempFile, Kept, Put, purgeVars
<1>12. Owned(c)'
    BY <1>5, <1>6, <1>7 DEF Owned, Temp, TempFile, config
<1> QED
    BY <1>8, <1>9, <1>10, <1>11, <1>12 DEF IInv

LEMMA CopyStep ==
    ASSUME IInv, TypeOK', NEW c \in Caller, Copy(c)
    PROVE  IInv'
<1>1. TypeOK /\ Saving(c) /\ Kept(c) /\ Owned(c)
    BY DEF IInv
<1>2. tag[c] # Final /\ rev[c] \in Revision
    BY <1>1 DEF Copy, Saving
<1>3. Temp(c) \in File
    BY <1>2, Names
<1>4. \A d \in Caller : /\ rev'[d] = rev[d] /\ dump'[d] = dump[d] /\ tag'[d] = tag[d]
                        /\ Temp(d)' = Temp(d)
    BY DEF Copy, saveVars, Temp, config
<1>5. \A d \in Caller : pc'[d] = IF d = c THEN "rename" ELSE pc[d]
    BY <1>1 DEF Copy, Goto, TypeOK
<1>6. \A d \in Caller \ {c} : tag[d] # Final =>
          /\ Temp(d) \in files' \ old'
          /\ content'[Temp(d)] = content[Temp(d)]
          /\ tag'[c] # Final => Temp(c)' # Temp(d)
    <2> SUFFICES ASSUME NEW d \in Caller \ {c}, tag[d] # Final
                 PROVE  /\ Temp(d) \in files' \ old'
                        /\ content'[Temp(d)] = content[Temp(d)]
                        /\ Temp(c)' # Temp(d)
        OBVIOUS
    <2>1. Temp(d) \in files \ old /\ Temp(d) # Temp(c)
        BY <1>1, <1>2 DEF IInv, Kept, Owned
    <2> QED
        BY <1>1, <1>4, <2>1 DEF Copy, Put, TypeOK
<1>7. \A d \in Caller \ {c} : (Saving(d) /\ Kept(d) /\ Owned(d))'
    BY <1>4, <1>5, <1>6, Others DEF Copy, purgeVars
<1>8. SnapshotsAreWhole'
    <2>1. Temp(c).tag # Final
        BY <1>2 DEF Temp
    <2> QED
        BY <1>1, <2>1 DEF IInv, SnapshotsAreWhole, Copy, Put, TypeOK
<1>9. Saving(c)'
    BY <1>1, <1>4, <1>5 DEF Copy, Saving
<1>10. Kept(c)'
    BY <1>1, <1>4 DEF Copy, Kept, Put, purgeVars
<1>11. Owned(c)'
    <2>1. content'[Temp(c)] = dump[c]
        BY <1>1, <1>3 DEF Copy, Put, TypeOK
    <2> QED
        BY <1>1, <1>4, <2>1 DEF Owned
<1> QED
    BY <1>7, <1>8, <1>9, <1>10, <1>11 DEF IInv

LEMMA SaveFailsStep ==
    ASSUME IInv, TypeOK', NEW c \in Caller, SaveFails(c)
    PROVE  IInv'
<1>1. TypeOK /\ tag[c] # Final
    BY DEF IInv, Saving, SaveFails
<1>2. \A d \in Caller \ {c} : tag[d] # Final =>
          Temp(d) \in files' \ old' /\ content'[Temp(d)] = content[Temp(d)]
    <2> SUFFICES ASSUME NEW d \in Caller \ {c}, tag[d] # Final
                 PROVE  Temp(d) \in files' \ old' /\ content'[Temp(d)] = content[Temp(d)]
        OBVIOUS
    <2>1. Temp(d) \in files \ old /\ Temp(d) # Temp(c)
        BY <1>1 DEF IInv, Kept, Owned
    <2> QED
        BY <1>1, <2>1 DEF SaveFails, Drop, TypeOK
<1>3. SnapshotsAreWhole'
    BY <1>1 DEF IInv, SnapshotsAreWhole, SaveFails, Drop, TypeOK
<1> QED
    BY <1>2, <1>3, ReturnStep DEF SaveFails, purgeVars

LEMMA RenameStep ==
    ASSUME IInv, TypeOK', NEW c \in Caller, Rename(c)
    PROVE  IInv'
<1>1. TypeOK /\ Saving(c) /\ Owned(c)
    BY DEF IInv
<1>2. tag[c] # Final /\ rev[c] \in Revision /\ dump[c] \in Revision /\ rev[c] <= dump[c]
    BY <1>1 DEF Rename, Saving
<1>3. Target(c) \in File /\ Temp(c) \in File /\ Target(c) # Temp(c)
    BY <1>2, Names DEF Target, Temp
<1>4. content[Temp(c)] = dump[c]
    BY <1>1, <1>2 DEF Owned, Rename
<1>5. \A d \in Caller \ {c} : tag[d] # Final =>
          Temp(d) \in files' \ old' /\ content'[Temp(d)] = content[Temp(d)]
    <2> SUFFICES ASSUME NEW d \in Caller \ {c}, tag[d] # Final
                 PROVE  Temp(d) \in files' \ old' /\ content'[Temp(d)] = content[Temp(d)]
        OBVIOUS
    <2>1. Temp(d) \in files \ old /\ Temp(d) # Temp(c)
        BY <1>2 DEF IInv, Kept, Owned
    <2>2. Temp(d) # Target(c)
        BY DEF Temp, Target
    <2> QED
        BY <1>1, <2>1, <2>2 DEF Rename, TypeOK
<1>6. SnapshotsAreWhole'
    <2> SUFFICES ASSUME NEW f \in files', f.tag = Final PROVE content'[f] >= f.revision
        BY DEF SnapshotsAreWhole
    <2>1. CASE f = Target(c)
        <3>1. content'[f] = dump[c]
            BY <1>1, <1>3, <1>4, <2>1 DEF Rename, TypeOK
        <3>2. f.revision = rev[c]
            BY <2>1 DEF Target
        <3> QED
            BY <1>2, <3>1, <3>2, Revisions
    <2>2. CASE f # Target(c)
        <3>1. f \in files /\ f # Temp(c)
            BY <2>2 DEF Rename
        <3>2. content'[f] = content[f]
            BY <1>1, <2>2, <3>1 DEF Rename, TypeOK
        <3> QED
            BY <3>1, <3>2 DEF IInv, SnapshotsAreWhole
    <2> QED
        BY <2>1, <2>2
<1> QED
    BY <1>5, <1>6, ReturnStep DEF Rename, purgeVars

LEMMA UploadStep ==
    ASSUME IInv, TypeOK', NEW c \in Caller, Upload(c)
    PROVE  IInv'
<1>1. TypeOK /\ Saving(c)
    BY DEF IInv
<1>2. rev[c] \in Revision /\ dump[c] \in Revision /\ rev[c] <= dump[c]
    BY <1>1 DEF Upload, Saving
<1>3. Target(c) \in File
    BY <1>2, Names
<1>4. \A d \in Caller \ {c} : tag[d] # Final =>
          Temp(d) \in files' \ old' /\ content'[Temp(d)] = content[Temp(d)]
    <2> SUFFICES ASSUME NEW d \in Caller \ {c}, tag[d] # Final
                 PROVE  Temp(d) \in files' \ old' /\ content'[Temp(d)] = content[Temp(d)]
        OBVIOUS
    <2>1. Temp(d) \in files \ old
        BY DEF IInv, Kept
    <2>2. Temp(d) # Target(c)
        BY DEF Temp, Target
    <2> QED
        BY <1>1, <2>1, <2>2 DEF Upload, Put, TypeOK
<1>5. SnapshotsAreWhole'
    <2> SUFFICES ASSUME NEW f \in files', f.tag = Final PROVE content'[f] >= f.revision
        BY DEF SnapshotsAreWhole
    <2>1. CASE f = Target(c)
        <3>1. content'[f] = dump[c]
            BY <1>1, <1>3, <2>1 DEF Upload, Put, TypeOK
        <3>2. f.revision = rev[c]
            BY <2>1 DEF Target
        <3> QED
            BY <1>2, <3>1, <3>2, Revisions
    <2>2. CASE f # Target(c)
        BY <1>1, <2>2 DEF Upload, Put, TypeOK, IInv, SnapshotsAreWhole
    <2> QED
        BY <2>1, <2>2
<1> QED
    BY <1>4, <1>5, ReturnStep DEF Upload, purgeVars

-----------------------------------------------------------------------------
(* The steps that leave the callers' saves alone, and the theorems.          *)

(* A caller that has no temporary file, before or after. *)
LEMMA OwnStep ==
    ASSUME IInv, TypeOK', NEW c \in Caller,
           UNCHANGED <<config, applied, store, tag, listed>>,
           \A d \in Caller \ {c} : pc'[d] = pc[d] /\ rev'[d] = rev[d] /\ dump'[d] = dump[d],
           tag[c] = Final,
           Saving(c)'
    PROVE  IInv'
<1>1. \A d \in Caller \ {c} : tag[d] # Final =>
          /\ Temp(d) \in files' \ old'
          /\ content'[Temp(d)] = content[Temp(d)]
          /\ tag'[c] # Final => Temp(c)' # Temp(d)
    BY DEF IInv, Kept, store
<1>2. \A d \in Caller \ {c} : (Saving(d) /\ Kept(d) /\ Owned(d))'
    BY <1>1, Others
<1>3. (Kept(c) /\ Owned(c))'
    BY NoTemp
<1>4. SnapshotsAreWhole'
    BY DEF IInv, SnapshotsAreWhole, store
<1> QED
    BY <1>2, <1>3, <1>4 DEF IInv

(* Purges and the clock only touch what is no temporary file in use. *)
LEMMA StoreStep ==
    ASSUME IInv, TypeOK',
           UNCHANGED <<config, applied, pc, saveVars>>,
           SnapshotsAreWhole',
           \A d \in Caller : tag[d] # Final =>
               /\ Temp(d) \in files' \ old'
               /\ content'[Temp(d)] = content[Temp(d)]
               /\ \A e \in Caller : Temp(d) \notin listed'[e]
    PROVE  IInv'
<1>1. \A d \in Caller : Temp(d)' = Temp(d)
    BY DEF Temp, config, saveVars
<1>2. ASSUME NEW d \in Caller PROVE (Saving(d) /\ Kept(d) /\ Owned(d))'
    <2>1. Saving(d)'
        BY DEF IInv, Saving, config, saveVars
    <2>2. Kept(d)'
        BY <1>1 DEF IInv, Kept, saveVars
    <2>3. Owned(d)'
        BY <1>1 DEF IInv, Owned, saveVars
    <2> QED
        BY <2>1, <2>2, <2>3
<1> QED
    BY <1>2 DEF IInv

LEMMA PurgeListStep ==
    ASSUME IInv, TypeOK', NEW c \in Caller, PurgeList(c)
    PROVE  IInv'
<1>1. SnapshotsAreWhole'
    BY DEF IInv, SnapshotsAreWhole, PurgeList, store
<1>2. \A d \in Caller : tag[d] # Final =>
          /\ Temp(d) \in files' \ old'
          /\ content'[Temp(d)] = content[Temp(d)]
          /\ \A e \in Caller : Temp(d) \notin listed'[e]
    BY DEF IInv, Kept, PurgeList, store, TypeOK
<1> QED
    BY <1>1, <1>2, StoreStep DEF PurgeList

LEMMA PurgeRemoveStep ==
    ASSUME IInv, TypeOK', NEW c \in Caller, NEW f \in File,
           PurgeRemove(c, f) \/ PurgeRemoveFails(c, f)
    PROVE  IInv'
<1>1. TypeOK /\ f \in listed[c]
    BY DEF IInv, PurgeRemove, PurgeRemoveFails, IsFirst
<1>2. listed' = [listed EXCEPT ![c] = @ \ {f}] /\ (Drop(f) \/ UNCHANGED store)
    BY DEF PurgeRemove, PurgeRemoveFails
<1>3. SnapshotsAreWhole'
    BY <1>1, <1>2 DEF IInv, SnapshotsAreWhole, Drop, store, TypeOK
<1>4. \A d \in Caller : tag[d] # Final =>
          /\ Temp(d) \in files' \ old'
          /\ content'[Temp(d)] = content[Temp(d)]
          /\ \A e \in Caller : Temp(d) \notin listed'[e]
    <2> SUFFICES ASSUME NEW d \in Caller, tag[d] # Final
                 PROVE  /\ Temp(d) \in files' \ old'
                        /\ content'[Temp(d)] = content[Temp(d)]
                        /\ \A e \in Caller : Temp(d) \notin listed'[e]
        OBVIOUS
    <2>1. /\ Temp(d) \in files \ old /\ Temp(d) # f
          /\ \A e \in Caller : Temp(d) \notin listed[e]
        BY <1>1 DEF IInv, Kept
    <2>2. Temp(d) \in files' \ old' /\ content'[Temp(d)] = content[Temp(d)]
        BY <1>1, <1>2, <2>1 DEF Drop, store, TypeOK
    <2>3. \A e \in Caller : Temp(d) \notin listed'[e]
        BY <1>1, <1>2, <2>1 DEF TypeOK
    <2> QED
        BY <2>2, <2>3
<1> QED
    BY <1>3, <1>4, StoreStep DEF PurgeRemove, PurgeRemoveFails

LEMMA ExpireStep ==
    ASSUME IInv, TypeOK', NEW f \in File, Expire(f)
    PROVE  IInv'
<1>1. SnapshotsAreWhole'
    BY DEF IInv, SnapshotsAreWhole, Expire
<1>2. \A d \in Caller : tag[d] # Final =>
          /\ Temp(d) \in files' \ old'
          /\ content'[Temp(d)] = content[Temp(d)]
          /\ \A e \in Caller : Temp(d) \notin listed'[e]
    BY DEF IInv, Kept, Expire, purgeVars
<1> QED
    BY <1>1, <1>2, StoreStep DEF Expire

LEMMA CrashStep ==
    ASSUME IInv, TypeOK', NEW n \in Name, Crash(n)
    PROVE  IInv'
<1>1. nameOf' = nameOf /\ applied' = applied /\ UNCHANGED store
    BY DEF Crash, config
<1>2. SnapshotsAreWhole'
    BY <1>1 DEF IInv, SnapshotsAreWhole, store
<1>3. \A d \in Caller : nameOf[d] # n =>
          pc'[d] = pc[d] /\ rev'[d] = rev[d] /\ dump'[d] = dump[d] /\ tag'[d] = tag[d]
    BY DEF Crash
<1>4. \A d \in Caller : nameOf[d] = n => pc'[d] = "idle" /\ tag'[d] = Final
    BY DEF Crash
<1>5. \A d \in Caller : listed'[d] \subseteq listed[d]
    BY DEF Crash
<1>6. \A d \in Caller : tag'[d] # Final => nameOf[d] # n /\ tag[d] # Final /\ Temp(d)' = Temp(d)
    BY <1>1, <1>3, <1>4 DEF Temp
<1>7. ASSUME NEW d \in Caller PROVE (Saving(d) /\ Kept(d) /\ Owned(d))'
    <2>1. Saving(d) /\ Kept(d) /\ Owned(d)
        BY DEF IInv
    <2>2. Saving(d)'
        BY <1>1, <1>3, <1>4, <2>1 DEF Saving
    <2>3. Kept(d)'
        BY <1>1, <1>5, <1>6, <2>1 DEF Kept, store
    <2>4. Owned(d)'
        <3> SUFFICES ASSUME tag'[d] # Final PROVE Owned(d)'
            BY DEF Owned
        <3>1. pc'[d] = "rename" => content'[Temp(d)'] = dump'[d]
            BY <1>1, <1>3, <1>6, <2>1 DEF Owned, store
        <3>2. \A e \in Caller \ {d} : tag'[e] # Final => Temp(e)' # Temp(d)'
            BY <1>6, <2>1 DEF Owned
        <3> QED
            BY <3>1, <3>2 DEF Owned
    <2> QED
        BY <2>2, <2>3, <2>4
<1> QED
    BY <1>2, <1>7 DEF IInv

(* The server's revision never falls behind itself. *)
LEMMA RevisionsGrow ==
    ASSUME TypeOK, applied' = applied \/ \E m \in Name : Apply(m)
    PROVE  \A n \in Name : applied[n] <= applied'[n]
<1> SUFFICES ASSUME NEW n \in Name PROVE applied[n] <= applied'[n]
    OBVIOUS
<1>1. applied \in [Name -> Revision]
    BY DEF TypeOK
<1>2. applied[n] \in Nat
    BY <1>1, Revisions
<1>3. applied'[n] = applied[n] \/ applied'[n] = applied[n] + 1
    BY <1>1 DEF Apply
<1> QED
    BY <1>2, <1>3

(* Every step preserves the invariant. *)
LEMMA StepInvariant == IInv /\ [Next]_vars => IInv'
<1> SUFFICES ASSUME IInv, [Next]_vars PROVE IInv'
    OBVIOUS
<1>0. TypeOK'
    BY StepType
<1>1. CASE UNCHANGED vars
    BY <1>1 DEF vars, config, store, saveVars, purgeVars, IInv, TypeOK, SnapshotsAreWhole,
                Saving, Kept, Owned, Temp
<1>2. ASSUME NEW c \in Caller, Tick(c) \/ Stop(c) \/ Info(c) \/ InfoFails(c) PROVE IInv'
    <2>1. TypeOK
        BY DEF IInv
    <2>2. UNCHANGED <<config, applied, files, content, old, rev, dump, tag, listed>>
        BY <1>2 DEF Tick, Stop, Begin, Info, InfoFails, store, saveVars, purgeVars
    <2>3. \A d \in Caller : pc'[d] # pc[d] => pc'[d] \in {"idle", "info", "compare"}
                                              /\ pc[d] \in {"idle", "info", "compare"}
        BY <1>2, <2>1 DEF Tick, Stop, Begin, Info, InfoFails, Goto, TypeOK
    <2>4. \A n \in Name : applied[n] <= applied'[n]
        BY <2>1, <2>2, RevisionsGrow
    <2> QED
        BY <1>0, <2>2, <2>3, <2>4, QuietStep
<1>3. ASSUME NEW c \in Caller, PurgeEnd(c) \/ PurgeListFails(c) PROVE IInv'
    <2>1. \A n \in Name : applied[n] <= applied'[n]
        BY <1>3, RevisionsGrow DEF PurgeEnd, PurgeListFails, IInv
    <2> QED
        BY <1>0, <1>3, <2>1, QuietStep DEF PurgeEnd, PurgeListFails, store, saveVars
<1>4. ASSUME NEW n \in Name, Apply(n) PROVE IInv'
    <2>1. \A m \in Name : applied[m] <= applied'[m]
        BY <1>4, RevisionsGrow DEF IInv
    <2> QED
        BY <1>0, <1>4, <2>1, QuietStep DEF Apply, store, saveVars, purgeVars
<1>5. ASSUME NEW c \in Caller, Skip(c) \/ CreateFails(c) \/ UploadFails(c) PROVE IInv'
    <2>1. UNCHANGED <<config, applied, store, listed>> /\ Return(c)
        BY <1>5 DEF Skip, CreateFails, UploadFails, purgeVars
    <2>2. SnapshotsAreWhole'
        BY <2>1 DEF IInv, SnapshotsAreWhole, store
    <2>3. \A d \in Caller \ {c} : tag[d] # Final =>
              Temp(d) \in files' \ old' /\ content'[Temp(d)] = content[Temp(d)]
        BY <2>1 DEF IInv, Kept, store
    <2> QED
        BY <1>0, <2>1, <2>2, <2>3, ReturnStep
<1>6. ASSUME NEW c \in Caller, Compare(c) PROVE IInv'
    <2>1. TypeOK /\ tag[c] = Final
        BY <1>6 DEF IInv, Saving, Compare
    <2>2. nameOf[c] \in Name /\ applied \in [Name -> Revision]
        BY <2>1 DEF TypeOK
    <2>3. pc'[c] = "dump" /\ rev'[c] = applied[nameOf[c]] /\ nameOf' = nameOf
          /\ applied' = applied /\ tag' = tag
        BY <1>6, <2>1 DEF Compare, Goto, TypeOK, config
    <2>4. Saving(c)'
        <3>1. applied[nameOf[c]] \in Revision
            BY <2>2
        <3>2. \A r \in Nat : r <= r
            OBVIOUS
        <3>3. applied[nameOf[c]] <= applied[nameOf[c]]
            BY <3>1, <3>2, Revisions
        <3> QED
            BY <2>1, <2>3, <3>1, <3>3 DEF Saving
    <2>5. \A d \in Caller \ {c} : pc'[d] = pc[d] /\ rev'[d] = rev[d] /\ dump'[d] = dump[d]
        BY <1>6, <2>1 DEF Compare, Goto, TypeOK
    <2> QED
        BY <1>0, <1>6, <2>1, <2>4, <2>5, OwnStep DEF Compare, purgeVars
<1>7. ASSUME NEW c \in Caller, Dump(c) PROVE IInv'
    <2>1. TypeOK /\ tag[c] = Final /\ Saving(c)
        BY <1>7 DEF IInv, Saving, Dump
    <2>2. nameOf[c] \in Name /\ applied \in [Name -> Revision]
        BY <2>1 DEF TypeOK
    <2>3. /\ pc'[c] \in {"create", "upload"} /\ dump'[c] = applied[nameOf[c]]
          /\ rev' = rev /\ tag' = tag
        BY <1>7, <2>1 DEF Dump, Goto, TypeOK
    <2>4. Saving(c)'
        BY <1>7, <2>1, <2>2, <2>3 DEF Saving, Dump
    <2>5. \A d \in Caller \ {c} : pc'[d] = pc[d] /\ rev'[d] = rev[d] /\ dump'[d] = dump[d]
        BY <1>7, <2>1 DEF Dump, Goto, TypeOK
    <2> QED
        BY <1>0, <1>7, <2>1, <2>4, <2>5, OwnStep DEF Dump, purgeVars
<1> QED
    BY <1>0, <1>1, <1>2, <1>3, <1>4, <1>5, <1>6, <1>7, TempFileStep, CopyStep, SaveFailsStep,
       RenameStep, UploadStep, PurgeListStep, PurgeRemoveStep, ExpireStep, CrashStep
       DEF Next, Call, Purge, Failure

(* The store only ever offers whole snapshots: a file that Save has not      *)
(* finished never has a name that a restore picks as a snapshot's own.      *)
THEOREM WholeSnapshots == Spec => []SnapshotsAreWhole
<1>1. IInv => SnapshotsAreWhole
    BY DEF IInv
<1> QED
    BY InitInvariant, StepInvariant, <1>1, PTL DEF Spec

(* Every state of the store and of its callers is well typed. *)
THEOREM SnapshotsTyped == Spec => []TypeOK
<1>1. IInv => TypeOK
    BY DEF IInv
<1> QED
    BY InitInvariant, StepInvariant, <1>1, PTL DEF Spec
=============================================================================
