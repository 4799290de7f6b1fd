----------------------------- MODULE MCSnapshots -----------------------------
(* Small stores for TLC: two servers, a goroutine that snapshots periodically *)
(* and another one, which is the first server's Stop with the file provider,  *)
(* and the second server's with the s3 provider.                             *)
EXTENDS Snapshots

CONSTANTS snapshotter, stopper

Callers  == {snapshotter, stopper}
Names    == 1 .. 2
Directory == [provider |-> "file", nameOf |-> [c \in Callers |-> 1]]
Bucket    == [provider |-> "s3", nameOf |-> [c \in Callers |-> IF c = snapshotter THEN 1 ELSE 2]]

Both    == {Directory, Bucket}
Ticking == {snapshotter}
=============================================================================
