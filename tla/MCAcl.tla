-------------------------------- MODULE MCAcl --------------------------------
(* Configurations for TLC.  The second shares a role and a user with the     *)
(* first and names the user "etcd"; the third has a mode that is not one,    *)
(* and the fourth names the operator's own user, with the role that it needs. *)
EXTENDS Acl

Roles == {"root", "read", "write"}
Users == {"root", "etcd", "operator", "alice", "bob"}

First  == [roles |-> <<"read">>, users |-> <<"alice", "bob">>, misspelt |-> {},
           explicit |-> TRUE, bind |-> [u \in Users |-> <<"read">>]]
Second == [First EXCEPT !.roles = <<"write", "read">>, !.users = <<"etcd", "bob">>,
                        !.bind  = [u \in Users |-> <<"write", "read">>]]
Third  == [First EXCEPT !.misspelt = {"read"}]
Fourth == [First EXCEPT !.users = <<"alice", "operator">>,
                        !.bind  = [u \in Users |-> <<"read", "root">>]]

OneVersion   == <<First>>
FourVersions == <<First, Second, Third, Fourth>>
=============================================================================
