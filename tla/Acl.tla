--------------------------------- MODULE Acl ---------------------------------
(***************************************************************************)
(* The reconciliation of the init-acl configuration, pkg/operator/acl.go:  *)
(* what the seeder does after each healthy loop.  enableACL, then          *)
(* removeACLConfig and applyACLConfig, are sequences of etcd requests      *)
(* under one timeout of five seconds; whatever fails ends the run with an  *)
(* error, and the next loop begins a new one.                              *)
(*                                                                         *)
(* ASSUMPTIONS.  One instance is the seeder at a time, and its runs do not *)
(* overlap (a loop waits for its run; another instance becomes the seeder  *)
(* a loop later).  A new version of the configuration is given by          *)
(* restarting the seeder, and older versions do not come back.  A          *)
(* configuration is any that Validate accepts, one that names the users of *)
(* the operator itself included.  The permissions of a role are one        *)
(* request, keys and passwords are left out.                               *)
(***************************************************************************)
EXTENDS Naturals, Sequences, Functions

CONSTANTS
    Configs,      \* the versions of the init-acl configuration, in order
    Role, User,   \* the names they mention, and "root", "etcd"
    CommonName,   \* the user that the operator's certificate stands for
    Existing,     \* the users that may have been made by hand before
    Faults,       \* the kinds of fault that may happen
    MaxFaults     \* BOUND: how many of them

Version == 1 .. Len(Configs)
NoKey   == 0

(* Validate: names are used once, and the roles of a user are in the list.  It *)
(* does not look at the modes of the permissions, nor at whose names they are. *)
IsValid(config) ==
    /\ config.roles \in Seq(Role)
    /\ config.users \in Seq(User)
    /\ IsInjective(config.roles) /\ IsInjective(config.users)
    /\ config.bind \in [User -> Seq(Role)]   \* User.Roles
    /\ \A k \in DOMAIN config.users :
         Range(config.bind[config.users[k]]) \subseteq Range(config.roles) \cup {"root"}
    /\ config.misspelt \subseteq Role        \* one of its modes is not a mode
    /\ config.explicit \in BOOLEAN           \* no list of it was left out

ASSUME AclAssumption ==
    /\ "root" \in Role
    /\ {"root", "etcd", CommonName} \subseteq User
    /\ Existing \subseteq User \ {"root"}
    /\ Len(Configs) \in Nat \ {0}
    /\ \A v \in Version : IsValid(Configs[v])
    /\ Faults \subseteq {"lost", "late"}
    /\ MaxFaults \in Nat

VARIABLES
    wanted,       \* the configuration of the seeder
    todo,         \* what its run has still to do: a sequence of jobs, each of them requests
    roles,        \* etcd: the roles
    perms,        \* etcd: the configurations whose permissions a role has
    users,        \* etcd: the users
    granted,      \* etcd: the roles of each user
    auth,         \* etcd: authentication is enabled
    key,          \* etcd: the configuration under initACLConfigKeyPath
    faults        \* faults spent

etcdVars == <<roles, perms, users, granted, auth, key>>
vars == <<wanted, todo, etcdVars, faults>>

(* A request; tolerate: whether the error that etcd answers to it is ignored. *)
(* "lookup" is a RoleGet or UserGet, whose errors are all ignored, and the   *)
(* deletion of what it found.                                               *)
Op == {"RoleAdd", "RoleDelete", "RoleGrantPermission", "UserAdd", "UserDelete", "UserGrantRole",
       "AuthEnable", "Get", "Put", "Delete"}
Request == [op : Op, role : Role, user : User, version : Version \cup {NoKey},
            tolerate : {"no", "answer", "lookup"}]

TypeOK ==
    /\ wanted \in Version
    /\ todo \in Seq(Seq(Request))
    /\ roles \subseteq Role
    /\ perms \in [Role -> SUBSET Version]
    /\ users \subseteq User
    /\ granted \in [User -> SUBSET Role]
    /\ auth \in BOOLEAN
    /\ key \in Version \cup {NoKey}
    /\ faults \in 0 .. MaxFaults

-----------------------------------------------------------------------------
(* The requests of a run, in the order of the code: a job for each turn of a  *)
(* loop over users or roles.                                                 *)

None == [op |-> "Get", role |-> "root", user |-> "root", version |-> NoKey, tolerate |-> "no"]
OnRole(op, r)    == [None EXCEPT !.op = op, !.role = r]
OnUser(op, u)    == [None EXCEPT !.op = op, !.user = u]
Grant(u, r)      == [None EXCEPT !.op = "UserGrantRole", !.user = u, !.role = r]
Permit(r, v)     == [None EXCEPT !.op = "RoleGrantPermission", !.role = r, !.version = v]
OnKey(op, v)     == [None EXCEPT !.op = op, !.version = v]
Tolerate(q)      == [q EXCEPT !.tolerate = "answer"]
DropRole(r)      == [OnRole("RoleDelete", r) EXCEPT !.tolerate = "lookup"]
DropUser(u)      == [OnUser("UserDelete", u) EXCEPT !.tolerate = "lookup"]

(* Variant: authentication is enabled before the operator's own user is set up. *)
EnableAuthFirst ==
    << DropUser(CommonName),
       Tolerate(OnRole("RoleAdd", "root")), Tolerate(OnUser("UserAdd", "root")),
       Grant("root", "root"), OnKey("AuthEnable", NoKey),
       OnUser("UserAdd", CommonName), Grant(CommonName, "root"),
       OnUser("UserAdd", "etcd"), Grant("etcd", "root") >>

(* enableACL.  A user that has not the root role is deleted first, if it exists. *)
Enable ==
    << DropUser(CommonName),
       Tolerate(OnRole("RoleAdd", "root")), Tolerate(OnUser("UserAdd", "root")),
       Grant("root", "root"),
       OnUser("UserAdd", CommonName), Grant(CommonName, "root"),
       OnUser("UserAdd", "etcd"), Grant("etcd", "root"),
       OnKey("AuthEnable", NoKey) >>

(* getOldACLConfig, which tells what is to be done. *)
Look == <<OnKey("Get", NoKey)>>

(* Variant: the key is deleted first. *)
RemovalKeyFirst(v) ==
    LET config == Configs[v] IN
    << <<OnKey("Delete", NoKey)>> >>
    \o [k \in DOMAIN config.users |-> <<Tolerate(OnUser("UserDelete", config.users[k]))>>]
    \o [k \in DOMAIN config.roles |-> <<Tolerate(OnRole("RoleDelete", config.roles[k]))>>]

(* Variant: a user that is already gone is an error. *)
RemovalStrict(v) ==
    LET config == Configs[v] IN
    [k \in DOMAIN config.users |-> <<OnUser("UserDelete", config.users[k])>>]
    \o [k \in DOMAIN config.roles |-> <<Tolerate(OnRole("RoleDelete", config.roles[k]))>>]
    \o << <<OnKey("Delete", NoKey)>> >>

Removal(v) ==
    LET config == Configs[v] IN
    [k \in DOMAIN config.users |-> <<Tolerate(OnUser("UserDelete", config.users[k]))>>]
    \o [k \in DOMAIN config.roles |-> <<Tolerate(OnRole("RoleDelete", config.roles[k]))>>]
    \o << <<OnKey("Delete", NoKey)>> >>

ApplyRole(v, r) == <<DropRole(r), OnRole("RoleAdd", r), Permit(r, v)>>
ApplyUser(v, u) ==
    LET bind == Configs[v].bind[u] IN
    <<DropUser(u), OnUser("UserAdd", u)>> \o [k \in DOMAIN bind |-> Grant(u, bind[k])]
ApplyRoles(v) ==
    [k \in DOMAIN Configs[v].roles |-> ApplyRole(v, Configs[v].roles[k])]
ApplyUsers(v) ==
    [k \in DOMAIN Configs[v].users |-> ApplyUser(v, Configs[v].users[k])]

(* Variant: the key is put first. *)
ApplicationKeyFirst(v) == << <<OnKey("Put", v)>> >> \o ApplyRoles(v) \o ApplyUsers(v)

Application(v) == ApplyRoles(v) \o ApplyUsers(v) \o << <<OnKey("Put", v)>> >>

(* Variant: the pointers are compared. *)
EqualNever(old, v) == FALSE

(* A list that was left out of the configuration is nil there, and empty in   *)
(* what is read back: DeepEqual tells them apart.                            *)
Equal(old, v) == old = v /\ Configs[v].explicit

(* What follows getOldACLConfig. *)
Reconcile(old, v) ==
    IF Equal(old, v) THEN <<>>
    ELSE (IF old = NoKey THEN <<>> ELSE Removal(old)) \o Application(v)

-----------------------------------------------------------------------------
(* etcd.  With authentication, only a user with the root role may do this,   *)
(* and nobody may delete what authentication needs.                          *)

Allowed == auth => CommonName \in users /\ "root" \in granted[CommonName]

Protected(q) ==
    /\ auth
    /\ \/ q.op = "UserDelete" /\ q.user = "root"
       \/ q.op = "RoleDelete" /\ q.role = "root"

(* The request is not even sent. *)
Misspelt(q) == q.op = "RoleGrantPermission" /\ q.role \in Configs[q.version].misspelt

Accepts(q) ==
    /\ Allowed
    /\ ~Protected(q) /\ ~Misspelt(q)
    /\ q.op = "RoleAdd" => q.role \notin roles
    /\ q.op \in {"RoleDelete", "RoleGrantPermission"} => q.role \in roles
    /\ q.op = "UserAdd" => q.user \notin users
    /\ q.op = "UserDelete" => q.user \in users
    /\ q.op = "UserGrantRole" => q.user \in users /\ q.role \in roles
    /\ q.op = "AuthEnable" => "root" \in users /\ "root" \in granted["root"]

OnRoles(q) ==
    /\ q.op \in {"RoleAdd", "RoleDelete", "RoleGrantPermission"}
    /\ roles' = CASE q.op = "RoleAdd" -> roles \cup {q.role}
                  [] q.op = "RoleDelete" -> roles \ {q.role}
                  [] OTHER -> roles
    /\ perms' = [perms EXCEPT ![q.role] = IF q.op = "RoleGrantPermission" THEN @ \cup {q.version}
                                          ELSE {}]
    /\ granted' = [u \in User |-> IF q.op = "RoleDelete" THEN granted[u] \ {q.role} ELSE granted[u]]
    /\ UNCHANGED <<users, auth, key>>

OnUsers(q) ==
    /\ q.op \in {"UserAdd", "UserDelete", "UserGrantRole"}
    /\ users' = CASE q.op = "UserAdd" -> users \cup {q.user}
                  [] q.op = "UserDelete" -> users \ {q.user}
                  [] OTHER -> users
    /\ granted' = [granted EXCEPT ![q.user] = IF q.op = "UserGrantRole" THEN @ \cup {q.role} ELSE {}]
    /\ UNCHANGED <<roles, perms, auth, key>>

OnKeyspace(q) ==
    /\ q.op \in {"AuthEnable", "Get", "Put", "Delete"}
    /\ auth' = (auth \/ q.op = "AuthEnable")
    /\ key' = CASE q.op = "Put" -> q.version [] q.op = "Delete" -> NoKey [] OTHER -> key
    /\ UNCHANGED <<roles, perms, users, granted>>

Served(q) == Accepts(q) /\ (OnRoles(q) \/ OnUsers(q) \/ OnKeyspace(q))

Fault(kind) ==
    /\ kind \in Faults
    /\ faults < MaxFaults
    /\ faults' = faults + 1

-----------------------------------------------------------------------------
Init ==
    /\ wanted = 1
    /\ todo = <<>>
    /\ roles = {}
    /\ perms = [r \in Role |-> {}]
    /\ users \in SUBSET Existing
    /\ granted = [u \in User |-> {}]
    /\ auth = FALSE
    /\ key = NoKey
    /\ faults = 0

(* The loop found itself OK and the seeder.  enableACL returns at once when   *)
(* the operator's user has the root role.                                    *)
Begin ==
    /\ todo = <<>>
    /\ todo' = IF Allowed /\ "root" \in granted[CommonName] THEN <<Look>> ELSE <<Enable, Look>>
    /\ UNCHANGED <<wanted, etcdVars, faults>>

(* Its UserGet fails, and it goes on as if there were no such user. *)
BeginBlindly ==
    /\ todo = <<>>
    /\ Fault("lost")
    /\ todo' = <<Tail(Enable), Look>>
    /\ UNCHANGED <<wanted, etcdVars>>

Now  == Head(Head(todo))
Rest == IF Len(Head(todo)) = 1 THEN Tail(todo) ELSE [todo EXCEPT ![1] = Tail(@)]

Perform ==
    /\ todo # <<>>
    /\ Served(Now)
    /\ todo' = IF Now.op = "Get" THEN Reconcile(key, wanted) ELSE Rest
    /\ UNCHANGED <<wanted, faults>>

(* ErrRoleAlreadyExist, ErrUserNotFound and the like, where the code ignores them. *)
Ignorable(q) == Allowed /\ ~Protected(q) /\ q.tolerate # "no"

Ignore ==
    /\ todo # <<>>
    /\ ~Accepts(Now)
    /\ Ignorable(Now)
    /\ todo' = Rest
    /\ UNCHANGED <<wanted, etcdVars, faults>>

Refused ==
    /\ todo # <<>>
    /\ ~Accepts(Now)
    /\ ~Ignorable(Now)
    /\ todo' = <<>>
    /\ UNCHANGED <<wanted, etcdVars, faults>>

(* A RoleGet or UserGet of applyACLConfig fails, and nothing is deleted. *)
MissLookup ==
    /\ todo # <<>>
    /\ Now.tolerate = "lookup"
    /\ Fault("lost")
    /\ todo' = Rest
    /\ UNCHANGED <<wanted, etcdVars>>

(* The request fails, the timeout passes or the process dies before it... *)
Lost ==
    /\ todo # <<>>
    /\ Fault("lost")
    /\ todo' = <<>>
    /\ UNCHANGED <<wanted, etcdVars>>

(* ... or after etcd applied it. *)
Late ==
    /\ todo # <<>>
    /\ Fault("late")
    /\ Served(Now)
    /\ todo' = <<>>
    /\ UNCHANGED wanted

(* The seeder is restarted with the next version, in the middle of a run or not. *)
Upgrade ==
    /\ wanted < Len(Configs)
    /\ wanted' = wanted + 1
    /\ todo' = <<>>
    /\ UNCHANGED <<etcdVars, faults>>

Next == Begin \/ BeginBlindly \/ MissLookup \/ Perform \/ Ignore \/ Refused \/ Lost \/ Late \/ Upgrade

Spec == Init /\ [][Next]_vars

(* The loop turns, and requests are answered or time out. *)
FairSpec == Spec /\ WF_vars(Begin) /\ WF_vars(Perform \/ Ignore \/ Refused)

-----------------------------------------------------------------------------
(* Properties *)

(* Each role of the configuration has its permissions and no others, each user its roles. *)
RoleInForce(v, r) == r \in roles /\ perms[r] = {v}
UserInForce(v, u) == u \in users /\ granted[u] = Range(Configs[v].bind[u])
InForce(v) ==
    /\ \A r \in Range(Configs[v].roles) : RoleInForce(v, r)
    /\ \A u \in Range(Configs[v].users) : UserInForce(v, u)

(* What the key records is in force, through every failure and restart: a    *)
(* later run that finds the key and does nothing leaves nothing undone.      *)
RecordedIsInForce == key = wanted => InForce(wanted)

(* A configuration named the user of the operator itself: applyACLConfig     *)
(* deletes it, and with authentication all that follows is refused.          *)
Disowned == \E v \in 1 .. wanted : CommonName \in Range(Configs[v].users)

(* Once authentication is on, root keeps the root role, and so does the      *)
(* operator itself unless it was told to take it away.                       *)
NoLockout == auth => /\ "root" \in users /\ "root" \in granted["root"]
                     /\ Allowed \/ Disowned

(* Why the two hold, the inductive invariant.  What is left of a job, and of a *)
(* sequence of jobs.                                                         *)
Begun(job, whole) ==
    /\ Len(job) \in 1 .. Len(whole)
    /\ \A n \in 1 .. Len(job) : job[n] = whole[n + Len(whole) - Len(job)]
Left(jobs) ==
    /\ Len(todo) \in 1 .. Len(jobs)
    /\ Begun(todo[1], jobs[1 + Len(jobs) - Len(todo)])
    /\ \A n \in 2 .. Len(todo) : todo[n] = jobs[n + Len(jobs) - Len(todo)]

(* A user that is deleted while the operator is set up has no root role; the *)
(* operator has it before authentication is enabled.                         *)
Enabling ==
    /\ Left(<<Enable, Look>>)
    /\ Len(todo) = 2 => /\ Len(todo[1]) = Len(Enable) => ~auth \/ Disowned
                        /\ Len(todo[1]) <= 3 =>
                              CommonName \in users /\ "root" \in granted[CommonName]

Reconciling == \E old \in 1 .. wanted : Left(Removal(old) \o Application(wanted))

(* By the end of a job what it is for is in force, the roles before the users: *)
(* left is how many jobs come after that of the kth role, or user.           *)
RoleAchieved(k) ==
    LET config == Configs[wanted]
        r      == config.roles[k]
        left   == Len(config.roles) + Len(config.users) + 1 - k
    IN
    /\ Len(todo) <= left => RoleInForce(wanted, r)
    /\ Len(todo) = left + 1 /\ Len(todo[1]) = 1 => r \in roles /\ perms[r] = {}
UserAchieved(k) ==
    LET config == Configs[wanted]
        u      == config.users[k]
        bind   == config.bind[u]
        left   == Len(config.users) + 1 - k
    IN
    /\ Len(todo) <= left => UserInForce(wanted, u)
    /\ Len(todo) = left + 1 /\ Len(todo[1]) <= Len(bind) =>
         u \in users /\ granted[u] = {bind[n] : n \in 1 .. Len(bind) - Len(todo[1])}
Achieved ==
    /\ \A k \in DOMAIN Configs[wanted].roles : RoleAchieved(k)
    /\ \A k \in DOMAIN Configs[wanted].users : UserAchieved(k)

LockInv == TypeOK /\ key <= wanted /\ NoLockout /\ (todo = <<>> \/ Enabling \/ Reconciling)
AclInv ==
    /\ LockInv
    /\ RecordedIsInForce
    /\ todo = <<>> \/ Enabling \/ (Reconciling /\ Achieved /\ key # wanted)

(* A mode that is not one: the configuration is begun again in every loop, and *)
(* never recorded.                                                           *)
Unfit == key # wanted /\ Configs[wanted].misspelt # {}

(* The last configuration ends up in force and recorded, however often a run *)
(* fails on the way; or it is unfit; or one that named the operator's user has  *)
(* locked the operator out for good.                                         *)
Converges == \/ <>[](key = wanted /\ InForce(wanted))
             \/ <>[]Unfit
             \/ <>[](~Allowed /\ Disowned)

(* The key of a configuration is given up when nothing of it is left, its    *)
(* users first: a removal that fails on the way is taken up again by the     *)
(* next run, which knows of it from the key alone.                           *)
RevokedFirst ==
    [][key # NoKey /\ key' # key =>
         /\ Range(Configs[key].users) \cap users' = {}
         /\ Range(Configs[key].roles) \cap roles' = {}]_vars

(* A configuration is applied once: when all is done, what etcd holds is not *)
(* touched any more, though the loop goes on calling the reconciliation      *)
(* (docs/init-acl.md:6).  It needs Equal to recognise what it wrote.         *)
AppliedOnce == <>[][FALSE]_etcdVars \/ <>[]Unfit

(* Once the configuration has been applied, authentication is on. *)
AppliedIsProtected == key # NoKey => auth
=============================================================================
