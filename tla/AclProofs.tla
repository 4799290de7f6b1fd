------------------------------ MODULE AclProofs ------------------------------
(***************************************************************************)
(* Proofs about Acl, for any configurations, users, roles and faults.      *)
(*                                                                         *)
(* LockInv says that what a run has still to do is the end of what it set  *)
(* out to do, and that only a configuration that names the operator's own  *)
(* user locks the operator out, for all configurations that Validate       *)
(* accepts, whatever they name.  AclInv adds what the jobs that are done   *)
(* have achieved.  Both are inductive.  The lemmas come in this order:     *)
(* what the jobs are; how todo advances; what each request does to the     *)
(* operator's own users (LockStep); which roles and users a request leaves *)
(* as they were, because names are used once; what a job achieves and the  *)
(* later ones keep (AclStep).                                              *)
(***************************************************************************)
EXTENDS Acl, SequenceTheorems, TLAPS

LEMMA OfSeq ==
    ASSUME NEW S, NEW n \in Nat, NEW f \in [1 .. n -> S]
    PROVE  f \in Seq(S) /\ Len(f) = n /\ DOMAIN f = 1 .. n
  OBVIOUS

LEMMA ConfigIs ==
    ASSUME NEW v \in Version
    PROVE  /\ Configs[v].roles \in Seq(Role)
           /\ Configs[v].users \in Seq(User)
           /\ Configs[v].bind \in [User -> Seq(Role)]
           /\ IsInjective(Configs[v].roles) /\ IsInjective(Configs[v].users)
    BY AclAssumption DEF IsValid

(* What the requests are. *)
LEMMA RequestIs ==
    /\ \A u \in User, r \in Role : Grant(u, r) \in Request
    /\ \A op \in Op, r \in Role : OnRole(op, r) \in Request
    /\ \A op \in Op, u \in User : OnUser(op, u) \in Request
    /\ \A op \in Op, v \in Version \cup {NoKey} : OnKey(op, v) \in Request
    /\ \A r \in Role, v \in Version : Permit(r, v) \in Request
    /\ \A q \in Request : Tolerate(q) \in Request
    /\ \A r \in Role : DropRole(r) \in Request
    /\ \A u \in User : DropUser(u) \in Request
<1>1. None \in Request
    BY AclAssumption DEF None, Request, Op
<1>2. \A q \in Request : [q EXCEPT !.tolerate = "answer"] \in Request /\ [q EXCEPT !.tolerate = "lookup"] \in Request
    BY DEF Request
<1>3. /\ \A u \in User, r \in Role : Grant(u, r) \in Request
      /\ \A op \in Op, r \in Role : OnRole(op, r) \in Request
      /\ \A op \in Op, u \in User : OnUser(op, u) \in Request
      /\ \A op \in Op, v \in Version \cup {NoKey} : OnKey(op, v) \in Request
      /\ \A r \in Role, v \in Version : Permit(r, v) \in Request
    BY AclAssumption DEF None, Request, Op, Grant, OnRole, OnUser, OnKey, Permit
<1> QED
    BY <1>2, <1>3 DEF Tolerate, DropRole, DropUser, Op

LEMMA EnableIs ==
    /\ Enable \in Seq(Request)
    /\ Len(Enable) = 9
    /\ Enable[1] = DropUser(CommonName)
    /\ Enable[2] = Tolerate(OnRole("RoleAdd", "root"))
    /\ Enable[3] = Tolerate(OnUser("UserAdd", "root"))
    /\ Enable[4] = Grant("root", "root")
    /\ Enable[5] = OnUser("UserAdd", CommonName)
    /\ Enable[6] = Grant(CommonName, "root")
    /\ Enable[7] = OnUser("UserAdd", "etcd")
    /\ Enable[8] = Grant("etcd", "root")
    /\ Enable[9] = OnKey("AuthEnable", NoKey)
<1>1. /\ DropUser(CommonName) \in Request
      /\ Tolerate(OnRole("RoleAdd", "root")) \in Request
      /\ Tolerate(OnUser("UserAdd", "root")) \in Request
      /\ Grant("root", "root") \in Request
      /\ OnUser("UserAdd", CommonName) \in Request
      /\ Grant(CommonName, "root") \in Request
      /\ OnUser("UserAdd", "etcd") \in Request
      /\ Grant("etcd", "root") \in Request
      /\ OnKey("AuthEnable", NoKey) \in Request
    BY AclAssumption, RequestIs DEF Op
<1> QED
    BY <1>1 DEF Enable

-----------------------------------------------------------------------------
(* The jobs of a run. *)

LEMMA LookIs == Look \in Seq(Request) /\ Len(Look) = 1 /\ Look[1] = OnKey("Get", NoKey)
<1>1. OnKey("Get", NoKey) \in Request
    BY RequestIs DEF Op
<1> QED
    BY <1>1 DEF Look

LEMMA ApplyRoleIs ==
    ASSUME NEW v \in Version, NEW r \in Role
    PROVE  /\ ApplyRole(v, r) \in Seq(Request)
           /\ Len(ApplyRole(v, r)) = 3
           /\ ApplyRole(v, r)[1] = DropRole(r)
           /\ ApplyRole(v, r)[2] = OnRole("RoleAdd", r)
           /\ ApplyRole(v, r)[3] = Permit(r, v)
<1>1. DropRole(r) \in Request /\ OnRole("RoleAdd", r) \in Request /\ Permit(r, v) \in Request
    BY RequestIs DEF Op
<1> QED
    BY <1>1 DEF ApplyRole

LEMMA ApplyUserIs ==
    ASSUME NEW v \in Version, NEW u \in User
    PROVE  LET bind == Configs[v].bind[u] IN
           /\ ApplyUser(v, u) \in Seq(Request)
           /\ Len(ApplyUser(v, u)) = 2 + Len(bind)
           /\ ApplyUser(v, u)[1] = DropUser(u)
           /\ ApplyUser(v, u)[2] = OnUser("UserAdd", u)
           /\ \A n \in 1 .. Len(bind) : ApplyUser(v, u)[n + 2] = Grant(u, bind[n])
<1> DEFINE bind == Configs[v].bind[u]
           first == <<DropUser(u), OnUser("UserAdd", u)>>
           grants == [n \in DOMAIN bind |-> Grant(u, bind[n])]
<1>1. bind \in Seq(Role)
    BY ConfigIs
<1>2. first \in Seq(Request) /\ Len(first) = 2 /\ first[1] = DropUser(u) /\ first[2] = OnUser("UserAdd", u)
    <2>1. DropUser(u) \in Request /\ OnUser("UserAdd", u) \in Request
        BY RequestIs DEF Op
    <2> QED
        BY <2>1
<1>3. Len(bind) \in Nat /\ DOMAIN bind = 1 .. Len(bind) /\ \A n \in 1 .. Len(bind) : bind[n] \in Role
    BY <1>1, LenProperties, ElementOfSeq
<1>4. \A n \in 1 .. Len(bind) : Grant(u, bind[n]) \in Request
    BY <1>3, RequestIs
<1>5. grants \in [1 .. Len(bind) -> Request] /\ \A n \in 1 .. Len(bind) : grants[n] = Grant(u, bind[n])
    BY <1>3, <1>4
<1> HIDE DEF bind, first
<1>6. grants \in Seq(Request) /\ Len(grants) = Len(bind)
    BY <1>3, <1>5, OfSeq
<1>7. ApplyUser(v, u) = first \o grants
    BY DEF ApplyUser, bind, first
<1> HIDE DEF grants
<1>8. /\ first \o grants \in Seq(Request)
      /\ Len(first \o grants) = 2 + Len(bind)
      /\ (first \o grants)[1] = first[1]
      /\ (first \o grants)[2] = first[2]
      /\ \A n \in 1 .. Len(bind) : (first \o grants)[n + 2] = grants[n]
    <2>1. /\ first \o grants \in Seq(Request)
          /\ Len(first \o grants) = 2 + Len(bind)
          /\ \A n \in 1 .. 2 + Len(bind) :
               (first \o grants)[n] = IF n <= 2 THEN first[n] ELSE grants[n - 2]
        <3>1. first \in Seq(Request) /\ grants \in Seq(Request)
            BY <1>2, <1>6
        <3>2. /\ first \o grants \in Seq(Request)
              /\ Len(first \o grants) = Len(first) + Len(grants)
              /\ \A n \in 1 .. Len(first) + Len(grants) :
                   (first \o grants)[n] = IF n <= Len(first) THEN first[n] ELSE grants[n - Len(first)]
            BY <3>1, ConcatProperties
        <3>3. Len(first) = 2 /\ Len(grants) = Len(bind)
            BY <1>2, <1>6
        <3> QED
            BY <3>2, <3>3
    <2>2. \A n \in 1 .. Len(bind) :
            n + 2 \in 1 .. 2 + Len(bind) /\ ~(n + 2 <= 2) /\ (n + 2) - 2 = n
        BY <1>3
    <2>3. 1 \in 1 .. 2 + Len(bind) /\ 2 \in 1 .. 2 + Len(bind) /\ 1 <= 2 /\ 2 <= 2
        BY <1>3
    <2>4. \A n \in 1 .. Len(bind) : (first \o grants)[n + 2] = grants[n]
        BY <2>1, <2>2
    <2> QED
        BY <2>1, <2>3, <2>4
<1> QED
    BY <1>2, <1>5, <1>7, <1>8 DEF bind

(* Three sequences, one after the other. *)
LEMMA ThreeParts ==
    ASSUME NEW S, NEW a \in Seq(S), NEW b \in Seq(S), NEW c \in Seq(S)
    PROVE  /\ a \o b \o c \in Seq(S)
           /\ Len(a \o b \o c) = Len(a) + Len(b) + Len(c)
           /\ \A k \in 1 .. Len(a) : (a \o b \o c)[k] = a[k]
           /\ \A k \in 1 .. Len(b) : (a \o b \o c)[Len(a) + k] = b[k]
           /\ \A k \in 1 .. Len(c) : (a \o b \o c)[Len(a) + Len(b) + k] = c[k]
<1>1. a \o b \in Seq(S) /\ Len(a \o b) = Len(a) + Len(b)
    BY ConcatProperties
<1>2. \A k \in 1 .. Len(a) + Len(b) :
        (a \o b)[k] = IF k <= Len(a) THEN a[k] ELSE b[k - Len(a)]
    BY <1>1, ConcatProperties
<1>3. \A k \in 1 .. Len(a) + Len(b) + Len(c) :
        (a \o b \o c)[k] = IF k <= Len(a \o b) THEN (a \o b)[k] ELSE c[k - Len(a \o b)]
    BY <1>1, ConcatProperties
<1>4. Len(a) \in Nat /\ Len(b) \in Nat /\ Len(c) \in Nat
    BY LenProperties
<1>5. a \o b \o c \in Seq(S) /\ Len(a \o b \o c) = Len(a) + Len(b) + Len(c)
    BY <1>1, ConcatProperties
<1> QED
    BY <1>1, <1>2, <1>3, <1>4, <1>5

LEMMA ApplicationIs ==
    ASSUME NEW v \in Version
    PROVE  LET config == Configs[v]
               R == Len(config.roles)
               U == Len(config.users)
           IN
           /\ R \in Nat /\ U \in Nat
           /\ Application(v) \in Seq(Seq(Request))
           /\ Len(Application(v)) = R + U + 1
           /\ \A k \in 1 .. R :
                config.roles[k] \in Role /\ Application(v)[k] = ApplyRole(v, config.roles[k])
           /\ \A k \in 1 .. U :
                /\ config.users[k] \in User
                /\ Application(v)[R + k] = ApplyUser(v, config.users[k])
           /\ Application(v)[R + U + 1] = <<OnKey("Put", v)>>
<1> DEFINE rs == Configs[v].roles
           us == Configs[v].users
           last == << <<OnKey("Put", v)>> >>
<1>1. rs \in Seq(Role) /\ us \in Seq(User)
    BY ConfigIs
<1>2. /\ Len(rs) \in Nat /\ DOMAIN rs = 1 .. Len(rs)
      /\ Len(us) \in Nat /\ DOMAIN us = 1 .. Len(us)
      /\ \A k \in 1 .. Len(rs) : rs[k] \in Role
      /\ \A k \in 1 .. Len(us) : us[k] \in User
    BY <1>1, LenProperties, ElementOfSeq
<1> HIDE DEF rs, us
<1>3. /\ ApplyRoles(v) \in Seq(Seq(Request)) /\ Len(ApplyRoles(v)) = Len(rs)
      /\ \A k \in 1 .. Len(rs) : ApplyRoles(v)[k] = ApplyRole(v, rs[k])
    <2>1. \A k \in 1 .. Len(rs) : ApplyRole(v, rs[k]) \in Seq(Request)
        BY <1>2, ApplyRoleIs
    <2>2. ApplyRoles(v) = [k \in 1 .. Len(rs) |-> ApplyRole(v, rs[k])]
        BY <1>2 DEF ApplyRoles, rs
    <2>3. ApplyRoles(v) \in [1 .. Len(rs) -> Seq(Request)]
        BY <2>1, <2>2
    <2> QED
        BY <1>2, <2>2, <2>3, OfSeq
<1>4. /\ ApplyUsers(v) \in Seq(Seq(Request)) /\ Len(ApplyUsers(v)) = Len(us)
      /\ \A k \in 1 .. Len(us) : ApplyUsers(v)[k] = ApplyUser(v, us[k])
    <2>1. \A k \in 1 .. Len(us) : ApplyUser(v, us[k]) \in Seq(Request)
        BY <1>2, ApplyUserIs
    <2>2. ApplyUsers(v) = [k \in 1 .. Len(us) |-> ApplyUser(v, us[k])]
        BY <1>2 DEF ApplyUsers, us
    <2>3. ApplyUsers(v) \in [1 .. Len(us) -> Seq(Request)]
        BY <2>1, <2>2
    <2> QED
        BY <1>2, <2>2, <2>3, OfSeq
<1>5. last \in Seq(Seq(Request)) /\ Len(last) = 1 /\ last[1] = <<OnKey("Put", v)>>
    <2>1. OnKey("Put", v) \in Request
        BY RequestIs DEF Op
    <2>2. <<OnKey("Put", v)>> \in Seq(Request)
        BY <2>1
    <2> QED
        BY <2>2
<1> HIDE DEF last
<1>6. Application(v) = ApplyRoles(v) \o ApplyUsers(v) \o last
    BY DEF Application, last
<1>7. /\ Application(v) \in Seq(Seq(Request))
      /\ Len(Application(v)) = Len(rs) + Len(us) + 1
      /\ \A k \in 1 .. Len(rs) : Application(v)[k] = ApplyRoles(v)[k]
      /\ \A k \in 1 .. Len(us) : Application(v)[Len(rs) + k] = ApplyUsers(v)[k]
      /\ Application(v)[Len(rs) + Len(us) + 1] = last[1]
    <2>1. /\ Application(v) \in Seq(Seq(Request))
          /\ Len(Application(v)) = Len(ApplyRoles(v)) + Len(ApplyUsers(v)) + Len(last)
          /\ \A k \in 1 .. Len(ApplyRoles(v)) : Application(v)[k] = ApplyRoles(v)[k]
          /\ \A k \in 1 .. Len(ApplyUsers(v)) :
               Application(v)[Len(ApplyRoles(v)) + k] = ApplyUsers(v)[k]
          /\ \A k \in 1 .. Len(last) :
               Application(v)[Len(ApplyRoles(v)) + Len(ApplyUsers(v)) + k] = last[k]
        <3>1. /\ ApplyRoles(v) \in Seq(Seq(Request)) /\ ApplyUsers(v) \in Seq(Seq(Request))
              /\ last \in Seq(Seq(Request))
            BY <1>3, <1>4, <1>5
        <3> QED
            BY <3>1, <1>6, ThreeParts
    <2>2. 1 \in 1 .. Len(last)
        BY <1>5
    <2> QED
        BY <2>1, <2>2, <1>3, <1>4, <1>5
<1> QED
    BY <1>2, <1>3, <1>4, <1>5, <1>7 DEF rs, us

(* What a removal asks for: it deletes no user but those of its version. *)
Removes(old, q) ==
    /\ q.op \in {"UserDelete", "RoleDelete", "Delete"}
    /\ q.op = "UserDelete" => q.user \in Range(Configs[old].users)

LEMMA RemovalIs ==
    ASSUME NEW v \in Version
    PROVE  /\ Removal(v) \in Seq(Seq(Request))
           /\ Len(Removal(v)) \in Nat
           /\ \A k \in 1 .. Len(Removal(v)) : Len(Removal(v)[k]) = 1 /\ Removes(v, Removal(v)[k][1])
<1> DEFINE rs == Configs[v].roles
           us == Configs[v].users
           a == [k \in 1 .. Len(us) |-> <<Tolerate(OnUser("UserDelete", us[k]))>>]
           b == [k \in 1 .. Len(rs) |-> <<Tolerate(OnRole("RoleDelete", rs[k]))>>]
           c == << <<OnKey("Delete", NoKey)>> >>
<1>1. rs \in Seq(Role) /\ us \in Seq(User)
    BY ConfigIs
<1>2. /\ Len(rs) \in Nat /\ DOMAIN rs = 1 .. Len(rs)
      /\ Len(us) \in Nat /\ DOMAIN us = 1 .. Len(us)
      /\ \A k \in 1 .. Len(rs) : rs[k] \in Role
      /\ \A k \in 1 .. Len(us) : us[k] \in User
    BY <1>1, LenProperties, ElementOfSeq
<1>3. Removal(v) = a \o b \o c
    BY <1>2 DEF Removal
<1> HIDE DEF rs, us
<1>4. \A k \in 1 .. Len(us) :
        LET q == Tolerate(OnUser("UserDelete", us[k])) IN q \in Request /\ Removes(v, q)
    <2>1. \A k \in 1 .. Len(us) : OnUser("UserDelete", us[k]) \in Request
        BY <1>2, RequestIs DEF Op
    <2> QED
        BY <1>2, <2>1, RequestIs DEF Removes, Tolerate, OnUser, None, Range, us
<1>5. \A k \in 1 .. Len(rs) :
        LET q == Tolerate(OnRole("RoleDelete", rs[k])) IN q \in Request /\ Removes(v, q)
    <2>1. \A k \in 1 .. Len(rs) : OnRole("RoleDelete", rs[k]) \in Request
        BY <1>2, RequestIs DEF Op
    <2> QED
        BY <1>2, <2>1, RequestIs DEF Removes, Tolerate, OnRole, None
<1>6. OnKey("Delete", NoKey) \in Request /\ Removes(v, OnKey("Delete", NoKey))
    BY RequestIs DEF Op, Removes, OnKey, None
<1>7. \A q \in Request : <<q>> \in Seq(Request) /\ Len(<<q>>) = 1 /\ <<q>>[1] = q
    OBVIOUS
<1>8. a \in Seq(Seq(Request)) /\ Len(a) = Len(us)
      /\ \A k \in 1 .. Len(a) : Len(a[k]) = 1 /\ Removes(v, a[k][1])
    <2>1. a \in [1 .. Len(us) -> Seq(Request)]
        BY <1>4, <1>7
    <2>2. a \in Seq(Seq(Request)) /\ Len(a) = Len(us)
        BY <2>1, <1>2, OfSeq
    <2> QED
        BY <2>2, <1>4, <1>7
<1>9. b \in Seq(Seq(Request)) /\ Len(b) = Len(rs)
      /\ \A k \in 1 .. Len(b) : Len(b[k]) = 1 /\ Removes(v, b[k][1])
    <2>1. b \in [1 .. Len(rs) -> Seq(Request)]
        BY <1>5, <1>7
    <2>2. b \in Seq(Seq(Request)) /\ Len(b) = Len(rs)
        BY <2>1, <1>2, OfSeq
    <2> QED
        BY <2>2, <1>5, <1>7
<1>10. c \in Seq(Seq(Request)) /\ Len(c) = 1 /\ Len(c[1]) = 1 /\ Removes(v, c[1][1])
    BY <1>6, <1>7
<1> HIDE DEF a, b, c
<1>11. Len(a) \in Nat /\ Len(b) \in Nat
    BY <1>2, <1>8, <1>9
<1>12. /\ Removal(v) \in Seq(Seq(Request))
       /\ Len(Removal(v)) = Len(a) + Len(b) + 1
       /\ \A k \in 1 .. Len(a) : Removal(v)[k] = a[k]
       /\ \A k \in 1 .. Len(b) : Removal(v)[Len(a) + k] = b[k]
       /\ Removal(v)[Len(a) + Len(b) + 1] = c[1]
    <2>1. /\ Removal(v) \in Seq(Seq(Request))
          /\ Len(Removal(v)) = Len(a) + Len(b) + Len(c)
          /\ \A k \in 1 .. Len(a) : Removal(v)[k] = a[k]
          /\ \A k \in 1 .. Len(b) : Removal(v)[Len(a) + k] = b[k]
          /\ \A k \in 1 .. Len(c) : Removal(v)[Len(a) + Len(b) + k] = c[k]
        <3>1. a \in Seq(Seq(Request)) /\ b \in Seq(Seq(Request)) /\ c \in Seq(Seq(Request))
            BY <1>8, <1>9, <1>10
        <3> QED
            BY <3>1, <1>3, ThreeParts
    <2>2. 1 \in 1 .. Len(c)
        BY <1>10
    <2> QED
        BY <2>1, <2>2, <1>10
<1>13. ASSUME NEW k \in 1 .. Len(Removal(v))
       PROVE  Len(Removal(v)[k]) = 1 /\ Removes(v, Removal(v)[k][1])
    <2>4. k \in Nat /\ k >= 1 /\ k <= Len(a) + Len(b) + 1
        BY <1>11, <1>12
    <2>1. CASE k <= Len(a)
        <3>1. k \in 1 .. Len(a)
            BY <2>1, <2>4, <1>11
        <3>2. Removal(v)[k] = a[k]
            BY <3>1, <1>12
        <3> QED
            BY <3>1, <3>2, <1>8
    <2>2. CASE k > Len(a) /\ k <= Len(a) + Len(b)
        <3>1. k - Len(a) \in 1 .. Len(b) /\ k = Len(a) + (k - Len(a))
            BY <2>2, <2>4, <1>11
        <3> QED
            BY <3>1, <1>9, <1>12
    <2>3. CASE k = Len(a) + Len(b) + 1
        BY <2>3, <1>10, <1>12
    <2> QED
        BY <2>1, <2>2, <2>3, <2>4, <1>11
<1> QED
    BY <1>11, <1>12, <1>13

LEMMA WorkIs ==
    ASSUME NEW old \in Version, NEW v \in Version
    PROVE  LET D == Len(Removal(old))
               A == Len(Application(v))
               w == Removal(old) \o Application(v)
           IN
           /\ D \in Nat /\ A \in Nat \ {0}
           /\ w \in Seq(Seq(Request)) /\ Len(w) = D + A
           /\ \A k \in 1 .. D : Len(w[k]) = 1 /\ Removes(old, w[k][1])
           /\ \A k \in 1 .. A : w[D + k] = Application(v)[k]
<1> DEFINE D == Len(Removal(old))
           A == Len(Application(v))
           w == Removal(old) \o Application(v)
<1>1. /\ Removal(old) \in Seq(Seq(Request)) /\ Application(v) \in Seq(Seq(Request))
      /\ D \in Nat /\ A \in Nat \ {0}
    <2>1. A = Len(Configs[v].roles) + Len(Configs[v].users) + 1
          /\ Len(Configs[v].roles) \in Nat /\ Len(Configs[v].users) \in Nat
        BY ApplicationIs
    <2>2. \A r, u \in Nat : r + u + 1 \in Nat \ {0}
        OBVIOUS
    <2> HIDE DEF A
    <2>3. A \in Nat \ {0}
        BY <2>1, <2>2
    <2> QED
        BY <2>3, RemovalIs, ApplicationIs
<1>2. /\ w \in Seq(Seq(Request)) /\ Len(w) = D + A
      /\ \A n \in 1 .. D + A :
           w[n] = IF n <= D THEN Removal(old)[n] ELSE Application(v)[n - D]
    BY <1>1, ConcatProperties
<1>3. \A k \in 1 .. D : Len(Removal(old)[k]) = 1 /\ Removes(old, Removal(old)[k][1])
    BY RemovalIs
<1> HIDE DEF D, A, w
<1>4. \A k \in 1 .. D : k \in 1 .. D + A /\ k <= D
    BY <1>1
<1>5. \A k \in 1 .. A : D + k \in 1 .. D + A /\ ~(D + k <= D) /\ (D + k) - D = k
    BY <1>1
<1>6. \A k \in 1 .. D : w[k] = Removal(old)[k]
    BY <1>2, <1>4
<1>7. \A k \in 1 .. A : w[D + k] = Application(v)[k]
    BY <1>2, <1>5
<1>8. \A k \in 1 .. D : Len(w[k]) = 1 /\ Removes(old, w[k][1])
    BY <1>3, <1>6
<1> QED
    BY <1>1, <1>2, <1>7, <1>8 DEF D, A, w

(* No job is empty. *)
LEMMA WorkIsFull ==
    ASSUME NEW old \in Version, NEW v \in Version,
           NEW k \in 1 .. Len(Removal(old) \o Application(v))
    PROVE  Len((Removal(old) \o Application(v))[k]) \in Nat \ {0}
<1> DEFINE D == Len(Removal(old))
           rs == Configs[v].roles
           us == Configs[v].users
           w == Removal(old) \o Application(v)
           n == k - D
<1>1. /\ D \in Nat
      /\ Len(w) = D + Len(Application(v))
      /\ \A m \in 1 .. D : Len(w[m]) = 1
      /\ \A m \in 1 .. Len(Application(v)) : w[D + m] = Application(v)[m]
    BY WorkIs
<1>2. /\ Len(rs) \in Nat /\ Len(us) \in Nat
      /\ Len(Application(v)) = Len(rs) + Len(us) + 1
      /\ \A m \in 1 .. Len(rs) :
           rs[m] \in Role /\ Application(v)[m] = ApplyRole(v, rs[m])
      /\ \A m \in 1 .. Len(us) :
           us[m] \in User /\ Application(v)[Len(rs) + m] = ApplyUser(v, us[m])
      /\ Application(v)[Len(rs) + Len(us) + 1] = <<OnKey("Put", v)>>
    BY ApplicationIs
<1>3. k \in 1 .. D + (Len(rs) + Len(us) + 1)
    BY <1>1, <1>2
<1>4. Configs[v].bind \in [User -> Seq(Role)]
    BY ConfigIs
<1> HIDE DEF rs, us, w
<1>5. CASE k <= D
    <2>1. k \in 1 .. D
        BY <1>1, <1>2, <1>3, <1>5
    <2> QED
        <3>1. Len(w[k]) = 1
            BY <1>1, <2>1
        <3> QED
            BY <3>1 DEF w
<1>6. CASE n \in 1 .. Len(rs)
    <2>1. Application(v)[n] = ApplyRole(v, rs[n]) /\ rs[n] \in Role
        BY <1>2, <1>6
    <2>2. n \in 1 .. Len(Application(v)) /\ k = D + n
        BY <1>1, <1>2, <1>3, <1>6
    <2>3. w[k] = Application(v)[n]
        BY <2>2, <1>1
    <2> QED
        BY <2>1, <2>3, ApplyRoleIs DEF w
<1>7. CASE n - Len(rs) \in 1 .. Len(us)
    <2> DEFINE m == n - Len(rs)
    <2>1. Application(v)[Len(rs) + m] = ApplyUser(v, us[m]) /\ us[m] \in User
        BY <1>2, <1>7
    <2>2. n \in 1 .. Len(Application(v)) /\ k = D + n /\ Len(rs) + m = n
        BY <1>1, <1>2, <1>3, <1>7
    <2>3. w[k] = Application(v)[n]
        BY <2>2, <1>1
    <2>4. Len(ApplyUser(v, us[m])) = 2 + Len(Configs[v].bind[us[m]])
        BY <2>1, ApplyUserIs
    <2>5. Len(Configs[v].bind[us[m]]) \in Nat
        BY <1>4, <2>1, LenProperties
    <2> QED
        BY <2>1, <2>2, <2>3, <2>4, <2>5 DEF w
<1>8. CASE n = Len(rs) + Len(us) + 1
    <2>1. n \in 1 .. Len(Application(v)) /\ k = D + n
        BY <1>1, <1>2, <1>3, <1>8
    <2>2. w[k] = Application(v)[n]
        BY <2>1, <1>1
    <2> QED
        <3>1. w[k] = <<OnKey("Put", v)>>
            BY <2>2, <1>2, <1>8
        <3>2. Len(w[k]) = 1
            BY <3>1
        <3> QED
            BY <3>2 DEF w
<1> QED
    BY <1>1, <1>2, <1>3, <1>5, <1>6, <1>7, <1>8

-----------------------------------------------------------------------------
(* The request that is made, and what is left after it. *)

LEMMA OneOrMore == \A x \in Nat \ {0} : x \in Nat /\ (x = 1 \/ x > 1) /\ ~(x = 1 /\ x > 1)
  OBVIOUS

LEMMA FirstIs ==
    ASSUME NEW S, NEW s \in Seq(S), Len(s) >= 1
    PROVE  s # <<>> /\ Head(s) = s[1] /\ s[1] \in S
  OBVIOUS

LEMMA TodoIs ==
    ASSUME TypeOK, todo # <<>>
    PROVE  /\ Len(todo) \in Nat \ {0}
           /\ Head(todo) = todo[1]
           /\ \A n \in 1 .. Len(todo) : todo[n] \in Seq(Request)
<1>1. todo \in Seq(Seq(Request))
    BY DEF TypeOK
<1> QED
    BY <1>1, EmptySeq, ElementOfSeq, HeadTailProperties

LEMMA NowIs ==
    ASSUME TypeOK, NEW w \in Seq(Seq(Request)), Left(w)
    PROVE  LET p == 1 + Len(w) - Len(todo) IN
           /\ todo # <<>>
           /\ p \in 1 .. Len(w)
           /\ Len(todo[1]) \in 1 .. Len(w[p])
           /\ Len(w[p]) \in Nat
           /\ Now = w[p][1 + Len(w[p]) - Len(todo[1])]
           /\ Now \in Request
<1> DEFINE p == 1 + Len(w) - Len(todo)
<1>1. todo # <<>> /\ Len(w) \in Nat /\ Len(todo) \in 1 .. Len(w)
    BY EmptySeq, LenProperties DEF Left
<1>2. todo[1] \in Seq(Request) /\ Head(todo) = todo[1]
    BY <1>1, TodoIs
<1>3. p \in 1 .. Len(w)
    BY <1>1
<1>4. w[p] \in Seq(Request)
    BY <1>3, ElementOfSeq
<1>5. Len(todo[1]) \in Nat /\ Len(w[p]) \in Nat
    BY <1>2, <1>4, LenProperties
<1>6. Begun(todo[1], w[p])
    BY DEF Left
<1>7. Len(todo[1]) \in 1 .. Len(w[p]) /\ todo[1][1] = w[p][1 + Len(w[p]) - Len(todo[1])]
    <2>1. /\ Len(todo[1]) \in 1 .. Len(w[p])
          /\ \A n \in 1 .. Len(todo[1]) : todo[1][n] = w[p][n + Len(w[p]) - Len(todo[1])]
        BY <1>6 DEF Begun
    <2>2. 1 \in 1 .. Len(todo[1])
        BY <1>5, <2>1
    <2> QED
        BY <2>1, <2>2
<1>8. Head(todo[1]) = todo[1][1] /\ todo[1][1] \in Request
    <2>1. Len(todo[1]) >= 1
        BY <1>5, <1>7
    <2> QED
        BY <1>2, <2>1, FirstIs
<1> QED
    BY <1>1, <1>2, <1>3, <1>5, <1>7, <1>8 DEF Now

(* What is left, once the present request has been dealt with. *)
LEMMA RestIs ==
    ASSUME TypeOK, todo # <<>>, Len(todo[1]) \in Nat \ {0}
    PROVE  /\ Rest \in Seq(Seq(Request))
           /\ Len(todo[1]) = 1 =>
                /\ Len(Rest) = Len(todo) - 1
                /\ \A n \in 1 .. Len(Rest) : Rest[n] = todo[n + 1]
           /\ Len(todo[1]) > 1 =>
                /\ Len(Rest) = Len(todo)
                /\ Len(Rest[1]) = Len(todo[1]) - 1
                /\ \A n \in 1 .. Len(Rest[1]) : Rest[1][n] = todo[1][n + 1]
                /\ \A n \in 2 .. Len(Rest) : Rest[n] = todo[n]
<1>1. todo \in Seq(Seq(Request)) /\ Len(todo) \in Nat \ {0} /\ Head(todo) = todo[1]
    BY TodoIs DEF TypeOK
<1>2. CASE Len(todo[1]) = 1
    <2>1. Rest = Tail(todo)
        BY <1>1, <1>2 DEF Rest
    <2>2. /\ Tail(todo) \in Seq(Seq(Request)) /\ Len(Tail(todo)) = Len(todo) - 1
          /\ \A n \in 1 .. Len(Tail(todo)) : Tail(todo)[n] = todo[n + 1]
        BY <1>1, HeadTailProperties
    <2> QED
        BY <1>2, <2>1, <2>2
<1>3. CASE Len(todo[1]) > 1
    <2> DEFINE job == Tail(todo[1])
    <2>1. todo[1] \in Seq(Request) /\ todo[1] # <<>>
        BY <1>1, <1>3, TodoIs, EmptySeq
    <2>2. /\ job \in Seq(Request) /\ Len(job) = Len(todo[1]) - 1
          /\ \A n \in 1 .. Len(job) : job[n] = todo[1][n + 1]
        BY <2>1, HeadTailProperties
    <2>3. 1 \in 1 .. Len(todo)
        BY <1>1
    <2>4. Rest = [todo EXCEPT ![1] = job]
        BY <1>1, <1>3 DEF Rest
    <2> HIDE DEF job
    <2>5. /\ [todo EXCEPT ![1] = job] \in Seq(Seq(Request))
          /\ Len([todo EXCEPT ![1] = job]) = Len(todo)
          /\ \A n \in 1 .. Len(todo) :
               [todo EXCEPT ![1] = job][n] = IF n = 1 THEN job ELSE todo[n]
        BY <1>1, <2>2, <2>3, ExceptSeq
    <2>6. Rest[1] = job /\ \A n \in 2 .. Len(Rest) : Rest[n] = todo[n]
        BY <1>1, <2>3, <2>4, <2>5
    <2>7. Rest \in Seq(Seq(Request)) /\ Len(Rest) = Len(todo)
        BY <2>4, <2>5
    <2> QED
        BY <1>3, <2>2, <2>6, <2>7
<1>4. Len(todo[1]) = 1 \/ Len(todo[1]) > 1
    BY OneOrMore
<1> QED
    BY <1>2, <1>3, <1>4

LEMMA RestLeaves ==
    ASSUME TypeOK, NEW w \in Seq(Seq(Request)), Left(w),
           \A k \in 1 .. Len(w) : Len(w[k]) \in Nat \ {0},
           todo' = Rest
    PROVE  /\ todo' \in Seq(Seq(Request))
           /\ Len(todo) = 1 /\ Len(todo[1]) = 1 => todo' = <<>>
           /\ Len(todo[1]) > 1 => /\ Left(w)'
                                  /\ Len(todo') = Len(todo)
                                  /\ Len((todo')[1]) = Len(todo[1]) - 1
           /\ Len(todo) > 1 /\ Len(todo[1]) = 1 =>
                /\ Left(w)'
                /\ Len(todo') = Len(todo) - 1
                /\ Len((todo')[1]) = Len(w[1 + Len(w) - Len(todo')])
<1> DEFINE p == 1 + Len(w) - Len(todo)
<1>1. /\ todo # <<>> /\ p \in 1 .. Len(w) /\ Len(todo[1]) \in 1 .. Len(w[p])
      /\ Len(w[p]) \in Nat
    BY NowIs
<1>2. /\ Len(w) \in Nat /\ Len(todo) \in 1 .. Len(w)
      /\ Begun(todo[1], w[p])
      /\ \A n \in 2 .. Len(todo) : todo[n] = w[n + Len(w) - Len(todo)]
    BY LenProperties DEF Left
<1>3. Len(todo[1]) \in Nat \ {0}
    BY <1>1
<1>4. /\ todo' \in Seq(Seq(Request))
      /\ Len(todo[1]) = 1 =>
           /\ Len(todo') = Len(todo) - 1
           /\ \A n \in 1 .. Len(todo') : (todo')[n] = todo[n + 1]
      /\ Len(todo[1]) > 1 =>
           /\ Len(todo') = Len(todo)
           /\ Len((todo')[1]) = Len(todo[1]) - 1
           /\ \A n \in 1 .. Len((todo')[1]) : (todo')[1][n] = todo[1][n + 1]
           /\ \A n \in 2 .. Len(todo') : (todo')[n] = todo[n]
    BY <1>1, <1>3, RestIs
<1>5. CASE Len(todo[1]) > 1
    <2>1. Begun((todo')[1], w[p])
        <3>1. Len((todo')[1]) \in 1 .. Len(w[p])
            BY <1>1, <1>4, <1>5
        <3>2. \A n \in 1 .. Len(todo[1]) : todo[1][n] = w[p][n + Len(w[p]) - Len(todo[1])]
            BY <1>2 DEF Begun
        <3>3. ASSUME NEW n \in 1 .. Len((todo')[1])
              PROVE  (todo')[1][n] = w[p][n + Len(w[p]) - Len((todo')[1])]
            <4>1. n + 1 \in 1 .. Len(todo[1])
                <5>1. Len((todo')[1]) = Len(todo[1]) - 1
                    BY <1>4, <1>5
                <5>2. n \in 1 .. (Len(todo[1]) - 1)
                    BY <5>1
                <5>3. \A x \in Nat \ {0} : \A m \in 1 .. (x - 1) : m + 1 \in 1 .. x
                    OBVIOUS
                <5>4. \A m \in 1 .. (Len(todo[1]) - 1) : m + 1 \in 1 .. Len(todo[1])
                    BY <1>3, <5>3, Zenon
                <5> QED
                    BY <5>2, <5>4, Zenon
            <4>2. (n + 1) + Len(w[p]) - Len(todo[1]) = n + Len(w[p]) - Len((todo')[1])
                <5>1. Len((todo')[1]) = Len(todo[1]) - 1
                    BY <1>4, <1>5
                <5>2. Len(w[p]) \in Nat /\ n \in Nat /\ Len(todo[1]) \in Nat
                    BY <1>1, <1>3, <3>1
                <5>3. \A x, y, z \in Nat : (x + 1) + y - z = x + y - (z - 1)
                    OBVIOUS
                <5>4. (n + 1) + Len(w[p]) - Len(todo[1]) = n + Len(w[p]) - (Len(todo[1]) - 1)
                    BY <5>2, <5>3, Zenon
                <5> QED
                    BY <5>1, <5>4, Zenon
            <4> QED
                BY <1>4, <1>5, <3>2, <4>1, <4>2
        <3> QED
            BY <3>1, <3>3 DEF Begun
    <2>2. Len(todo') = Len(todo)
        BY <1>4, <1>5
    <2>3. \A n \in 2 .. Len(todo') : (todo')[n] = w[n + Len(w) - Len(todo')]
        BY <1>2, <1>4, <1>5, <2>2
    <2>4. Left(w)'
        BY <1>2, <2>1, <2>2, <2>3 DEF Left
    <2> QED
        BY <1>4, <1>5, <2>4
<1>6. CASE Len(todo[1]) = 1 /\ Len(todo) > 1
    <2>1. /\ Len(todo') = Len(todo) - 1 /\ Len(todo') \in 1 .. Len(w)
          /\ 1 + Len(w) - Len(todo') \in 1 .. Len(w)
        BY <1>2, <1>4, <1>6
    <2>2. ASSUME NEW n \in 1 .. Len(todo')
          PROVE  (todo')[n] = w[n + Len(w) - Len(todo')]
        <3>1. n + 1 \in 2 .. Len(todo) /\ (n + 1) + Len(w) - Len(todo) = n + Len(w) - Len(todo')
            BY <1>2, <2>1
        <3> QED
            BY <1>2, <1>4, <1>6, <3>1
    <2>3. (todo')[1] = w[1 + Len(w) - Len(todo')]
        BY <2>1, <2>2
    <2>4. Begun((todo')[1], w[1 + Len(w) - Len(todo')])
        <3> DEFINE job == w[1 + Len(w) - Len(todo')]
        <3>1. Len(job) \in Nat \ {0}
            BY <2>1
        <3> HIDE DEF job
        <3>2. Len(job) \in 1 .. Len(job) /\ \A n \in 1 .. Len(job) : n + Len(job) - Len(job) = n
            BY <3>1
        <3>3. Begun(job, job)
            BY <3>2 DEF Begun
        <3> QED
            BY <2>3, <3>3 DEF job
    <2>5. Left(w)'
        BY <2>1, <2>2, <2>4 DEF Left
    <2>6. Len((todo')[1]) = Len(w[1 + Len(w) - Len(todo')]) /\ todo' \in Seq(Seq(Request))
        BY <1>4, <2>3
    <2>7. ~(Len(todo[1]) > 1) /\ ~(Len(todo) = 1)
        BY <1>2, <1>3, <1>6, OneOrMore
    <2> QED
        BY <1>6, <2>1, <2>5, <2>6, <2>7
<1>7. CASE Len(todo[1]) = 1 /\ Len(todo) = 1
    <2>1. Len(todo') = 0
        BY <1>4, <1>7
    <2> QED
        BY <1>4, <1>7, <2>1, EmptySeq
<1>9. Len(todo) \in Nat \ {0}
    BY <1>1, TodoIs
<1>8. Len(todo[1]) > 1 \/ (Len(todo[1]) = 1 /\ Len(todo) > 1) \/ (Len(todo[1]) = 1 /\ Len(todo) = 1)
    BY <1>3, <1>9, OneOrMore
<1> QED
    BY <1>5, <1>6, <1>7, <1>8

-----------------------------------------------------------------------------
(* Where a run is, when m jobs of it are left. *)

LEMMA Places ==
    ASSUME NEW D \in Nat, NEW R \in Nat, NEW U \in Nat, NEW m \in 1 .. D + (R + U + 1)
    PROVE  \/ m > R + U + 1
           \/ \E k \in 1 .. R : m = R + U + 2 - k
           \/ \E k \in 1 .. U : m = U + 2 - k
           \/ m = 1
<1>1. CASE m > U + 1 /\ ~(m > R + U + 1)
    <2>1. R + U + 2 - m \in 1 .. R /\ m = R + U + 2 - (R + U + 2 - m)
        BY <1>1
    <2> QED
        BY <2>1
<1>2. CASE ~(m > U + 1) /\ m # 1
    <2>1. U + 2 - m \in 1 .. U /\ m = U + 2 - (U + 2 - m)
        BY <1>2
    <2> QED
        BY <2>1
<1> QED
    BY <1>1, <1>2

LEMMA Indices ==
    ASSUME NEW D \in Nat, NEW R \in Nat, NEW U \in Nat
    PROVE  LET L == D + (R + U + 1) IN
           /\ \A m \in 1 .. L : m > R + U + 1 => 1 + L - m \in 1 .. D
           /\ \A k \in 1 .. R : k \in 1 .. R + U + 1 /\ 1 + L - (R + U + 2 - k) = D + k
           /\ \A k \in 1 .. U : R + k \in 1 .. R + U + 1 /\ 1 + L - (U + 2 - k) = D + (R + k)
           /\ R + U + 1 \in 1 .. R + U + 1 /\ 1 + L - 1 = D + (R + U + 1)
           /\ L \in Nat \ {0}
  OBVIOUS

LEMMA JobIs ==
    ASSUME NEW old \in Version, NEW v \in Version
    PROVE  LET w  == Removal(old) \o Application(v)
               rs == Configs[v].roles
               us == Configs[v].users
               R  == Len(rs)
               U  == Len(us)
           IN
           /\ w \in Seq(Seq(Request)) /\ R \in Nat /\ U \in Nat
           /\ \A k \in 1 .. Len(w) : Len(w[k]) \in Nat \ {0}
           /\ \E D \in Nat : Len(w) = D + (R + U + 1)
           /\ \A m \in 1 .. Len(w) : m > R + U + 1 =>
                Len(w[1 + Len(w) - m]) = 1 /\ Removes(old, w[1 + Len(w) - m][1])
           /\ \A k \in 1 .. R : /\ w[1 + Len(w) - (R + U + 2 - k)] = ApplyRole(v, rs[k])
                                /\ rs[k] \in Role
           /\ \A k \in 1 .. U : /\ w[1 + Len(w) - (U + 2 - k)] = ApplyUser(v, us[k])
                                /\ us[k] \in User
           /\ w[1 + Len(w) - 1] = <<OnKey("Put", v)>>
<1> DEFINE w  == Removal(old) \o Application(v)
           rs == Configs[v].roles
           us == Configs[v].users
           R  == Len(rs)
           U  == Len(us)
           D  == Len(Removal(old))
           A  == Application(v)
<1>1. /\ R \in Nat /\ U \in Nat /\ Len(A) = R + U + 1
      /\ \A k \in 1 .. R : rs[k] \in Role /\ A[k] = ApplyRole(v, rs[k])
      /\ \A k \in 1 .. U : /\ us[k] \in User
                           /\ A[R + k] = ApplyUser(v, us[k])
      /\ A[R + U + 1] = <<OnKey("Put", v)>>
    BY ApplicationIs
<1>2. /\ D \in Nat /\ w \in Seq(Seq(Request)) /\ Len(w) = D + Len(A)
      /\ \A k \in 1 .. D : Len(w[k]) = 1 /\ Removes(old, w[k][1])
      /\ \A k \in 1 .. Len(A) : w[D + k] = A[k]
    BY WorkIs
<1>3. \A k \in 1 .. Len(w) : Len(w[k]) \in Nat \ {0}
    BY WorkIsFull
<1> HIDE DEF w, rs, us, R, U, D, A
<1>4. Len(w) = D + (R + U + 1)
    BY <1>1, <1>2
<1>5. /\ \A m \in 1 .. Len(w) : m > R + U + 1 => 1 + Len(w) - m \in 1 .. D
      /\ \A k \in 1 .. R : k \in 1 .. R + U + 1 /\ 1 + Len(w) - (R + U + 2 - k) = D + k
      /\ \A k \in 1 .. U : R + k \in 1 .. R + U + 1 /\ 1 + Len(w) - (U + 2 - k) = D + (R + k)
      /\ R + U + 1 \in 1 .. R + U + 1 /\ 1 + Len(w) - 1 = D + (R + U + 1)
    BY <1>1, <1>2, <1>4, Indices
<1>6. \A m \in 1 .. Len(w) : m > R + U + 1 =>
        Len(w[1 + Len(w) - m]) = 1 /\ Removes(old, w[1 + Len(w) - m][1])
    BY <1>2, <1>5
<1>7. \A k \in 1 .. R + U + 1 : w[D + k] = A[k]
    BY <1>1, <1>2
<1>8. \A k \in 1 .. R : w[1 + Len(w) - (R + U + 2 - k)] = ApplyRole(v, rs[k])
    BY <1>1, <1>5, <1>7
<1>9. \A k \in 1 .. U : w[1 + Len(w) - (U + 2 - k)] = ApplyUser(v, us[k])
    BY <1>1, <1>5, <1>7
<1>10. w[1 + Len(w) - 1] = <<OnKey("Put", v)>>
    BY <1>1, <1>5, <1>7
<1> QED
    BY <1>1, <1>2, <1>3, <1>4, <1>6, <1>8, <1>9, <1>10 DEF w, rs, us, R, U

LEMMA RoleJob ==
    ASSUME NEW old \in Version, NEW v \in Version, NEW k \in 1 .. Len(Configs[v].roles)
    PROVE  LET w == Removal(old) \o Application(v)
               m == Len(Configs[v].roles) + Len(Configs[v].users) + 2 - k
           IN
           /\ w[1 + Len(w) - m] = ApplyRole(v, Configs[v].roles[k])
           /\ Configs[v].roles[k] \in Role
<1> DEFINE w == Removal(old) \o Application(v)
<1>1. \A j \in 1 .. Len(Configs[v].roles) :
        /\ w[1 + Len(w) - (Len(Configs[v].roles) + Len(Configs[v].users) + 2 - j)]
             = ApplyRole(v, Configs[v].roles[j])
        /\ Configs[v].roles[j] \in Role
    BY JobIs, Zenon
<1> HIDE DEF w
<1>2. /\ w[1 + Len(w) - (Len(Configs[v].roles) + Len(Configs[v].users) + 2 - k)]
           = ApplyRole(v, Configs[v].roles[k])
      /\ Configs[v].roles[k] \in Role
    BY <1>1, Zenon
<1> QED
    BY <1>2, Zenon DEF w

LEMMA UserJob ==
    ASSUME NEW old \in Version, NEW v \in Version, NEW k \in 1 .. Len(Configs[v].users)
    PROVE  LET w == Removal(old) \o Application(v)
               m == Len(Configs[v].users) + 2 - k
           IN
           w[1 + Len(w) - m] = ApplyUser(v, Configs[v].users[k])
<1> DEFINE w == Removal(old) \o Application(v)
<1>1. \A j \in 1 .. Len(Configs[v].users) :
        /\ w[1 + Len(w) - (Len(Configs[v].users) + 2 - j)] = ApplyUser(v, Configs[v].users[j])
        /\ Configs[v].users[j] \in User
    BY JobIs, Zenon
<1> HIDE DEF w
<1>2. w[1 + Len(w) - (Len(Configs[v].users) + 2 - k)] = ApplyUser(v, Configs[v].users[k])
    BY <1>1, Zenon
<1> QED
    BY <1>2, Zenon DEF w

-----------------------------------------------------------------------------
(* The request that is made next. *)

LEMMA NowEnabling ==
    ASSUME TypeOK, Left(<<Enable, Look>>)
    PROVE  \/ /\ Len(todo) = 2 /\ Len(todo[1]) \in 1 .. 9
              /\ Now = Enable[10 - Len(todo[1])]
           \/ Len(todo) = 1 /\ Len(todo[1]) = 1 /\ Now = OnKey("Get", NoKey)
<1> DEFINE w == <<Enable, Look>>
<1>1. w \in Seq(Seq(Request)) /\ Len(w) = 2 /\ w[1] = Enable /\ w[2] = Look
    BY EnableIs, LookIs
<1> HIDE DEF w
<1>2. Left(w)
    BY DEF w
<1>3. LET p == 1 + Len(w) - Len(todo) IN
      /\ p \in 1 .. Len(w)
      /\ Len(todo[1]) \in 1 .. Len(w[p])
      /\ Now = w[p][1 + Len(w[p]) - Len(todo[1])]
    BY <1>1, <1>2, NowIs
<1>4. Len(todo) \in 1 .. 2
    BY <1>1, <1>2 DEF Left
<1>5. CASE Len(todo) = 2
    <2>1. 1 + Len(w) - Len(todo) = 1
        BY <1>1, <1>5
    <2>2. Len(todo[1]) \in 1 .. 9 /\ Now = Enable[1 + 9 - Len(todo[1])]
        BY <1>1, <1>3, <2>1, EnableIs
    <2> QED
        BY <1>5, <2>2
<1>6. CASE Len(todo) = 1
    <2>1. 1 + Len(w) - Len(todo) = 2
        BY <1>1, <1>6
    <2>2. Len(todo[1]) \in 1 .. 1 /\ Now = Look[1 + 1 - Len(todo[1])]
        BY <1>1, <1>3, <2>1, LookIs
    <2>3. Len(todo[1]) = 1
        BY <2>2
    <2> QED
        BY <1>6, <2>2, <2>3, LookIs
<1> QED
    BY <1>4, <1>5, <1>6

LEMMA OfOne == \A x \in 1 .. 1 : x = 1 /\ 1 + 1 - x = 1
  OBVIOUS

LEMMA OfThree == \A x \in 1 .. 3 : \/ x = 3 /\ 1 + 3 - x = 1
                                   \/ x = 2 /\ 1 + 3 - x = 2
                                   \/ x = 1 /\ 1 + 3 - x = 3
  OBVIOUS

(* The four parts of a reconciliation. *)
Removing(old, v) ==
    /\ Len(todo) > Len(Configs[v].roles) + Len(Configs[v].users) + 1
    /\ Len(todo[1]) = 1
    /\ Removes(old, Now)
OfRole(v, k) ==
    LET r == Configs[v].roles[k] IN
    /\ Len(todo) = Len(Configs[v].roles) + Len(Configs[v].users) + 2 - k
    /\ \/ Len(todo[1]) = 3 /\ Now = DropRole(r)
       \/ Len(todo[1]) = 2 /\ Now = OnRole("RoleAdd", r)
       \/ Len(todo[1]) = 1 /\ Now = Permit(r, v)
OfUser(v, k) ==
    LET u == Configs[v].users[k]
        bind == Configs[v].bind[u]
    IN
    /\ Len(todo) = Len(Configs[v].users) + 2 - k
    /\ \/ Len(todo[1]) = Len(bind) + 2 /\ Now = DropUser(u)
       \/ Len(todo[1]) = Len(bind) + 1 /\ Now = OnUser("UserAdd", u)
       \/ \E n \in 1 .. Len(bind) : Len(todo[1]) = Len(bind) + 1 - n /\ Now = Grant(u, bind[n])
Recording(v) == Len(todo) = 1 /\ Len(todo[1]) = 1 /\ Now = OnKey("Put", v)

LEMMA NowReconciling ==
    ASSUME TypeOK, NEW old \in Version, NEW v \in Version,
           Left(Removal(old) \o Application(v))
    PROVE  \/ Removing(old, v)
           \/ \E k \in 1 .. Len(Configs[v].roles) : OfRole(v, k)
           \/ \E k \in 1 .. Len(Configs[v].users) : OfUser(v, k)
           \/ Recording(v)
<1> DEFINE w  == Removal(old) \o Application(v)
           rs == Configs[v].roles
           us == Configs[v].users
           R  == Len(rs)
           U  == Len(us)
           job == w[1 + Len(w) - Len(todo)]
<1>1. /\ w \in Seq(Seq(Request)) /\ R \in Nat /\ U \in Nat
      /\ \E D \in Nat : Len(w) = D + (R + U + 1)
      /\ \A m \in 1 .. Len(w) : m > R + U + 1 =>
           Len(w[1 + Len(w) - m]) = 1 /\ Removes(old, w[1 + Len(w) - m][1])
      /\ \A k \in 1 .. R : /\ w[1 + Len(w) - (R + U + 2 - k)] = ApplyRole(v, rs[k])
                           /\ rs[k] \in Role
      /\ \A k \in 1 .. U : /\ w[1 + Len(w) - (U + 2 - k)] = ApplyUser(v, us[k])
                           /\ us[k] \in User
      /\ w[1 + Len(w) - 1] = <<OnKey("Put", v)>>
    BY JobIs
<1> HIDE DEF w, rs, us, R, U
<1>2. Left(w)
    BY DEF w
<1>3. Len(todo) \in 1 .. Len(w)
    BY <1>2 DEF Left
<1>4. /\ Len(todo[1]) \in 1 .. Len(job)
      /\ Now = job[1 + Len(job) - Len(todo[1])]
      /\ Len(job) \in Nat
    BY <1>1, <1>2, NowIs
<1>5. \/ Len(todo) > R + U + 1
      \/ \E k \in 1 .. R : Len(todo) = R + U + 2 - k
      \/ \E k \in 1 .. U : Len(todo) = U + 2 - k
      \/ Len(todo) = 1
    <2>1. PICK D \in Nat : Len(w) = D + (R + U + 1)
        BY <1>1
    <2>2. Len(todo) \in 1 .. D + (R + U + 1)
        BY <1>3, <2>1
    <2> DEFINE m == Len(todo)
    <2> HIDE DEF m
    <2>3. m \in 1 .. D + (R + U + 1)
        BY <2>2 DEF m
    <2>4. R \in Nat /\ U \in Nat
        BY <1>1
    <2>5. \/ m > R + U + 1
          \/ \E k \in 1 .. R : m = R + U + 2 - k
          \/ \E k \in 1 .. U : m = U + 2 - k
          \/ m = 1
        BY <2>3, <2>4, Places
    <2> QED
        BY <2>5 DEF m
<1>6. ASSUME Len(todo) > R + U + 1
      PROVE  Removing(old, v)
    <2>1. Len(job) = 1 /\ Removes(old, job[1])
        BY <1>1, <1>3, <1>6
    <2> HIDE DEF job
    <2>2. Len(todo[1]) = 1 /\ Now = job[1]
        BY <1>4, <2>1, OfOne
    <2> QED
        BY <1>6, <2>1, <2>2 DEF Removing, R, U, rs, us
<1>7. ASSUME NEW k \in 1 .. R, Len(todo) = R + U + 2 - k
      PROVE  OfRole(v, k)
    <2>1. job = ApplyRole(v, rs[k]) /\ rs[k] \in Role
        BY <1>1, <1>7
    <2>2. /\ Len(job) = 3 /\ job[1] = DropRole(rs[k])
          /\ job[2] = OnRole("RoleAdd", rs[k]) /\ job[3] = Permit(rs[k], v)
        BY <2>1, ApplyRoleIs
    <2> HIDE DEF job
    <2>3. Len(todo[1]) \in 1 .. 3 /\ Now = job[1 + 3 - Len(todo[1])]
        BY <1>4, <2>2
    <2>4. \/ Len(todo[1]) = 3 /\ Now = job[1]
          \/ Len(todo[1]) = 2 /\ Now = job[2]
          \/ Len(todo[1]) = 1 /\ Now = job[3]
        BY <2>3, OfThree
    <2> QED
        BY <1>7, <2>2, <2>4 DEF OfRole, R, U, rs, us
<1>8. ASSUME NEW k \in 1 .. U, Len(todo) = U + 2 - k
      PROVE  OfUser(v, k)
    <2> DEFINE u == us[k]
               bind == Configs[v].bind[u]
               B == Len(bind)
               m == Len(todo[1])
    <2>1. job = ApplyUser(v, u) /\ u \in User
        BY <1>1, <1>8
    <2> HIDE DEF job, u
    <2>2. /\ Len(job) = 2 + B /\ job[1] = DropUser(u) /\ job[2] = OnUser("UserAdd", u)
          /\ \A n \in 1 .. B : job[n + 2] = Grant(u, bind[n])
        BY <2>1, ApplyUserIs
    <2>3. B \in Nat
        BY <2>1, ConfigIs, LenProperties
    <2> HIDE DEF B, bind, m
    <2>4. m \in 1 .. 2 + B /\ Now = job[1 + (2 + B) - m]
        BY <1>4, <2>2 DEF m
    <2>5. \/ m = B + 2 /\ 1 + (2 + B) - m = 1
          \/ m = B + 1 /\ 1 + (2 + B) - m = 2
          \/ \E n \in 1 .. B : m = B + 1 - n /\ 1 + (2 + B) - m = n + 2
        <3>1. CASE m <= B
            <4>1. B + 1 - m \in 1 .. B /\ m = B + 1 - (B + 1 - m)
                  /\ 1 + (2 + B) - m = (B + 1 - m) + 2
                BY <2>3, <2>4, <3>1
            <4> QED
                BY <4>1
        <3> QED
            BY <2>3, <2>4, <3>1
    <2>6. \/ m = B + 2 /\ Now = DropUser(u)
          \/ m = B + 1 /\ Now = OnUser("UserAdd", u)
          \/ \E n \in 1 .. B : m = B + 1 - n /\ Now = Grant(u, bind[n])
        BY <2>2, <2>4, <2>5
    <2> QED
        BY <1>8, <2>6 DEF OfUser, U, us, u, m, B, bind
<1>9. ASSUME Len(todo) = 1
      PROVE  Recording(v)
    <2>1. job = <<OnKey("Put", v)>>
        BY <1>1, <1>9
    <2>2. Len(job) = 1 /\ job[1] = OnKey("Put", v)
        BY <2>1
    <2> HIDE DEF job
    <2>3. Len(todo[1]) = 1 /\ Now = job[1]
        BY <1>4, <2>2, OfOne
    <2> QED
        BY <1>9, <2>2, <2>3 DEF Recording
<1> QED
    <2>1. (\E k \in 1 .. R : Len(todo) = R + U + 2 - k) => \E k \in 1 .. R : OfRole(v, k)
        BY <1>7
    <2>2. (\E k \in 1 .. U : Len(todo) = U + 2 - k) => \E k \in 1 .. U : OfUser(v, k)
        BY <1>8
    <2>3. \/ Removing(old, v)
          \/ \E k \in 1 .. R : OfRole(v, k)
          \/ \E k \in 1 .. U : OfUser(v, k)
          \/ Recording(v)
        BY <1>5, <1>6, <1>9, <2>1, <2>2
    <2> QED
        BY <2>3 DEF R, U, rs, us

-----------------------------------------------------------------------------
(* What etcd does with a request. *)

(* A request that takes nothing from the operator, unless it was told to, and *)
(* records nothing but what is wanted.                                       *)
Safe(q) ==
    /\ q.op = "UserDelete" /\ q.user = CommonName => ~auth \/ Disowned
    /\ q.op = "AuthEnable" => CommonName \in users /\ "root" \in granted[CommonName]
    /\ q.op = "RoleGrantPermission" => q.version \in Version
    /\ q.op = "Put" => q.version = wanted

LEMMA ServedTyped ==
    ASSUME TypeOK, NEW q \in Request, Safe(q), Served(q)
    PROVE  /\ roles' \subseteq Role
           /\ perms' \in [Role -> SUBSET Version]
           /\ users' \subseteq User
           /\ granted' \in [User -> SUBSET Role]
           /\ auth' \in BOOLEAN
           /\ key' \in Version \cup {NoKey}
<1>1. q.role \in Role /\ q.user \in User /\ q.version \in Version \cup {NoKey}
    BY DEF Request
<1>2. CASE OnRoles(q)
    BY <1>1, <1>2 DEF OnRoles, TypeOK, Safe
<1>3. CASE OnUsers(q)
    BY <1>1, <1>3 DEF OnUsers, TypeOK
<1>4. CASE OnKeyspace(q)
    BY <1>1, <1>4 DEF OnKeyspace, TypeOK
<1> QED
    BY <1>2, <1>3, <1>4 DEF Served

(* etcd does not add a user that exists, and deletes neither root nor its role, *)
(* so that with authentication on root and the operator's user are not made    *)
(* anew.                                                                        *)
LEMMA ServedSafely ==
    ASSUME TypeOK, NoLockout, key <= wanted, NEW q \in Request, Safe(q), Served(q),
           wanted' = wanted
    PROVE  NoLockout' /\ key' <= wanted'
<1>1. q.role \in Role /\ q.user \in User /\ "root" \in User /\ CommonName \in User
    BY AclAssumption DEF Request
<1>2. Disowned' = Disowned
    BY DEF Disowned
<1>3. key \in Nat /\ wanted \in Nat
    BY AclAssumption DEF TypeOK, Version, NoKey
<1>4. key' <= wanted'
    BY <1>3 DEF Served, OnRoles, OnUsers, OnKeyspace, Safe, NoKey
<1>5. CASE OnRoles(q)
    BY <1>1, <1>2, <1>4, <1>5 DEF OnRoles, TypeOK, NoLockout, Safe, Allowed, Served, Accepts, Protected
<1>6. CASE OnUsers(q)
    BY <1>1, <1>2, <1>4, <1>6 DEF OnUsers, TypeOK, NoLockout, Safe, Allowed, Served, Accepts, Protected
<1>7. CASE OnKeyspace(q)
    BY <1>1, <1>2, <1>4, <1>7 DEF OnKeyspace, TypeOK, NoLockout, Safe, Allowed, Served, Accepts
<1> QED
    BY <1>5, <1>6, <1>7 DEF Served

(* A later configuration changes nothing of what an earlier one named. *)
LEMMA StaysDisowned ==
    ASSUME wanted \in Version, wanted' \in Version, wanted <= wanted'
    PROVE  Disowned => Disowned'
<1>1. \A v \in 1 .. wanted : v \in 1 .. wanted'
    BY DEF Version
<1> QED
    BY <1>1 DEF Disowned

LEMMA Earlier == \A v \in Version : v \in 1 .. v /\ \A old \in 1 .. v : old \in Version
  BY AclAssumption DEF Version

-----------------------------------------------------------------------------
(* Each request of a run is a safe one. *)

LEMMA EnableOps ==
    /\ Enable[1].op = "UserDelete" /\ Enable[1].user = CommonName /\ Enable[1].tolerate = "lookup"
    /\ Enable[2].op = "RoleAdd" /\ Enable[2].role = "root"
    /\ Enable[3].op = "UserAdd" /\ Enable[3].user = "root"
    /\ Enable[4].op = "UserGrantRole" /\ Enable[4].user = "root" /\ Enable[4].role = "root"
    /\ Enable[4].tolerate = "no"
    /\ Enable[5].op = "UserAdd" /\ Enable[5].user = CommonName /\ Enable[5].tolerate = "no"
    /\ Enable[6].op = "UserGrantRole" /\ Enable[6].user = CommonName /\ Enable[6].role = "root"
    /\ Enable[6].tolerate = "no"
    /\ Enable[7].op = "UserAdd" /\ Enable[7].user = "etcd" /\ Enable[7].tolerate = "no"
    /\ Enable[8].op = "UserGrantRole" /\ Enable[8].user = "etcd" /\ Enable[8].role = "root"
    /\ Enable[8].tolerate = "no"
    /\ Enable[9].op = "AuthEnable" /\ Enable[9].tolerate = "no"
    BY EnableIs DEF DropUser, Tolerate, OnRole, OnUser, OnKey, Grant, None

LEMMA ReconcileOps ==
    /\ \A op \in Op, v \in Version \cup {NoKey} :
         LET q == OnKey(op, v) IN q.op = op /\ q.version = v /\ q.tolerate = "no"
    /\ \A r \in Role :
         LET q == DropRole(r) IN q.op = "RoleDelete" /\ q.role = r /\ q.tolerate = "lookup"
    /\ \A r \in Role :
         LET q == OnRole("RoleAdd", r) IN q.op = "RoleAdd" /\ q.role = r /\ q.tolerate = "no"
    /\ \A r \in Role, v \in Version :
         LET q == Permit(r, v) IN
         q.op = "RoleGrantPermission" /\ q.role = r /\ q.version = v /\ q.tolerate = "no"
    /\ \A u \in User :
         LET q == DropUser(u) IN q.op = "UserDelete" /\ q.user = u /\ q.tolerate = "lookup"
    /\ \A u \in User :
         LET q == OnUser("UserAdd", u) IN q.op = "UserAdd" /\ q.user = u /\ q.tolerate = "no"
    /\ \A u \in User, r \in Role :
         LET q == Grant(u, r) IN
         q.op = "UserGrantRole" /\ q.user = u /\ q.role = r /\ q.tolerate = "no"
    BY DEF DropUser, DropRole, OnRole, OnUser, OnKey, Grant, Permit, None

(* The names of a configuration, one by one. *)
LEMMA NamesAre ==
    ASSUME NEW v \in Version
    PROVE  LET rs == Configs[v].roles
               us == Configs[v].users
           IN
           /\ Len(rs) \in Nat /\ DOMAIN rs = 1 .. Len(rs)
           /\ Len(us) \in Nat /\ DOMAIN us = 1 .. Len(us)
           /\ \A k \in 1 .. Len(rs) : rs[k] \in Role
           /\ \A k \in 1 .. Len(us) : us[k] \in User
           /\ \A k, j \in 1 .. Len(rs) : rs[k] = rs[j] => k = j
           /\ \A k, j \in 1 .. Len(us) : us[k] = us[j] => k = j
           /\ \A u \in User : LET bind == Configs[v].bind[u] IN
                /\ Len(bind) \in Nat /\ DOMAIN bind = 1 .. Len(bind)
                /\ \A n \in 1 .. Len(bind) : bind[n] \in Role
<1> DEFINE rs == Configs[v].roles
           us == Configs[v].users
<1>1. /\ rs \in Seq(Role) /\ us \in Seq(User)
      /\ Configs[v].bind \in [User -> Seq(Role)]
      /\ IsInjective(rs) /\ IsInjective(us)
    BY ConfigIs
<1> HIDE DEF rs, us
<1>2. /\ Len(rs) \in Nat /\ DOMAIN rs = 1 .. Len(rs)
      /\ Len(us) \in Nat /\ DOMAIN us = 1 .. Len(us)
      /\ \A k \in 1 .. Len(rs) : rs[k] \in Role
      /\ \A k \in 1 .. Len(us) : us[k] \in User
    BY <1>1, LenProperties, ElementOfSeq
<1>3. /\ \A k, j \in 1 .. Len(rs) : rs[k] = rs[j] => k = j
      /\ \A k, j \in 1 .. Len(us) : us[k] = us[j] => k = j
    BY <1>1, <1>2 DEF IsInjective
<1>4. ASSUME NEW u \in User
      PROVE  LET bind == Configs[v].bind[u] IN
             /\ Len(bind) \in Nat /\ DOMAIN bind = 1 .. Len(bind)
             /\ \A n \in 1 .. Len(bind) : bind[n] \in Role
    <2> DEFINE bind == Configs[v].bind[u]
    <2>1. bind \in Seq(Role)
        BY <1>1
    <2> HIDE DEF bind
    <2>2. Len(bind) \in Nat /\ DOMAIN bind = 1 .. Len(bind) /\ \A n \in 1 .. Len(bind) : bind[n] \in Role
        BY <2>1, LenProperties, ElementOfSeq
    <2> QED
        BY <2>2 DEF bind
<1> QED
    BY <1>2, <1>3, <1>4 DEF rs, us

LEMMA NowIsSafe ==
    ASSUME LockInv, todo # <<>>
    PROVE  Now \in Request /\ Safe(Now)
<1>1. CASE Enabling
    <2>1. <<Enable, Look>> \in Seq(Seq(Request))
        BY EnableIs, LookIs
    <2>2. Now \in Request
        BY <1>1, <2>1, NowIs DEF LockInv, Enabling
    <2> DEFINE m == Len(todo[1])
    <2>3. \/ Len(todo) = 2 /\ m \in 1 .. 9 /\ Now = Enable[10 - m]
          \/ Now = OnKey("Get", NoKey)
        BY <1>1, NowEnabling DEF LockInv, Enabling
    <2>4. Len(todo) = 2 => (m = 9 => ~auth \/ Disowned) /\ (m <= 3 => CommonName \in users /\ "root" \in granted[CommonName])
        BY <1>1, EnableIs DEF Enabling
    <2> HIDE DEF m
    <2>5. ASSUME Len(todo) = 2, m \in 1 .. 9, Now = Enable[10 - m]
          PROVE  Safe(Now)
        <3>1. CASE m = 9
            BY <2>4, <2>5, <3>1, EnableOps DEF Safe
        <3>2. CASE m \in 2 .. 8
            <4>1. 10 - m \in 2 .. 8
                BY <3>2
            <4>2. Enable[10 - m].op \in {"RoleAdd", "UserAdd", "UserGrantRole"}
                BY <4>1, EnableOps
            <4> QED
                BY <2>5, <4>2 DEF Safe
        <3>3. CASE m = 1
            <4>1. Now.op = "AuthEnable"
                BY <2>5, <3>3, EnableOps
            <4> QED
                BY <2>4, <2>5, <3>3, <4>1 DEF Safe
        <3> QED
            BY <2>5, <3>1, <3>2, <3>3
    <2>6. OnKey("Get", NoKey).op = "Get"
        BY DEF OnKey, None
    <2> QED
        BY <2>2, <2>3, <2>5, <2>6 DEF Safe
<1>2. CASE Reconciling
    <2>1. PICK old \in Version : old \in 1 .. wanted /\ Left(Removal(old) \o Application(wanted))
        BY <1>2, Earlier DEF Reconciling, LockInv, TypeOK
    <2>2. wanted \in Version
        BY DEF LockInv, TypeOK
    <2>3. Removal(old) \o Application(wanted) \in Seq(Seq(Request))
        BY <2>2, WorkIs
    <2>4. Now \in Request
        BY <2>1, <2>3, NowIs DEF LockInv
    <2>5. \/ Removing(old, wanted)
          \/ \E k \in 1 .. Len(Configs[wanted].roles) : OfRole(wanted, k)
          \/ \E k \in 1 .. Len(Configs[wanted].users) : OfUser(wanted, k)
          \/ Recording(wanted)
        BY <2>1, <2>2, NowReconciling DEF LockInv
    <2>6. ASSUME Removing(old, wanted)
          PROVE  Safe(Now)
        <3>1. Removes(old, Now)
            BY <2>6 DEF Removing
        <3>2. CommonName \in Range(Configs[old].users) => Disowned
            BY <2>1 DEF Disowned
        <3>3. \A q : Removes(old, q) => Safe(q)
            BY <3>2 DEF Removes, Safe
        <3> QED
            BY <3>1, <3>3, Zenon
    <2>7. ASSUME NEW k \in 1 .. Len(Configs[wanted].roles), OfRole(wanted, k)
          PROVE  Safe(Now)
        <3> DEFINE r == Configs[wanted].roles[k]
        <3>1. r \in Role
            BY <2>2, NamesAre
        <3>2. Now = DropRole(r) \/ Now = OnRole("RoleAdd", r) \/ Now = Permit(r, wanted)
            BY <2>7 DEF OfRole
        <3> QED
            BY <2>2, <3>1, <3>2, ReconcileOps DEF Safe
    <2>8. ASSUME NEW k \in 1 .. Len(Configs[wanted].users), OfUser(wanted, k)
          PROVE  Safe(Now)
        <3> DEFINE u == Configs[wanted].users[k]
                   bind == Configs[wanted].bind[u]
        <3>1. u \in User /\ \A n \in 1 .. Len(bind) : bind[n] \in Role
            BY <2>2, NamesAre
        <3>2. Now = DropUser(u) \/ Now = OnUser("UserAdd", u)
              \/ \E n \in 1 .. Len(bind) : Now = Grant(u, bind[n])
            BY <2>8 DEF OfUser
        <3>3. u = CommonName => Disowned
            <4>1. u \in Range(Configs[wanted].users)
                BY <2>2, NamesAre DEF Range
            <4> QED
                BY <2>2, <4>1, Earlier DEF Disowned
        <3> QED
            BY <3>1, <3>2, <3>3, ReconcileOps DEF Safe
    <2>9. ASSUME Recording(wanted)
          PROVE  Safe(Now)
        <3>1. Now = OnKey("Put", wanted)
            BY <2>9 DEF Recording
        <3>2. Now.op = "Put" /\ Now.version = wanted
            BY <3>1, <2>2, ReconcileOps DEF Op
        <3> QED
            BY <3>2 DEF Safe
    <2> QED
        BY <2>4, <2>5, <2>6, <2>7, <2>8, <2>9
<1> QED
    BY <1>1, <1>2 DEF LockInv

-----------------------------------------------------------------------------
(* A run goes on as it began. *)

LEMMA EnableRest ==
    ASSUME TypeOK, Enabling, todo' = Rest, Now.op # "Get",
           Len(todo[1]) \in 2 .. 4 =>
             (CommonName \in users /\ "root" \in granted[CommonName])'
    PROVE  todo' \in Seq(Seq(Request)) /\ Enabling'
<1> DEFINE w == <<Enable, Look>>
           m == Len(todo[1])
<1>1. /\ w \in Seq(Seq(Request)) /\ Len(w) = 2 /\ w[1] = Enable /\ w[2] = Look
      /\ Len(Enable) = 9 /\ Len(Look) = 1
    BY EnableIs, LookIs
<1>2. \A k \in 1 .. 2 : Len(w[k]) \in Nat \ {0}
    BY <1>1
<1>3. Left(w)
    BY DEF Enabling
<1>4. Len(todo) = 2 /\ m \in 1 .. 9
    <2>1. OnKey("Get", NoKey).op = "Get"
        BY DEF OnKey, None
    <2> QED
        BY <1>3, <2>1, NowEnabling
<1> HIDE DEF w
<1>5. /\ todo' \in Seq(Seq(Request))
      /\ m > 1 => Left(w)' /\ Len(todo') = Len(todo) /\ Len((todo')[1]) = m - 1
      /\ Len(todo) > 1 /\ m = 1 => Left(w)' /\ Len(todo') = Len(todo) - 1
    BY <1>1, <1>2, <1>3, RestLeaves
<1> HIDE DEF m
<1>6. CASE m > 1
    <2>1. Left(w)' /\ Len(todo') = 2 /\ Len((todo')[1]) = m - 1
        BY <1>4, <1>5, <1>6
    <2>2. m - 1 # 9 /\ (m - 1 <= 3 => m \in 2 .. 4)
        BY <1>4, <1>6
    <2>3. Len((todo')[1]) # Len(Enable)
        BY <1>1, <2>1, <2>2
    <2>4. Len((todo')[1]) <= 3 => (CommonName \in users /\ "root" \in granted[CommonName])'
        BY <2>1, <2>2 DEF m
    <2>5. Enabling'
        BY <2>1, <2>3, <2>4 DEF Enabling, w
    <2> QED
        BY <1>5, <2>5
<1>7. CASE m = 1
    <2>1. Left(w)' /\ Len(todo') = 1
        BY <1>4, <1>5, <1>7
    <2>2. Len(todo') # 2
        BY <2>1
    <2>3. Enabling'
        BY <2>1, <2>2 DEF Enabling, w
    <2> QED
        BY <1>5, <2>3
<1> QED
    BY <1>4, <1>6, <1>7, OneOrMore

(* Before the operator has the root role nothing that fails is ignored. *)
LEMMA EnableTolerance ==
    ASSUME TypeOK, Enabling, Now.op # "Get"
    PROVE  /\ Now.tolerate # "no" => Len(todo[1]) \in 7 .. 9
           /\ Len(todo) = 2 /\ Len(todo[1]) \in 1 .. 9 /\ Now = Enable[10 - Len(todo[1])]
<1> DEFINE m == Len(todo[1])
<1>1. OnKey("Get", NoKey).op = "Get"
    BY DEF OnKey, None
<1>2. Len(todo) = 2 /\ m \in 1 .. 9 /\ Now = Enable[10 - m]
    BY <1>1, NowEnabling DEF Enabling
<1> HIDE DEF m
<1>3. m \in 1 .. 6 => 10 - m \in 4 .. 9
    BY <1>2
<1>4. \A k \in 4 .. 9 : Enable[k].tolerate = "no"
    BY EnableOps
<1>5. m \in 1 .. 6 => Now.tolerate = "no"
    BY <1>2, <1>3, <1>4
<1>6. m \in 1 .. 6 \/ m \in 7 .. 9
    BY <1>2
<1> QED
    BY <1>2, <1>5, <1>6 DEF m

LEMMA EnableServed ==
    ASSUME LockInv, Enabling, Served(Now), Now.op # "Get", Len(todo[1]) \in 2 .. 4
    PROVE  (CommonName \in users /\ "root" \in granted[CommonName])'
<1> DEFINE m == Len(todo[1])
<1>1. TypeOK /\ "root" \in Role /\ {"root", "etcd", CommonName} \subseteq User
    BY AclAssumption DEF LockInv
<1>2. Len(todo) = 2 /\ Now = Enable[10 - m]
    BY <1>1, EnableTolerance
<1>3. m <= 3 => CommonName \in users /\ "root" \in granted[CommonName]
    BY <1>2 DEF Enabling
<1> HIDE DEF m
<1>4. m \in 2 .. 4
    BY DEF m
<1> DEFINE q == Now
<1>5. Served(q)
    OBVIOUS
<1>6. \/ m = 4 /\ q = Enable[6]
      \/ m = 3 /\ q = Enable[7]
      \/ m = 2 /\ q = Enable[8]
    BY <1>2, <1>4
<1> HIDE DEF q
<1>7. CASE m = 4 /\ q = Enable[6]
    <2>1. q.op = "UserGrantRole" /\ q.user = CommonName /\ q.role = "root"
        BY <1>7, EnableOps
    <2> QED
        BY <1>1, <1>5, <2>1 DEF Served, Accepts, OnRoles, OnUsers, OnKeyspace, TypeOK
<1>8. CASE m = 3 /\ q = Enable[7]
    <2>1. q.op = "UserAdd" /\ q.user = "etcd"
        BY <1>8, EnableOps
    <2>2. CommonName \in users /\ "root" \in granted[CommonName]
        BY <1>3, <1>8
    <2> QED
        BY <1>1, <1>5, <2>1, <2>2 DEF Served, Accepts, OnRoles, OnUsers, OnKeyspace, TypeOK
<1>9. CASE m = 2 /\ q = Enable[8]
    <2>1. q.op = "UserGrantRole" /\ q.user = "etcd"
        BY <1>9, EnableOps
    <2>2. CommonName \in users /\ "root" \in granted[CommonName]
        BY <1>3, <1>9
    <2> QED
        BY <1>1, <1>5, <2>1, <2>2 DEF Served, Accepts, OnRoles, OnUsers, OnKeyspace, TypeOK
<1> QED
    BY <1>6, <1>7, <1>8, <1>9

LEMMA WorkRest ==
    ASSUME TypeOK, NEW old \in Version, NEW v \in Version,
           Left(Removal(old) \o Application(v)), todo' = Rest
    PROVE  /\ todo' \in Seq(Seq(Request))
           /\ todo' = <<>> \/ Left(Removal(old) \o Application(v))'
<1> DEFINE w == Removal(old) \o Application(v)
           m == Len(todo[1])
<1>1. w \in Seq(Seq(Request)) /\ \A k \in 1 .. Len(w) : Len(w[k]) \in Nat \ {0}
    BY JobIs
<1>2. Left(w)
    OBVIOUS
<1> HIDE DEF w
<1>3. todo # <<>> /\ Len(todo) \in Nat \ {0} /\ m \in Nat \ {0}
    <2> DEFINE whole == Len(w[1 + Len(w) - Len(todo)])
    <2>1. todo # <<>> /\ whole \in Nat /\ m \in 1 .. whole
        BY <1>1, <1>2, NowIs
    <2> HIDE DEF whole, m
    <2>2. m \in Nat \ {0}
        BY <2>1
    <2> QED
        BY <2>1, <2>2, TodoIs
<1>4. /\ todo' \in Seq(Seq(Request))
      /\ Len(todo) = 1 /\ m = 1 => todo' = <<>>
      /\ m > 1 => Left(w)'
      /\ Len(todo) > 1 /\ m = 1 => Left(w)'
    BY <1>1, <1>2, RestLeaves
<1> HIDE DEF m
<1>5. (m = 1 \/ m > 1) /\ (Len(todo) = 1 \/ Len(todo) > 1)
    BY <1>3, OneOrMore
<1> QED
    BY <1>4, <1>5 DEF w

(* The first job that is left is a whole one. *)
Whole(w) == todo[1] = w[1 + Len(w) - Len(todo)]

(* What the lookup of the key leads to. *)
LEMMA Reconciles ==
    ASSUME TypeOK, key <= wanted, todo' = Reconcile(key, wanted), wanted' = wanted,
           ~Equal(key, wanted)
    PROVE  /\ todo' \in Seq(Seq(Request))
           /\ Len(todo') > Len(Configs[wanted].roles) + Len(Configs[wanted].users)
           /\ \E old \in Version :
                /\ old \in 1 .. wanted
                /\ Left(Removal(old) \o Application(wanted))' /\ Whole(Removal(old) \o Application(wanted))'
<1>1. wanted \in Version /\ key \in Version \cup {NoKey}
    BY DEF TypeOK
<1>11. PICK v \in Version : v = wanted
    BY <1>1
<1> DEFINE A == Application(v)
<1>2. PICK old \in Version : old \in 1 .. wanted /\ (key # NoKey => old = key)
    <2>1. CASE key = NoKey
        BY <1>1, <2>1, Earlier
    <2>2. CASE key # NoKey
        <3>1. key \in Version /\ key \in 1 .. wanted
            BY <1>1, <2>2, AclAssumption DEF Version
        <3> QED
            BY <3>1
    <2> QED
        BY <2>1, <2>2
<1> DEFINE w == Removal(old) \o A
           D == Len(Removal(old))
           L == Len(todo')
           R == Len(Configs[v].roles)
           U == Len(Configs[v].users)
<1>3. /\ w \in Seq(Seq(Request)) /\ \A k \in 1 .. Len(w) : Len(w[k]) \in Nat \ {0}
      /\ D \in Nat /\ Len(A) \in Nat \ {0} /\ Len(w) = D + Len(A)
      /\ \A k \in 1 .. Len(A) : w[D + k] = A[k]
      /\ A \in Seq(Seq(Request)) /\ Len(A) = R + U + 1 /\ R \in Nat /\ U \in Nat
    <2>1. w \in Seq(Seq(Request)) /\ \A k \in 1 .. Len(w) : Len(w[k]) \in Nat \ {0}
        BY <1>2, JobIs
    <2>2. /\ D \in Nat /\ Len(A) \in Nat \ {0} /\ Len(w) = D + Len(A)
          /\ \A k \in 1 .. Len(A) : w[D + k] = A[k]
        BY <1>2, WorkIs
    <2>3. A \in Seq(Seq(Request)) /\ Len(A) = R + U + 1 /\ R \in Nat /\ U \in Nat
        BY ApplicationIs
    <2> QED
        BY <2>1, <2>2, <2>3
<1>4. todo' = A \/ todo' = w
    <2>1. <<>> \o A = A
        BY <1>3, ConcatEmptySeq
    <2> QED
        BY <1>2, <1>11, <2>1 DEF Reconcile
<1> HIDE DEF A, w, D, R, U
<1>5. /\ L \in 1 .. Len(w) /\ L > R + U
      /\ \A n \in 1 .. L : (todo')[n] = w[n + Len(w) - L]
      /\ todo' \in Seq(Seq(Request))
    <2>1. CASE todo' = A
        <3>1. L = R + U + 1 /\ Len(w) = D + L
            BY <1>3, <2>1
        <3>2. \A n \in 1 .. L : n + Len(w) - L = D + n /\ n \in 1 .. Len(A)
            BY <1>3, <3>1
        <3>3. \A n \in 1 .. L : (todo')[n] = w[n + Len(w) - L]
            BY <1>3, <2>1, <3>2
        <3>4. L \in 1 .. Len(w) /\ L > R + U
            BY <1>3, <3>1
        <3> QED
            BY <1>3, <2>1, <3>3, <3>4
    <2>2. CASE todo' = w
        <3>1. L = Len(w)
            BY <2>2
        <3>2. \A n \in 1 .. L : n + Len(w) - L = n
            <4>1. \A x \in Nat : \A n \in 1 .. x : n + x - x = n
                OBVIOUS
            <4>2. Len(w) \in Nat
                BY <1>3
            <4> HIDE DEF L
            <4>3. \A n \in 1 .. Len(w) : n + Len(w) - Len(w) = n
                BY <4>1, <4>2
            <4> QED
                BY <3>1, <4>3
        <3>3. \A n \in 1 .. L : (todo')[n] = w[n + Len(w) - L]
            BY <2>2, <3>2
        <3>4. L \in 1 .. Len(w) /\ L > R + U
            BY <1>3, <3>1
        <3> QED
            BY <1>3, <2>2, <3>3, <3>4
    <2> QED
        BY <1>4, <2>1, <2>2
<1> HIDE DEF L
<1>6. /\ 1 + Len(w) - L \in 1 .. Len(w) /\ 1 \in 1 .. L
      /\ \A n \in 2 .. L : n \in 1 .. L
    BY <1>3, <1>5
<1>7. (todo')[1] = w[1 + Len(w) - L]
    BY <1>5, <1>6
<1>8. Begun((todo')[1], w[1 + Len(w) - L])
    <2> DEFINE job == w[1 + Len(w) - L]
    <2>1. Len(job) \in Nat \ {0}
        BY <1>3, <1>6
    <2> HIDE DEF job
    <2>2. Len(job) \in 1 .. Len(job) /\ \A n \in 1 .. Len(job) : n + Len(job) - Len(job) = n
        BY <2>1
    <2>3. Begun(job, job)
        BY <2>2 DEF Begun
    <2> QED
        BY <1>7, <2>3 DEF job
<1>9. Left(w)' /\ Whole(w)'
    BY <1>5, <1>6, <1>7, <1>8 DEF Left, Whole, L
<1>10. Left(Removal(old) \o Application(v))' /\ Whole(Removal(old) \o Application(v))'
    BY <1>9 DEF w, A
<1>12. wanted' = v
    BY <1>11
<1>13. Len(todo') > Len(Configs[v].roles) + Len(Configs[v].users)
    BY <1>5 DEF L, R, U
<1> QED
    BY <1>2, <1>5, <1>10, <1>11, <1>12, <1>13

-----------------------------------------------------------------------------
(* The operator is not locked out. *)

LEMMA LockInit == Init => LockInv
<1> SUFFICES ASSUME Init PROVE LockInv
    OBVIOUS
<1>1. /\ 1 \in Version /\ "root" \in Role /\ Existing \subseteq User
      /\ 0 \in 0 .. MaxFaults
    <2>1. Len(Configs) \in Nat \ {0} /\ MaxFaults \in Nat
        BY AclAssumption
    <2> QED
        BY <2>1, AclAssumption DEF Version
<1>2. TypeOK
    BY <1>1, EmptySeq DEF Init, TypeOK
<1> QED
    BY <1>2 DEF Init, LockInv, NoLockout, NoKey

LEMMA FaultTyped ==
    ASSUME TypeOK, NEW kind, Fault(kind)
    PROVE  faults' \in 0 .. MaxFaults
    BY AclAssumption DEF Fault, TypeOK

(* A run that ends, for whatever reason. *)
LEMMA EndLocks ==
    ASSUME LockInv, todo' = <<>>, wanted' \in Version, faults' \in 0 .. MaxFaults,
           \/ UNCHANGED etcdVars /\ wanted <= wanted'
           \/ wanted' = wanted /\ Served(Now) /\ todo # <<>>
    PROVE  LockInv'
<1>1. <<>> \in Seq(Seq(Request)) /\ TypeOK /\ NoLockout /\ key <= wanted
    BY EmptySeq DEF LockInv
<1>2. CASE UNCHANGED etcdVars /\ wanted <= wanted'
    <2>1. Disowned => Disowned'
        BY <1>1, <1>2, StaysDisowned DEF TypeOK
    <2>2. NoLockout'
        BY <1>1, <1>2, <2>1 DEF NoLockout, Allowed, etcdVars
    <2>3. TypeOK'
        BY <1>1, <1>2 DEF TypeOK, etcdVars
    <2>4. key' <= wanted'
        BY <1>1, <1>2, AclAssumption DEF TypeOK, Version, NoKey, etcdVars
    <2> QED
        BY <2>2, <2>3, <2>4 DEF LockInv
<1>3. CASE wanted' = wanted /\ Served(Now) /\ todo # <<>>
    <2>1. Now \in Request /\ Safe(Now)
        BY <1>3, NowIsSafe
    <2>2. NoLockout' /\ key' <= wanted'
        BY <1>1, <1>3, <2>1, ServedSafely
    <2>3. TypeOK'
        BY <1>1, <1>3, <2>1, ServedTyped DEF TypeOK
    <2> QED
        BY <2>2, <2>3 DEF LockInv
<1> QED
    BY <1>2, <1>3

(* What is ignored, or not made, is not the lookup of the key. *)
LEMMA ToleratedIs ==
    ASSUME LockInv, todo # <<>>, Now.tolerate # "no"
    PROVE  Now.op # "Get"
<1>1. TypeOK
    BY DEF LockInv
<1>2. OnKey("Get", NoKey).tolerate = "no"
    BY DEF OnKey, None
<1>3. CASE Enabling
    <2>1. Len(todo[1]) \in 1 .. 9 /\ Now = Enable[10 - Len(todo[1])]
        BY <1>1, <1>2, <1>3, NowEnabling DEF Enabling
    <2>4. \A x \in 1 .. 9 : 10 - x \in 1 .. 9
        OBVIOUS
    <2>2. PICK n \in 1 .. 9 : Now = Enable[n]
        BY <2>1, <2>4
    <2>3. \A k \in 1 .. 9 : Enable[k].op # "Get"
        BY EnableOps
    <2> QED
        BY <2>2, <2>3
<1>4. CASE Reconciling
    <2>1. PICK old \in Version : old \in 1 .. wanted /\ Left(Removal(old) \o Application(wanted))
        BY <1>4, Earlier DEF Reconciling, LockInv, TypeOK
    <2>2. wanted \in Version
        BY <1>1 DEF TypeOK
    <2>3. \/ Removing(old, wanted)
          \/ \E k \in 1 .. Len(Configs[wanted].roles) : OfRole(wanted, k)
          \/ \E k \in 1 .. Len(Configs[wanted].users) : OfUser(wanted, k)
          \/ Recording(wanted)
        BY <1>1, <2>1, <2>2, NowReconciling
    <2>4. ASSUME Removing(old, wanted)
          PROVE  Now.op # "Get"
        <3>1. Removes(old, Now)
            BY <2>4 DEF Removing
        <3>2. \A q : Removes(old, q) => q.op # "Get"
            BY DEF Removes
        <3> QED
            BY <3>1, <3>2, Zenon
    <2>5. ASSUME NEW k \in 1 .. Len(Configs[wanted].roles), OfRole(wanted, k)
          PROVE  Now.op # "Get"
        <3> DEFINE r == Configs[wanted].roles[k]
        <3>1. r \in Role
            BY <2>2, NamesAre
        <3>2. Now = DropRole(r) \/ Now = OnRole("RoleAdd", r) \/ Now = Permit(r, wanted)
            BY <2>5 DEF OfRole
        <3> QED
            BY <2>2, <3>1, <3>2, ReconcileOps
    <2>6. ASSUME NEW k \in 1 .. Len(Configs[wanted].users), OfUser(wanted, k)
          PROVE  Now.op # "Get"
        <3> DEFINE u == Configs[wanted].users[k]
                   bind == Configs[wanted].bind[u]
        <3>1. u \in User /\ \A n \in 1 .. Len(bind) : bind[n] \in Role
            BY <2>2, NamesAre
        <3>2. Now = DropUser(u) \/ Now = OnUser("UserAdd", u)
              \/ \E n \in 1 .. Len(bind) : Now = Grant(u, bind[n])
            BY <2>6 DEF OfUser
        <3> QED
            BY <3>1, <3>2, ReconcileOps
    <2>7. ASSUME Recording(wanted)
          PROVE  Now.op # "Get"
        <3>1. Now = OnKey("Put", wanted)
            BY <2>7 DEF Recording
        <3> QED
            BY <3>1, <2>2, ReconcileOps DEF Op
    <2> QED
        BY <2>3, <2>4, <2>5, <2>6, <2>7
<1> QED
    BY <1>3, <1>4 DEF LockInv

(* A request that is ignored, or not made. *)
LEMMA SkipLocks ==
    ASSUME LockInv, todo # <<>>, todo' = Rest, Now.tolerate # "no", Now.op # "Get",
           UNCHANGED <<wanted, etcdVars>>, faults' \in 0 .. MaxFaults
    PROVE  LockInv'
<1>1. TypeOK /\ NoLockout /\ key <= wanted
    BY DEF LockInv
<1>2. NoLockout' /\ key' <= wanted'
    BY <1>1 DEF NoLockout, Allowed, Disowned, etcdVars
<1>3. ASSUME todo' \in Seq(Seq(Request))
      PROVE  TypeOK'
    BY <1>1, <1>3 DEF TypeOK, etcdVars
<1>4. CASE Enabling
    <2>1. Len(todo[1]) \in 7 .. 9
        BY <1>1, <1>4, EnableTolerance
    <2>2. ~(Len(todo[1]) \in 2 .. 4)
        <3>1. \A x \in 7 .. 9 : ~(x \in 2 .. 4)
            OBVIOUS
        <3> QED
            BY <2>1, <3>1
    <2>3. todo' \in Seq(Seq(Request)) /\ Enabling'
        BY <1>1, <1>4, <2>2, EnableRest
    <2> QED
        BY <1>2, <1>3, <2>3 DEF LockInv
<1>5. CASE Reconciling
    <2>1. PICK old \in Version : old \in 1 .. wanted /\ Left(Removal(old) \o Application(wanted))
        BY <1>5, Earlier DEF Reconciling, LockInv, TypeOK
    <2>2. PICK v \in Version : v = wanted
        BY <1>1 DEF TypeOK
    <2>3. todo' \in Seq(Seq(Request)) /\ (todo' = <<>> \/ Left(Removal(old) \o Application(v))')
        BY <1>1, <2>1, <2>2, WorkRest
    <2>4. todo' = <<>> \/ Reconciling'
        BY <2>1, <2>2, <2>3 DEF Reconciling
    <2> QED
        BY <1>2, <1>3, <2>3, <2>4 DEF LockInv
<1> QED
    BY <1>4, <1>5 DEF LockInv

LEMMA PerformLocks ==
    ASSUME LockInv, Perform
    PROVE  LockInv'
<1>1. /\ TypeOK /\ NoLockout /\ key <= wanted /\ todo # <<>> /\ Served(Now)
      /\ wanted' = wanted /\ faults' = faults
    BY DEF LockInv, Perform
<1>2. Now \in Request /\ Safe(Now)
    BY <1>1, NowIsSafe
<1>3. NoLockout' /\ key' <= wanted'
    BY <1>1, <1>2, ServedSafely
<1>4. ASSUME todo' \in Seq(Seq(Request))
      PROVE  TypeOK'
    BY <1>1, <1>2, <1>4, ServedTyped DEF TypeOK
<1>5. CASE Now.op = "Get"
    <2>1. todo' = Reconcile(key, wanted)
        BY <1>5 DEF Perform
    <2>2. CASE Equal(key, wanted)
        <3>1. todo' = <<>>
            BY <2>1, <2>2 DEF Reconcile
        <3> QED
            BY <1>3, <1>4, <3>1, EmptySeq DEF LockInv
    <2>3. CASE ~Equal(key, wanted)
        <3>1. /\ todo' \in Seq(Seq(Request))
              /\ \E old \in 1 .. wanted : Left(Removal(old) \o Application(wanted))'
            BY <1>1, <2>1, <2>3, Reconciles
        <3>2. Reconciling'
            BY <1>1, <3>1 DEF Reconciling
        <3> QED
            BY <1>3, <1>4, <3>1, <3>2 DEF LockInv
    <2> QED
        BY <2>2, <2>3
<1>6. CASE Now.op # "Get"
    <2>1. todo' = Rest
        BY <1>6 DEF Perform
    <2>2. CASE Enabling
        <3>1. Len(todo[1]) \in 2 .. 4 => (CommonName \in users /\ "root" \in granted[CommonName])'
            BY <1>1, <1>6, <2>2, EnableServed
        <3>2. todo' \in Seq(Seq(Request)) /\ Enabling'
            BY <1>1, <1>6, <2>1, <2>2, <3>1, EnableRest
        <3> QED
            BY <1>3, <1>4, <3>2 DEF LockInv
    <2>3. CASE Reconciling
        <3>1. PICK old \in Version : old \in 1 .. wanted /\ Left(Removal(old) \o Application(wanted))
            BY <2>3, Earlier DEF Reconciling, LockInv, TypeOK
        <3>2. PICK v \in Version : v = wanted
            BY <1>1 DEF TypeOK
        <3>3. todo' \in Seq(Seq(Request)) /\ (todo' = <<>> \/ Left(Removal(old) \o Application(v))')
            BY <1>1, <2>1, <3>1, <3>2, WorkRest
        <3>4. todo' = <<>> \/ Reconciling'
            BY <1>1, <3>1, <3>2, <3>3 DEF Reconciling
        <3> QED
            BY <1>3, <1>4, <3>3, <3>4 DEF LockInv
    <2> QED
        BY <1>1, <2>2, <2>3 DEF LockInv
<1> QED
    BY <1>5, <1>6

(* enableACL begins. *)
LEMMA BeginLocks ==
    ASSUME LockInv, UNCHANGED <<wanted, etcdVars>>, faults' \in 0 .. MaxFaults,
           \/ todo' = <<Look>>
           \/ todo' = <<Enable, Look>> /\ (~auth \/ Disowned)
           \/ todo' = <<Tail(Enable), Look>>
    PROVE  LockInv' /\ Enabling'
<1> DEFINE w == <<Enable, Look>>
           job == Tail(Enable)
<1>1. /\ Enable \in Seq(Request) /\ Len(Enable) = 9
      /\ Look \in Seq(Request) /\ Len(Look) = 1
      /\ w \in Seq(Seq(Request)) /\ Len(w) = 2 /\ w[1] = Enable /\ w[2] = Look
    BY EnableIs, LookIs
<1>2. /\ job \in Seq(Request) /\ Len(job) = 8
      /\ \A n \in 1 .. 8 : job[n] = Enable[n + 1]
    <2>1. Enable # <<>>
        <3>1. Len(<<>>) = 0 /\ 9 # 0
            OBVIOUS
        <3> QED
            BY <1>1, <3>1, Zenon
    <2>2. /\ job \in Seq(Request) /\ Len(job) = Len(Enable) - 1
          /\ \A n \in 1 .. Len(job) : job[n] = Enable[n + 1]
        BY <1>1, <2>1, HeadTailProperties
    <2>3. Len(job) = 8
        BY <1>1, <2>2
    <2> QED
        BY <2>2, <2>3
<1>3. Begun(Enable, Enable) /\ Begun(Look, Look) /\ Begun(job, Enable)
    <2> HIDE DEF job
    <2>1. \A n \in 1 .. 8 : n + 9 - 8 = n + 1
        OBVIOUS
    <2> QED
        BY <1>1, <1>2, <2>1 DEF Begun
<1> HIDE DEF w, job
<1>4. CASE todo' = <<Look>>
    <2>1. todo' \in Seq(Seq(Request)) /\ Len(todo') = 1 /\ (todo')[1] = Look
        BY <1>1, <1>4
    <2>2. Left(w)'
        BY <1>1, <1>3, <2>1 DEF Left
    <2>3. Enabling'
        BY <2>1, <2>2 DEF Enabling, w
    <2> QED
        BY <2>1, <2>3 DEF LockInv, TypeOK, NoLockout, Allowed, Disowned, etcdVars
<1>5. CASE todo' = <<Enable, Look>> /\ (~auth \/ Disowned)
    <2>1. /\ todo' \in Seq(Seq(Request)) /\ Len(todo') = 2
          /\ (todo')[1] = Enable /\ (todo')[2] = Look /\ (~auth \/ Disowned)'
        BY <1>1, <1>5 DEF etcdVars, Disowned
    <2>2. Left(w)'
        BY <1>1, <1>3, <2>1 DEF Left
    <2>4. Len((todo')[1]) = 9 /\ ~(Len((todo')[1]) <= 3)
        <3>1. Len((todo')[1]) = 9
            BY <1>1, <2>1, Zenon
        <3>2. \A x : x = 9 => ~(x <= 3)
            OBVIOUS
        <3> QED
            BY <3>1, <3>2, Zenon
    <2>3. Enabling'
        BY <2>1, <2>2, <2>4 DEF Enabling, w
    <2> QED
        BY <2>1, <2>3 DEF LockInv, TypeOK, NoLockout, Allowed, Disowned, etcdVars
<1>6. CASE todo' = <<Tail(Enable), Look>>
    <2>1. /\ todo' \in Seq(Seq(Request)) /\ Len(todo') = 2
          /\ (todo')[1] = job /\ (todo')[2] = Look
        BY <1>1, <1>2, <1>6 DEF job
    <2>2. Left(w)'
        BY <1>1, <1>3, <2>1 DEF Left
    <2>4. Len((todo')[1]) = 8 /\ ~(Len((todo')[1]) <= 3) /\ Len((todo')[1]) # Len(Enable)
        <3>1. Len((todo')[1]) = 8 /\ Len(Enable) = 9
            BY <1>1, <1>2, <2>1, Zenon
        <3>2. \A x, y : x = 8 /\ y = 9 => ~(x <= 3) /\ x # y
            OBVIOUS
        <3> QED
            BY <3>1, <3>2, Zenon
    <2>3. Enabling'
        BY <2>1, <2>2, <2>4 DEF Enabling, w
    <2> QED
        BY <2>1, <2>3 DEF LockInv, TypeOK, NoLockout, Allowed, Disowned, etcdVars
<1> QED
    BY <1>4, <1>5, <1>6

LEMMA LockStep == LockInv /\ [Next]_vars => LockInv'
<1> SUFFICES ASSUME LockInv, [Next]_vars
             PROVE  LockInv'
    OBVIOUS
<1>1. /\ TypeOK /\ NoLockout /\ wanted \in Version /\ faults \in 0 .. MaxFaults
      /\ wanted <= wanted
    BY AclAssumption DEF LockInv, TypeOK, Version
<1>2. CASE Begin
    <2>1. ~(Allowed /\ "root" \in granted[CommonName]) => ~auth \/ Disowned
        BY <1>1 DEF NoLockout, Allowed, TypeOK
    <2>2. UNCHANGED <<wanted, etcdVars>> /\ faults' \in 0 .. MaxFaults
        BY <1>1, <1>2 DEF Begin
    <2>3. todo' = <<Look>> \/ (todo' = <<Enable, Look>> /\ (~auth \/ Disowned))
        BY <1>2, <2>1 DEF Begin
    <2> QED
        BY <2>2, <2>3, BeginLocks
<1>3. CASE BeginBlindly
    <2>1. faults' \in 0 .. MaxFaults
        BY <1>1, <1>3, FaultTyped DEF BeginBlindly
    <2>2. UNCHANGED <<wanted, etcdVars>> /\ todo' = <<Tail(Enable), Look>>
        BY <1>3 DEF BeginBlindly
    <2> QED
        BY <2>1, <2>2, BeginLocks
<1>4. CASE MissLookup
    <2>1. faults' \in 0 .. MaxFaults
        BY <1>1, <1>4, FaultTyped DEF MissLookup
    <2>2. todo # <<>> /\ Now.tolerate # "no" /\ UNCHANGED <<wanted, etcdVars>> /\ todo' = Rest
        BY <1>4 DEF MissLookup
    <2> QED
        BY <2>1, <2>2, ToleratedIs, SkipLocks
<1>5. CASE Perform
    BY <1>5, PerformLocks
<1>6. CASE Ignore
    <2>1. todo # <<>> /\ Now.tolerate # "no" /\ UNCHANGED <<wanted, etcdVars, faults>> /\ todo' = Rest
        BY <1>6 DEF Ignore, Ignorable
    <2> QED
        BY <1>1, <2>1, ToleratedIs, SkipLocks
<1>7. CASE Refused
    BY <1>1, <1>7, EndLocks DEF Refused
<1>8. CASE Lost
    <2>1. faults' \in 0 .. MaxFaults
        BY <1>1, <1>8, FaultTyped DEF Lost
    <2> QED
        BY <1>1, <1>8, <2>1, EndLocks DEF Lost
<1>9. CASE Late
    <2>1. faults' \in 0 .. MaxFaults
        BY <1>1, <1>9, FaultTyped DEF Late
    <2> QED
        BY <1>1, <1>9, <2>1, EndLocks DEF Late
<1>10. CASE Upgrade
    <2>1. wanted' \in Version /\ wanted <= wanted'
        <3>1. Len(Configs) \in Nat
            BY AclAssumption
        <3> QED
            BY <1>1, <1>10, <3>1 DEF Upgrade, Version
    <2> QED
        BY <1>1, <1>10, <2>1, EndLocks DEF Upgrade
<1>11. CASE UNCHANGED vars
    BY <1>11 DEF LockInv, TypeOK, NoLockout, Allowed, Disowned, etcdVars, vars, Enabling, Reconciling,
                 Left, Begun
<1> QED
    BY <1>2, <1>3, <1>4, <1>5, <1>6, <1>7, <1>8, <1>9, <1>10, <1>11 DEF Next

(* Every request, failure and restart keeps the types of the state: the jobs  *)
(* of reconcileInitACLConfig are made of requests whatever the configurations. *)
THEOREM StateTyped == Spec => []TypeOK
<1>1. LockInv => TypeOK
    BY DEF LockInv
<1> QED
    BY <1>1, LockInit, LockStep, PTL DEF Spec

(* Once AuthEnable of enableACL took effect root keeps the root role, and so does *)
(* the operator's own user, whatever removeACLConfig and applyACLConfig delete,   *)
(* and wherever a run ends; unless a version so far named the operator's user:    *)
(* applyACLConfig then deletes it, and cannot add it again (acl.go:85-93).  The   *)
(* versions may name root and its role: etcd does not let them be deleted.        *)
THEOREM NeverLockedOut == Spec => []NoLockout
<1>1. LockInv => NoLockout
    BY DEF LockInv
<1> QED
    BY <1>1, LockInit, LockStep, PTL DEF Spec

-----------------------------------------------------------------------------
(* What a request leaves as it was. *)

LEMMA RoleKept ==
    ASSUME TypeOK, NEW q \in Request, Served(q), NEW r \in Role,
           q.op \in {"RoleAdd", "RoleDelete", "RoleGrantPermission"} => q.role # r
    PROVE  (r \in roles') = (r \in roles) /\ perms'[r] = perms[r]
    BY DEF Served, OnRoles, OnUsers, OnKeyspace, TypeOK, Request

LEMMA UserKept ==
    ASSUME TypeOK, NEW q \in Request, Served(q), NEW u \in User, q.op # "RoleDelete",
           q.op \in {"UserAdd", "UserDelete", "UserGrantRole"} => q.user # u
    PROVE  (u \in users') = (u \in users) /\ granted'[u] = granted[u]
    BY DEF Served, OnRoles, OnUsers, OnKeyspace, TypeOK, Request

LEMMA KeyKept ==
    ASSUME NEW q \in Request, Served(q), q.op \notin {"Put", "Delete"}
    PROVE  key' = key
    BY DEF Served, OnRoles, OnUsers, OnKeyspace, Request, Op

LEMMA KeyPut ==
    ASSUME NEW q, Served(q), q.op = "Put"
    PROVE  key' = q.version
    BY DEF Served, OnRoles, OnUsers, OnKeyspace

LEMMA RoleAdded ==
    ASSUME TypeOK, NEW q \in Request, Served(q), q.op = "RoleAdd"
    PROVE  q.role \in roles' /\ perms'[q.role] = {}
    BY DEF Served, OnRoles, OnUsers, OnKeyspace, TypeOK, Request

LEMMA RolePermitted ==
    ASSUME TypeOK, NEW q \in Request, Served(q), q.op = "RoleGrantPermission"
    PROVE  roles' = roles /\ perms'[q.role] = perms[q.role] \cup {q.version}
    BY DEF Served, OnRoles, OnUsers, OnKeyspace, TypeOK, Request

LEMMA UserAdded ==
    ASSUME TypeOK, NEW q \in Request, Served(q), q.op = "UserAdd"
    PROVE  q.user \in users' /\ granted'[q.user] = {}
    BY DEF Served, OnRoles, OnUsers, OnKeyspace, TypeOK, Request

LEMMA UserGranted ==
    ASSUME TypeOK, NEW q \in Request, Served(q), q.op = "UserGrantRole"
    PROVE  users' = users /\ granted'[q.user] = granted[q.user] \cup {q.role}
    BY DEF Served, OnRoles, OnUsers, OnKeyspace, TypeOK, Request

-----------------------------------------------------------------------------
(* Where a request leads: L and m are the jobs that are left and what is left *)
(* of the first of them, before and after.                                   *)

Advance(L, m, L2, m2, whole) ==
    \/ m > 1 /\ L2 = L /\ m2 = m - 1
    \/ m = 1 /\ L2 = L - 1 /\ m2 = whole

EntersRole(left, L2, whole) == L2 = left + 1 => whole = 3
CameToRole(left, L, m, L2, m2) ==
    /\ L2 <= left => L <= left \/ (L = left + 1 /\ m = 1)
    /\ L2 = left + 1 /\ m2 = 1 => L = left + 1 /\ m = 2

LEMMA RoleAdvance ==
    ASSUME NEW left \in Nat, NEW L \in Nat, NEW m \in Nat, NEW L2, NEW m2, NEW whole,
           Advance(L, m, L2, m2, whole), EntersRole(left, L2, whole)
    PROVE  CameToRole(left, L, m, L2, m2)
    BY DEF Advance, EntersRole, CameToRole

(* The same of a user of B roles. *)
EntersUser(left, B, L2, whole) == L2 = left + 1 => whole = B + 2
CameToUser(left, B, L, m, L2, m2) ==
    /\ L2 <= left => L <= left \/ (L = left + 1 /\ m = 1)
    /\ L2 = left + 1 /\ m2 <= B =>
         L = left + 1 /\ m = m2 + 1 /\ m \in 2 .. B + 1 /\ B + 1 - m = B - m2

LEMMA UserAdvance ==
    ASSUME NEW left \in Nat, NEW B \in Nat, NEW L \in Nat, NEW m \in Nat,
           NEW L2, NEW m2, NEW whole,
           Advance(L, m, L2, m2, whole), EntersUser(left, B, L2, whole)
    PROVE  CameToUser(left, B, L, m, L2, m2)
    BY DEF Advance, EntersUser, CameToUser

LEMMA WorkAdvances ==
    ASSUME TypeOK, NEW old \in Version, NEW v \in Version,
           Left(Removal(old) \o Application(v)), todo' = Rest, todo' # <<>>
    PROVE  LET w == Removal(old) \o Application(v) IN
           /\ Left(w)'
           /\ Len(todo) \in Nat \ {0} /\ Len(todo[1]) \in Nat \ {0}
           /\ Advance(Len(todo), Len(todo[1]), Len(todo'), Len((todo')[1]),
                      Len(w[1 + Len(w) - Len(todo')]))
<1> DEFINE w == Removal(old) \o Application(v)
           m == Len(todo[1])
<1>1. w \in Seq(Seq(Request)) /\ \A k \in 1 .. Len(w) : Len(w[k]) \in Nat \ {0}
    BY JobIs
<1>2. Left(w)
    OBVIOUS
<1> HIDE DEF w
<1>3. todo # <<>> /\ Len(todo) \in Nat \ {0} /\ m \in Nat \ {0}
    <2> DEFINE whole == Len(w[1 + Len(w) - Len(todo)])
    <2>1. todo # <<>> /\ whole \in Nat /\ m \in 1 .. whole
        BY <1>1, <1>2, NowIs
    <2> HIDE DEF whole, m
    <2>2. m \in Nat \ {0}
        BY <2>1
    <2> QED
        BY <2>1, <2>2, TodoIs
<1>4. /\ todo' \in Seq(Seq(Request))
      /\ Len(todo) = 1 /\ m = 1 => todo' = <<>>
      /\ m > 1 => Left(w)' /\ Len(todo') = Len(todo) /\ Len((todo')[1]) = m - 1
      /\ Len(todo) > 1 /\ m = 1 =>
           /\ Left(w)'
           /\ Len(todo') = Len(todo) - 1
           /\ Len((todo')[1]) = Len(w[1 + Len(w) - Len(todo')])
    BY <1>1, <1>2, RestLeaves
<1>5. (m = 1 \/ m > 1) /\ (Len(todo) = 1 \/ Len(todo) > 1)
    BY <1>3, OneOrMore
<1>6. /\ Left(w)'
      /\ Advance(Len(todo), m, Len(todo'), Len((todo')[1]), Len(w[1 + Len(w) - Len(todo')]))
    BY <1>4, <1>5 DEF Advance
<1> QED
    BY <1>3, <1>6 DEF w

(* The role or user that the present job is for. *)
LEMMA JobOfRole ==
    ASSUME TypeOK, NEW old \in Version, NEW v \in Version,
           Left(Removal(old) \o Application(v)),
           NEW k \in 1 .. Len(Configs[v].roles)
    PROVE  LET left == Len(Configs[v].roles) + Len(Configs[v].users) + 1 - k IN
           /\ left \in Nat
           /\ Len(todo) = left + 1 => OfRole(v, k)
           /\ Len(todo) <= left /\ Now.op \in {"RoleAdd", "RoleDelete", "RoleGrantPermission"} =>
                Now.role # Configs[v].roles[k]
<1> DEFINE rs == Configs[v].roles
           R == Len(rs)
           U == Len(Configs[v].users)
           left == R + U + 1 - k
<1>1. /\ R \in Nat /\ U \in Nat /\ k \in 1 .. R
      /\ \A j \in 1 .. R : rs[j] \in Role /\ (rs[j] = rs[k] => j = k)
      /\ \A j \in 1 .. U : Configs[v].users[j] \in User
      /\ \A u \in User : \A n \in 1 .. Len(Configs[v].bind[u]) : Configs[v].bind[u][n] \in Role
    BY NamesAre
<1>2. \/ Removing(old, v)
      \/ \E j \in 1 .. R : OfRole(v, j)
      \/ \E j \in 1 .. U : OfUser(v, j)
      \/ Recording(v)
    BY NowReconciling
<1>3. Removing(old, v) => Len(todo) > R + U + 1
    BY DEF Removing
<1>4. \A j \in 1 .. R : OfRole(v, j) => Len(todo) = R + U + 2 - j
    BY DEF OfRole
<1>5. \A j \in 1 .. U : OfUser(v, j) => Len(todo) = U + 2 - j
    BY DEF OfUser
<1>6. Recording(v) => Len(todo) = 1
    BY DEF Recording
<1> DEFINE L == Len(todo)
<1> HIDE DEF rs, R, U, L
<1>7. left \in Nat
    BY <1>1
<1>8. L = left + 1 => OfRole(v, k)
    BY <1>1, <1>2, <1>3, <1>4, <1>5, <1>6 DEF L
<1>9. ASSUME L <= left, Now.op \in {"RoleAdd", "RoleDelete", "RoleGrantPermission"}
      PROVE  Now.role # rs[k]
    <2>1. ~Removing(old, v)
        BY <1>1, <1>3, <1>9 DEF L
    <2>2. ASSUME NEW j \in 1 .. U, OfUser(v, j)
          PROVE  FALSE
        <3> DEFINE u == Configs[v].users[j]
                   bind == Configs[v].bind[u]
        <3>1. Now = DropUser(u) \/ Now = OnUser("UserAdd", u)
              \/ \E n \in 1 .. Len(bind) : Now = Grant(u, bind[n])
            BY <2>2 DEF OfUser
        <3>2. u \in User /\ \A n \in 1 .. Len(bind) : bind[n] \in Role
            BY <1>1
        <3>3. Now.op \in {"UserDelete", "UserAdd", "UserGrantRole"}
            BY <3>1, <3>2, ReconcileOps
        <3> QED
            BY <1>9, <3>3
    <2>3. ~Recording(v)
        <3>1. OnKey("Put", v).op = "Put"
            BY DEF OnKey, None
        <3> QED
            BY <1>9, <3>1 DEF Recording
    <2>4. ASSUME NEW j \in 1 .. R, OfRole(v, j)
          PROVE  Now.role # rs[k]
        <3>1. j # k
            BY <1>1, <1>4, <1>9, <2>4 DEF L
        <3>2. Now = DropRole(rs[j]) \/ Now = OnRole("RoleAdd", rs[j]) \/ Now = Permit(rs[j], v)
            BY <2>4 DEF OfRole, rs
        <3>3. rs[j] \in Role
            BY <1>1
        <3>4. Now.role = rs[j]
            BY <3>2, <3>3, ReconcileOps
        <3> QED
            BY <1>1, <3>1, <3>4
    <2> QED
        BY <1>2, <2>1, <2>2, <2>3, <2>4
<1> QED
    BY <1>7, <1>8, <1>9 DEF L, rs, R, U

LEMMA JobOfUser ==
    ASSUME TypeOK, NEW old \in Version, NEW v \in Version,
           Left(Removal(old) \o Application(v)),
           NEW k \in 1 .. Len(Configs[v].users)
    PROVE  LET left == Len(Configs[v].users) + 1 - k IN
           /\ left \in Nat
           /\ Len(todo) = left + 1 => OfUser(v, k)
           /\ Len(todo) <= left =>
                /\ Now.op # "RoleDelete"
                /\ Now.op \in {"UserAdd", "UserDelete", "UserGrantRole"} =>
                     Now.user # Configs[v].users[k]
<1> DEFINE us == Configs[v].users
           R == Len(Configs[v].roles)
           U == Len(us)
           left == U + 1 - k
<1>1. /\ R \in Nat /\ U \in Nat /\ k \in 1 .. U
      /\ \A j \in 1 .. U : us[j] \in User /\ (us[j] = us[k] => j = k)
      /\ \A u \in User : \A n \in 1 .. Len(Configs[v].bind[u]) : Configs[v].bind[u][n] \in Role
    BY NamesAre
<1>2. \/ Removing(old, v)
      \/ \E j \in 1 .. R : OfRole(v, j)
      \/ \E j \in 1 .. U : OfUser(v, j)
      \/ Recording(v)
    BY NowReconciling
<1>3. Removing(old, v) => Len(todo) > R + U + 1
    BY DEF Removing
<1>4. \A j \in 1 .. R : OfRole(v, j) => Len(todo) = R + U + 2 - j
    BY DEF OfRole
<1>5. \A j \in 1 .. U : OfUser(v, j) => Len(todo) = U + 2 - j
    BY DEF OfUser
<1>6. Recording(v) => Len(todo) = 1
    BY DEF Recording
<1> DEFINE L == Len(todo)
<1> HIDE DEF us, R, U, L
<1>7. left \in Nat
    BY <1>1
<1>8. L = left + 1 => OfUser(v, k)
    BY <1>1, <1>2, <1>3, <1>4, <1>5, <1>6 DEF L
<1>9. ASSUME L <= left
      PROVE  /\ Now.op # "RoleDelete"
             /\ Now.op \in {"UserAdd", "UserDelete", "UserGrantRole"} => Now.user # us[k]
    <2>1. ~Removing(old, v)
        BY <1>1, <1>3, <1>9 DEF L
    <2>2. \A j \in 1 .. R : ~OfRole(v, j)
        BY <1>1, <1>4, <1>9 DEF L
    <2>3. ASSUME Recording(v)
          PROVE  Now.op = "Put"
        <3>1. OnKey("Put", v).op = "Put"
            BY DEF OnKey, None
        <3> QED
            BY <2>3, <3>1 DEF Recording
    <2>4. ASSUME NEW j \in 1 .. U, OfUser(v, j)
          PROVE  Now.op # "RoleDelete" /\ Now.user # us[k]
        <3> DEFINE u == us[j]
                   bind == Configs[v].bind[u]
        <3>1. j # k
            BY <1>1, <1>5, <1>9, <2>4 DEF L
        <3>2. Now = DropUser(u) \/ Now = OnUser("UserAdd", u)
              \/ \E n \in 1 .. Len(bind) : Now = Grant(u, bind[n])
            BY <2>4 DEF OfUser, us
        <3>3. u \in User /\ \A n \in 1 .. Len(bind) : bind[n] \in Role
            BY <1>1
        <3> HIDE DEF u
        <3>4. Now.user = u /\ Now.op \in {"UserDelete", "UserAdd", "UserGrantRole"}
            BY <3>2, <3>3, ReconcileOps
        <3> QED
            BY <1>1, <3>1, <3>4 DEF u
    <2> QED
        BY <1>2, <2>1, <2>2, <2>3, <2>4
<1> QED
    BY <1>7, <1>8, <1>9 DEF L, us, R, U

-----------------------------------------------------------------------------
(* What has been achieved stays, and a job that ends has achieved its part. *)

RoleMade(r) == r \in roles /\ perms[r] = {}
UserMade(v, u, n) == u \in users /\ granted[u] = {Configs[v].bind[u][j] : j \in 1 .. n}

LEMMA RoleGoesOn ==
    ASSUME TypeOK, NEW old \in Version, NEW v \in Version,
           Left(Removal(old) \o Application(v)), todo' = Rest, todo' # <<>>,
           wanted = v, wanted' = v,
           NEW k \in 1 .. Len(Configs[v].roles), RoleAchieved(k),
           NEW r, r = Configs[v].roles[k],
           NEW left, left = Len(Configs[v].roles) + Len(Configs[v].users) + 1 - k,
           Len(todo) <= left /\ RoleInForce(v, r) => RoleInForce(v, r)',
           Len(todo) = left + 1 /\ Len(todo[1]) = 2 => RoleMade(r)',
           Len(todo) = left + 1 /\ Len(todo[1]) = 1 /\ RoleMade(r) => RoleInForce(v, r)'
    PROVE  RoleAchieved(k)'
<1> DEFINE w == Removal(old) \o Application(v)
           whole == Len(w[1 + Len(w) - Len(todo')])
<1>1. /\ Len(todo) \in Nat \ {0} /\ Len(todo[1]) \in Nat \ {0}
      /\ Advance(Len(todo), Len(todo[1]), Len(todo'), Len((todo')[1]), whole)
    BY WorkAdvances
<1>2. left \in Nat
    BY JobOfRole
<1>3. Len(todo') = left + 1 => whole = 3
    <2>1. /\ w[1 + Len(w) - (Len(Configs[v].roles) + Len(Configs[v].users) + 2 - k)]
               = ApplyRole(v, r)
          /\ r \in Role
        BY RoleJob
    <2>2. left + 1 = Len(Configs[v].roles) + Len(Configs[v].users) + 2 - k
        BY NamesAre
    <2>3. Len(ApplyRole(v, r)) = 3
        BY <2>1, ApplyRoleIs
    <2> HIDE DEF w
    <2> QED
        BY <2>1, <2>2, <2>3
<1> DEFINE L == Len(todo)
           m == Len(todo[1])
           L2 == Len(todo')
           m2 == Len((todo')[1])
<1>7. L \in Nat /\ m \in Nat /\ Advance(L, m, L2, m2, whole) /\ EntersRole(left, L2, whole)
    BY <1>1, <1>3 DEF EntersRole
<1> HIDE DEF whole, L, m, L2, m2
<1>8. CameToRole(left, L, m, L2, m2)
    BY <1>2, <1>7, RoleAdvance
<1>4. /\ Len(todo') <= left => Len(todo) <= left \/ (Len(todo) = left + 1 /\ Len(todo[1]) = 1)
      /\ Len(todo') = left + 1 /\ Len((todo')[1]) = 1 => Len(todo) = left + 1 /\ Len(todo[1]) = 2
    BY <1>8, Zenon DEF CameToRole, L, m, L2, m2
<1>5. /\ Len(todo) <= left => RoleInForce(v, r)
      /\ Len(todo) = left + 1 /\ Len(todo[1]) = 1 => RoleMade(r)
    BY DEF RoleAchieved, RoleMade
<1>6. /\ Len(todo') <= left => RoleInForce(v, r)'
      /\ Len(todo') = left + 1 /\ Len((todo')[1]) = 1 => RoleMade(r)'
    BY <1>4, <1>5
<1> QED
    BY <1>6 DEF RoleAchieved, RoleMade

LEMMA UserGoesOn ==
    ASSUME TypeOK, NEW old \in Version, NEW v \in Version,
           Left(Removal(old) \o Application(v)), todo' = Rest, todo' # <<>>,
           wanted = v, wanted' = v,
           NEW k \in 1 .. Len(Configs[v].users), UserAchieved(k),
           NEW u, u = Configs[v].users[k],
           NEW B, B = Len(Configs[v].bind[u]),
           NEW left, left = Len(Configs[v].users) + 1 - k,
           Len(todo) <= left /\ UserInForce(v, u) => UserInForce(v, u)',
           \A m \in 1 .. B + 1 :
             Len(todo) = left + 1 /\ Len(todo[1]) = m /\ (m <= B => UserMade(v, u, B - m))
               => UserMade(v, u, B + 1 - m)'
    PROVE  UserAchieved(k)'
<1> DEFINE w == Removal(old) \o Application(v)
           whole == Len(w[1 + Len(w) - Len(todo')])
           m == Len(todo[1])
           m2 == Len((todo')[1])
<1>1. /\ Len(todo) \in Nat \ {0} /\ m \in Nat \ {0}
      /\ Advance(Len(todo), m, Len(todo'), m2, whole)
    BY WorkAdvances
<1>2. left \in Nat
    BY JobOfUser
<1>3. u \in User /\ B \in Nat /\ DOMAIN Configs[v].bind[u] = 1 .. B
    BY NamesAre
<1>4. Len(todo') = left + 1 => whole = B + 2
    <2>1. w[1 + Len(w) - (Len(Configs[v].users) + 2 - k)] = ApplyUser(v, u)
        BY UserJob
    <2>2. left + 1 = Len(Configs[v].users) + 2 - k
        BY NamesAre
    <2>3. Len(ApplyUser(v, u)) = 2 + B
        BY <1>3, ApplyUserIs
    <2>4. 2 + B = B + 2
        BY <1>3
    <2> HIDE DEF w
    <2> QED
        BY <2>1, <2>2, <2>3, <2>4
<1>5. /\ Len(todo) <= left => UserInForce(v, u)
      /\ Len(todo) = left + 1 /\ m <= B => UserMade(v, u, B - m)
    BY DEF UserAchieved, UserMade
<1> DEFINE L == Len(todo)
           L2 == Len(todo')
<1>6. \A x \in 1 .. B + 1 : L = left + 1 /\ m = x =>
        u \in users' /\ granted'[u] = {Configs[v].bind[u][j] : j \in 1 .. B + 1 - x}
    BY <1>5 DEF UserMade
<1>7. L <= left => UserInForce(v, u)'
    BY <1>5
<1>8. L \in Nat /\ m \in Nat /\ Advance(L, m, L2, m2, whole) /\ EntersUser(left, B, L2, whole)
    BY <1>1, <1>4 DEF EntersUser
<1> HIDE DEF whole, m, m2, L, L2
<1>9. CameToUser(left, B, L, m, L2, m2)
    BY <1>2, <1>3, <1>8, UserAdvance
<1>10. L2 <= left => L <= left \/ (L = left + 1 /\ m = 1)
    BY <1>9, Zenon DEF CameToUser
<1>11. L2 = left + 1 /\ m2 <= B =>
         L = left + 1 /\ m \in 2 .. B + 1 /\ B + 1 - m = B - m2
    BY <1>9, Zenon DEF CameToUser
<1>12. L2 <= left => UserInForce(v, u)'
    <2>1. 1 \in 1 .. B + 1 /\ B + 1 - 1 = B
        BY <1>3
    <2>2. L = left + 1 /\ m = 1 =>
            u \in users' /\ granted'[u] = {Configs[v].bind[u][j] : j \in 1 .. B}
        BY <1>6, <2>1
    <2>3. {Configs[v].bind[u][j] : j \in 1 .. B} = Range(Configs[v].bind[u])
        BY <1>3 DEF Range
    <2>4. L = left + 1 /\ m = 1 => UserInForce(v, u)'
        BY <2>2, <2>3 DEF UserInForce
    <2> QED
        BY <1>7, <1>10, <2>4
<1>13. L2 = left + 1 /\ m2 <= B =>
         u \in users' /\ granted'[u] = {Configs[v].bind[u][j] : j \in 1 .. B - m2}
    <2> SUFFICES ASSUME L2 = left + 1, m2 <= B
                 PROVE  u \in users' /\ granted'[u] = {Configs[v].bind[u][j] : j \in 1 .. B - m2}
        OBVIOUS
    <2>1. L = left + 1 /\ m \in 2 .. B + 1 /\ B + 1 - m = B - m2
        BY <1>11, Zenon
    <2>2. \A b \in Nat : \A x \in 2 .. b + 1 : x \in 1 .. b + 1
        OBVIOUS
    <2>3. m \in 1 .. B + 1
        BY <1>3, <2>1, <2>2, Zenon
    <2>4. u \in users' /\ granted'[u] = {Configs[v].bind[u][j] : j \in 1 .. B + 1 - m}
        BY <1>6, <2>1, <2>3, Zenon
    <2> QED
        BY <2>1, <2>4, Zenon
<1> QED
    BY <1>12, <1>13 DEF UserAchieved, m2, L2

LEMMA RoleServed ==
    ASSUME TypeOK, NEW old \in Version, NEW v \in Version,
           Left(Removal(old) \o Application(v)), todo' = Rest, todo' # <<>>,
           wanted = v, wanted' = v, Now \in Request,
           Served(Now) \/ (UNCHANGED etcdVars /\ Now.tolerate # "no"),
           NEW k \in 1 .. Len(Configs[v].roles), RoleAchieved(k)
    PROVE  RoleAchieved(k)'
<1> DEFINE r == Configs[v].roles[k]
           left == Len(Configs[v].roles) + Len(Configs[v].users) + 1 - k
<1>1. r \in Role
    BY NamesAre
<1>2. /\ Len(todo) = left + 1 => OfRole(v, k)
      /\ Len(todo) <= left /\ Now.op \in {"RoleAdd", "RoleDelete", "RoleGrantPermission"} =>
           Now.role # r
    BY JobOfRole
<1> DEFINE m == Len(todo[1])
<1>3. OfRole(v, k) => \/ m = 3
                      \/ m = 2 /\ Now = OnRole("RoleAdd", r)
                      \/ m = 1 /\ Now = Permit(r, v)
    BY DEF OfRole
<1> HIDE DEF left, r, m
<1>4. ASSUME Len(todo) <= left, RoleInForce(v, r)
      PROVE  RoleInForce(v, r)'
    <2>1. CASE UNCHANGED etcdVars
        BY <1>4, <2>1 DEF RoleInForce, etcdVars
    <2>2. CASE Served(Now)
        <3>1. (r \in roles') = (r \in roles) /\ perms'[r] = perms[r]
            BY <1>1, <1>2, <1>4, <2>2, RoleKept
        <3> QED
            BY <1>4, <3>1 DEF RoleInForce
    <2> QED
        BY <2>1, <2>2
<1>5. ASSUME Len(todo) = left + 1, m = 2
      PROVE  RoleMade(r)'
    <2>1. Now = OnRole("RoleAdd", r)
        BY <1>2, <1>3, <1>5
    <2>2. Now.op = "RoleAdd" /\ Now.role = r /\ Now.tolerate = "no"
        BY <1>1, <2>1, ReconcileOps
    <2>3. Served(Now)
        BY <2>2
    <2> QED
        BY <2>2, <2>3, RoleAdded DEF RoleMade
<1>6. ASSUME Len(todo) = left + 1, m = 1, RoleMade(r)
      PROVE  RoleInForce(v, r)'
    <2>1. Now = Permit(r, v)
        BY <1>2, <1>3, <1>6
    <2>2. Now.op = "RoleGrantPermission" /\ Now.role = r /\ Now.version = v /\ Now.tolerate = "no"
        BY <1>1, <2>1, ReconcileOps
    <2>3. Served(Now)
        BY <2>2
    <2>4. roles' = roles /\ perms'[r] = perms[r] \cup {v}
        BY <2>2, <2>3, RolePermitted
    <2> QED
        BY <1>6, <2>4 DEF RoleMade, RoleInForce
<1> QED
    BY <1>4, <1>5, <1>6, RoleGoesOn DEF r, left, m

LEMMA UserServed ==
    ASSUME TypeOK, NEW old \in Version, NEW v \in Version,
           Left(Removal(old) \o Application(v)), todo' = Rest, todo' # <<>>,
           wanted = v, wanted' = v, Now \in Request,
           Served(Now) \/ (UNCHANGED etcdVars /\ Now.tolerate # "no"),
           NEW k \in 1 .. Len(Configs[v].users), UserAchieved(k)
    PROVE  UserAchieved(k)'
<1> DEFINE u == Configs[v].users[k]
           bind == Configs[v].bind[u]
           B == Len(bind)
           left == Len(Configs[v].users) + 1 - k
           m == Len(todo[1])
<1>1. u \in User /\ B \in Nat /\ \A n \in 1 .. B : bind[n] \in Role
    BY NamesAre
<1>2. /\ Len(todo) = left + 1 => OfUser(v, k)
      /\ Len(todo) <= left =>
           /\ Now.op # "RoleDelete"
           /\ Now.op \in {"UserAdd", "UserDelete", "UserGrantRole"} => Now.user # u
    BY JobOfUser
<1>3. OfUser(v, k) => \/ m = B + 2
                      \/ m = B + 1 /\ Now = OnUser("UserAdd", u)
                      \/ \E n \in 1 .. B : m = B + 1 - n /\ Now = Grant(u, bind[n])
    BY DEF OfUser
<1> HIDE DEF left, u, bind, B, m
<1>4. ASSUME Len(todo) <= left, UserInForce(v, u)
      PROVE  UserInForce(v, u)'
    <2>1. CASE UNCHANGED etcdVars
        BY <1>4, <2>1 DEF UserInForce, etcdVars
    <2>2. CASE Served(Now)
        <3>1. (u \in users') = (u \in users) /\ granted'[u] = granted[u]
            BY <1>1, <1>2, <1>4, <2>2, UserKept
        <3> QED
            BY <1>4, <3>1 DEF UserInForce
    <2> QED
        BY <2>1, <2>2
<1>5. ASSUME NEW x \in 1 .. B + 1, Len(todo) = left + 1, m = x,
             x <= B => UserMade(v, u, B - x)
      PROVE  UserMade(v, u, B + 1 - x)'
    <2>1. \/ x = B + 1 /\ Now = OnUser("UserAdd", u)
          \/ \E n \in 1 .. B : x = B + 1 - n /\ Now = Grant(u, bind[n])
        <3>1. x # B + 2
            BY <1>1
        <3> QED
            BY <1>2, <1>3, <1>5, <3>1
    <2>2. CASE x = B + 1 /\ Now = OnUser("UserAdd", u)
        <3>1. Now.op = "UserAdd" /\ Now.user = u /\ Now.tolerate = "no"
            BY <1>1, <2>2, ReconcileOps
        <3>2. Served(Now)
            BY <3>1
        <3>3. u \in users' /\ granted'[u] = {}
            BY <3>1, <3>2, UserAdded
        <3>4. {bind[j] : j \in 1 .. B + 1 - x} = {}
            BY <1>1, <2>2
        <3> QED
            BY <3>3, <3>4 DEF UserMade, bind
    <2>3. ASSUME NEW n \in 1 .. B, x = B + 1 - n, Now = Grant(u, bind[n])
          PROVE  UserMade(v, u, B + 1 - x)'
        <3>1. Now.op = "UserGrantRole" /\ Now.user = u /\ Now.role = bind[n] /\ Now.tolerate = "no"
            BY <1>1, <2>3, ReconcileOps
        <3>2. Served(Now)
            BY <3>1
        <3>3. users' = users /\ granted'[u] = granted[u] \cup {bind[n]}
            BY <3>1, <3>2, UserGranted
        <3>4. x <= B /\ B - x = n - 1 /\ B + 1 - x = n
            BY <1>1, <2>3
        <3>5. u \in users /\ granted[u] = {bind[j] : j \in 1 .. n - 1}
            BY <1>5, <3>4 DEF UserMade, bind
        <3>6. {bind[j] : j \in 1 .. n - 1} \cup {bind[n]} = {bind[j] : j \in 1 .. n}
            <4>1. \A j : j \in 1 .. n <=> j \in 1 .. n - 1 \/ j = n
                BY <1>1
            <4> QED
                BY <4>1
        <3>7. u \in users' /\ granted'[u] = {bind[j] : j \in 1 .. n}
            BY <3>3, <3>5, <3>6
        <3> QED
            BY <3>4, <3>7 DEF UserMade, bind
    <2> QED
        BY <2>1, <2>2, <2>3
<1> QED
    BY <1>4, <1>5, UserGoesOn DEF u, bind, B, left, m

LEMMA AchievedServed ==
    ASSUME TypeOK, NEW old \in Version, NEW v \in Version,
           Left(Removal(old) \o Application(v)), todo' = Rest, todo' # <<>>,
           wanted = v, wanted' = v, Now \in Request, Achieved,
           Served(Now) \/ (UNCHANGED etcdVars /\ Now.tolerate # "no")
    PROVE  Achieved'
<1>1. /\ DOMAIN Configs[v].roles = 1 .. Len(Configs[v].roles)
      /\ DOMAIN Configs[v].users = 1 .. Len(Configs[v].users)
    BY NamesAre
<1>2. \A k \in 1 .. Len(Configs[v].roles) : RoleAchieved(k)
    BY <1>1 DEF Achieved
<1>3. \A k \in 1 .. Len(Configs[v].users) : UserAchieved(k)
    BY <1>1 DEF Achieved
<1>4. \A k \in 1 .. Len(Configs[v].roles) : RoleAchieved(k)'
    BY <1>2, RoleServed
<1>5. \A k \in 1 .. Len(Configs[v].users) : UserAchieved(k)'
    BY <1>3, UserServed
<1> QED
    BY <1>1, <1>4, <1>5 DEF Achieved

-----------------------------------------------------------------------------
(* What the key records. *)

(* The configurations do not name what enableACL sets up. *)
Apart == \A v \in Version :
    /\ "root" \notin Range(Configs[v].roles)
    /\ \A u \in Range(Configs[v].users) : u \notin {"root", "etcd", CommonName}

LEMMA EnableKeeps ==
    ASSUME Apart, TypeOK, NEW v \in Version, NEW n \in 1 .. 9, Served(Enable[n])
    PROVE  key' = key /\ (InForce(v) => InForce(v)')
<1>1. /\ Enable[n] \in Request
      /\ Enable[n].op \in {"UserDelete", "RoleAdd", "UserAdd", "UserGrantRole", "AuthEnable"}
      /\ Enable[n].op = "RoleAdd" => Enable[n].role = "root"
      /\ Enable[n].op \in {"UserAdd", "UserDelete", "UserGrantRole"} =>
           Enable[n].user \in {"root", "etcd", CommonName}
    <2>1. Enable[n] \in Request
        BY EnableIs, ElementOfSeq
    <2>2. n = 1 \/ n = 2 \/ n = 3 \/ n = 4 \/ n = 5 \/ n = 6 \/ n = 7 \/ n = 8 \/ n = 9
        OBVIOUS
    <2> QED
        BY <2>1, <2>2, EnableOps
<1> DEFINE q == Enable[n]
<1> HIDE DEF q
<1>2. /\ q \in Request /\ Served(q) /\ q.op \notin {"RoleDelete", "RoleGrantPermission", "Put", "Delete"}
      /\ q.op = "RoleAdd" => q.role = "root"
      /\ q.op \in {"UserAdd", "UserDelete", "UserGrantRole"} => q.user \in {"root", "etcd", CommonName}
    BY <1>1 DEF q
<1>3. key' = key
    BY <1>2, KeyKept
<1>4. Range(Configs[v].roles) \subseteq Role \ {"root"}
    BY NamesAre DEF Range, Apart
<1>5. Range(Configs[v].users) \subseteq User \ {"root", "etcd", CommonName}
    <2>1. Range(Configs[v].users) \subseteq User
        BY NamesAre DEF Range
    <2>2. \A u \in Range(Configs[v].users) : u \notin {"root", "etcd", CommonName}
        BY DEF Apart
    <2> QED
        BY <2>1, <2>2, Zenon
<1>6. \A r \in Role \ {"root"} : (r \in roles') = (r \in roles) /\ perms'[r] = perms[r]
    BY <1>2, RoleKept
<1>7. \A u \in User \ {"root", "etcd", CommonName} : (u \in users') = (u \in users) /\ granted'[u] = granted[u]
    BY <1>2, UserKept
<1> QED
    BY <1>3, <1>4, <1>5, <1>6, <1>7 DEF InForce, RoleInForce, UserInForce

LEMMA PutRecords ==
    ASSUME TypeOK, NEW v \in Version, Served(OnKey("Put", v)), InForce(v)
    PROVE  key' = v /\ InForce(v)'
<1> DEFINE q == OnKey("Put", v)
<1>1. q.op = "Put" /\ q.version = v
    BY DEF OnKey, None
<1> HIDE DEF q
<1>2. Served(q)
    BY DEF q
<1>3. key' = v
    BY <1>1, <1>2, KeyPut
<1>4. UNCHANGED <<roles, perms, users, granted>>
    BY <1>1, <1>2 DEF Served, OnRoles, OnUsers, OnKeyspace
<1> QED
    BY <1>3, <1>4 DEF InForce, RoleInForce, UserInForce

(* Before the last request of a run all is in force. *)
LEMMA AllAchieved ==
    ASSUME NEW v \in Version, wanted = v, Achieved, Len(todo) = 1
    PROVE  InForce(v)
<1> DEFINE rs == Configs[v].roles
           us == Configs[v].users
           R == Len(rs)
           U == Len(us)
<1>1. R \in Nat /\ U \in Nat /\ DOMAIN rs = 1 .. R /\ DOMAIN us = 1 .. U
    BY NamesAre
<1>2. ASSUME NEW k \in 1 .. R
      PROVE  RoleInForce(v, rs[k])
    <2>1. RoleAchieved(k)
        BY <1>1 DEF Achieved
    <2>2. Len(todo) <= R + U + 1 - k => RoleInForce(v, rs[k])
        BY <2>1 DEF RoleAchieved
    <2> HIDE DEF R, U
    <2>3. 1 <= R + U + 1 - k
        BY <1>1
    <2> QED
        BY <2>2, <2>3
<1>3. ASSUME NEW k \in 1 .. U
      PROVE  UserInForce(v, us[k])
    <2>1. UserAchieved(k)
        BY <1>1 DEF Achieved
    <2>2. Len(todo) <= U + 1 - k => UserInForce(v, us[k])
        BY <2>1 DEF UserAchieved
    <2> HIDE DEF R, U
    <2>3. 1 <= U + 1 - k
        BY <1>1
    <2> QED
        BY <2>2, <2>3
<1> QED
    BY <1>1, <1>2, <1>3 DEF InForce, Range

LEMMA OnlyRecordingPuts ==
    ASSUME TypeOK, NEW old \in Version, NEW v \in Version,
           Left(Removal(old) \o Application(v)), Now.op = "Put"
    PROVE  Recording(v)
<1>1. ASSUME Removing(old, v)
      PROVE  FALSE
    <2>1. Removes(old, Now)
        BY <1>1 DEF Removing
    <2>2. \A q : Removes(old, q) => q.op # "Put"
        BY DEF Removes
    <2> QED
        BY <2>1, <2>2
<1>2. ASSUME NEW k \in 1 .. Len(Configs[v].roles), OfRole(v, k)
      PROVE  FALSE
    <2> DEFINE r == Configs[v].roles[k]
    <2>1. r \in Role
        BY NamesAre
    <2>2. Now = DropRole(r) \/ Now = OnRole("RoleAdd", r) \/ Now = Permit(r, v)
        BY <1>2 DEF OfRole
    <2>3. Now.op \in {"RoleDelete", "RoleAdd", "RoleGrantPermission"}
        BY <2>1, <2>2, ReconcileOps
    <2> QED
        BY <2>3
<1>3. ASSUME NEW k \in 1 .. Len(Configs[v].users), OfUser(v, k)
      PROVE  FALSE
    <2> DEFINE u == Configs[v].users[k]
               bind == Configs[v].bind[u]
    <2>1. u \in User /\ \A n \in 1 .. Len(bind) : bind[n] \in Role
        BY NamesAre
    <2>2. Now = DropUser(u) \/ Now = OnUser("UserAdd", u)
          \/ \E n \in 1 .. Len(bind) : Now = Grant(u, bind[n])
        BY <1>3 DEF OfUser
    <2>3. Now.op \in {"UserDelete", "UserAdd", "UserGrantRole"}
        BY <2>1, <2>2, ReconcileOps
    <2> QED
        BY <2>3
<1> QED
    BY <1>1, <1>2, <1>3, NowReconciling

(* The key is put only when all is in force. *)
LEMMA WorkRecords ==
    ASSUME TypeOK, NEW old \in Version, NEW v \in Version, wanted = v,
           Left(Removal(old) \o Application(v)), Achieved, key # v, key <= v,
           Now \in Request, Served(Now)
    PROVE  \/ key' # v /\ key' <= v
           \/ Recording(v) /\ key' = v /\ InForce(v)'
<1>1. v \in Nat \ {0} /\ key \in Nat
    BY AclAssumption DEF Version, NoKey, TypeOK
<1>2. CASE Now.op = "Put"
    <2>1. Recording(v)
        BY <1>2, OnlyRecordingPuts
    <2>2. Len(todo) = 1 /\ Now = OnKey("Put", v)
        BY <2>1 DEF Recording
    <2>3. InForce(v)
        BY <2>2, AllAchieved
    <2>4. Served(OnKey("Put", v))
        BY <2>2
    <2> QED
        BY <2>1, <2>3, <2>4, PutRecords
<1>3. CASE Now.op # "Put"
    <2>1. key' \in {key, NoKey}
        BY <1>3 DEF Served, OnRoles, OnUsers, OnKeyspace
    <2> QED
        BY <1>1, <2>1 DEF NoKey
<1> QED
    BY <1>2, <1>3

-----------------------------------------------------------------------------
(* What the key records is in force, if no version leaves a list out. *)

Explicit == \A v \in Version : Configs[v].explicit

LEMMA WholeAchieves ==
    ASSUME NEW old \in Version, NEW v \in Version, wanted' = v,
           Left(Removal(old) \o Application(v))', Whole(Removal(old) \o Application(v))',
           Len(todo') > Len(Configs[v].roles) + Len(Configs[v].users)
    PROVE  Achieved'
<1> DEFINE w == Removal(old) \o Application(v)
           rs == Configs[v].roles
           us == Configs[v].users
           R == Len(rs)
           U == Len(us)
           L == Len(todo')
<1>1. /\ R \in Nat /\ DOMAIN rs = 1 .. R /\ U \in Nat /\ DOMAIN us = 1 .. U
      /\ \A k \in 1 .. U : us[k] \in User /\ Len(Configs[v].bind[us[k]]) \in Nat
      /\ \A k \in 1 .. R : rs[k] \in Role
    BY NamesAre
<1>2. /\ \A k \in 1 .. R : w[1 + Len(w) - (R + U + 2 - k)] = ApplyRole(v, rs[k])
      /\ \A k \in 1 .. U : w[1 + Len(w) - (U + 2 - k)] = ApplyUser(v, us[k])
    <2>1. \A k \in 1 .. R : w[1 + Len(w) - (R + U + 2 - k)] = ApplyRole(v, rs[k])
        BY RoleJob
    <2>2. \A k \in 1 .. U : w[1 + Len(w) - (U + 2 - k)] = ApplyUser(v, us[k])
        BY UserJob
    <2> QED
        BY <2>1, <2>2
<1>4. (todo')[1] = w[1 + Len(w) - L]
    BY DEF Whole
<1>7. L > R + U
    OBVIOUS
<1> HIDE DEF w, R, U, rs, us
<1>3. L \in Nat /\ L > R + U
    <2>1. Left(w)'
        BY DEF w
    <2>2. L \in 1 .. Len(w)
        BY <2>1 DEF Left
    <2> HIDE DEF L
    <2> QED
        BY <1>7, <2>2
<1> HIDE DEF L
<1>5. ASSUME NEW k \in 1 .. R
      PROVE  RoleAchieved(k)'
    <2> DEFINE left == R + U + 1 - k
    <2>1. left + 1 = R + U + 2 - k /\ ~(L <= left)
        BY <1>1, <1>3
    <2>2. Len(ApplyRole(v, rs[k])) = 3
        BY <1>1, ApplyRoleIs
    <2>3. L = left + 1 => Len((todo')[1]) = 3
        BY <1>2, <1>4, <2>1, <2>2
    <2> HIDE DEF left
    <2>4. L = left + 1 => Len((todo')[1]) # 1
        BY <2>3
    <2> QED
        BY <2>1, <2>4 DEF RoleAchieved, L, left, R, U, rs, us
<1>6. ASSUME NEW k \in 1 .. U
      PROVE  UserAchieved(k)'
    <2> DEFINE left == U + 1 - k
               B == Len(Configs[v].bind[us[k]])
    <2>1. left + 1 = U + 2 - k /\ ~(L <= left)
        BY <1>1, <1>3
    <2>2. Len(ApplyUser(v, us[k])) = 2 + B /\ B \in Nat
        BY <1>1, ApplyUserIs
    <2>3. L = left + 1 => Len((todo')[1]) = 2 + B
        BY <1>2, <1>4, <2>1, <2>2
    <2> HIDE DEF left, B
    <2>4. L = left + 1 => ~(Len((todo')[1]) <= B)
        <3>1. \A x \in Nat : ~(2 + x <= x)
            OBVIOUS
        <3> QED
            BY <2>2, <2>3, <3>1
    <2> QED
        BY <2>1, <2>4 DEF UserAchieved, L, left, B, U, us
<1> QED
    BY <1>1, <1>5, <1>6 DEF Achieved, R, U, rs, us

LEMMA AclInit == Init => AclInv
<1> SUFFICES ASSUME Init PROVE AclInv
    OBVIOUS
<1>1. LockInv
    BY LockInit
<1>2. key = 0 /\ wanted = 1 /\ todo = <<>>
    BY DEF Init, NoKey
<1> QED
    BY <1>1, <1>2 DEF AclInv, RecordedIsInForce

(* A request that etcd serves leaves the record true. *)
LEMMA ServedRecords ==
    ASSUME Apart, AclInv, todo # <<>>, Served(Now), wanted' = wanted
    PROVE  key' <= wanted' /\ RecordedIsInForce'
<1>1. TypeOK /\ wanted \in Version /\ Now \in Request
    BY NowIsSafe DEF AclInv, LockInv, TypeOK
<1>2. PICK v \in Version : v = wanted
    BY <1>1
<1>3. CASE Enabling
    <2>1. ASSUME Now.op = "Get"
          PROVE  UNCHANGED etcdVars
        <3> DEFINE q == Now
        <3> HIDE DEF q
        <3>1. q.op = "Get" /\ Served(q)
            BY <2>1 DEF q
        <3>2. q.op # "Put" /\ q.op # "Delete" /\ q.op # "AuthEnable"
            BY <3>1
        <3>3. OnKeyspace(q)
            BY <3>1 DEF Served, OnRoles, OnUsers
        <3>4. UNCHANGED <<roles, perms, users, granted, key>> /\ auth' = auth
            BY <1>1, <3>2, <3>3 DEF OnKeyspace, TypeOK
        <3> QED
            BY <3>4 DEF etcdVars
    <2>2. ASSUME Now.op # "Get"
          PROVE  key' = key /\ (InForce(v) => InForce(v)')
        <3>1. Len(todo[1]) \in 1 .. 9 /\ Now = Enable[10 - Len(todo[1])]
            BY <1>1, <1>3, <2>2, EnableTolerance
        <3>2. \A x \in 1 .. 9 : 10 - x \in 1 .. 9
            OBVIOUS
        <3>3. PICK n \in 1 .. 9 : Now = Enable[n]
            BY <3>1, <3>2
        <3>4. Served(Enable[n])
            BY <3>3
        <3> QED
            BY <1>1, <3>4, EnableKeeps
    <2>3. key' = key /\ (InForce(v) => InForce(v)')
        BY <2>1, <2>2 DEF etcdVars, InForce, RoleInForce, UserInForce
    <2>4. key <= wanted /\ (key = wanted => InForce(v))
        BY <1>2 DEF AclInv, LockInv, RecordedIsInForce
    <2> QED
        BY <1>2, <2>3, <2>4 DEF RecordedIsInForce
<1>4. CASE Reconciling /\ Achieved /\ key # wanted
    <2>1. PICK old \in Version : old \in 1 .. wanted /\ Left(Removal(old) \o Application(v))
        BY <1>2, <1>4, Earlier DEF Reconciling, LockInv, TypeOK
    <2>2. key <= v
        BY <1>2 DEF AclInv, LockInv
    <2>3. \/ key' # v /\ key' <= v
          \/ key' = v /\ InForce(v)'
        BY <1>1, <1>2, <1>4, <2>1, <2>2, WorkRecords
    <2>4. v <= v
        BY <1>2 DEF Version
    <2> QED
        BY <1>2, <2>3, <2>4 DEF RecordedIsInForce
<1> QED
    BY <1>3, <1>4 DEF AclInv

LEMMA KeptRecords ==
    ASSUME AclInv, UNCHANGED <<wanted, etcdVars>>
    PROVE  key' <= wanted' /\ RecordedIsInForce'
    BY DEF AclInv, LockInv, RecordedIsInForce, InForce, RoleInForce, UserInForce, etcdVars

(* Where a run has got. *)
Phase == todo = <<>> \/ Enabling \/ (Reconciling /\ Achieved /\ key # wanted)

LEMMA SkipPhase ==
    ASSUME AclInv, todo # <<>>, todo' = Rest, Now.tolerate # "no",
           UNCHANGED <<wanted, etcdVars>>
    PROVE  Phase'
<1>1. LockInv /\ TypeOK /\ Now \in Request /\ Now.op # "Get"
    BY NowIsSafe, ToleratedIs DEF AclInv, LockInv
<1>2. CASE Enabling
    <2>1. Len(todo[1]) \in 7 .. 9
        BY <1>1, <1>2, EnableTolerance
    <2>2. ~(Len(todo[1]) \in 2 .. 4)
        <3>1. \A x \in 7 .. 9 : ~(x \in 2 .. 4)
            OBVIOUS
        <3> QED
            BY <2>1, <3>1
    <2> QED
        BY <1>1, <1>2, <2>2, EnableRest DEF Phase
<1>3. CASE Reconciling /\ Achieved /\ key # wanted
    <2>1. PICK v \in Version : v = wanted
        BY <1>1 DEF TypeOK
    <2>2. PICK old \in Version : old \in 1 .. wanted /\ Left(Removal(old) \o Application(v))
        BY <1>3, <2>1, Earlier DEF Reconciling, LockInv, TypeOK
    <2>3. wanted' = v /\ key' = key
        BY <2>1 DEF etcdVars
    <2>4. CASE todo' # <<>>
        <3>1. Left(Removal(old) \o Application(v))'
            BY <1>1, <2>2, <2>4, WorkAdvances
        <3>2. Achieved'
            BY <1>1, <1>3, <2>1, <2>2, <2>3, <2>4, AchievedServed
        <3> QED
            BY <1>3, <2>1, <2>2, <2>3, <3>1, <3>2 DEF Phase, Reconciling
    <2> QED
        BY <2>4 DEF Phase
<1> QED
    BY <1>2, <1>3 DEF AclInv

LEMMA PerformPhase ==
    ASSUME Explicit, Apart, AclInv, Perform
    PROVE  Phase'
<1>1. LockInv /\ TypeOK /\ todo # <<>> /\ Served(Now) /\ wanted' = wanted /\ Now \in Request
    BY NowIsSafe DEF AclInv, LockInv, Perform
<1>2. PICK v \in Version : v = wanted
    BY <1>1 DEF TypeOK
<1>3. CASE Now.op = "Get"
    <2>1. todo' = Reconcile(key, wanted) /\ key' = key
        <3>1. todo' = Reconcile(key, wanted)
            BY <1>3 DEF Perform
        <3>2. key' = key
            BY <1>1, <1>3, KeyKept
        <3> QED
            BY <3>1, <3>2
    <2>2. CASE Equal(key, wanted)
        BY <2>1, <2>2 DEF Reconcile, Phase
    <2>3. CASE ~Equal(key, wanted)
        <3>1. key' # wanted'
            BY <1>1, <1>2, <2>1, <2>3 DEF Equal, Explicit
        <3>2. /\ Len(todo') > Len(Configs[v].roles) + Len(Configs[v].users)
              /\ \E old \in Version :
                   /\ old \in 1 .. wanted
                   /\ Left(Removal(old) \o Application(wanted))' /\ Whole(Removal(old) \o Application(wanted))'
            BY <1>1, <1>2, <2>1, <2>3, Reconciles DEF LockInv
        <3>3. PICK old \in Version :
                /\ old \in 1 .. wanted
                /\ Left(Removal(old) \o Application(v))' /\ Whole(Removal(old) \o Application(v))'
            BY <1>1, <1>2, <3>2
        <3>4. Achieved'
            BY <1>1, <1>2, <3>2, <3>3, WholeAchieves
        <3>5. Reconciling'
            BY <1>1, <1>2, <3>3 DEF Reconciling
        <3> QED
            BY <3>1, <3>4, <3>5 DEF Phase
    <2> QED
        BY <2>2, <2>3
<1>4. CASE Now.op # "Get"
    <2>1. todo' = Rest
        BY <1>4 DEF Perform
    <2>2. CASE Enabling
        <3>1. Len(todo[1]) \in 2 .. 4 => (CommonName \in users /\ "root" \in granted[CommonName])'
            BY <1>1, <1>4, <2>2, EnableServed
        <3> QED
            BY <1>1, <1>4, <2>1, <2>2, <3>1, EnableRest DEF Phase
    <2>3. CASE Reconciling /\ Achieved /\ key # wanted
        <3>1. PICK old \in Version : old \in 1 .. wanted /\ Left(Removal(old) \o Application(v))
            BY <1>2, <2>3, Earlier DEF Reconciling, LockInv, TypeOK
        <3>2. CASE todo' # <<>>
            <4> DEFINE w == Removal(old) \o Application(v)
            <4>1. /\ Left(w)'
                  /\ Advance(Len(todo), Len(todo[1]), Len(todo'), Len((todo')[1]),
                             Len(w[1 + Len(w) - Len(todo')]))
                BY <1>1, <2>1, <3>1, <3>2, WorkAdvances
            <4> HIDE DEF w
            <4>4. ~(Len(todo) = 1 /\ Len(todo[1]) = 1)
                <5>1. Len(todo') # 0
                    BY <4>1 DEF Left
                <5>2. \A L2, m2, whole : Advance(1, 1, L2, m2, whole) => L2 = 0
                    BY DEF Advance
                <5> QED
                    BY <4>1, <5>1, <5>2
            <4>2. Achieved'
                BY <1>1, <1>2, <2>1, <2>3, <3>1, <3>2, AchievedServed
            <4>3. key' # wanted'
                <5>1. key # v /\ key <= v
                    BY <1>2, <2>3 DEF AclInv, LockInv
                <5>2. key' # v \/ Recording(v)
                    BY <1>1, <1>2, <2>3, <3>1, <5>1, WorkRecords
                <5> QED
                    BY <1>1, <1>2, <4>4, <5>2 DEF Recording
            <4> QED
                BY <1>1, <1>2, <3>1, <4>1, <4>2, <4>3 DEF Phase, Reconciling, w
        <3> QED
            BY <3>2 DEF Phase
    <2> QED
        BY <1>1, <2>2, <2>3 DEF AclInv
<1> QED
    BY <1>3, <1>4

LEMMA AclStep ==
    ASSUME Explicit, Apart, AclInv, [Next]_vars
    PROVE  AclInv'
<1>1. LockInv'
    BY LockStep DEF AclInv
<1>2. LockInv /\ wanted \in Version /\ faults \in 0 .. MaxFaults
    BY DEF AclInv, LockInv, TypeOK
<1>3. SUFFICES key' <= wanted' /\ RecordedIsInForce' /\ Phase'
    BY <1>1 DEF AclInv, Phase
<1>4. CASE Begin
    <2>1. ~(Allowed /\ "root" \in granted[CommonName]) => ~auth \/ Disowned
        BY <1>2 DEF LockInv, NoLockout, Allowed, TypeOK
    <2>2. UNCHANGED <<wanted, etcdVars>> /\ faults' \in 0 .. MaxFaults
        BY <1>2, <1>4 DEF Begin
    <2>3. todo' = <<Look>> \/ (todo' = <<Enable, Look>> /\ (~auth \/ Disowned))
        BY <1>4, <2>1 DEF Begin
    <2> QED
        BY <1>2, <2>2, <2>3, BeginLocks, KeptRecords DEF Phase
<1>5. CASE BeginBlindly
    <2>1. faults' \in 0 .. MaxFaults
        BY <1>2, <1>5, FaultTyped DEF BeginBlindly, LockInv
    <2>2. UNCHANGED <<wanted, etcdVars>> /\ todo' = <<Tail(Enable), Look>>
        BY <1>5 DEF BeginBlindly
    <2> QED
        BY <1>2, <2>1, <2>2, BeginLocks, KeptRecords DEF Phase
<1>6. CASE MissLookup \/ Ignore
    <2>1. todo # <<>> /\ Now.tolerate # "no" /\ UNCHANGED <<wanted, etcdVars>> /\ todo' = Rest
        BY <1>6 DEF MissLookup, Ignore, Ignorable
    <2> QED
        BY <2>1, SkipPhase, KeptRecords
<1>7. CASE Perform
    <2>1. todo # <<>> /\ Served(Now) /\ wanted' = wanted
        BY <1>7 DEF Perform
    <2> QED
        BY <1>7, <2>1, ServedRecords, PerformPhase
<1>8. CASE Refused \/ Lost
    <2>1. todo' = <<>> /\ UNCHANGED <<wanted, etcdVars>>
        BY <1>8 DEF Refused, Lost
    <2> QED
        BY <2>1, KeptRecords DEF Phase
<1>9. CASE Late
    <2>1. todo' = <<>> /\ todo # <<>> /\ Served(Now) /\ wanted' = wanted
        BY <1>9 DEF Late
    <2> QED
        BY <2>1, ServedRecords DEF Phase
<1>10. CASE Upgrade
    <2>1. todo' = <<>> /\ wanted' = wanted + 1 /\ key' = key
        BY <1>10 DEF Upgrade, etcdVars
    <2>2. key \in Nat /\ key <= wanted /\ wanted \in Nat
        BY <1>2, AclAssumption DEF AclInv, LockInv, TypeOK, Version, NoKey
    <2>3. key' <= wanted' /\ key' # wanted'
        BY <2>1, <2>2
    <2> QED
        BY <2>1, <2>3 DEF RecordedIsInForce, Phase
<1>11. CASE UNCHANGED vars
    <2>1. UNCHANGED <<wanted, etcdVars, todo>>
        BY <1>11 DEF vars
    <2>2. Phase
        BY DEF AclInv, Phase
    <2>3. /\ todo' = todo /\ wanted' = wanted /\ key' = key
          /\ roles' = roles /\ perms' = perms /\ users' = users /\ granted' = granted /\ auth' = auth
        BY <2>1 DEF etcdVars
    <2>4. Enabling => Enabling'
        BY <2>3 DEF Enabling, Disowned, Left, Begun
    <2>5. Reconciling => Reconciling'
        BY <2>3 DEF Reconciling, Left, Begun
    <2>8. \A k : RoleAchieved(k) => RoleAchieved(k)'
        BY <2>3 DEF RoleAchieved, RoleInForce
    <2>9. \A k : UserAchieved(k) => UserAchieved(k)'
        BY <2>3 DEF UserAchieved, UserInForce
    <2>6. Achieved => Achieved'
        BY <2>3, <2>8, <2>9 DEF Achieved
    <2>7. Phase'
        BY <2>2, <2>3, <2>4, <2>5, <2>6 DEF Phase
    <2> QED
        BY <2>1, <2>7, KeptRecords
<1> QED
    BY <1>4, <1>5, <1>6, <1>7, <1>8, <1>9, <1>10, <1>11 DEF Next

(* Whatever fails, gets lost or comes late, a run is at some request of what it set   *)
(* out to do, what its finished jobs were for is in force, and each request of the job *)
(* under way has had its effect; while it reconciles, the key does not hold the        *)
(* configuration that is wanted.  The last needs Explicit: a configuration that leaves *)
(* a list out never equals what was read back (ACLConfig.Equal), so that a run removes *)
(* what the key records as wanted before it deletes the key.  Apart is there since     *)
(* enableACL, run again, grants root to users that the configuration may have named.   *)
THEOREM WorkIsDone ==
    ASSUME Explicit, Apart
    PROVE  Spec => []AclInv
<1>1. AclInv /\ [Next]_vars => AclInv'
    BY AclStep
<1> QED
    BY <1>1, AclInit, PTL DEF Spec

(* What initACLConfigKeyPath records is in force: applyACLConfig puts the key   *)
(* last, when all it applies has been achieved.  Explicit and Apart: no later   *)
(* run removes any of it, nor does enableACL change it.                         *)
THEOREM RecordIsTrue ==
    ASSUME Explicit, Apart
    PROVE  Spec => []RecordedIsInForce
<1>1. AclInv => RecordedIsInForce
    BY DEF AclInv
<1> QED
    BY <1>1, WorkIsDone, PTL
=============================================================================
