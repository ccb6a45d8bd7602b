---------------------------- MODULE AccessProofs ----------------------------
(***************************************************************************)
(* Theorems about AccessControl, for any members, groups and handlers.     *)
(* The lock on the tenants row makes one transaction at a time the only    *)
(* one with an actor, so what it has read of its actor is still true when  *)
(* it commits.                                                             *)
(*                                                                         *)
(* The two queries that walk the tree of groups are recursions that run    *)
(* once for every group.  By induction over the rounds, as a fact about    *)
(* sets of numbers (AllNumbers), each gathers the least set that is closed *)
(* under the step it takes, so what the members climb one by one is what   *)
(* the last-manager check climbs from all of them at once.                 *)
(***************************************************************************)
EXTENDS AccessControl, FiniteSetTheorems, WellFoundedInduction, TLAPS

MembersTyped == member \in [Members -> {"none", "active", "suspended"}]
TreeTyped ==
    /\ group \in [Groups -> {"none", "active", "archived"}]
    /\ parent \in [Groups -> Groups \cup {None}]
    /\ joined \in [Groups -> SUBSET Members]
GrantsTyped == space \in {"none", "active", "archived"} /\ grant \in [Subjects -> Roles \cup {None}]
TxState == [actor : Members \cup {None}, admin : BOOLEAN]
TxTyped == tx \in [Handlers -> TxState]

\* One transaction holds the lock.
OneHolder == \A h, k \in Handlers : tx[h].actor # None /\ tx[k].actor # None => h = k

\* What the holder has read of its actor is true.
StillTrue(h) == tx[h].actor \in Active /\ (tx[h].admin <=> tx[h].actor \in admin)
AuthorityRead == \A h \in Handlers : tx[h].actor # None => StillTrue(h)

\* AdminRemains and AuthorityHolds with what they need to be inductive.
AccessInv == TypeOK /\ OneHolder /\ AuthorityRead /\ AdminRemains

------------------------------------------------------------------------------
LEMMA NotNone == None \notin Members /\ None \notin Groups /\ None \notin Roles /\ Founder \in Members
  BY AccessAssumption DEF Subjects

\* What a step of a handler that holds the lock may write
MemberStep(h) ==
    \E m \in Members, isAdmin \in BOOLEAN :
        \/ AddMember(h, m, isAdmin)
        \/ \E status \in {"active", "suspended"} : UpdateMember(h, m, isAdmin, status)

GroupStep(h) ==
    \E g \in Groups :
        \/ ArchiveGroup(h, g)
        \/ \E p \in Groups \cup {None} : CreateGroup(h, g, p) \/ MoveGroup(h, g, p)
        \/ \E m \in Members : JoinGroup(h, g, m) \/ LeaveGroup(h, g, m)

GrantStep(h) ==
    \/ Takeover(h)
    \/ \E status \in {"active", "archived"} : SetSpaceStatus(h, status)
    \/ \E s \in Subjects :
         RevokeGrant(h, s) \/ \E role \in Roles : CreateSpace(h, s, role) \/ PutGrant(h, s, role)

LEMMA Steps ==
  ASSUME Next
  PROVE  \E h \in Handlers :
            (\E a \in Members : Lock(h, a)) \/ Rollback(h) \/ MemberStep(h) \/ GroupStep(h) \/ GrantStep(h)
  BY DEF Next, MemberStep, GroupStep, GrantStep

\* A step that writes ends its transaction.
LEMMA WriterCommits ==
  ASSUME NEW h \in Handlers, MemberStep(h) \/ GroupStep(h) \/ GrantStep(h)
  PROVE  Commit(h)
  BY DEF MemberStep, GroupStep, GrantStep, AddMember, UpdateMember, ArchiveGroup, CreateGroup, MoveGroup,
         JoinGroup, LeaveGroup, Takeover, RevokeGrant, PutGrant, CreateSpace, SetSpaceStatus, AsAdmin, AsManager

LEMMA GroupsAndGrantsKeepMembers ==
  ASSUME NEW h \in Handlers, GroupStep(h) \/ GrantStep(h)
  PROVE  UNCHANGED <<member, admin>>
  BY DEF GroupStep, GrantStep, ArchiveGroup, CreateGroup, MoveGroup, JoinGroup, LeaveGroup, Takeover,
         RevokeGrant, PutGrant, CreateSpace, SetSpaceStatus

------------------------------------------------------------------------------
(* Types *)

LEMMA MemberStepTyped ==
  ASSUME TypeOK, NEW h \in Handlers, MemberStep(h)
  PROVE  MembersTyped' /\ admin' \subseteq Members /\ GrantsTyped' /\ UNCHANGED <<group, parent, joined>>
<1>1. PICK m \in Members, isAdmin \in BOOLEAN :
        \/ AddMember(h, m, isAdmin)
        \/ \E status \in {"active", "suspended"} : UpdateMember(h, m, isAdmin, status)
  BY DEF MemberStep
<1>2. \E status \in {"active", "suspended"} : member' = [member EXCEPT ![m] = status]
  BY <1>1 DEF AddMember, UpdateMember
<1>3. admin' \in {admin, admin \cup {m}, admin \ {m}} /\ UNCHANGED <<group, parent, joined>>
  BY <1>1 DEF AddMember, UpdateMember
<1>4. (UNCHANGED <<space, grant>>) \/ (space' = "active" /\ grant' = [grant EXCEPT ![m] = "MANAGER"])
  BY <1>1 DEF AddMember, UpdateMember
<1>5. GrantsTyped'
  BY <1>4, AccessAssumption DEF TypeOK, GrantsTyped
<1> QED
  BY <1>2, <1>3, <1>5 DEF TypeOK, MembersTyped

LEMMA GroupStepTyped ==
  ASSUME TypeOK, NEW h \in Handlers, GroupStep(h)
  PROVE  TreeTyped' /\ UNCHANGED <<space, grant>>
<1>1. PICK g \in Groups :
        \/ ArchiveGroup(h, g)
        \/ \E p \in Groups \cup {None} : CreateGroup(h, g, p) \/ MoveGroup(h, g, p)
        \/ \E m \in Members : JoinGroup(h, g, m) \/ LeaveGroup(h, g, m)
  BY DEF GroupStep
<1>2. CASE ArchiveGroup(h, g)
  BY <1>2 DEF ArchiveGroup, ArchivedStatus, TypeOK, TreeTyped
<1>3. ASSUME NEW p \in Groups \cup {None}, CreateGroup(h, g, p) \/ MoveGroup(h, g, p)
      PROVE  TreeTyped' /\ UNCHANGED <<space, grant>>
  BY <1>3 DEF CreateGroup, MoveGroup, TypeOK, TreeTyped
<1>4. ASSUME NEW m \in Members, JoinGroup(h, g, m) \/ LeaveGroup(h, g, m)
      PROVE  TreeTyped' /\ UNCHANGED <<space, grant>>
  BY <1>4 DEF JoinGroup, LeaveGroup, TypeOK, TreeTyped
<1> QED
  BY <1>1, <1>2, <1>3, <1>4

LEMMA GrantStepTyped ==
  ASSUME TypeOK, NEW h \in Handlers, GrantStep(h)
  PROVE  GrantsTyped' /\ UNCHANGED <<group, parent, joined>>
<1>1. ASSUME NEW s \in Subjects, NEW role \in Roles \cup {None}, grant' = [grant EXCEPT ![s] = role]
      PROVE  grant' \in [Subjects -> Roles \cup {None}]
  BY <1>1 DEF TypeOK
<1>2. ASSUME Takeover(h) PROVE grant' \in [Subjects -> Roles \cup {None}]
  <2>1. tx[h].actor \in Subjects /\ "MANAGER" \in Roles
    BY <1>2, AccessAssumption DEF Takeover, AsAdmin, Commit, TypeOK, Subjects
  <2> QED
    BY <1>1, <1>2, <2>1 DEF Takeover
<1>3. ASSUME NEW s \in Subjects, RevokeGrant(h, s) \/ \E role \in Roles : PutGrant(h, s, role)
      PROVE  grant' \in [Subjects -> Roles \cup {None}]
  BY <1>1, <1>3 DEF RevokeGrant, PutGrant
<1>4. ASSUME NEW s \in Subjects, NEW role \in Roles, CreateSpace(h, s, role)
      PROVE  grant' \in [Subjects -> Roles \cup {None}]
  BY <1>4, AccessAssumption DEF CreateSpace, TypeOK
<1>5. ASSUME NEW status \in {"active", "archived"}, SetSpaceStatus(h, status)
      PROVE  GrantsTyped' /\ UNCHANGED <<group, parent, joined>>
  BY <1>5 DEF SetSpaceStatus, GrantsTyped, TypeOK
<1>6. CASE ~ \E status \in {"active", "archived"} : SetSpaceStatus(h, status)
  <2>1. space' \in {space, "active"} /\ UNCHANGED <<group, parent, joined>>
    BY <1>6 DEF GrantStep, Takeover, RevokeGrant, PutGrant, CreateSpace
  <2>2. grant' \in [Subjects -> Roles \cup {None}]
    BY <1>2, <1>3, <1>4, <1>6 DEF GrantStep
  <2> QED
    BY <2>1, <2>2 DEF GrantsTyped, TypeOK
<1> QED
  BY <1>5, <1>6

LEMMA IdleTyped == Idle \in TxState
  BY DEF Idle, TxState

LEMMA ReadTyped == \A a \in Members : [actor |-> a, admin |-> a \in admin] \in TxState
  BY DEF TxState

LEMMA TxUpdated ==
  ASSUME TypeOK, NEW h \in Handlers, NEW w \in TxState, tx' = [tx EXCEPT ![h] = w]
  PROVE  TxTyped'
  BY DEF TypeOK, TxTyped, TxState

LEMMA TypeStep ==
  ASSUME TypeOK, [Next]_vars
  PROVE  TypeOK'
<1>1. CASE UNCHANGED vars
  BY <1>1 DEF vars, TypeOK
<1>2. CASE Next
  <2>1. PICK h \in Handlers :
          (\E a \in Members : Lock(h, a)) \/ Rollback(h) \/ MemberStep(h) \/ GroupStep(h) \/ GrantStep(h)
    BY <1>2, Steps
  <2>2. CASE (\E a \in Members : Lock(h, a)) \/ Rollback(h)
    <3>1. \E w \in TxState : tx' = [tx EXCEPT ![h] = w]
      BY <2>2, IdleTyped, ReadTyped DEF Lock, Rollback, Active
    <3>2. TxTyped'
      BY <3>1, TxUpdated
    <3> QED
      BY <2>2, <3>2 DEF Lock, Rollback, tables, TypeOK, TxTyped, TxState
  <2>3. CASE MemberStep(h) \/ GroupStep(h) \/ GrantStep(h)
    <3>1. TxTyped'
      BY <2>3, WriterCommits, IdleTyped, TxUpdated DEF Commit
    <3>2. MembersTyped' /\ admin' \subseteq Members
      BY <2>3, MemberStepTyped, GroupsAndGrantsKeepMembers DEF TypeOK, MembersTyped
    <3>3. TreeTyped' /\ GrantsTyped'
      BY <2>3, MemberStepTyped, GroupStepTyped, GrantStepTyped DEF TypeOK, TreeTyped, GrantsTyped
    <3> QED
      BY <3>1, <3>2, <3>3 DEF TypeOK, TxTyped, TxState, MembersTyped, TreeTyped, GrantsTyped
  <2> QED
    BY <2>1, <2>2, <2>3
<1> QED
  BY <1>1, <1>2

LEMMA TypeInit == Init => TypeOK
  BY NotNone, AccessAssumption DEF Init, Idle, TypeOK

\* The tables and the transactions hold what they should.
THEOREM TypeCorrect == Spec => []TypeOK
<1> QED
  BY TypeInit, TypeStep, PTL DEF Spec

------------------------------------------------------------------------------
(* The lock *)

LEMMA LockStep ==
  ASSUME AccessInv, NEW h \in Handlers, (\E a \in Members : Lock(h, a)) \/ Rollback(h)
  PROVE  (OneHolder /\ AuthorityRead /\ AdminRemains)'
<1>1. UNCHANGED <<member, admin>>
  BY DEF Lock, Rollback, tables
<1>2. CASE Rollback(h)
  BY <1>1, <1>2 DEF Rollback, AccessInv, TypeOK, OneHolder, AuthorityRead, StillTrue, AdminRemains, Idle, Active
<1>3. ASSUME NEW a \in Members, Lock(h, a)
      PROVE  (OneHolder /\ AuthorityRead /\ AdminRemains)'
  <2>1. \A k \in Handlers \ {h} : tx'[k].actor = None
    BY <1>3 DEF Lock, LockFree, AccessInv, TypeOK
  <2>2. tx'[h] = [actor |-> a, admin |-> a \in admin] /\ a \in Active
    BY <1>3 DEF Lock, AccessInv, TypeOK
  <2>3. tx'[h].actor \in Active /\ (tx'[h].admin <=> tx'[h].actor \in admin)
    <3>1. tx'[h].actor = a
      BY <2>2
    <3>2. tx'[h].admin = (a \in admin)
      BY <2>2
    <3> QED
      BY <2>2, <3>1, <3>2, Zenon
  <2>4. Active' = Active
    BY <1>1 DEF Active
  <2>5. StillTrue(h)'
    BY <1>1, <2>3, <2>4 DEF StillTrue
  <2> QED
    BY <1>1, <2>1, <2>4, <2>5 DEF AccessInv, OneHolder, AuthorityRead, AdminRemains
<1> QED
  BY <1>2, <1>3

\* A commit leaves nobody with the lock, and an admin who can act.
LEMMA CommitStep ==
  ASSUME AccessInv, NEW h \in Handlers, MemberStep(h) \/ GroupStep(h) \/ GrantStep(h)
  PROVE  (OneHolder /\ AuthorityRead /\ AdminRemains)'
<1>1. \A k \in Handlers : tx'[k].actor = None
  BY WriterCommits DEF Commit, Idle, AccessInv, TypeOK, OneHolder
<1>2. AdminRemains'
  <2>1. CASE GroupStep(h) \/ GrantStep(h)
    BY <2>1, GroupsAndGrantsKeepMembers DEF AccessInv, AdminRemains, Active
  <2>2. ASSUME NEW m \in Members, NEW isAdmin \in BOOLEAN, AddMember(h, m, isAdmin)
        PROVE  AdminRemains'
    <3>1. admin \subseteq admin' /\ Active \subseteq Active'
      BY <2>2 DEF AddMember, Active, AccessInv, TypeOK
    <3> QED
      BY <3>1 DEF AccessInv, AdminRemains
  <2>3. ASSUME NEW m \in Members, NEW isAdmin \in BOOLEAN, NEW status \in {"active", "suspended"},
               UpdateMember(h, m, isAdmin, status)
        PROVE  AdminRemains'
    BY <2>3 DEF UpdateMember, AdminLeft, AdminRemains
  <2> QED
    BY <2>1, <2>2, <2>3 DEF MemberStep
<1> QED
  BY <1>1, <1>2 DEF OneHolder, AuthorityRead

LEMMA AccessStep ==
  ASSUME AccessInv, [Next]_vars
  PROVE  AccessInv'
<1>1. TypeOK'
  BY TypeStep DEF AccessInv
<1>2. (OneHolder /\ AuthorityRead /\ AdminRemains)'
  <2>1. CASE UNCHANGED vars
    BY <2>1 DEF vars, AccessInv, OneHolder, AuthorityRead, StillTrue, AdminRemains, Active
  <2>2. CASE Next
    BY <2>2, Steps, LockStep, CommitStep
  <2> QED
    BY <2>1, <2>2
<1> QED
  BY <1>1, <1>2 DEF AccessInv

LEMMA AccessInit == Init => AccessInv
<1> SUFFICES ASSUME Init PROVE OneHolder /\ AuthorityRead /\ AdminRemains
  BY TypeInit DEF AccessInv
<1>1. \A h \in Handlers : tx[h].actor = None
  BY DEF Init, Idle
<1>2. Founder \in admin \cap Active
  BY NotNone DEF Init, Active
<1> QED
  BY <1>1, <1>2 DEF OneHolder, AuthorityRead, AdminRemains

\* A tenant always has an admin who can act.
THEOREM AdminAlwaysRemains == Spec => []AdminRemains
<1>1. AccessInv => AdminRemains
  BY DEF AccessInv
<1> QED
  BY <1>1, AccessInit, AccessStep, PTL DEF Spec

------------------------------------------------------------------------------
(* What a commit relies on *)

\* Who changes anything has, at its commit, the authority that was read for it.
THEOREM AuthorityIsCurrent == Spec => AuthorityHolds
<1>1. AccessInv /\ [Next]_vars =>
        [\A h \in Handlers : tx[h] # Idle /\ tx'[h] = Idle /\ tables' # tables =>
            /\ tx[h].actor \in Active
            /\ tx[h].admin <=> tx[h].actor \in admin]_vars
  <2> SUFFICES ASSUME AccessInv, Next, NEW h \in Handlers,
                      tx[h] # Idle, tx'[h] = Idle, tables' # tables
               PROVE  tx[h].actor \in Active /\ (tx[h].admin <=> tx[h].actor \in admin)
    OBVIOUS
  <2>1. PICK k \in Handlers : MemberStep(k) \/ GroupStep(k) \/ GrantStep(k)
    BY Steps DEF Lock, Rollback, tables
  <2>2. h = k /\ tx[k].actor # None
    BY <2>1, WriterCommits DEF Commit, AccessInv, TypeOK
  <2> QED
    BY <2>2 DEF AccessInv, AuthorityRead, StillTrue
<1> QED
  BY <1>1, AccessInit, AccessStep, PTL DEF Spec, AuthorityHolds

\* Whoever writes grants leaves the space with a manager who can act.
THEOREM ManagerIsKept == Spec => ManagerKept
<1>1. AccessInv /\ AccessInv' /\ [Next]_vars => [grant' # grant => HasManager']_vars
  <2> SUFFICES ASSUME AccessInv, AccessInv', Next, grant' # grant
               PROVE  HasManager'
    OBVIOUS
  <2>1. ASSUME NEW m \in Members, m \in Active', grant'[m] = "MANAGER"
        PROVE  HasManager'
    BY <2>1 DEF HasManager
  <2>2. PICK h \in Handlers : MemberStep(h) \/ GrantStep(h)
    BY Steps, GroupStepTyped DEF Lock, Rollback, tables, AccessInv
  <2>3. tx[h].actor \in Members \cap Active /\ tx[h].actor # Everyone
    BY <2>2, WriterCommits, AccessAssumption DEF Commit, AccessInv, AuthorityRead, StillTrue, Active
  <2>4. CASE MemberStep(h)
    <3>1. PICK m \in Members : /\ member' = [member EXCEPT ![m] = "active"]
                              /\ grant' = [grant EXCEPT ![m] = "MANAGER"]
      BY <2>4 DEF MemberStep, AddMember, UpdateMember
    <3>2. m \in Active' /\ grant'[m] = "MANAGER"
      BY <3>1 DEF Active, AccessInv, TypeOK, Subjects
    <3> QED
      BY <2>1, <3>2
  <2>5. CASE Takeover(h)
    <3>1. tx[h].actor \in Active' /\ grant'[tx[h].actor] = "MANAGER"
      BY <2>3, <2>5 DEF Takeover, Active, Subjects, AccessInv, TypeOK
    <3> QED
      BY <2>1, <2>3, <3>1
  <2>6. ASSUME NEW s \in Subjects, NEW role \in Roles, CreateSpace(h, s, role) PROVE HasManager'
    <3>1. s = tx[h].actor => role = "MANAGER"
      BY <2>3, <2>6, AccessAssumption DEF CreateSpace, ActiveGroups
    <3>2. tx[h].actor \in Active' /\ grant'[tx[h].actor] = "MANAGER"
      BY <2>3, <2>6, <3>1 DEF CreateSpace, Active, Subjects, AccessInv, TypeOK
    <3> QED
      BY <2>1, <2>3, <3>2
  <2>7. ASSUME NEW s \in Subjects, RevokeGrant(h, s) \/ \E role \in Roles : PutGrant(h, s, role)
        PROVE  HasManager'
    BY <2>7 DEF PutGrant, RevokeGrant, ManagerLeft
  <2> QED
    BY <2>2, <2>4, <2>5, <2>6, <2>7 DEF GrantStep, SetSpaceStatus
<1> QED
  BY <1>1, AccessInit, AccessStep, PTL DEF Spec, ManagerKept

------------------------------------------------------------------------------
(* Induction over numbers *)

\* A set of numbers has a least one: the intervals below its members are finite
\* sets, well-founded under inclusion.
LEMMA LeastNumber ==
  ASSUME NEW T, T \subseteq Nat, T # {}
  PROVE  \E n \in T : \A m \in T : n <= m
<1> DEFINE Below == {0..n : n \in T}
<1>1. Below \subseteq FiniteSubsetsOf(Nat)
  <2>1. \A n \in Nat : IsFiniteSet(0..n) /\ 0..n \subseteq Nat
    BY FS_Interval
  <2>2. \A b \in Below : \E n \in Nat : b = 0..n
    OBVIOUS
  <2>3. \A b \in Below : b \in FiniteSubsetsOf(Nat)
    BY <2>1, <2>2 DEF FiniteSubsetsOf
  <2> QED
    BY <2>3
<1>2. PICK b \in Below : \A c \in Below : <<c, b>> \notin StrictSubsetOrdering(Nat)
  <2>1. Below # {}
    OBVIOUS
  <2> HIDE DEF Below
  <2> QED
    BY <1>1, <2>1, FS_StrictSubsetOrderingWellFounded, WFMin
<1>3. PICK n \in T : b = 0..n
  OBVIOUS
<1>4. ASSUME NEW m \in T, m < n PROVE FALSE
  <2>1. n \in Nat /\ m \in Nat
    OBVIOUS
  <2>2. 0..m \subseteq 0..n /\ n \in 0..n /\ n \notin 0..m
    BY <1>4, <2>1
  <2>3. 0..m \in SUBSET Nat /\ 0..n \in SUBSET Nat /\ 0..m # 0..n
    BY <2>1, <2>2
  <2>4. <<0..m, 0..n>> \in StrictSubsetOrdering(Nat)
    BY <2>2, <2>3 DEF StrictSubsetOrdering
  <2>5. 0..m \in Below
    OBVIOUS
  <2> QED
    BY <1>2, <1>3, <2>4, <2>5
<1> QED
  BY <1>4

\* Induction, for a set of numbers
LEMMA AllNumbers ==
  ASSUME NEW T, 0 \in T, \A n \in Nat : n \in T => n + 1 \in T
  PROVE  Nat \subseteq T
<1> SUFFICES ASSUME Nat \ T # {} PROVE FALSE
  OBVIOUS
<1>1. PICK n \in Nat \ T : \A m \in Nat \ T : n <= m
  BY LeastNumber
<1>2. n - 1 \in Nat /\ n - 1 \in T
  BY <1>1
<1> QED
  BY <1>2

\* f starts at a and goes on by G, n times.
Computes(f, a, G, n) == f[0] = a /\ \A i \in 1..n : f[i] = G[<<i, f[i - 1]>>]

\* A recursion by steps defines a function.
LEMMA Recursion ==
  \A S : \A a \in S, G \in [Nat \X S -> S], n \in Nat : \E f \in [0..n -> S] : Computes(f, a, G, n)
<1> SUFFICES ASSUME NEW S, NEW a \in S, NEW G \in [Nat \X S -> S], NEW n \in Nat
             PROVE  \E f \in [0..n -> S] : Computes(f, a, G, n)
  OBVIOUS
<1> DEFINE T == {k \in Nat : \E f \in [0..k -> S] : Computes(f, a, G, k)}
<1>1. 0 \in T
  <2>1. [i \in 0..0 |-> a] \in [0..0 -> S] /\ Computes([i \in 0..0 |-> a], a, G, 0)
    BY DEF Computes
  <2> QED
    BY <2>1
<1>2. ASSUME NEW k \in Nat, k \in T PROVE k + 1 \in T
  <2>1. PICK f \in [0..k -> S] : Computes(f, a, G, k)
    BY <1>2
  <2>2. G[<<k + 1, f[k]>>] \in S
    OBVIOUS
  <2> DEFINE g == [i \in 0..(k + 1) |-> IF i = k + 1 THEN G[<<k + 1, f[k]>>] ELSE f[i]]
  <2>3. g \in [0..(k + 1) -> S]
    <3>1. ASSUME NEW i \in 0..(k + 1) PROVE g[i] \in S
      <4>1. i = k + 1 \/ i \in 0..k
        OBVIOUS
      <4> QED
        BY <2>2, <4>1
    <3> QED
      BY <3>1
  <2>4. g[k + 1] = G[<<k + 1, f[k]>>] /\ \A i \in 0..k : g[i] = f[i]
    OBVIOUS
  <2> HIDE DEF g
  <2>5. ASSUME NEW i \in 1..(k + 1) PROVE g[i] = G[<<i, g[i - 1]>>]
    <3>1. CASE i = k + 1
      <4>1. i - 1 = k /\ k \in 0..k
        BY <3>1
      <4> QED
        BY <2>4, <3>1, <4>1
    <3>2. CASE i # k + 1
      <4>1. i \in 1..k /\ i \in 0..k /\ i - 1 \in 0..k
        BY <3>2
      <4> QED
        BY <2>1, <2>4, <4>1 DEF Computes
    <3> QED
      BY <3>1, <3>2
  <2>6. g[0] = a
    BY <2>1, <2>4 DEF Computes
  <2>7. Computes(g, a, G, k + 1)
    BY <2>5, <2>6 DEF Computes
  <2> QED
    BY <2>3, <2>7
<1> HIDE DEF T
<1>3. n \in T
  BY <1>1, <1>2, AllNumbers
<1> QED
  BY <1>3 DEF T

------------------------------------------------------------------------------
(* What a recursion up the tree finds *)

\* Both recursions of the model: parents are added as long as they are in limit.
Climb(par, start, limit) ==
    LET up[n \in 0..Cardinality(Groups)] ==
            IF n = 0 THEN start \cap limit
            ELSE up[n - 1] \cup ({par[g] : g \in up[n - 1]} \cap limit)
    IN up[Cardinality(Groups)]

Closed(par, C, limit) == \A g \in C : par[g] \in limit => par[g] \in C

LEMMA GroupCount == IsFiniteSet(Groups) /\ Cardinality(Groups) \in Nat
  BY AccessAssumption, FS_CardinalityType

\* The sets of the rounds of a recursion
Rounds(up, par, start, limit) ==
    /\ up[0] = start \cap limit
    /\ \A i \in 1..Cardinality(Groups) : up[i] = up[i - 1] \cup ({par[g] : g \in up[i - 1]} \cap limit)

\* The recursion has the values that its definition says.
LEMMA ClimbRecursion ==
  ASSUME NEW par, NEW start, NEW limit \in SUBSET Groups
  PROVE  \E up \in [0..Cardinality(Groups) -> SUBSET limit] :
            Rounds(up, par, start, limit) /\ Climb(par, start, limit) = up[Cardinality(Groups)]
<1> DEFINE N == Cardinality(Groups)
           add == [w \in Nat \X SUBSET limit |-> w[2] \cup ({par[g] : g \in w[2]} \cap limit)]
           Is(f) == f = [n \in 0..N |-> IF n = 0 THEN start \cap limit
                                        ELSE f[n - 1] \cup ({par[g] : g \in f[n - 1]} \cap limit)]
<1>1. N \in Nat
  BY GroupCount
<1>2. \A n \in Nat, v \in SUBSET limit :
        add[<<n, v>>] = v \cup ({par[g] : g \in v} \cap limit) /\ add[<<n, v>>] \in SUBSET limit
  OBVIOUS
<1> HIDE DEF add, N
<1>3. PICK f \in [0..N -> SUBSET limit] :
        f[0] = start \cap limit /\ \A i \in 1..N : f[i] = add[<<i, f[i - 1]>>]
  <2> DEFINE S == SUBSET limit
             a == start \cap limit
  <2>1. a \in S
    OBVIOUS
  <2>2. add \in [Nat \X S -> S]
    BY <1>2 DEF add
  <2> HIDE DEF S, a
  <2>3. \E f \in [0..N -> S] : Computes(f, a, add, N)
    BY <1>1, <2>1, <2>2, Recursion
  <2> QED
    BY <2>3 DEF Computes, S, a
<1>4. Is(f)
  <2>1. ASSUME NEW n \in 0..N
        PROVE  f[n] = IF n = 0 THEN start \cap limit
                      ELSE f[n - 1] \cup ({par[g] : g \in f[n - 1]} \cap limit)
    <3>1. CASE n = 0
      BY <1>3, <3>1
    <3>2. CASE n # 0
      <4>1. n \in 1..N /\ n \in Nat /\ n - 1 \in 0..N
        BY <1>1, <3>2
      <4>2. f[n - 1] \in SUBSET limit
        BY <1>3, <4>1
      <4>3. f[n] = add[<<n, f[n - 1]>>]
        BY <1>3, <4>1
      <4>4. add[<<n, f[n - 1]>>] = f[n - 1] \cup ({par[g] : g \in f[n - 1]} \cap limit)
        BY <1>2, <4>1, <4>2
      <4> QED
        BY <3>2, <4>3, <4>4
    <3> QED
      BY <3>1, <3>2
  <2> QED
    BY <2>1
<1>5. PICK up : Is(up) /\ Climb(par, start, limit) = up[N]
  <2> DEFINE Up == CHOOSE g : Is(g)
  <2>1. Is(Up)
    BY <1>4
  <2>2. Climb(par, start, limit) = Up[N]
    BY DEF Climb, N
  <2> QED
    BY <2>1, <2>2
<1>6. /\ up[0] = start \cap limit
      /\ \A i \in 1..N : up[i] = up[i - 1] \cup ({par[g] : g \in up[i - 1]} \cap limit)
  BY <1>1, <1>5
<1>7. \A n \in 0..N : up[n] \in SUBSET limit
  <2> DEFINE T == {n \in Nat : n <= N => up[n] \in SUBSET limit}
  <2>1. 0 \in T
    BY <1>6
  <2>2. ASSUME NEW n \in Nat, n \in T PROVE n + 1 \in T
    <3>1. CASE n + 1 <= N
      <4>1. n + 1 \in 1..N /\ n <= N /\ (n + 1) - 1 = n
        BY <1>1, <3>1
      <4> QED
        BY <1>6, <2>2, <4>1
    <3> QED
      BY <3>1
  <2> HIDE DEF T
  <2>3. Nat \subseteq T
    BY <2>1, <2>2, AllNumbers
  <2> QED
    BY <1>1, <2>3 DEF T
<1>8. up \in [0..N -> SUBSET limit]
  <2>1. up = [n \in 0..N |-> up[n]]
    BY <1>5
  <2> QED
    BY <1>7, <2>1
<1> QED
  BY <1>5, <1>6, <1>8 DEF N, Rounds

\* What a recursion finds is the least set that holds the start and, with a
\* group, its parent; Cardinality(Groups) rounds are enough, because a round
\* that adds nothing is the last to add anything.
LEMMA ClimbLeast ==
  ASSUME NEW par, NEW start, NEW limit \in SUBSET Groups
  PROVE  /\ start \cap limit \subseteq Climb(par, start, limit)
         /\ Climb(par, start, limit) \subseteq limit
         /\ Closed(par, Climb(par, start, limit), limit)
         /\ \A C : start \cap limit \subseteq C /\ Closed(par, C, limit) => Climb(par, start, limit) \subseteq C
<1> DEFINE N == Cardinality(Groups)
<1>1. N \in Nat /\ IsFiniteSet(Groups)
  BY GroupCount
<1>0. PICK up \in [0..N -> SUBSET limit] : Rounds(up, par, start, limit) /\ Climb(par, start, limit) = up[N]
  BY ClimbRecursion
<1>2. /\ up[0] = start \cap limit
      /\ \A i \in 1..N : up[i] = up[i - 1] \cup ({par[g] : g \in up[i - 1]} \cap limit)
  BY <1>0 DEF Rounds
<1> HIDE DEF N
<1>3. \A n \in Nat : n + 1 <= N =>
        up[n + 1] = up[n] \cup ({par[g] : g \in up[n]} \cap limit) /\ up[n] \in SUBSET limit
              /\ up[n + 1] \in SUBSET limit
  <2> SUFFICES ASSUME NEW n \in Nat, n + 1 <= N
               PROVE  /\ up[n + 1] = up[n] \cup ({par[g] : g \in up[n]} \cap limit)
                      /\ up[n] \in SUBSET limit /\ up[n + 1] \in SUBSET limit
    OBVIOUS
  <2>1. n + 1 \in 1..N /\ n \in 0..N /\ n + 1 \in 0..N /\ (n + 1) - 1 = n
    BY <1>1
  <2> QED
    BY <1>2, <2>1
<1>4. \A n \in Nat : n <= N => start \cap limit \subseteq up[n]
  <2> DEFINE T == {n \in Nat : n <= N => start \cap limit \subseteq up[n]}
  <2>1. 0 \in T
    BY <1>2
  <2>2. ASSUME NEW n \in Nat, n \in T PROVE n + 1 \in T
    <3>1. n + 1 <= N => n <= N
      BY <1>1
    <3> QED
      BY <1>3, <2>2, <3>1
  <2> HIDE DEF T
  <2>3. Nat \subseteq T
    BY <2>1, <2>2, AllNumbers
  <2> QED
    BY <2>3 DEF T
<1>5. ASSUME NEW C, start \cap limit \subseteq C, Closed(par, C, limit)
      PROVE  up[N] \subseteq C
  <2> DEFINE T == {n \in Nat : n <= N => up[n] \subseteq C}
  <2>1. 0 \in T
    BY <1>2, <1>5
  <2>2. ASSUME NEW n \in Nat, n \in T PROVE n + 1 \in T
    <3>1. n + 1 <= N => n <= N
      BY <1>1
    <3> QED
      BY <1>3, <1>5, <2>2, <3>1 DEF Closed
  <2> HIDE DEF T
  <2>3. Nat \subseteq T
    BY <2>1, <2>2, AllNumbers
  <2> QED
    BY <1>1, <2>3 DEF T
<1>6. Closed(par, up[N], limit)
  <2> DEFINE T == {n \in Nat : n <= N => Closed(par, up[n], limit) \/ Cardinality(up[n]) >= n}
  <2>0. \A n \in Nat : n <= N => IsFiniteSet(up[n]) /\ Cardinality(up[n]) \in Nat /\ up[n] \in SUBSET Groups
    <3> SUFFICES ASSUME NEW n \in Nat, n <= N
                 PROVE  IsFiniteSet(up[n]) /\ Cardinality(up[n]) \in Nat /\ up[n] \in SUBSET Groups
      OBVIOUS
    <3>1. up[n] \in SUBSET Groups
      BY <1>1, <1>2
    <3> QED
      BY <1>1, <3>1, FS_Subset, FS_CardinalityType
  <2>1. 0 \in T
    BY <1>1, <2>0
  <2>2. ASSUME NEW n \in Nat, n \in T PROVE n + 1 \in T
    <3> SUFFICES ASSUME n + 1 <= N, ~Closed(par, up[n + 1], limit)
                 PROVE  Cardinality(up[n + 1]) >= n + 1
      OBVIOUS
    <3>1. n <= N /\ n + 1 \in Nat
      BY <1>1
    <3>2. up[n + 1] # up[n] /\ up[n] \in SUBSET up[n + 1] /\ ~Closed(par, up[n], limit)
      BY <1>3 DEF Closed
    <3>3. Cardinality(up[n]) >= n
      BY <2>2, <3>1, <3>2
    <3>4. Cardinality(up[n]) <= Cardinality(up[n + 1]) /\ Cardinality(up[n]) # Cardinality(up[n + 1])
      BY <2>0, <3>1, <3>2, FS_Subset
    <3> QED
      BY <2>0, <3>1, <3>3, <3>4
  <2> HIDE DEF T
  <2>3. N \in T
    BY <1>1, <2>1, <2>2, AllNumbers
  <2>4. CASE Cardinality(up[N]) >= N
    <3>1. up[N] = Groups
      <4>1. up[N] \in SUBSET Groups /\ Cardinality(up[N]) \in Nat
        BY <1>1, <2>0
      <4>2. Cardinality(up[N]) <= N
        BY <1>1, <4>1, FS_Subset DEF N
      <4>3. Cardinality(up[N]) = Cardinality(Groups)
        BY <1>1, <2>4, <4>1, <4>2 DEF N
      <4> QED
        BY <1>1, <4>1, <4>3, FS_Subset
    <3> QED
      BY <3>1 DEF Closed
  <2> QED
    BY <1>1, <2>3, <2>4 DEF T
<1>7. up[N] \subseteq limit
  BY <1>1, <1>2
<1> QED
  BY <1>0, <1>1, <1>4, <1>5, <1>6, <1>7

LEMMA UpwardsClimbs == \A start : Upwards(start) = Climb(parent, start, ActiveGroups)
  BY DEF Upwards, Climb

LEMMA AncestorsClimb == \A p : AncestorsFrom(p) = Climb(parent, {p}, Groups)
  BY DEF AncestorsFrom, Climb

------------------------------------------------------------------------------
(* The two ways of finding a manager *)

\* What is climbed from all active members at once is what each of them climbs.
LEMMA EligibleByMember ==
  ASSUME TypeOK
  PROVE  EligibleGroups = UNION {MemberGroups(m) : m \in Active}
<1> DEFINE joint(m) == {g \in Groups : m \in joined[g]}
           start == {g \in Groups : joined[g] \cap Active # {}}
           C(m) == Climb(parent, joint(m), ActiveGroups)
           U == UNION {C(m) : m \in Active}
           all == Climb(parent, start, ActiveGroups)
<1>0. ActiveGroups \in SUBSET Groups
  BY DEF ActiveGroups
<1>1. \A g : g \in start <=> \E m \in Active : g \in joint(m)
  OBVIOUS
<1> HIDE DEF joint, start
<1>2. \A m \in Active : /\ joint(m) \cap ActiveGroups \subseteq C(m)
                        /\ Closed(parent, C(m), ActiveGroups)
  BY <1>0, ClimbLeast
<1>3. start \cap ActiveGroups \subseteq all /\ Closed(parent, all, ActiveGroups)
  BY <1>0, ClimbLeast
<1>4. all \subseteq U
  <2>1. start \cap ActiveGroups \subseteq U
    BY <1>1, <1>2
  <2>2. Closed(parent, U, ActiveGroups)
    BY <1>2 DEF Closed
  <2> HIDE DEF U
  <2> QED
    BY <1>0, <2>1, <2>2, ClimbLeast
<1>5. ASSUME NEW m \in Active PROVE C(m) \subseteq all
  <2>1. joint(m) \cap ActiveGroups \subseteq all
    BY <1>1, <1>3
  <2> HIDE DEF all
  <2> QED
    BY <1>0, <1>3, <2>1, ClimbLeast
<1>6. all = U
  BY <1>4, <1>5
<1>7. EligibleGroups = all
  BY UpwardsClimbs DEF EligibleGroups, start
<1>8. \A m \in Active : MemberGroups(m) = C(m)
  BY UpwardsClimbs DEF MemberGroups, joint
<1> QED
  BY <1>6, <1>7, <1>8

\* A grant of MANAGER is the highest there is.
LEMMA ManagerRanksHighest ==
  \A r \in Roles \cup {None} : /\ Rank[r] \in 0..3
                               /\ Rank["MANAGER"] = 3
                               /\ Rank[r] >= 3 => r = "MANAGER"
<1>1. "MANAGER" \in Roles /\ \A r \in Roles : r \in {"VIEWER", "EDITOR", "MANAGER"}
  BY AccessAssumption
<1>2. ASSUME NEW r \in Roles \cup {None}
      PROVE  Rank[r] = CASE r = "VIEWER" -> 1 [] r = "EDITOR" -> 2 [] r = "MANAGER" -> 3 [] OTHER -> 0
  BY DEF Rank
<1> QED
  BY <1>1, <1>2

\* A member manages exactly if one of the grants that reach him is of a manager.
LEMMA ManagerByGrant ==
  ASSUME TypeOK, NEW m \in Members
  PROVE  EffectiveRole(m) = "MANAGER" <=> \E s \in MatchedGrants(m) : grant[s] = "MANAGER"
<1> DEFINE M == MatchedGrants(m)
           best == {s \in M : \A v \in M : Rank[grant[s]] >= Rank[grant[v]]}
<1>1. \A s \in M : s \in Subjects /\ grant[s] \in Roles \cup {None}
  <2>1. MemberGroups(m) \subseteq Groups
    <3>1. ActiveGroups \in SUBSET Groups
      BY DEF ActiveGroups
    <3> QED
      BY <3>1, UpwardsClimbs, ClimbLeast DEF MemberGroups
  <2> QED
    BY <2>1 DEF MatchedGrants, Subjects, TypeOK
<1>2. None # "MANAGER"
  BY AccessAssumption
<1>3. EffectiveRole(m) = IF best = {} THEN None ELSE grant[CHOOSE s \in best : TRUE]
  BY DEF EffectiveRole
<1>4. ASSUME best # {} PROVE (CHOOSE s \in best : TRUE) \in best
  BY <1>4
<1>5. ASSUME NEW s \in M, grant[s] = "MANAGER" PROVE EffectiveRole(m) = "MANAGER"
  <2>1. s \in best
    BY <1>1, <1>5, ManagerRanksHighest
  <2> DEFINE c == CHOOSE v \in best : TRUE
  <2>2. c \in best
    BY <2>1, <1>4
  <2>3. c \in M /\ Rank[grant[c]] >= Rank[grant[s]]
    BY <1>5, <2>2
  <2> HIDE DEF c
  <2>4. grant[c] = "MANAGER"
    BY <1>1, <1>5, <2>3, ManagerRanksHighest
  <2> QED
    BY <1>3, <2>1, <2>4 DEF c
<1>6. ASSUME EffectiveRole(m) = "MANAGER" PROVE \E s \in M : grant[s] = "MANAGER"
  BY <1>2, <1>3, <1>4, <1>6
<1> QED
  BY <1>5, <1>6

\* The last-manager check and the resolution of roles agree, whatever the tree:
\* what the check climbs from all active members at once is what the members
\* climb one by one.
THEOREM ManagerIsAgreed == Spec => []ManagersAgree
<1>1. AccessInv => ManagersAgree
  <2> SUFFICES ASSUME AccessInv PROVE ManagersAgree
    OBVIOUS
  <2> USE DEF AccessInv
  <2>1. \A m \in Active : m \in Members
    BY DEF Active
  <2>2. ASSUME NEW s \in {Everyone} \cup EligibleGroups \cup Active, grant[s] = "MANAGER"
        PROVE  \E m \in Active : s \in MatchedGrants(m)
    <3>1. None # "MANAGER"
      BY AccessAssumption
    <3>2. CASE s = Everyone
      BY <2>2, <3>1, <3>2 DEF AdminRemains, MatchedGrants
    <3>3. CASE s \in Active
      BY <2>2, <3>1, <3>3 DEF MatchedGrants
    <3>4. CASE s \in EligibleGroups
      BY <2>2, <3>1, <3>4, EligibleByMember DEF MatchedGrants
    <3> QED
      BY <2>2, <3>2, <3>3, <3>4
  <2>3. ASSUME NEW m \in Members, NEW s \in MatchedGrants(m), grant[s] = "MANAGER"
        PROVE  HasManager
    <3>1. m \in Active /\ s \in {Everyone, m} \cup MemberGroups(m)
      BY <2>3 DEF MatchedGrants
    <3>2. MemberGroups(m) \subseteq EligibleGroups
      BY <3>1, EligibleByMember
    <3> QED
      BY <2>3, <3>1, <3>2 DEF HasManager
  <2>4. HasManager => \E m \in Members : EffectiveRole(m) = "MANAGER"
    BY <2>1, <2>2, ManagerByGrant DEF HasManager
  <2> QED
    BY <2>3, <2>4, ManagerByGrant DEF ManagersAgree
<1> QED
  BY <1>1, AccessInit, AccessStep, PTL DEF Spec

------------------------------------------------------------------------------
(* The forest *)

Above(par, p) == Climb(par, {p}, Groups)
Forest(par) == \A g \in Groups : par[g] # None => g \notin Above(par, par[g])
ParentsExist == \A g \in Groups : parent[g] # None => group[parent[g]] # "none"

\* GroupForest with what it needs to be inductive: a group that does not exist
\* yet is nobody's parent.
TreeInv == TypeOK /\ GroupForest /\ ParentsExist

LEMMA AboveLeast ==
  ASSUME NEW par, NEW p
  PROVE  /\ p \in Groups => p \in Above(par, p)
         /\ Above(par, p) \subseteq Groups
         /\ Closed(par, Above(par, p), Groups)
         /\ \A C : (p \in Groups => p \in C) /\ Closed(par, C, Groups) => Above(par, p) \subseteq C
<1>1. Groups \in SUBSET Groups
  OBVIOUS
<1>2. /\ {p} \cap Groups \subseteq Climb(par, {p}, Groups)
      /\ Climb(par, {p}, Groups) \subseteq Groups
      /\ Closed(par, Climb(par, {p}, Groups), Groups)
      /\ \A C : {p} \cap Groups \subseteq C /\ Closed(par, C, Groups) => Climb(par, {p}, Groups) \subseteq C
  BY <1>1, ClimbLeast
<1>3. ASSUME NEW C, p \in Groups => p \in C PROVE {p} \cap Groups \subseteq C
  BY <1>3
<1> QED
  BY <1>2, <1>3 DEF Above

\* A group may be hung below any that is not below it: what was above the
\* others is still above them, or they are above what it hangs from as well.
LEMMA ForestReparented ==
  ASSUME NEW par \in [Groups -> Groups \cup {None}], Forest(par),
         NEW g \in Groups, NEW p \in Groups \cup {None}, g \notin Above(par, p),
         NEW after, after = [par EXCEPT ![g] = p]
  PROVE  Forest(after)
<1>1. after \in [Groups -> Groups \cup {None}] /\ after[g] = p /\ \A c \in Groups \ {g} : after[c] = par[c]
  OBVIOUS
<1>2. ASSUME NEW C \in SUBSET Groups, Closed(par, C, Groups), g \in C => (p \in Groups => p \in C)
      PROVE  Closed(after, C, Groups)
  BY <1>1, <1>2 DEF Closed
<1> SUFFICES ASSUME NEW c \in Groups, after[c] # None
             PROVE  c \notin Above(after, after[c])
  BY DEF Forest
<1> DEFINE A == Above(par, p)
           B == Above(par, par[c])
<1>3. /\ A \in SUBSET Groups /\ Closed(par, A, Groups) /\ (p \in Groups => p \in A)
      /\ B \in SUBSET Groups /\ Closed(par, B, Groups) /\ (par[c] \in Groups => par[c] \in B)
  BY AboveLeast
<1>4. ASSUME c \in A, par[c] \in Groups PROVE B \subseteq A
  <2>1. par[c] \in A
    BY <1>3, <1>4 DEF Closed
  <2> HIDE DEF A
  <2> QED
    BY <1>3, <2>1, AboveLeast
<1> HIDE DEF A, B
<1>5. CASE c = g
  <2>1. Closed(after, A, Groups) /\ g \notin A
    BY <1>2, <1>3 DEF A
  <2>2. Above(after, after[c]) \subseteq A
    BY <1>1, <1>3, <1>5, <2>1, AboveLeast
  <2> QED
    BY <1>5, <2>1, <2>2
<1>6. CASE c # g /\ g \notin B
  <2>1. Closed(after, B, Groups) /\ after[c] = par[c]
    BY <1>1, <1>2, <1>3, <1>6
  <2>2. c \notin B
    BY <1>1, <1>6 DEF Forest, B
  <2>3. Above(after, after[c]) \subseteq B
    BY <1>3, <2>1, AboveLeast
  <2> QED
    BY <2>2, <2>3
<1>7. CASE c # g /\ g \in B
  <2>1. after[c] = par[c] /\ par[c] \in Groups
    BY <1>1, <1>7
  <2>2. c \notin A /\ c \notin B
    BY <1>1, <1>4, <1>7, <2>1 DEF Forest, A, B
  <2>3. Closed(par, A \cup B, Groups) /\ A \cup B \in SUBSET Groups
    BY <1>3 DEF Closed
  <2>4. Closed(after, A \cup B, Groups)
    BY <1>2, <1>3, <2>3
  <2>5. Above(after, after[c]) \subseteq A \cup B
    BY <1>3, <2>1, <2>4, AboveLeast
  <2> QED
    BY <2>2, <2>5
<1> QED
  BY <1>5, <1>6, <1>7

LEMMA ForestIsPart ==
  /\ (\A g \in Groups : parent[g] # None => g \notin AncestorsFrom(parent[g])) <=> Forest(parent)
  /\ (\A g \in Groups : parent[g] # None => g \notin AncestorsFrom(parent[g]))' <=> Forest(parent')
<1>1. \A p : AncestorsFrom(p) = Above(parent, p)
  BY DEF AncestorsFrom, Above, Climb
<1>2. \A p : AncestorsFrom(p)' = Above(parent', p)
  BY DEF AncestorsFrom, Above, Climb
<1>3. \A g \in Groups : AncestorsFrom(parent[g])' = Above(parent', parent'[g])
  BY DEF AncestorsFrom, Above, Climb
<1> QED
  BY <1>1, <1>3 DEF Forest

LEMMA TreeInit == Init => TreeInv
<1> SUFFICES ASSUME Init PROVE GroupForest /\ ParentsExist
  BY TypeInit DEF TreeInv
<1>1. \A g \in Groups : parent[g] = None /\ group[g] = "none"
  BY DEF Init
<1> QED
  BY <1>1 DEF GroupForest, ParentsExist, ValidParent, ActiveGroups

\* What a step of the tree must establish
LEMMA TreeByParts ==
  ASSUME TypeOK', Forest(parent'), (\A g \in ActiveGroups : ValidParent(parent[g]))', ParentsExist'
  PROVE  TreeInv'
  BY ForestIsPart DEF TreeInv, GroupForest

\* A parent that may be chosen is an active group, so it was there before.
LEMMA TreeGrows ==
  ASSUME TreeInv, TypeOK', NEW g \in Groups, NEW p \in Groups \cup {None}, ValidParent(p),
         g \notin Above(parent, p), parent' = [parent EXCEPT ![g] = p],
         \/ group' = [group EXCEPT ![g] = "active"]
         \/ UNCHANGED group
  PROVE  TreeInv'
<1> USE DEF TreeInv
<1>1. Forest(parent')
  <2>1. Forest(parent) /\ parent \in [Groups -> Groups \cup {None}]
    BY ForestIsPart DEF GroupForest, TypeOK
  <2> QED
    BY <2>1, ForestReparented
<1>2. ActiveGroups \subseteq ActiveGroups' /\ ActiveGroups' \subseteq ActiveGroups \cup {g}
  BY DEF ActiveGroups, TypeOK
<1>3. \A c \in Groups : parent'[c] = IF c = g THEN p ELSE parent[c]
  BY DEF TypeOK
<1>4. \A c \in Groups : group'[c] = group[c] \/ group'[c] = "active"
  BY DEF TypeOK
<1>5. (\A c \in ActiveGroups : ValidParent(parent[c]))'
  BY <1>2, <1>3 DEF GroupForest, ValidParent
<1>6. ParentsExist'
  <2>1. p # None => group[p] # "none"
    BY DEF ValidParent, ActiveGroups
  <2> QED
    BY <1>3, <1>4, <2>1 DEF ParentsExist, TypeOK
<1> QED
  BY <1>1, <1>5, <1>6, TreeByParts

\* A group that does not exist is above nothing that does.
LEMMA NothingBelowNew ==
  ASSUME TreeInv, NEW g \in Groups, group[g] = "none", NEW p \in Groups \cup {None}, ValidParent(p)
  PROVE  g \notin Above(parent, p)
<1> DEFINE known == {c \in Groups : group[c] # "none"}
<1>1. Closed(parent, known, Groups)
  BY NotNone DEF Closed, TreeInv, ParentsExist
<1>2. p \in Groups => p \in known
  BY NotNone DEF ValidParent, ActiveGroups
<1>3. Above(parent, p) \subseteq known
  <2> HIDE DEF known
  <2> QED
    BY <1>1, <1>2, AboveLeast
<1> QED
  BY <1>3

LEMMA TreeStep == TreeInv /\ [Next]_vars => TreeInv'
<1> SUFFICES ASSUME TreeInv, [Next]_vars PROVE TreeInv'
  OBVIOUS
<1>0. TypeOK'
  BY TypeStep DEF TreeInv
<1>1. CASE UNCHANGED <<group, parent>>
  <2>1. Forest(parent')
    BY <1>1, ForestIsPart DEF TreeInv, GroupForest
  <2>2. (\A g \in ActiveGroups : ValidParent(parent[g]))'
    BY <1>1 DEF TreeInv, GroupForest, ActiveGroups, ValidParent
  <2>3. ParentsExist'
    BY <1>1 DEF TreeInv, ParentsExist
  <2> QED
    BY <1>0, <2>1, <2>2, <2>3, TreeByParts
<1>2. ASSUME NEW h \in Handlers, NEW g \in Groups, ArchiveGroup(h, g) PROVE TreeInv'
  <2>1. /\ g \in ActiveGroups /\ \A c \in ActiveGroups : parent[c] # g
        /\ group' = [group EXCEPT ![g] = "archived"] /\ parent' = parent
    BY <1>2 DEF ArchiveGroup, ArchivedStatus
  <2>2. ActiveGroups' = ActiveGroups \ {g}
    BY <2>1 DEF ActiveGroups, TreeInv, TypeOK
  <2>3. Forest(parent')
    BY <2>1, ForestIsPart DEF TreeInv, GroupForest
  <2>4. (\A c \in ActiveGroups : ValidParent(parent[c]))'
    BY <2>1, <2>2 DEF TreeInv, GroupForest, ValidParent
  <2>5. ParentsExist'
    BY <2>1 DEF TreeInv, ParentsExist, TypeOK
  <2> QED
    BY <1>0, <2>3, <2>4, <2>5, TreeByParts
<1>3. ASSUME NEW h \in Handlers, NEW g \in Groups, NEW p \in Groups \cup {None}, CreateGroup(h, g, p)
      PROVE  TreeInv'
  BY <1>0, <1>3, NothingBelowNew, TreeGrows DEF CreateGroup
<1>4. ASSUME NEW h \in Handlers, NEW g \in Groups, NEW p \in Groups \cup {None}, MoveGroup(h, g, p)
      PROVE  TreeInv'
  <2>1. g \notin Above(parent, p)
    BY <1>4, AncestorsClimb DEF MoveGroup, NoCycle, Above
  <2> QED
    BY <1>0, <1>4, <2>1, TreeGrows DEF MoveGroup
<1>5. CASE UNCHANGED vars
  BY <1>1, <1>5 DEF vars
<1>6. CASE Next
  <2>1. PICK h \in Handlers :
          (\E a \in Members : Lock(h, a)) \/ Rollback(h) \/ MemberStep(h) \/ GroupStep(h) \/ GrantStep(h)
    BY <1>6, Steps
  <2>2. CASE (\E a \in Members : Lock(h, a)) \/ Rollback(h)
    BY <1>1, <2>2 DEF Lock, Rollback, tables
  <2>3. CASE MemberStep(h) \/ GrantStep(h)
    BY <1>1, <2>3, MemberStepTyped, GrantStepTyped DEF TreeInv
  <2>4. CASE GroupStep(h)
    <3>1. ASSUME NEW g \in Groups, NEW m \in Members, JoinGroup(h, g, m) \/ LeaveGroup(h, g, m)
          PROVE  TreeInv'
      BY <1>1, <3>1 DEF JoinGroup, LeaveGroup
    <3> QED
      BY <1>2, <1>3, <1>4, <2>4, <3>1 DEF GroupStep
  <2> QED
    BY <2>1, <2>2, <2>3, <2>4
<1> QED
  BY <1>5, <1>6

\* However groups are created, moved and archived, no group is its own ancestor
\* and an active group has an active parent or none.
THEOREM GroupsAreForest == Spec => []GroupForest
<1>1. TreeInv => GroupForest
  BY DEF TreeInv
<1> QED
  BY <1>1, TreeInit, TreeStep, PTL DEF Spec
=============================================================================
