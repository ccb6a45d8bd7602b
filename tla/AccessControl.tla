--------------------------- MODULE AccessControl ---------------------------
(***************************************************************************)
(* Members, groups and one space of a tenant with its grants, as the       *)
(* organization administration changes them.  Every mutation is one        *)
(* transaction that locks the tenants row, reads the authority of its      *)
(* actor, and only then checks and writes: two steps here, so that what    *)
(* the lock is for can go wrong.  What resolves a member's role while a    *)
(* request is served reads the same tables.  users.is_active, which no     *)
(* code changes, names and audit rows are left out.                        *)
(***************************************************************************)
EXTENDS Naturals, FiniteSets

CONSTANTS
    Members,     \* tenant_memberships
    Groups,
    Everyone,    \* the subject of a TENANT grant
    Roles,       \* the roles in use, of VIEWER, EDITOR and MANAGER
    Handlers,    \* requests under way
    Founder,     \* the tenant's first admin
    None         \* no parent, no role, no actor

Subjects == {Everyone} \cup Groups \cup Members
Rank == [r \in Roles \cup {None} |->
            CASE r = "VIEWER" -> 1 [] r = "EDITOR" -> 2 [] r = "MANAGER" -> 3 [] OTHER -> 0]

ASSUME AccessAssumption ==
    /\ Founder \in Members
    /\ {"VIEWER", "MANAGER"} \subseteq Roles /\ Roles \subseteq {"VIEWER", "EDITOR", "MANAGER"}
    /\ Members \cap Groups = {} /\ Everyone \notin Groups \cup Members
    /\ None \notin Subjects \cup Roles
    /\ IsFiniteSet(Groups)

VARIABLES
    member,      \* member[m]: status of the membership, or none
    admin,       \* the memberships whose role is TENANT_ADMIN
    group,       \* group[g]: status of the group, or none
    parent,      \* parent[g]: parent_group_id
    joined,      \* joined[g]: group_memberships
    space,       \* status of the space, or none
    grant,       \* grant[s]: the role of the active grant of s
    tx           \* tx[h]: the actor whose request h holds the tenant lock

tables == <<member, admin, group, parent, joined, space, grant>>
vars == <<member, admin, group, parent, joined, space, grant, tx>>

Idle == [actor |-> None, admin |-> FALSE]

TypeOK ==
    /\ member \in [Members -> {"none", "active", "suspended"}]
    /\ admin \in SUBSET Members
    /\ group \in [Groups -> {"none", "active", "archived"}]
    /\ parent \in [Groups -> Groups \cup {None}]
    /\ joined \in [Groups -> SUBSET Members]
    /\ space \in {"none", "active", "archived"}
    /\ grant \in [Subjects -> Roles \cup {None}]
    /\ tx \in [Handlers -> [actor : Members \cup {None}, admin : BOOLEAN]]

\* A registered tenant; the space is the founder's own, the tenant's public
\* one, or created later.
Init ==
    /\ member = [m \in Members |-> IF m = Founder THEN "active" ELSE "none"]
    /\ admin = {Founder}
    /\ group = [g \in Groups |-> "none"] /\ parent = [g \in Groups |-> None]
    /\ joined = [g \in Groups |-> {}]
    /\ space \in {"none", "active"}
    /\ \E role \in {None, "VIEWER"} :
         grant = [s \in Subjects |-> CASE space = "active" /\ s = Founder -> "MANAGER"
                                       [] space = "active" /\ s = Everyone -> role
                                       [] OTHER -> None]
    /\ tx = [h \in Handlers |-> Idle]

------------------------------------------------------------------------------
(* Roles, as ACCESS_CTE resolves them *)

Active == {m \in Members : member[m] = "active"}
ActiveGroups == {g \in Groups : group[g] = "active"}

\* The groups that start the recursion, then parents as long as they are active.
Upwards(start) ==
    LET up[n \in 0..Cardinality(Groups)] ==
            IF n = 0 THEN start \cap ActiveGroups
            ELSE up[n - 1] \cup ({parent[g] : g \in up[n - 1]} \cap ActiveGroups)
    IN up[Cardinality(Groups)]

MemberGroups(m) == Upwards({g \in Groups : m \in joined[g]})

MatchedGrants(m) ==
    IF m \in Active
    THEN {s \in {Everyone, m} \cup MemberGroups(m) : grant[s] # None}
    ELSE {}

EffectiveRole(m) ==
    LET best == {s \in MatchedGrants(m) :
                    \A v \in MatchedGrants(m) : Rank[grant[s]] >= Rank[grant[v]]}
    IN IF best = {} THEN None ELSE grant[CHOOSE s \in best : TRUE]

\* A mistake that ManagersAgree excludes: members who have been suspended count.
EligibleGroups_Anyone == Upwards({g \in Groups : joined[g] # {}})
\* What _has_manager finds, with a recursion of its own.
EligibleGroups == Upwards({g \in Groups : joined[g] \cap Active # {}})

HasManager == \E s \in {Everyone} \cup EligibleGroups \cup Active : grant[s] = "MANAGER"

------------------------------------------------------------------------------
(* Transactions *)

\* A mistake that AuthorityHolds excludes: reading the authority with no lock.
LockFree_Any == TRUE
LockFree == \A h \in Handlers : tx[h].actor = None

\* _lock: FOR UPDATE on the tenant, then the role of the actor.
Lock(h, a) ==
    /\ tx[h] = Idle /\ LockFree
    /\ a \in Active
    /\ tx' = [tx EXCEPT ![h] = [actor |-> a, admin |-> a \in admin]]
    /\ UNCHANGED tables

\* Any refusal, or an error of the database.
Rollback(h) ==
    /\ tx[h].actor # None
    /\ tx' = [tx EXCEPT ![h] = Idle]
    /\ UNCHANGED tables

Commit(h) == tx[h].actor # None /\ tx' = [tx EXCEPT ![h] = Idle]
AsAdmin(h) == Commit(h) /\ tx[h].admin

\* _space without control: a manager of the space.
Manages(m) == \E s \in MatchedGrants(m) : grant[s] = "MANAGER"
AsManager(h) == Commit(h) /\ Manages(tx[h].actor)

------------------------------------------------------------------------------
(* Members *)

\* The personal space that comes with a membership is this one or another.
AddMember(h, m, isAdmin) ==
    /\ AsAdmin(h)
    /\ member[m] = "none"
    /\ member' = [member EXCEPT ![m] = "active"]
    /\ admin' = IF isAdmin THEN admin \cup {m} ELSE admin
    /\ \/ UNCHANGED <<space, grant>>
       \/ /\ space = "none" /\ space' = "active"
          /\ grant' = [grant EXCEPT ![m] = "MANAGER"]
    /\ UNCHANGED <<group, parent, joined>>

\* A mistake that AdminRemains excludes: counting suspended admins.
AdminLeft_Suspended == admin # {}
\* The check runs after the UPDATE, in the same transaction.
AdminLeft == admin \cap Active # {}

UpdateMember(h, m, isAdmin, status) ==
    /\ AsAdmin(h)
    /\ member[m] # "none"
    /\ member' = [member EXCEPT ![m] = status]
    /\ admin' = IF isAdmin THEN admin \cup {m} ELSE admin \ {m}
    /\ AdminLeft'
    /\ UNCHANGED <<group, parent, joined, space, grant>>

------------------------------------------------------------------------------
(* Groups *)

\* The parent is None or an active group.
ValidParent(p) == p = None \/ p \in ActiveGroups

CreateGroup(h, g, p) ==
    /\ AsAdmin(h)
    /\ group[g] = "none" /\ ValidParent(p)
    /\ group' = [group EXCEPT ![g] = "active"]
    /\ parent' = [parent EXCEPT ![g] = p]
    /\ UNCHANGED <<member, admin, joined, space, grant>>

\* The ancestors of p and p itself, archived ones included.
AncestorsFrom(p) ==
    LET up[n \in 0..Cardinality(Groups)] ==
            IF n = 0 THEN {p} \cap Groups
            ELSE up[n - 1] \cup ({parent[g] : g \in up[n - 1]} \cap Groups)
    IN up[Cardinality(Groups)]

\* A mistake that GroupForest excludes: looking at the new parent only.
NoCycle_Parent(g, p) == g # p
NoCycle(g, p) == g \notin AncestorsFrom(p)

MoveGroup(h, g, p) ==
    /\ AsAdmin(h)
    /\ g \in ActiveGroups /\ ValidParent(p) /\ NoCycle(g, p)
    /\ parent' = [parent EXCEPT ![g] = p]
    /\ UNCHANGED <<member, admin, group, joined, space, grant>>

\* A mistake that TypeOK excludes: a status that the CHECK does not know.
ArchivedStatus_Deleted == "deleted"
ArchivedStatus == "archived"

ArchiveGroup(h, g) ==
    /\ AsAdmin(h)
    /\ g \in ActiveGroups /\ ~ \E c \in ActiveGroups : parent[c] = g
    /\ group' = [group EXCEPT ![g] = ArchivedStatus]
    /\ UNCHANGED <<member, admin, parent, joined, space, grant>>

JoinGroup(h, g, m) ==
    /\ AsAdmin(h)
    /\ g \in ActiveGroups /\ m \in Active
    /\ joined' = [joined EXCEPT ![g] = @ \cup {m}]
    /\ UNCHANGED <<member, admin, group, parent, space, grant>>

LeaveGroup(h, g, m) ==
    /\ AsAdmin(h)
    /\ g \in ActiveGroups
    /\ joined' = [joined EXCEPT ![g] = @ \ {m}]
    /\ UNCHANGED <<member, admin, group, parent, space, grant>>

------------------------------------------------------------------------------
(* The space and its grants *)

ActiveSubject(s) == s \in {Everyone} \cup ActiveGroups \cup Active

\* create_space: whoever creates it manages it; the template grants a role to
\* nobody else, to the whole tenant, or to a group.
CreateSpace(h, s, role) ==
    LET actor == tx[h].actor IN
    /\ Commit(h) /\ space = "none"
    /\ ActiveSubject(actor)
    /\ \/ s = actor /\ role = "MANAGER"
       \/ s = Everyone /\ role = "VIEWER" /\ tx[h].admin
       \/ s \in ActiveGroups /\ role # "MANAGER"
    /\ space' = "active"
    /\ grant' = [grant EXCEPT ![actor] = "MANAGER", ![s] = role]
    /\ UNCHANGED <<member, admin, group, parent, joined>>

\* update_space: archive, also by delete_space, and restore.
SetSpaceStatus(h, status) ==
    /\ Commit(h) /\ space # "none"
    /\ tx[h].admin \/ Manages(tx[h].actor)
    /\ space' = status
    /\ UNCHANGED <<member, admin, group, parent, joined, grant>>

\* A mistake that ManagerKept excludes: any grant of the role counts, whoever
\* is left to use it.
ManagerLeft_AnyGrant == \E s \in Subjects : grant[s] = "MANAGER"
ManagerLeft == HasManager

\* The active grant of the subject is revoked and a new one inserted.
PutGrant(h, s, role) ==
    /\ AsManager(h) /\ (s = Everyone => tx[h].admin)
    /\ ActiveSubject(s)
    /\ grant' = [grant EXCEPT ![s] = role]
    /\ UNCHANGED <<member, admin, group, parent, joined, space>>
    /\ ManagerLeft'

RevokeGrant(h, s) ==
    /\ AsManager(h) /\ (s = Everyone => tx[h].admin)
    /\ grant[s] # None
    /\ grant' = [grant EXCEPT ![s] = None]
    /\ UNCHANGED <<member, admin, group, parent, joined, space>>
    /\ ManagerLeft'

\* An admin makes himself manager, of a space that nobody manages any more.
Takeover(h) ==
    /\ AsAdmin(h) /\ space # "none"
    /\ ActiveSubject(tx[h].actor)
    /\ grant' = [grant EXCEPT ![tx[h].actor] = "MANAGER"]
    /\ UNCHANGED <<member, admin, group, parent, joined, space>>

------------------------------------------------------------------------------
Next ==
    \E h \in Handlers :
        \/ \E a \in Members : Lock(h, a)
        \/ Rollback(h) \/ Takeover(h)
        \/ \E m \in Members, isAdmin \in BOOLEAN :
            \/ AddMember(h, m, isAdmin)
            \/ \E status \in {"active", "suspended"} : UpdateMember(h, m, isAdmin, status)
        \/ \E g \in Groups :
            \/ ArchiveGroup(h, g)
            \/ \E p \in Groups \cup {None} : CreateGroup(h, g, p) \/ MoveGroup(h, g, p)
            \/ \E m \in Members : JoinGroup(h, g, m) \/ LeaveGroup(h, g, m)
        \/ \E s \in Subjects :
            \/ RevokeGrant(h, s)
            \/ \E role \in Roles : CreateSpace(h, s, role) \/ PutGrant(h, s, role)
        \/ \E status \in {"active", "archived"} : SetSpaceStatus(h, status)

Spec == Init /\ [][Next]_vars

------------------------------------------------------------------------------
(* Properties *)

\* However members are demoted and suspended, by others and by themselves, the
\* tenant keeps an admin who can act.
AdminRemains == admin \cap Active # {}

\* Groups form a forest in which an active group has an active parent: no move
\* closes a cycle, and nothing is archived above or created below an archived
\* group.
GroupForest ==
    /\ \A g \in Groups : parent[g] # None => g \notin AncestorsFrom(parent[g])
    /\ \A g \in ActiveGroups : ValidParent(parent[g])

\* The last-manager check and the resolution of roles walk the groups each in
\* its own way; they agree on whether somebody can manage the space.
ManagersAgree == HasManager <=> \E m \in Members : EffectiveRole(m) = "MANAGER"

\* Whatever writes grants, creation included, leaves the space with a manager
\* who can act.  Suspending a member or changing a group may leave it without
\* one, which is what takeover is for.
ManagerKept == [][grant' # grant => HasManager']_vars

\* Whoever changes anything still has the authority that was read for it when
\* the change commits.
AuthorityHolds ==
    [][\A h \in Handlers : tx[h] # Idle /\ tx'[h] = Idle /\ tables' # tables =>
            /\ tx[h].actor \in Active
            /\ tx[h].admin <=> tx[h].actor \in admin]_vars
=============================================================================
