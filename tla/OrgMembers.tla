----------------------------- MODULE OrgMembers -----------------------------
(***************************************************************************)
(* The members of one organization and their administrators:               *)
(* OrganizationService.add_member and update_member                        *)
(* (services/organization_service.py), the guard of rules/                 *)
(* org_membership.py and the role check of security/dependencies.py, as    *)
(* overlapping HTTP requests run them against Postgres.                    *)
(*                                                                         *)
(* A request is one transaction at READ COMMITTED with no row locked by a  *)
(* read.  It is let in as an administrator's, reads its target, checks,    *)
(* and writes at the commit the columns whose value it changed.            *)
(*                                                                         *)
(* Data: a member is known by its user; accounts, names and passwords are  *)
(* left out, and so are the audit rows, which nothing here reads.  A       *)
(* definition Op_Variant is Op with a mistake the properties detect.       *)
(***************************************************************************)
EXTENDS Naturals, FiniteSets

CONSTANTS
    Users,      \* users that are, or may become, members
    Roles,      \* OrgRole
    AdminRoles, \* ADMIN_ROLES
    Workers,    \* requests that can be in flight at once
    NoRole,     \* no member row; a change that leaves the role alone
    Keep,       \* a change that leaves is_active alone
    NoUser      \* the target of a request that has not read one

ASSUME RolesAssumption == /\ AdminRoles \subseteq Roles
                          /\ AdminRoles # {}
                          /\ NoRole \notin Roles
                          /\ Keep \notin BOOLEAN
                          /\ NoUser \notin Users

VARIABLES
    members,    \* organization_members rows, committed
    tx,         \* the transaction each worker has open
    raced       \* history: two requests that change members have overlapped

vars == <<members, tx, raced>>

-----------------------------------------------------------------------------
MemberRow == [role: Roles \cup {NoRole}, active: BOOLEAN]

NoMember == [role |-> NoRole, active |-> FALSE]

Change == [role: Roles \cup {NoRole}, active: BOOLEAN \cup {Keep}]

NoChange == [role |-> NoRole, active |-> Keep]

\* A request is let in, has read the row of its target, is ready to write.
Ops == {"idle", "admitted", "check", "write"}

Tx == [op: Ops, target: Users \cup {NoUser}, seen: MemberRow, change: Change]

Idle == [op |-> "idle", target |-> NoUser, seen |-> NoMember, change |-> NoChange]

Typed == /\ members \in [Users -> MemberRow]
         /\ tx \in [Workers -> Tx]
         /\ raced \in BOOLEAN

\* A user who has no row is not active.
TypeOK == Typed /\ \A u \in Users : members[u].active => members[u].role # NoRole

-----------------------------------------------------------------------------
IsAdmin(row) == row.active /\ row.role \in AdminRoles

HasAdmin(rows) == \E u \in Users : IsAdmin(rows[u])

Changed_Activates(row, change) ==
    [role   |-> IF change.role = NoRole THEN row.role ELSE change.role,
     active |-> IF change.active = Keep THEN TRUE ELSE change.active]
Changed(row, change) ==
    [role   |-> IF change.role = NoRole THEN row.role ELSE change.role,
     active |-> IF change.active = Keep THEN row.active ELSE change.active]

\* would_remove_last_admin, on the rows the request sees.
WouldRemoveLastAdmin_AnyRole(rows, u, row) ==
    ~ \E v \in Users : [rows EXCEPT ![u] = row][v].active
WouldRemoveLastAdmin(rows, u, row) == ~ HasAdmin([rows EXCEPT ![u] = row])

\* What a flush writes: a column only when it differs from the one loaded.
Column(stored, seen, new) == IF new # seen THEN new ELSE stored

Flush(stored, seen, new) ==
    [role   |-> Column(stored.role, seen.role, new.role),
     active |-> Column(stored.active, seen.active, new.active)]

-----------------------------------------------------------------------------
(* The requests. *)

Continue(w, t) == /\ tx' = [tx EXCEPT ![w] = t]
                  /\ UNCHANGED members

Fail(w) == Continue(w, Idle) /\ UNCHANGED raced

\* require_roles(*ADMIN_ROLES): some active administrator asks.
Admit(w) ==
    /\ tx[w] = Idle
    /\ HasAdmin(members)
    /\ Continue(w, [Idle EXCEPT !.op = "admitted"])
    /\ raced' = (raced \/ \E v \in Workers : tx[v] # Idle)

\* A user without a row becomes a member, an inactive member is reactivated;
\* an active member is a conflict.
ReadAdd(w) ==
    /\ tx[w].op = "admitted"
    /\ \E u \in Users, role \in Roles :
          /\ ~ members[u].active
          /\ Continue(w, [op |-> "write", target |-> u, seen |-> members[u],
                          change |-> [role |-> role, active |-> TRUE]])
    /\ UNCHANGED raced

ReadUpdate(w) ==
    /\ tx[w].op = "admitted"
    /\ \E u \in Users, change \in Change :
          /\ members[u].role # NoRole
          /\ Continue(w, [op |-> "check", target |-> u, seen |-> members[u],
                          change |-> change])
    /\ UNCHANGED raced

\* The other members are read now; the session already holds the target.
CheckUpdate(w) ==
    LET t == tx[w] IN
    /\ t.op = "check"
    /\ IF WouldRemoveLastAdmin(members, t.target, Changed(t.seen, t.change))
       THEN Fail(w)
       ELSE Continue(w, [t EXCEPT !.op = "write"]) /\ UNCHANGED raced

\* A new row meets uq_org_member_org_user if another request inserted it.
Write(w) ==
    LET t == tx[w] IN
    /\ t.op = "write"
    /\ t.seen.role = NoRole => members[t.target].role = NoRole
    /\ members' = [members EXCEPT
                      ![t.target] = Flush(@, t.seen, Changed(t.seen, t.change))]
    /\ tx' = [tx EXCEPT ![w] = Idle]
    /\ UNCHANGED raced

\* A conflict, a refused request, an exception or a crash.
Rollback(w) == tx[w] # Idle /\ Fail(w)

-----------------------------------------------------------------------------
\* Registration makes its user the organization's administrator.
Init == /\ \E u \in Users, role \in AdminRoles :
              members = [v \in Users |-> IF v = u
                                         THEN [role |-> role, active |-> TRUE]
                                         ELSE NoMember]
        /\ tx = [w \in Workers |-> Idle]
        /\ raced = FALSE

Next == \E w \in Workers :
            \/ Admit(w) \/ ReadAdd(w) \/ ReadUpdate(w) \/ CheckUpdate(w)
            \/ Write(w) \/ Rollback(w)

Spec == Init /\ [][Next]_vars

-----------------------------------------------------------------------------
\* "You cannot lock yourself out of your own org" (rules/org_membership.py): an
\* organization can lose its last administrator only through requests that
\* overlap: no sequence of additions, demotions, deactivations and
\* reactivations does it, whichever of them fail or roll back.
AdminRemainsUnlessRaced == raced \/ HasAdmin(members)

\* A deactivated member becomes active only by a request that asks for it: a
\* role change that read the member before the deactivation does not undo it.
RevocationSticks ==
    [][\A u \in Users : ~ members[u].active /\ members'[u].active =>
          \E w \in Workers : /\ tx[w].op = "write"
                             /\ tx[w].target = u
                             /\ tx[w].change.active = TRUE]_vars
=============================================================================
