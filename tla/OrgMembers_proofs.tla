-------------------------- MODULE OrgMembers_proofs --------------------------
(***************************************************************************)
(* Proofs about OrgMembers for any set of users, roles and requests.       *)
(***************************************************************************)
EXTENDS OrgMembers, TLAPS

LEMMA ChangedType ==
    ASSUME NEW row \in MemberRow, NEW change \in Change
    PROVE  Changed(row, change) \in MemberRow
BY DEF Changed, MemberRow, Change

LEMMA FlushType ==
    ASSUME NEW stored \in MemberRow, NEW seen \in MemberRow, NEW new \in MemberRow
    PROVE  Flush(stored, seen, new) \in MemberRow
BY DEF Flush, Column, MemberRow

\* Written over the row it was computed from, a change is not merged.
LEMMA FlushUnraced ==
    ASSUME NEW row \in MemberRow, NEW new \in MemberRow
    PROVE  Flush(row, row, new) = new
BY DEF Flush, Column, MemberRow

LEMMA IdleType == Idle \in Tx
BY RolesAssumption DEF Idle, Tx, Ops, NoMember, MemberRow, NoChange, Change

-----------------------------------------------------------------------------
(* Type correctness. *)

LEMMA InitType == Init => Typed
<1> SUFFICES ASSUME Init
             PROVE  Typed
    OBVIOUS
<1>1. PICK u \in Users, role \in AdminRoles :
          members = [v \in Users |-> IF v = u THEN [role |-> role, active |-> TRUE]
                                             ELSE NoMember]
      BY DEF Init
<1>2. NoMember \in MemberRow /\ [role |-> role, active |-> TRUE] \in MemberRow
      BY RolesAssumption DEF MemberRow, NoMember
<1> QED  BY <1>1, <1>2, IdleType DEF Init, Typed

LEMMA NextType ==
    ASSUME Typed, [Next]_vars
    PROVE  Typed'
<1> USE RolesAssumption DEF Typed
<1>1. CASE UNCHANGED vars
      BY <1>1 DEF vars
<1>2. ASSUME NEW w \in Workers, NEW t \in Tx, Continue(w, t), raced' \in BOOLEAN
      PROVE  Typed'
      BY <1>2 DEF Continue
<1>3. ASSUME NEW w \in Workers, Fail(w)
      PROVE  Typed'
      BY <1>2, <1>3, IdleType DEF Fail
<1>4. ASSUME NEW w \in Workers, Admit(w)
      PROVE  Typed'
  <2> DEFINE t == [Idle EXCEPT !.op = "admitted"]
  <2>1. t \in Tx
        BY IdleType DEF Tx, Ops
  <2>2. Continue(w, t) /\ raced' \in BOOLEAN
        BY <1>4 DEF Admit
  <2> HIDE DEF t
  <2> QED  BY <1>2, <2>1, <2>2
<1>5. ASSUME NEW w \in Workers, ReadAdd(w)
      PROVE  Typed'
  <2>1. PICK u \in Users, role \in Roles :
            Continue(w, [op |-> "write", target |-> u, seen |-> members[u],
                         change |-> [role |-> role, active |-> TRUE]])
        BY <1>5 DEF ReadAdd
  <2> DEFINE t == [op |-> "write", target |-> u, seen |-> members[u],
                   change |-> [role |-> role, active |-> TRUE]]
  <2>2. t \in Tx
        BY DEF Tx, Ops, Change
  <2>3. Continue(w, t)
        BY <2>1
  <2> HIDE DEF t
  <2> QED  BY <1>2, <1>5, <2>2, <2>3 DEF ReadAdd
<1>6. ASSUME NEW w \in Workers, ReadUpdate(w)
      PROVE  Typed'
  <2>1. PICK u \in Users, change \in Change :
            Continue(w, [op |-> "check", target |-> u, seen |-> members[u],
                         change |-> change])
        BY <1>6 DEF ReadUpdate
  <2> DEFINE t == [op |-> "check", target |-> u, seen |-> members[u],
                   change |-> change]
  <2>2. t \in Tx
        BY DEF Tx, Ops
  <2>3. Continue(w, t)
        BY <2>1
  <2> HIDE DEF t
  <2> QED  BY <1>2, <1>6, <2>2, <2>3 DEF ReadUpdate
<1>7. ASSUME NEW w \in Workers, CheckUpdate(w)
      PROVE  Typed'
  <2> DEFINE t == [tx[w] EXCEPT !.op = "write"]
  <2>1. t \in Tx
        BY DEF Tx, Ops
  <2>2. Fail(w) \/ (Continue(w, t) /\ UNCHANGED raced)
        BY <1>7 DEF CheckUpdate
  <2> HIDE DEF t
  <2> QED  BY <1>2, <1>3, <2>1, <2>2
<1>8. ASSUME NEW w \in Workers, Write(w)
      PROVE  Typed'
  <2>1. tx[w].seen \in MemberRow /\ tx[w].change \in Change
        BY DEF Tx
  <2>2. \A row \in MemberRow :
            Flush(row, tx[w].seen, Changed(tx[w].seen, tx[w].change)) \in MemberRow
        BY <2>1, ChangedType, FlushType
  <2>3. members' \in [Users -> MemberRow]
        BY <1>8, <2>2 DEF Write
  <2> QED  BY <1>8, <2>3, IdleType DEF Write
<1>9. ASSUME NEW w \in Workers, Rollback(w)
      PROVE  Typed'
      BY <1>3, <1>9 DEF Rollback
<1> QED
  BY <1>1, <1>4, <1>5, <1>6, <1>7, <1>8, <1>9 DEF Next

-----------------------------------------------------------------------------
(* Every active member has a role. *)

\* What a request will write has a role: its own, or the one of the row it
\* read, and then the row is there.  Rows are never deleted.
RolesKept ==
    /\ \A u \in Users : members[u].active => members[u].role # NoRole
    /\ \A w \in Workers : tx[w].op \in {"check", "write"} =>
          /\ tx[w].target \in Users
          /\ tx[w].seen.role = NoRole => tx[w].change.role # NoRole
          /\ tx[w].seen.role # NoRole => members[tx[w].target].role # NoRole

LEMMA NextRolesKept ==
    ASSUME Typed, RolesKept, [Next]_vars
    PROVE  RolesKept'
<1> USE RolesAssumption DEF Typed, RolesKept
<1>1. CASE UNCHANGED vars
      BY <1>1 DEF vars
<1>2. ASSUME NEW w \in Workers, Fail(w)
      PROVE  RolesKept'
      BY <1>2 DEF Fail, Continue, Idle
<1>3. ASSUME NEW w \in Workers, Admit(w)
      PROVE  RolesKept'
      BY <1>3 DEF Admit, Continue, Idle
<1>4. ASSUME NEW w \in Workers, ReadAdd(w)
      PROVE  RolesKept'
      BY <1>4 DEF ReadAdd, Continue
<1>5. ASSUME NEW w \in Workers, ReadUpdate(w)
      PROVE  RolesKept'
      BY <1>5 DEF ReadUpdate, Continue
<1>6. ASSUME NEW w \in Workers, CheckUpdate(w)
      PROVE  RolesKept'
  <2>1. CASE Fail(w)
        BY <1>2, <2>1
  <2>2. CASE Continue(w, [tx[w] EXCEPT !.op = "write"])
    <3>1. UNCHANGED members
          BY <2>2 DEF Continue
    <3>2. /\ tx' = [tx EXCEPT ![w] = tx'[w]]
          /\ tx'[w].target = tx[w].target
          /\ tx'[w].seen = tx[w].seen
          /\ tx'[w].change = tx[w].change
          BY <2>2 DEF Continue, Tx
    <3> QED  BY <1>6, <3>1, <3>2 DEF CheckUpdate
  <2> QED  BY <1>6, <2>1, <2>2 DEF CheckUpdate
<1>7. ASSUME NEW w \in Workers, Write(w)
      PROVE  RolesKept'
  <2> DEFINE u == tx[w].target
  <2>1. u \in Users /\ tx[w].seen \in MemberRow /\ tx[w].change \in Change
        BY <1>7 DEF Write, Tx
  <2>2. members' = [members EXCEPT ![u] = members'[u]]
        BY <1>7, <2>1 DEF Write
  <2>3. members'[u].role # NoRole
    <3>1. members'[u].role = Column(members[u].role, tx[w].seen.role,
                                    Changed(tx[w].seen, tx[w].change).role)
          BY <1>7, <2>1 DEF Write, Flush
    <3>2. Changed(tx[w].seen, tx[w].change).role # NoRole
          BY <1>7, <2>1 DEF Write, Changed
    <3> QED  BY <1>7, <3>1, <3>2 DEF Write, Column
  <2>4. tx' = [tx EXCEPT ![w] = Idle]
        BY <1>7 DEF Write
  <2>5. \A v \in Users : members[v].role # NoRole => members'[v].role # NoRole
        BY <2>1, <2>2, <2>3
  <2> QED  BY <2>1, <2>2, <2>3, <2>4, <2>5 DEF Idle
<1>8. ASSUME NEW w \in Workers, Rollback(w)
      PROVE  RolesKept'
      BY <1>2, <1>8 DEF Rollback
<1> QED
  BY <1>1, <1>3, <1>4, <1>5, <1>6, <1>7, <1>8 DEF Next

-----------------------------------------------------------------------------
(* The last administrator. *)

\* While no two requests have overlapped, the one under way has read the rows
\* as they are, and what it is ready to write leaves an administrator.
Safe(t) ==
    /\ t.op \in {"check", "write"} => /\ t.target \in Users
                                      /\ t.seen = members[t.target]
    /\ t.op = "write" =>
          HasAdmin([members EXCEPT ![t.target] = Changed(t.seen, t.change)])

AdminInv ==
    ~ raced => /\ HasAdmin(members)
               /\ \A w, v \in Workers : tx[w] # Idle /\ tx[v] # Idle => w = v
               /\ \A w \in Workers : Safe(tx[w])

LEMMA NextAdmin ==
    ASSUME Typed, AdminInv, [Next]_vars
    PROVE  AdminInv'
<1> USE RolesAssumption DEF Typed
<1>1. CASE UNCHANGED vars
      BY <1>1 DEF vars, AdminInv, Safe, HasAdmin
<1>2. CASE raced'
      BY <1>2 DEF AdminInv
<1> SUFFICES ASSUME ~ raced', ~ UNCHANGED vars
             PROVE  AdminInv'
    BY <1>1, <1>2
<1>3. Safe(Idle)
      BY DEF Safe, Idle
<1>4. ~ raced
      BY DEF Next, Admit, ReadAdd, ReadUpdate, CheckUpdate, Write, Rollback,
             Fail, vars
<1>5. /\ HasAdmin(members)
      /\ \A w, v \in Workers : tx[w] # Idle /\ tx[v] # Idle => w = v
      /\ \A w \in Workers : Safe(tx[w])
      BY <1>4 DEF AdminInv
<1>6. ASSUME NEW w \in Workers, NEW t, Continue(w, t), Safe(t),
             \A v \in Workers \ {w} : tx[v] = Idle
      PROVE  AdminInv'
  <2>1. /\ members' = members
        /\ tx' \in [Workers -> Tx \cup {t}]
        /\ tx'[w] = t
        /\ \A v \in Workers \ {w} : tx'[v] = Idle
        BY <1>6 DEF Continue
  <2>2. \A v \in Workers : Safe(tx'[v])
        BY <1>3, <1>6, <2>1
  <2> QED  BY <1>5, <2>1, <2>2 DEF AdminInv, Safe, HasAdmin
<1>7. ASSUME NEW w \in Workers, tx[w] # Idle
      PROVE  \A v \in Workers \ {w} : tx[v] = Idle
      BY <1>5, <1>7
<1>8. ASSUME NEW w \in Workers, tx[w] # Idle, Fail(w)
      PROVE  AdminInv'
      BY <1>3, <1>6, <1>7, <1>8 DEF Fail
<1>9. ASSUME NEW w \in Workers, Admit(w)
      PROVE  AdminInv'
  <2> DEFINE t == [Idle EXCEPT !.op = "admitted"]
  <2>1. Safe(t)
        BY DEF Safe, Idle
  <2>2. Continue(w, t) /\ \A v \in Workers \ {w} : tx[v] = Idle
        BY <1>9 DEF Admit
  <2> HIDE DEF t
  <2> QED  BY <1>6, <2>1, <2>2
<1>10. ASSUME NEW w \in Workers, ReadAdd(w)
       PROVE  AdminInv'
  <2>1. PICK u \in Users, role \in Roles :
           /\ ~ members[u].active
           /\ Continue(w, [op |-> "write", target |-> u, seen |-> members[u],
                           change |-> [role |-> role, active |-> TRUE]])
        BY <1>10 DEF ReadAdd
  <2> DEFINE t == [op |-> "write", target |-> u, seen |-> members[u],
                   change |-> [role |-> role, active |-> TRUE]]
             new == Changed(t.seen, t.change)
  <2>2. PICK a \in Users : IsAdmin(members[a])
        BY <1>5 DEF HasAdmin
  <2>3. a # u
        BY <2>1, <2>2 DEF IsAdmin
  <2> HIDE DEF new
  <2>4. HasAdmin([members EXCEPT ![u] = new])
        BY <2>2, <2>3 DEF HasAdmin
  <2>5. Safe(t)
        BY <2>4 DEF Safe, new
  <2>6. tx[w] # Idle
        BY <1>10 DEF ReadAdd, Idle
  <2>7. Continue(w, t)
        BY <2>1
  <2> HIDE DEF t
  <2> QED  BY <1>6, <1>7, <2>5, <2>6, <2>7
<1>11. ASSUME NEW w \in Workers, ReadUpdate(w)
       PROVE  AdminInv'
  <2>1. PICK u \in Users, change \in Change :
            Continue(w, [op |-> "check", target |-> u, seen |-> members[u],
                         change |-> change])
        BY <1>11 DEF ReadUpdate
  <2> DEFINE t == [op |-> "check", target |-> u, seen |-> members[u],
                   change |-> change]
  <2>2. Safe(t)
        BY DEF Safe
  <2>3. tx[w] # Idle
        BY <1>11 DEF ReadUpdate, Idle
  <2>4. Continue(w, t)
        BY <2>1
  <2> HIDE DEF t
  <2> QED  BY <1>6, <1>7, <2>2, <2>3, <2>4
<1>12. ASSUME NEW w \in Workers, CheckUpdate(w)
       PROVE  AdminInv'
  <2>1. tx[w] # Idle /\ tx[w].op = "check"
        BY <1>12 DEF CheckUpdate, Idle
  <2>2. CASE Fail(w)
        BY <1>8, <2>1, <2>2
  <2>3. CASE ~ Fail(w)
    <3> DEFINE t == [tx[w] EXCEPT !.op = "write"]
    <3>1. /\ HasAdmin([members EXCEPT
                         ![tx[w].target] = Changed(tx[w].seen, tx[w].change)])
          /\ Continue(w, t)
          BY <1>12, <2>3 DEF CheckUpdate, WouldRemoveLastAdmin
    <3>2. /\ t.target = tx[w].target /\ t.seen = tx[w].seen
          /\ t.change = tx[w].change
          BY DEF Tx
    <3>3. t.target \in Users /\ t.seen = members[t.target]
          BY <1>5, <2>1, <3>2 DEF Safe
    <3> HIDE DEF t
    <3>4. Safe(t)
          BY <3>1, <3>2, <3>3 DEF Safe
    <3> QED  BY <1>6, <1>7, <2>1, <3>1, <3>4
  <2> QED  BY <2>2, <2>3
<1>13. ASSUME NEW w \in Workers, Write(w)
       PROVE  AdminInv'
  <2>1. tx[w] # Idle /\ tx[w].op = "write" /\ Safe(tx[w])
        BY <1>5, <1>13 DEF Write, Idle
  <2> DEFINE new == Changed(tx[w].seen, tx[w].change)
  <2>2. new \in MemberRow
        BY ChangedType DEF Tx
  <2>3. /\ tx[w].target \in Users
        /\ tx[w].seen = members[tx[w].target]
        /\ HasAdmin([members EXCEPT ![tx[w].target] = new])
        BY <2>1 DEF Safe
  <2>4. members' = [members EXCEPT ![tx[w].target] = Flush(@, tx[w].seen, new)]
        BY <1>13 DEF Write
  <2> HIDE DEF new
  <2>5. members' = [members EXCEPT ![tx[w].target] = new]
    <3>1. Flush(members[tx[w].target], tx[w].seen, new) = new
          BY <2>2, <2>3, FlushUnraced
    <3> QED  BY <2>4, <3>1
  <2>6. HasAdmin(members')
        BY <2>3, <2>5
  <2>7. \A v \in Workers : tx'[v] = Idle
        BY <1>7, <1>13, <2>1 DEF Write
  <2> QED  BY <2>6, <2>7 DEF AdminInv, HasAdmin, Safe, Idle
<1>14. ASSUME NEW w \in Workers, Rollback(w)
       PROVE  AdminInv'
       BY <1>8, <1>14 DEF Rollback
<1> QED
  BY <1>9, <1>10, <1>11, <1>12, <1>13, <1>14 DEF Next

-----------------------------------------------------------------------------
(* The theorems. *)

LEMMA Inductive == Spec => [](Typed /\ RolesKept /\ AdminInv)
<1>1. Init => Typed /\ RolesKept /\ AdminInv
  <2>1. ASSUME Init
        PROVE  AdminInv
    <3>1. PICK u \in Users, role \in AdminRoles :
              members = [v \in Users |-> IF v = u
                                         THEN [role |-> role, active |-> TRUE]
                                         ELSE NoMember]
          BY <2>1 DEF Init
    <3>2. HasAdmin(members)
          BY <3>1 DEF HasAdmin, IsAdmin
    <3>3. \A w \in Workers : tx[w] = Idle /\ Safe(tx[w])
          BY <2>1 DEF Init, Safe, Idle
    <3> QED  BY <3>2, <3>3 DEF AdminInv
  <2>2. ASSUME Init
        PROVE  RolesKept
    <3>1. PICK u \in Users, role \in AdminRoles :
              members = [v \in Users |-> IF v = u
                                         THEN [role |-> role, active |-> TRUE]
                                         ELSE NoMember]
          BY <2>2 DEF Init
    <3>2. \A w \in Workers : tx[w].op = "idle"
          BY <2>2 DEF Init, Idle
    <3> QED  BY <3>1, <3>2, RolesAssumption DEF RolesKept, NoMember
  <2> QED  BY <2>1, <2>2, InitType
<1>2. Typed /\ RolesKept /\ AdminInv /\ [Next]_vars
        => (Typed /\ RolesKept /\ AdminInv)'
      BY NextType, NextRolesKept, NextAdmin
<1> QED  BY <1>1, <1>2, PTL DEF Spec

\* Rows and transactions keep their types, and an active member has a role.
THEOREM TypeCorrect == Spec => []TypeOK
<1>1. Typed /\ RolesKept => TypeOK
      BY DEF TypeOK, RolesKept
<1> QED  BY <1>1, Inductive, PTL

\* As long as the requests that change members have not overlapped, the
\* organization has an active administrator: would_remove_last_admin and the
\* conflict of add_member are enough, for any number of members and requests.
THEOREM SerialAdminRemains == Spec => []AdminRemainsUnlessRaced
<1>1. AdminInv => AdminRemainsUnlessRaced
      BY DEF AdminInv, AdminRemainsUnlessRaced
<1> QED  BY <1>1, Inductive, PTL

\* No request makes a deactivated member active unless it asks for that,
\* however requests overlap.
THEOREM RevocationIsKept == Spec => RevocationSticks
<1> DEFINE A == \A u \in Users : ~ members[u].active /\ members'[u].active =>
                    \E w \in Workers : /\ tx[w].op = "write"
                                       /\ tx[w].target = u
                                       /\ tx[w].change.active = TRUE
<1>1. ASSUME Typed, [Next]_vars
      PROVE  [A]_vars
  <2> SUFFICES ASSUME NEW u \in Users, ~ members[u].active, members'[u].active
               PROVE  \E w \in Workers : /\ tx[w].op = "write"
                                         /\ tx[w].target = u
                                         /\ tx[w].change.active = TRUE
      OBVIOUS
  <2>1. PICK w \in Workers : Write(w)
        BY <1>1 DEF Next, vars, Admit, ReadAdd, ReadUpdate, CheckUpdate,
                    Rollback, Fail, Continue
  <2>2. tx[w].op = "write" /\ tx[w].target = u
        BY <1>1, <2>1 DEF Write, Typed
  <2>3. members'[u].active = Column(members[u].active, tx[w].seen.active,
                                    Changed(tx[w].seen, tx[w].change).active)
        BY <1>1, <2>1, <2>2 DEF Write, Flush, Typed
  <2>4. tx[w].change.active = TRUE
        BY <1>1, <2>3 DEF Column, Changed, Typed, Tx, Change, MemberRow
  <2> QED  BY <2>2, <2>4
<1>2. Spec => []Typed
      BY Inductive, PTL
<1> QED  BY <1>1, <1>2, PTL DEF Spec, RevocationSticks
=============================================================================
