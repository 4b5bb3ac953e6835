------------------------ MODULE ReturnReview_proofs ------------------------
(***************************************************************************)
(* Proofs about ReturnReview for any number of returns, tasks, members and *)
(* overlapping requests.                                                   *)
(***************************************************************************)
EXTENDS ReturnReview, TLAPS

\* The record sets of Tx are told apart by their op.
LEMMA TxByOp ==
    ASSUME NEW t \in Tx
    PROVE  /\ t.op = "generate"  => t \in GenerateTx
           /\ t.op = "submit"    => t \in SubmitTx
           /\ t.op = "export"    => t \in ExportTx
           /\ t.op = "uploaded"  => t \in UploadedTx
           /\ t.op = "decide"    => t \in DecideTx
           /\ t.op = "propagate" => t \in PropagateTx
BY DEF Tx, Idle, GenerateTx, SubmitTx, ExportTx, UploadedTx, DecideTx,
       PropagateTx

LEMMA DecisionStatusType ==
    \A d \in Decisions : DecisionStatus[d] \in ApprovalStatus \ {"pending"}
BY DEF Decisions, DecisionStatus, ApprovalStatus

\* A flush of well-formed rows leaves a well-formed row.
LEMMA FlushType ==
    /\ \A stored, seen, new \in ReturnRow :
            FlushReturn(stored, seen, new) \in ReturnRow
    /\ \A stored, seen, new \in TaskRow :
            /\ FlushTask(stored, seen, new) \in TaskRow
            /\ FlushTask(stored, seen, new).ret = stored.ret
            /\ FlushTask(stored, seen, new).status
                  = Column(stored.status, seen.status, new.status)
            /\ FlushTask(stored, seen, new).decidedBy
                  = Column(stored.decidedBy, seen.decidedBy, new.decidedBy)
<1>1. ASSUME NEW stored \in ReturnRow, NEW seen \in ReturnRow,
             NEW new \in ReturnRow
      PROVE  FlushReturn(stored, seen, new) \in ReturnRow
      BY DEF FlushReturn, ReturnRow, Column
<1>2. ASSUME NEW stored \in TaskRow, NEW seen \in TaskRow,
             NEW new \in TaskRow
      PROVE  /\ FlushTask(stored, seen, new) \in TaskRow
             /\ FlushTask(stored, seen, new).ret = stored.ret
             /\ FlushTask(stored, seen, new).status
                   = Column(stored.status, seen.status, new.status)
             /\ FlushTask(stored, seen, new).decidedBy
                   = Column(stored.decidedBy, seen.decidedBy, new.decidedBy)
  <2> DEFINE s == Column(stored.status, seen.status, new.status)
             d == Column(stored.decidedBy, seen.decidedBy, new.decidedBy)
             n == Column(stored.notes, seen.notes, new.notes)
  <2>1. /\ s \in ApprovalStatus \cup {"none"}
        /\ d \in Users \cup {NoUser}
        /\ n \in Notes
        BY DEF Column, TaskRow
  <2>2. FlushTask(stored, seen, new) =
            [stored EXCEPT !.status = s, !.decidedBy = d, !.notes = n]
        BY DEF FlushTask
  <2> HIDE DEF s, d, n
  <2>3. /\ FlushTask(stored, seen, new) \in TaskRow
        /\ FlushTask(stored, seen, new).ret = stored.ret
        /\ FlushTask(stored, seen, new).status = s
        /\ FlushTask(stored, seen, new).decidedBy = d
        BY <2>1, <2>2 DEF TaskRow
  <2> QED  BY <2>3 DEF s, d
<1> QED  BY <1>1, <1>2

\* What the operations compute from well-formed rows is well-formed.
LEMMA ComputedType ==
    /\ \A row \in ReturnRow :
        /\ \A f \in Figures : Generated(row, f) \in ReturnRow
        /\ Submitted(row) \in ReturnRow
        /\ \A stored \in BOOLEAN : Exported(row, stored) \in ReturnRow
        /\ \A by \in Decision : Propagated(row, by) \in ReturnRow
        /\ \A r \in Returns : NewTask(r, row) \in TaskRow
    /\ \A row \in TaskRow, by \in Decision : Decided(row, by) \in TaskRow
<1>1. ASSUME NEW row \in ReturnRow
      PROVE  /\ \A f \in Figures : Generated(row, f) \in ReturnRow
             /\ Submitted(row) \in ReturnRow
             /\ \A stored \in BOOLEAN : Exported(row, stored) \in ReturnRow
      BY DEF ReturnRow, ReturnStatus, Generated, Submitted, Exported
<1>2. ASSUME NEW row \in ReturnRow, NEW by \in Decision
      PROVE  Propagated(row, by) \in ReturnRow
      BY DEF ReturnRow, ReturnStatus, Decision, Decisions, Propagated
<1>3. ASSUME NEW row \in ReturnRow, NEW r \in Returns
      PROVE  NewTask(r, row) \in TaskRow
      BY NoValues DEF ReturnRow, TaskRow, ApprovalStatus, NewTask
<1>4. ASSUME NEW row \in TaskRow, NEW by \in Decision
      PROVE  Decided(row, by) \in TaskRow
  <2>1. DecisionStatus[by.decision] \in ApprovalStatus
        BY DecisionStatusType DEF Decision
  <2> QED  BY <2>1 DEF TaskRow, Decision, Decided
<1> QED  BY <1>1, <1>2, <1>3, <1>4

-----------------------------------------------------------------------------
(* Type correctness. *)

\* What a request holds stays true of the rows it will write: a task that
\* exists keeps existing, for the same return, and what a decision will write
\* to its task is that decision.
TasksKnown ==
    /\ \A k \in Tasks : task[k].status # "none" => task[k].ret \in Returns
    /\ \A k \in Tasks : task[k].status = "pending" => task[k].decidedBy = NoUser
    /\ \A w \in Workers :
        /\ tx[w].op = "decide" =>
              /\ task[tx[w].task].status # "none"
              /\ tx[w].seen.status = "pending"
              /\ tx[w].seen.decidedBy = NoUser
        /\ tx[w].op = "propagate" =>
              /\ task[tx[w].task].status # "none"
              /\ tx[w].row.ret = task[tx[w].task].ret
              /\ tx[w].row.status = DecisionStatus[tx[w].by.decision]
              /\ tx[w].row.decidedBy = tx[w].by.user

LEMMA InitType == Init => TypeOK
BY NoValues DEF Init, TypeOK, NoReturn, NoTask, Idle, Tx, ReturnRow, TaskRow

LEMMA NextType ==
    ASSUME TypeOK, TasksKnown, [Next]_vars
    PROVE  TypeOK'
<1>1. CASE UNCHANGED vars
      BY <1>1 DEF vars, TypeOK
<1>2. ASSUME NEW w \in Workers
      PROVE  /\ End(w) => tx' \in [Workers -> Tx]
             /\ \A t \in Tx : tx' = [tx EXCEPT ![w] = t]
                                => tx' \in [Workers -> Tx]
             /\ tx[w] \in Tx
      BY DEF TypeOK, End, Tx
<1>3. ASSUME NEW w \in Workers, BeginGenerate(w)
      PROVE  TypeOK'
  <2>1. PICK r \in Returns, f \in Figures :
            Begin(w, [op |-> "generate", ret |-> r, figures |-> f,
                      seen |-> ret[r]])
        BY <1>3 DEF BeginGenerate
  <2>2. [op |-> "generate", ret |-> r, figures |-> f, seen |-> ret[r]] \in Tx
        BY DEF TypeOK, Tx, GenerateTx
  <2> QED  BY <1>2, <1>3, <2>1, <2>2 DEF BeginGenerate, Begin, TypeOK
<1>4. ASSUME NEW w \in Workers, CommitGenerate(w)
      PROVE  TypeOK'
  <2>1. tx[w] \in GenerateTx
        BY <1>2, <1>4, TxByOp DEF CommitGenerate
  <2>2. Generated(tx[w].seen, tx[w].figures) \in ReturnRow
        BY <2>1, ComputedType DEF GenerateTx
  <2>3. ret' \in [Returns -> ReturnRow]
        BY <1>4, <2>1, <2>2, FlushType DEF CommitGenerate, TypeOK, GenerateTx
  <2> QED  BY <1>2, <1>4, <2>3 DEF CommitGenerate, TypeOK
<1>5. ASSUME NEW w \in Workers, InsertConflict(w) \/ Rollback(w)
      PROVE  TypeOK'
      BY <1>2, <1>5 DEF InsertConflict, Rollback, TypeOK
<1>6. ASSUME NEW w \in Workers, BeginSubmit(w)
      PROVE  TypeOK'
  <2>1. PICK r \in Returns, k \in Tasks :
            Begin(w, [op |-> "submit", ret |-> r, task |-> k, seen |-> ret[r]])
        BY <1>6 DEF BeginSubmit
  <2>2. [op |-> "submit", ret |-> r, task |-> k, seen |-> ret[r]] \in Tx
        BY DEF TypeOK, Tx, SubmitTx
  <2> QED  BY <1>2, <1>6, <2>1, <2>2 DEF BeginSubmit, Begin, TypeOK
<1>7. ASSUME NEW w \in Workers, CommitSubmit(w)
      PROVE  TypeOK'
  <2>1. tx[w] \in SubmitTx
        BY <1>2, <1>7, TxByOp DEF CommitSubmit
  <2>2. /\ Submitted(tx[w].seen) \in ReturnRow
        /\ NewTask(tx[w].ret, tx[w].seen) \in TaskRow
        BY <2>1, ComputedType DEF SubmitTx
  <2>3. ret' \in [Returns -> ReturnRow]
        BY <1>7, <2>1, <2>2, FlushType DEF CommitSubmit, TypeOK, SubmitTx
  <2>4. task' \in [Tasks -> TaskRow]
        BY <1>7, <2>1, <2>2 DEF CommitSubmit, TypeOK, SubmitTx
  <2> QED  BY <1>2, <1>7, <2>3, <2>4 DEF CommitSubmit, TypeOK
<1>8. ASSUME NEW w \in Workers, BeginExport(w)
      PROVE  TypeOK'
  <2>1. PICK r \in Returns : Begin(w, [op |-> "export", ret |-> r, seen |-> ret[r]])
        BY <1>8 DEF BeginExport
  <2>2. [op |-> "export", ret |-> r, seen |-> ret[r]] \in Tx
        BY DEF TypeOK, Tx, ExportTx
  <2> QED  BY <1>2, <1>8, <2>1, <2>2 DEF BeginExport, Begin, TypeOK
<1>9. ASSUME NEW w \in Workers, Upload(w)
      PROVE  TypeOK'
  <2>1. tx[w] \in ExportTx
        BY <1>2, <1>9, TxByOp DEF Upload
  <2>2. PICK stored \in BOOLEAN :
            /\ file' = IF stored
                       THEN [file EXCEPT ![tx[w].ret] = tx[w].seen.figures]
                       ELSE file
            /\ tx' = [tx EXCEPT ![w] = [op |-> "uploaded", ret |-> tx[w].ret,
                                        seen |-> tx[w].seen, stored |-> stored]]
        BY <1>9 DEF Upload
  <2>3. file' \in [Returns -> Figures \cup {NoFigures}]
        BY <2>1, <2>2 DEF TypeOK, ExportTx, ReturnRow
  <2>4. [op |-> "uploaded", ret |-> tx[w].ret, seen |-> tx[w].seen,
         stored |-> stored] \in Tx
        BY <2>1 DEF ExportTx, UploadedTx, Tx
  <2> QED  BY <1>2, <1>9, <2>2, <2>3, <2>4 DEF Upload, TypeOK
<1>10. ASSUME NEW w \in Workers, CommitExport(w)
       PROVE  TypeOK'
  <2>1. tx[w] \in UploadedTx
        BY <1>2, <1>10, TxByOp DEF CommitExport
  <2>2. Exported(tx[w].seen, tx[w].stored) \in ReturnRow
        BY <2>1, ComputedType DEF UploadedTx
  <2>3. ret' \in [Returns -> ReturnRow]
        BY <1>10, <2>1, <2>2, FlushType DEF CommitExport, TypeOK, UploadedTx
  <2> QED  BY <1>2, <1>10, <2>3 DEF CommitExport, TypeOK
<1>11. ASSUME NEW w \in Workers, BeginDecide(w)
       PROVE  TypeOK'
  <2>1. PICK k \in Tasks, by \in Decision :
            Begin(w, [op |-> "decide", task |-> k, by |-> by, seen |-> task[k]])
        BY <1>11 DEF BeginDecide
  <2>2. [op |-> "decide", task |-> k, by |-> by, seen |-> task[k]] \in Tx
        BY DEF TypeOK, Tx, DecideTx
  <2> QED  BY <1>2, <1>11, <2>1, <2>2 DEF BeginDecide, Begin, TypeOK
<1>12. ASSUME NEW w \in Workers, Propagate(w)
       PROVE  TypeOK'
  <2>1. tx[w] \in DecideTx
        BY <1>2, <1>12, TxByOp DEF Propagate
  <2>2. FlushTask(task[tx[w].task], tx[w].seen, Decided(tx[w].seen, tx[w].by))
            \in TaskRow
        BY <2>1, ComputedType, FlushType DEF DecideTx, TypeOK
  <2>3. task[tx[w].task].ret \in Returns
        BY <1>12, <2>1 DEF Propagate, TasksKnown, DecideTx
  <2> QED  BY <1>2, <1>12, <2>1, <2>2, <2>3
           DEF Propagate, TypeOK, Tx, DecideTx, PropagateTx
<1>13. ASSUME NEW w \in Workers, CommitDecide(w)
       PROVE  TypeOK'
  <2>1. tx[w] \in PropagateTx
        BY <1>2, <1>13, TxByOp DEF CommitDecide
  <2>2. task' \in [Tasks -> TaskRow]
        BY <1>13, <2>1 DEF CommitDecide, TypeOK, PropagateTx
  <2>3. Propagated(tx[w].seen, tx[w].by) \in ReturnRow
        BY <2>1, ComputedType DEF PropagateTx
  <2>4. ret' \in [Returns -> ReturnRow]
        BY <1>13, <2>1, <2>3, FlushType DEF CommitDecide, TypeOK, PropagateTx
  <2>5. decisions' \in [Tasks -> Seq(Decision)]
        BY <1>13, <2>1 DEF CommitDecide, TypeOK, PropagateTx
  <2> QED  BY <1>2, <1>13, <2>2, <2>4, <2>5 DEF CommitDecide, TypeOK
<1> QED
  BY <1>1, <1>3, <1>4, <1>5, <1>6, <1>7, <1>8, <1>9, <1>10, <1>11, <1>12,
     <1>13 DEF Next

-----------------------------------------------------------------------------
(* The tasks a request knows. *)

\* No step removes a task or moves it to another return.
LEMMA TasksStay ==
    ASSUME TypeOK, TasksKnown, [Next]_vars
    PROVE  \A k \in Tasks : task[k].status # "none" =>
              task'[k].status # "none" /\ task'[k].ret = task[k].ret
<1>1. CASE UNCHANGED task
      BY <1>1
<1>2. ASSUME NEW w \in Workers, CommitSubmit(w)
      PROVE  \A k \in Tasks : task[k].status # "none" =>
                task'[k].status # "none" /\ task'[k].ret = task[k].ret
  <2>1. tx[w] \in SubmitTx
        BY <1>2, TxByOp DEF CommitSubmit, TypeOK
  <2> QED  BY <1>2, <2>1 DEF CommitSubmit, TypeOK, SubmitTx
<1>3. ASSUME NEW w \in Workers, CommitDecide(w)
      PROVE  \A k \in Tasks : task[k].status # "none" =>
                task'[k].status # "none" /\ task'[k].ret = task[k].ret
  <2>1. tx[w] \in PropagateTx
        BY <1>3, TxByOp DEF CommitDecide, TypeOK
  <2>2. /\ tx[w].row.status # "none"
        /\ tx[w].row.ret = task[tx[w].task].ret
        BY <1>3, <2>1, DecisionStatusType
        DEF CommitDecide, TasksKnown, PropagateTx, Decision, ApprovalStatus
  <2> QED  BY <1>3, <2>1, <2>2 DEF CommitDecide, TypeOK, PropagateTx
<1> QED
  BY <1>1, <1>2, <1>3
  DEF Next, vars, BeginGenerate, CommitGenerate, InsertConflict, BeginSubmit,
      BeginExport, Upload, CommitExport, BeginDecide, Propagate, Rollback

\* A request that reads, or uploads, only changes what its worker holds.
LEMMA ReadStep ==
    ASSUME tx \in [Workers -> Tx], NEW w \in Workers,
           BeginGenerate(w) \/ BeginSubmit(w) \/ BeginExport(w) \/ Upload(w)
    PROVE  /\ tx' = [tx EXCEPT ![w] = tx'[w]]
           /\ tx'[w].op \in {"generate", "submit", "export", "uploaded"}
           /\ UNCHANGED <<ret, task, decisions>>
<1>1. CASE BeginGenerate(w)
      BY <1>1 DEF BeginGenerate, Begin
<1>2. CASE BeginSubmit(w)
      BY <1>2 DEF BeginSubmit, Begin
<1>3. CASE BeginExport(w)
      BY <1>3 DEF BeginExport, Begin
<1>4. CASE Upload(w)
      BY <1>4 DEF Upload
<1> QED  BY <1>1, <1>2, <1>3, <1>4

LEMMA NextKnown ==
    ASSUME TypeOK, TasksKnown, [Next]_vars
    PROVE  TasksKnown'
<1> DEFINE Known(t, tasks) ==
        /\ t.op = "decide" => /\ tasks[t.task].status # "none"
                              /\ t.seen.status = "pending"
                              /\ t.seen.decidedBy = NoUser
        /\ t.op = "propagate" =>
              /\ tasks[t.task].status # "none"
              /\ t.row.ret = tasks[t.task].ret
              /\ t.row.status = DecisionStatus[t.by.decision]
              /\ t.row.decidedBy = t.by.user
           RowsKnown == \A k \in Tasks :
              /\ task'[k].status # "none" => task'[k].ret \in Returns
              /\ task'[k].status = "pending" => task'[k].decidedBy = NoUser
<1>1. ASSUME NEW v \in Workers
      PROVE  Known(tx[v], task')
  <2>1. Known(tx[v], task) /\ tx[v] \in Tx
        BY DEF TasksKnown, TypeOK
  <2> QED  BY <2>1, TasksStay, TxByOp DEF DecideTx, PropagateTx
<1>2. ASSUME NEW w \in Workers, NEW t, tx' = [tx EXCEPT ![w] = t],
             Known(t, task')
      PROVE  \A v \in Workers : Known(tx'[v], task')
      BY <1>1, <1>2 DEF TypeOK
<1>3. ASSUME NEW w \in Workers, End(w)
      PROVE  \A v \in Workers : Known(tx'[v], task')
      BY <1>1, <1>3 DEF TypeOK, End, Idle
<1>4. task' = task => RowsKnown
      BY DEF TasksKnown
<1>5. CASE UNCHANGED vars
      BY <1>5 DEF vars, TasksKnown
<1>6. ASSUME NEW w \in Workers,
             \/ CommitGenerate(w) \/ InsertConflict(w) \/ CommitExport(w)
             \/ Rollback(w)
      PROVE  TasksKnown'
      BY <1>3, <1>4, <1>6
      DEF CommitGenerate, InsertConflict, CommitExport, Rollback, TasksKnown
<1>7. ASSUME NEW w \in Workers,
             BeginGenerate(w) \/ BeginSubmit(w) \/ BeginExport(w) \/ Upload(w)
      PROVE  TasksKnown'
  <2>1. /\ tx' = [tx EXCEPT ![w] = tx'[w]]
        /\ tx'[w].op \in {"generate", "submit", "export", "uploaded"}
        BY <1>7, ReadStep DEF TypeOK
  <2>2. task' = task
        BY <1>7 DEF BeginGenerate, BeginSubmit, BeginExport, Upload
  <2>3. Known(tx'[w], task')
        BY <2>1
  <2>4. \A v \in Workers : Known(tx'[v], task')
        BY <1>2, <2>1, <2>3
  <2> QED  BY <1>4, <2>2, <2>4 DEF TasksKnown
<1>8. ASSUME NEW w \in Workers, BeginDecide(w)
      PROVE  TasksKnown'
  <2>1. PICK k \in Tasks, by \in Decision :
            /\ task[k].status = "pending"
            /\ tx' = [tx EXCEPT ![w] = [op |-> "decide", task |-> k, by |-> by,
                                        seen |-> task[k]]]
        BY <1>8 DEF BeginDecide, Begin, MayDecide
  <2>2. task' = task /\ task[k].decidedBy = NoUser
        BY <1>8, <2>1 DEF BeginDecide, TasksKnown
  <2>3. Known([op |-> "decide", task |-> k, by |-> by, seen |-> task[k]], task')
        BY <2>1, <2>2
  <2>4. \A v \in Workers : Known(tx'[v], task')
        BY <1>2, <2>1, <2>3
  <2> QED  BY <1>4, <2>2, <2>4 DEF TasksKnown
<1>9. ASSUME NEW w \in Workers, Propagate(w)
      PROVE  TasksKnown'
  <2> DEFINE t == tx[w]
             row == FlushTask(task[t.task], t.seen, Decided(t.seen, t.by))
             new == [op |-> "propagate", task |-> t.task, by |-> t.by,
                     row |-> row, seen |-> ret[task[t.task].ret]]
  <2>1. /\ t \in DecideTx
        /\ task' = task
        /\ tx' = [tx EXCEPT ![w] = new]
        BY <1>9, TxByOp DEF Propagate, TypeOK
  <2>2. /\ task[t.task].status # "none"
        /\ t.seen.status = "pending"
        /\ t.seen.decidedBy = NoUser
        BY <1>9 DEF Propagate, TasksKnown
  <2>3. /\ Decided(t.seen, t.by) \in TaskRow
        /\ Decided(t.seen, t.by).status = DecisionStatus[t.by.decision]
        /\ Decided(t.seen, t.by).decidedBy = t.by.user
        BY <2>1, ComputedType DEF DecideTx, Decided, TaskRow
  <2>4. /\ DecisionStatus[t.by.decision] # "pending"
        /\ t.by.user # NoUser
        BY <2>1, DecisionStatusType, NoValues DEF DecideTx, Decision
  <2>5. /\ row.ret = task[t.task].ret
        /\ row.status = DecisionStatus[t.by.decision]
        /\ row.decidedBy = t.by.user
        BY <2>1, <2>2, <2>3, <2>4, FlushType DEF DecideTx, TypeOK, Column
  <2> HIDE DEF t, row
  <2>6. Known(new, task')
        BY <2>1, <2>2, <2>5
  <2>7. \A v \in Workers : Known(tx'[v], task')
        BY <1>2, <2>1, <2>6
  <2> QED  BY <1>4, <2>1, <2>7 DEF TasksKnown
<1>10. ASSUME NEW w \in Workers, CommitSubmit(w)
       PROVE  TasksKnown'
  <2>1. tx[w] \in SubmitTx
        BY <1>10, TxByOp DEF CommitSubmit, TypeOK
  <2>2. RowsKnown
        BY <1>10, <2>1 DEF CommitSubmit, TypeOK, TasksKnown, SubmitTx, NewTask
  <2> QED  BY <1>3, <1>10, <2>2 DEF CommitSubmit, TasksKnown
<1>11. ASSUME NEW w \in Workers, CommitDecide(w)
       PROVE  TasksKnown'
  <2>1. tx[w] \in PropagateTx
        BY <1>11, TxByOp DEF CommitDecide, TypeOK
  <2>2. /\ task[tx[w].task].ret \in Returns
        /\ tx[w].row.ret = task[tx[w].task].ret
        /\ tx[w].row.status # "pending"
        BY <1>11, <2>1, DecisionStatusType
        DEF CommitDecide, TasksKnown, PropagateTx, Decision
  <2>3. RowsKnown
        BY <1>11, <2>1, <2>2 DEF CommitDecide, TypeOK, TasksKnown, PropagateTx
  <2> QED  BY <1>3, <1>11, <2>3 DEF CommitDecide, TasksKnown
<1> QED
  BY <1>5, <1>6, <1>7, <1>8, <1>9, <1>10, <1>11 DEF Next

-----------------------------------------------------------------------------
(* A return under review has an open task.                                 *)

\* UnderReviewHasTask alone is not inductive: a request may decide the task
\* and, having loaded the return when it was not under review, leave its
\* status alone.  The inductive form asks for an open task that no such
\* request holds: submit_for_review creates one that nobody can hold yet, and
\* a request that flushes a task afterwards loads the return under review.
Undisturbed(k) ==
    \A w \in Workers : tx[w].op = "propagate" /\ tx[w].task = k
                          => tx[w].seen.status = "under_review"

HasOpenTask ==
    \A r \in Returns : ret[r].status = "under_review" =>
        \E k \in Tasks : /\ task[k].ret = r
                         /\ task[k].status \in {"pending", "modified"}
                         /\ Undisturbed(k)

LEMMA NextHasOpenTask ==
    ASSUME TypeOK, TasksKnown, HasOpenTask, [Next]_vars
    PROVE  HasOpenTask'
<1> USE DEF TypeOK
<1>1. CASE UNCHANGED vars
      BY <1>1 DEF vars, HasOpenTask, Undisturbed
<1>2. ASSUME NEW w \in Workers, NEW k \in Tasks, Undisturbed(k),
             tx' = [tx EXCEPT ![w] = tx'[w]], tx'[w].op # "propagate"
      PROVE  Undisturbed(k)'
      BY <1>2 DEF Undisturbed
<1>3. ASSUME NEW w \in Workers, End(w)
      PROVE  tx' = [tx EXCEPT ![w] = tx'[w]] /\ tx'[w].op # "propagate"
      BY <1>3 DEF End, Idle
<1>4. ASSUME NEW w \in Workers, UNCHANGED <<ret, task>>,
             tx' = [tx EXCEPT ![w] = tx'[w]], tx'[w].op # "propagate"
      PROVE  HasOpenTask'
      BY <1>2, <1>4 DEF HasOpenTask
<1>5. ASSUME NEW w \in Workers,
             BeginGenerate(w) \/ BeginSubmit(w) \/ BeginExport(w) \/ Upload(w)
      PROVE  HasOpenTask'
      BY <1>4, <1>5, ReadStep
<1>6. ASSUME NEW w \in Workers, InsertConflict(w) \/ Rollback(w)
      PROVE  HasOpenTask'
      BY <1>3, <1>4, <1>6 DEF InsertConflict, Rollback
<1>7. ASSUME NEW w \in Workers, BeginDecide(w)
      PROVE  HasOpenTask'
  <2>1. tx' = [tx EXCEPT ![w] = tx'[w]] /\ tx'[w].op # "propagate"
        BY <1>7 DEF BeginDecide, Begin
  <2> QED  BY <1>4, <1>7, <2>1 DEF BeginDecide
<1>8. ASSUME NEW w \in Workers, CommitGenerate(w) \/ CommitExport(w)
      PROVE  HasOpenTask'
  <2>1. /\ CommitGenerate(w) => tx[w] \in GenerateTx
        /\ CommitExport(w) => tx[w] \in UploadedTx
        BY TxByOp DEF CommitGenerate, CommitExport
  <2>2. ASSUME NEW r \in Returns, ret'[r].status = "under_review"
        PROVE  ret[r].status = "under_review"
    <3>1. CASE CommitGenerate(w)
      <4> DEFINE new == Generated(tx[w].seen, tx[w].figures)
      <4>1. new.status = "generated"
            BY <2>1, <3>1 DEF Generated, GenerateTx, ReturnRow
      <4>2. \/ ret'[r] = ret[r]
            \/ ret'[r] = new
            \/ ret'[r] = FlushReturn(ret[r], tx[w].seen, new)
            BY <2>1, <3>1 DEF CommitGenerate, GenerateTx
      <4>3. FlushReturn(ret[r], tx[w].seen, new).status
               = Column(ret[r].status, tx[w].seen.status, new.status)
            BY DEF FlushReturn
      <4> QED  BY <2>2, <4>1, <4>2, <4>3 DEF Column
    <3>2. CASE CommitExport(w)
          BY <2>1, <2>2, <3>2
          DEF CommitExport, FlushReturn, Column, Exported, UploadedTx,
              ReturnRow
    <3> QED  BY <1>8, <3>1, <3>2
  <2>3. task' = task /\ End(w)
        BY <1>8 DEF CommitGenerate, CommitExport
  <2> QED  BY <1>2, <1>3, <2>2, <2>3 DEF HasOpenTask
<1>9. ASSUME NEW w \in Workers, CommitSubmit(w)
      PROVE  HasOpenTask'
  <2>1. /\ tx[w] \in SubmitTx
        /\ task[tx[w].task].status = "none"
        /\ End(w)
        BY <1>9, TxByOp DEF CommitSubmit
  <2>2. PICK new \in Tasks : new = tx[w].task
        BY <2>1 DEF SubmitTx
  <2>3. /\ task'[new].ret = tx[w].ret
        /\ task'[new].status = "pending"
        BY <1>9, <2>1, <2>2 DEF CommitSubmit, NewTask, SubmitTx
  <2>4. Undisturbed(new)
        BY <2>1, <2>2 DEF Undisturbed, TasksKnown
  <2>5. Undisturbed(new)'
        BY <1>2, <1>3, <2>1, <2>4
  <2>6. ASSUME NEW r \in Returns, r # tx[w].ret,
               ret'[r].status = "under_review"
        PROVE  \E k \in Tasks : /\ task'[k].ret = r
                                /\ task'[k].status \in {"pending", "modified"}
                                /\ Undisturbed(k)'
    <3>1. PICK k \in Tasks : /\ task[k].ret = r
                             /\ task[k].status \in {"pending", "modified"}
                             /\ Undisturbed(k)
          BY <1>9, <2>1, <2>6 DEF CommitSubmit, SubmitTx, HasOpenTask
    <3>2. task'[k] = task[k]
          BY <1>9, <2>1, <3>1 DEF CommitSubmit, SubmitTx
    <3>3. Undisturbed(k)'
          BY <1>2, <1>3, <2>1, <3>1
    <3> QED  BY <3>1, <3>2, <3>3
  <2> QED  BY <2>3, <2>5, <2>6 DEF HasOpenTask
<1>10. ASSUME NEW w \in Workers, Propagate(w)
       PROVE  HasOpenTask'
  <2>1. /\ UNCHANGED <<ret, task>>
        /\ tx[w] \in DecideTx
        /\ tx' = [tx EXCEPT ![w] = tx'[w]]
        /\ tx'[w].task = tx[w].task
        /\ tx'[w].seen = ret[task[tx[w].task].ret]
        BY <1>10, TxByOp DEF Propagate
  <2>2. ASSUME NEW r \in Returns, ret[r].status = "under_review",
               NEW k \in Tasks, task[k].ret = r, Undisturbed(k)
        PROVE  Undisturbed(k)'
        BY <2>1, <2>2 DEF Undisturbed
  <2> QED  BY <2>1, <2>2 DEF HasOpenTask
<1>11. ASSUME NEW w \in Workers, CommitDecide(w)
       PROVE  HasOpenTask'
  <2> DEFINE t == tx[w]
             new == Propagated(t.seen, t.by)
  <2>1. /\ t \in PropagateTx
        /\ t.row.ret = task[t.task].ret
        /\ t.row.ret \in Returns
        /\ t.row.status = DecisionStatus[t.by.decision]
        /\ End(w)
        BY <1>11, TxByOp DEF CommitDecide, TasksKnown, PropagateTx
  <2>2. /\ task' = [task EXCEPT ![t.task] = t.row]
        /\ ret' = [ret EXCEPT ![t.row.ret] = FlushReturn(@, t.seen, new)]
        BY <1>11 DEF CommitDecide
  <2>3. ASSUME NEW r \in Returns, ret'[r].status = "under_review"
        PROVE  /\ ret[r].status = "under_review"
               /\ \A k \in Tasks : task[k].ret = r /\ Undisturbed(k) =>
                     k # t.task \/ t.by.decision = "modify"
    <3>1. CASE r # t.row.ret
          BY <2>1, <2>2, <2>3, <3>1 DEF PropagateTx
    <3>2. CASE r = t.row.ret
      <4>1. ret'[r].status = Column(ret[r].status, t.seen.status, new.status)
            BY <2>1, <2>2, <3>2 DEF FlushReturn
      <4>2. CASE t.by.decision = "approve"
        <5>1. new.status = "approved"
              BY <2>1, <4>2 DEF Propagated, PropagateTx, ReturnRow
        <5>2. ret[r].status = "under_review" /\ t.seen.status = "approved"
              BY <2>3, <4>1, <5>1 DEF Column
        <5> QED  BY <1>11, <5>2 DEF Undisturbed, CommitDecide
      <4>3. CASE t.by.decision = "reject"
        <5>1. new.status = "generated"
              BY <2>1, <4>3 DEF Propagated, PropagateTx, ReturnRow
        <5>2. ret[r].status = "under_review" /\ t.seen.status = "generated"
              BY <2>3, <4>1, <5>1 DEF Column
        <5> QED  BY <1>11, <5>2 DEF Undisturbed, CommitDecide
      <4>4. CASE t.by.decision = "modify"
        <5>1. new.status = t.seen.status
              BY <2>1, <4>4 DEF Propagated, PropagateTx
        <5> QED  BY <2>3, <4>1, <4>4, <5>1 DEF Column
      <4> QED
          BY <2>1, <4>2, <4>3, <4>4 DEF PropagateTx, Decision, Decisions
    <3> QED  BY <3>1, <3>2
  <2>4. ASSUME NEW r \in Returns, ret'[r].status = "under_review"
        PROVE  \E k \in Tasks : /\ task'[k].ret = r
                                /\ task'[k].status \in {"pending", "modified"}
                                /\ Undisturbed(k)'
    <3>1. PICK k \in Tasks : /\ task[k].ret = r
                             /\ task[k].status \in {"pending", "modified"}
                             /\ Undisturbed(k)
          BY <2>3, <2>4 DEF HasOpenTask
    <3>2. /\ task'[k].ret = r
          /\ task'[k].status \in {"pending", "modified"}
      <4>1. CASE k # t.task
            BY <2>1, <2>2, <3>1, <4>1 DEF PropagateTx
      <4>2. CASE k = t.task
        <5>1. t.by.decision = "modify"
              BY <2>3, <2>4, <3>1, <4>2
        <5>2. t.row.status = "modified"
              BY <2>1, <5>1 DEF DecisionStatus
        <5> QED  BY <2>1, <2>2, <3>1, <4>2, <5>2 DEF PropagateTx
      <4> QED  BY <4>1, <4>2
    <3> QED  BY <1>2, <1>3, <2>1, <3>1, <3>2
  <2> QED  BY <2>4 DEF HasOpenTask
<1> QED
  BY <1>1, <1>5, <1>6, <1>7, <1>8, <1>9, <1>10, <1>11 DEF Next

-----------------------------------------------------------------------------
(* The audit log tells the decision a task carries.                        *)

LEMMA NextLastDecision ==
    ASSUME TypeOK, TasksKnown, LastDecisionOnRecord, [Next]_vars
    PROVE  LastDecisionOnRecord'
<1> USE DEF TypeOK
<1>1. CASE UNCHANGED <<task, decisions>>
      BY <1>1 DEF LastDecisionOnRecord
<1>2. ASSUME NEW w \in Workers, CommitSubmit(w)
      PROVE  LastDecisionOnRecord'
  <2>1. tx[w] \in SubmitTx
        BY <1>2, TxByOp DEF CommitSubmit
  <2>2. Len(decisions[tx[w].task]) = 0
        BY <1>2, <2>1 DEF CommitSubmit, LastDecisionOnRecord, SubmitTx
  <2> QED
      BY <1>2, <2>1, <2>2
      DEF CommitSubmit, LastDecisionOnRecord, SubmitTx, NewTask
<1>3. ASSUME NEW w \in Workers, CommitDecide(w)
      PROVE  LastDecisionOnRecord'
  <2> DEFINE t == tx[w]
  <2>1. /\ t \in PropagateTx
        /\ t.row.status = DecisionStatus[t.by.decision]
        /\ t.row.decidedBy = t.by.user
        BY <1>3, TxByOp DEF CommitDecide, TasksKnown
  <2>2. /\ task' = [task EXCEPT ![t.task] = t.row]
        /\ decisions' = [decisions EXCEPT ![t.task] = Append(@, t.by)]
        BY <1>3 DEF CommitDecide
  <2>3. /\ t.task \in Tasks
        /\ t.by \in Decision
        /\ t.row.status \notin {"none", "pending"}
        BY <2>1, DecisionStatusType DEF PropagateTx, Decision, ApprovalStatus
  <2> HIDE DEF t
  <2>4. ASSUME NEW k \in Tasks
        PROVE  LET n == Len(decisions'[k]) IN
                 /\ task'[k].status \in {"none", "pending"} <=> n = 0
                 /\ n > 0 =>
                      /\ task'[k].status = DecisionStatus[decisions'[k][n].decision]
                      /\ task'[k].decidedBy = decisions'[k][n].user
    <3>1. CASE k # t.task
          BY <2>2, <2>3, <3>1 DEF LastDecisionOnRecord
    <3>2. CASE k = t.task
      <4>1. /\ task'[k] = t.row
            /\ decisions'[k] = Append(decisions[k], t.by)
            /\ decisions[k] \in Seq(Decision)
            BY <2>2, <2>3, <3>2
      <4>2. /\ Len(decisions'[k]) = Len(decisions[k]) + 1
            /\ Len(decisions[k]) \in Nat
            /\ decisions'[k][Len(decisions[k]) + 1] = t.by
            BY <2>3, <4>1
      <4> QED  BY <2>1, <2>3, <4>1, <4>2
    <3> QED  BY <3>1, <3>2
  <2> QED  BY <2>4 DEF LastDecisionOnRecord
<1> QED
  BY <1>1, <1>2, <1>3
  DEF Next, vars, BeginGenerate, CommitGenerate, InsertConflict, BeginSubmit,
      BeginExport, Upload, CommitExport, BeginDecide, Propagate, Rollback

-----------------------------------------------------------------------------
(* An approval comes from an approve decision.                             *)

\* The rows a request loaded, and so the columns it may write back, are backed
\* by decisions too: the property of the stored rows alone is not inductive.
Backed(row, r) ==
    /\ row.status \in {"approved", "exported"} => ApprovedBy(r, Users)
    /\ row.approvedBy # NoUser => ApprovedBy(r, {row.approvedBy})

RowsBacked == \A r \in Returns : Backed(ret[r], r)

TxBacked(t) ==
    /\ t.op \in {"generate", "submit", "export", "uploaded"}
          => Backed(t.seen, t.ret)
    /\ t.op = "propagate" => Backed(t.seen, t.row.ret)

ApprovalKnown == RowsBacked /\ \A w \in Workers : TxBacked(tx[w])

\* The audit log only grows, and a decided task stays with its return.
LEMMA ApprovalsStay ==
    ASSUME TypeOK, TasksKnown, LastDecisionOnRecord, [Next]_vars,
           NEW r, NEW U, ApprovedBy(r, U)
    PROVE  ApprovedBy(r, U)'
<1>1. PICK k \in TasksOf(r) : \E i \in DOMAIN decisions[k] :
            /\ decisions[k][i].decision = "approve"
            /\ decisions[k][i].user \in U
      BY DEF ApprovedBy
<1>2. PICK i \in DOMAIN decisions[k] : /\ decisions[k][i].decision = "approve"
                                       /\ decisions[k][i].user \in U
      BY <1>1
<1>3. /\ k \in Tasks /\ task[k].ret = r
      /\ decisions[k] \in Seq(Decision)
      /\ i \in 1..Len(decisions[k])
      BY <1>2 DEF TasksOf, TypeOK
<1>4. k \in TasksOf(r)'
  <2>1. task[k].status # "none"
        BY <1>3 DEF LastDecisionOnRecord
  <2> QED  BY <1>3, <2>1, TasksStay DEF TasksOf
<1>5. i \in DOMAIN decisions'[k] /\ decisions'[k][i] = decisions[k][i]
  <2>1. CASE decisions' = decisions
        BY <2>1
  <2>2. ASSUME NEW w \in Workers, CommitDecide(w)
        PROVE  i \in DOMAIN decisions'[k] /\ decisions'[k][i] = decisions[k][i]
    <3>1. tx[w] \in PropagateTx
          BY <2>2, TxByOp DEF CommitDecide, TypeOK
    <3>2. tx[w].by \in Decision
          BY <3>1 DEF PropagateTx
    <3>3. \/ decisions'[k] = decisions[k]
          \/ decisions'[k] = Append(decisions[k], tx[w].by)
          BY <2>2, <1>3 DEF CommitDecide, TypeOK
    <3> QED  BY <1>3, <3>2, <3>3
  <2> QED
      BY <2>1, <2>2
      DEF Next, vars, BeginGenerate, CommitGenerate, InsertConflict,
          BeginSubmit, CommitSubmit, BeginExport, Upload, CommitExport,
          BeginDecide, Propagate, Rollback
<1> QED  BY <1>2, <1>4, <1>5 DEF ApprovedBy

LEMMA NextApprovalKnown ==
    ASSUME TypeOK, TasksKnown, LastDecisionOnRecord, ApprovalKnown, [Next]_vars
    PROVE  ApprovalKnown'
<1> USE DEF TypeOK
<1>1. ASSUME NEW row, NEW r, Backed(row, r)
      PROVE  Backed(row, r)'
      BY <1>1, ApprovalsStay DEF Backed
<1>2. ASSUME NEW t, TxBacked(t)
      PROVE  TxBacked(t)'
      BY <1>1, <1>2 DEF TxBacked
<1>3. ASSUME NEW stored, NEW seen, NEW new, NEW r,
             Backed(stored, r)', Backed(new, r)'
      PROVE  Backed(FlushReturn(stored, seen, new), r)'
      BY <1>3 DEF Backed, FlushReturn, Column
<1>4. ASSUME NEW w \in Workers, NEW t, tx' = [tx EXCEPT ![w] = t], TxBacked(t)'
      PROVE  \A v \in Workers : TxBacked(tx[v])'
  <2> SUFFICES ASSUME NEW v \in Workers
               PROVE  TxBacked(tx[v])'
      OBVIOUS
  <2>1. PICK u : u = tx'[v]
        OBVIOUS
  <2>2. CASE v = w
    <3>1. u = t
          BY <1>4, <2>1, <2>2
    <3> QED  BY <1>4, <2>1, <3>1 DEF TxBacked, Backed, ApprovedBy, TasksOf
  <2>3. CASE v # w
    <3>1. u = tx[v] /\ TxBacked(tx[v])
          BY <1>4, <2>1, <2>3 DEF ApprovalKnown
    <3>2. TxBacked(u)
          BY <3>1
    <3>3. TxBacked(u)'
          BY <1>2, <3>2
    <3> QED  BY <2>1, <3>3 DEF TxBacked, Backed, ApprovedBy, TasksOf
  <2> QED  BY <2>2, <2>3
<1>5. ASSUME NEW w \in Workers, End(w)
      PROVE  \A v \in Workers : TxBacked(tx[v])'
  <2>1. TxBacked(Idle)'
        BY DEF TxBacked, Idle
  <2> QED  BY <1>4, <1>5, <2>1 DEF End
<1>6. ASSUME NEW r \in Returns, NEW stored, ret' = [ret EXCEPT ![r] = stored],
             Backed(stored, r)'
      PROVE  RowsBacked'
  <2> SUFFICES ASSUME NEW q \in Returns
               PROVE  Backed(ret[q], q)'
      BY DEF RowsBacked
  <2>1. PICK row : row = ret'[q]
        OBVIOUS
  <2>2. CASE q = r
    <3>1. row = stored
          BY <1>6, <2>1, <2>2
    <3> QED  BY <1>6, <2>1, <2>2, <3>1 DEF Backed, ApprovedBy, TasksOf
  <2>3. CASE q # r
    <3>1. row = ret[q] /\ Backed(ret[q], q)
          BY <1>6, <2>1, <2>3 DEF ApprovalKnown, RowsBacked
    <3>2. Backed(row, q)
          BY <3>1
    <3>3. Backed(row, q)'
          BY <1>1, <3>2
    <3> QED  BY <2>1, <3>3 DEF Backed, ApprovedBy, TasksOf
  <2> QED  BY <2>2, <2>3
<1>7. ASSUME UNCHANGED ret
      PROVE  RowsBacked'
  <2> SUFFICES ASSUME NEW q \in Returns
               PROVE  Backed(ret[q], q)'
      BY DEF RowsBacked
  <2>1. PICK row : row = ret[q]
        OBVIOUS
  <2>2. Backed(row, q)
        BY <2>1 DEF ApprovalKnown, RowsBacked
  <2>3. Backed(row, q)'
        BY <1>1, <2>2
  <2> QED  BY <1>7, <2>1, <2>3 DEF Backed, ApprovedBy, TasksOf
<1>8. CASE UNCHANGED vars
  <2> SUFFICES ASSUME NEW v \in Workers
               PROVE  TxBacked(tx[v])'
      BY <1>7, <1>8 DEF vars, ApprovalKnown
  <2>1. PICK u : u = tx[v]
        OBVIOUS
  <2>2. TxBacked(u)'
        BY <1>2, <2>1 DEF ApprovalKnown
  <2> QED
      BY <1>8, <2>1, <2>2 DEF vars, TxBacked, Backed, ApprovedBy, TasksOf
<1>9. ASSUME NEW w \in Workers,
             BeginGenerate(w) \/ BeginSubmit(w) \/ BeginExport(w) \/ Upload(w)
      PROVE  ApprovalKnown'
  <2>1. PICK t : t = tx'[w]
        OBVIOUS
  <2>2. tx' = [tx EXCEPT ![w] = t] /\ t.op # "propagate"
        BY <1>9, <2>1, ReadStep
  <2>3. \/ t.ret \in Returns /\ t.seen = ret[t.ret]
        \/ /\ t.ret = tx[w].ret
           /\ t.seen = tx[w].seen
           /\ tx[w].op = "export"
    <3>1. CASE BeginGenerate(w)
          BY <3>1, <2>1 DEF BeginGenerate, Begin
    <3>2. CASE BeginSubmit(w)
          BY <3>2, <2>1 DEF BeginSubmit, Begin
    <3>3. CASE BeginExport(w)
          BY <3>3, <2>1 DEF BeginExport, Begin
    <3>4. CASE Upload(w)
          BY <3>4, <2>1 DEF Upload
    <3> QED  BY <1>9, <3>1, <3>2, <3>3, <3>4
  <2>4. TxBacked(t)
        BY <2>2, <2>3 DEF ApprovalKnown, RowsBacked, TxBacked
  <2>5. TxBacked(t)'
        BY <1>2, <2>4
  <2>6. ret' = ret
        BY <1>9, ReadStep
  <2> QED  BY <1>4, <1>7, <2>2, <2>5, <2>6 DEF ApprovalKnown
<1>10. ASSUME NEW w \in Workers, InsertConflict(w) \/ Rollback(w)
       PROVE  ApprovalKnown'
       BY <1>5, <1>7, <1>10 DEF InsertConflict, Rollback, ApprovalKnown
<1>11. ASSUME NEW w \in Workers, BeginDecide(w)
       PROVE  ApprovalKnown'
  <2>1. PICK t : t = tx'[w]
        OBVIOUS
  <2>2. tx' = [tx EXCEPT ![w] = t] /\ t.op = "decide"
        BY <1>11, <2>1 DEF BeginDecide, Begin
  <2>3. TxBacked(t)'
        BY <2>2 DEF TxBacked
  <2> QED  BY <1>4, <1>7, <1>11, <2>2, <2>3 DEF BeginDecide, ApprovalKnown
<1>12. ASSUME NEW w \in Workers, Propagate(w)
       PROVE  ApprovalKnown'
  <2>1. tx[w] \in DecideTx
        BY <1>12, TxByOp DEF Propagate
  <2>2. Decided(tx[w].seen, tx[w].by) \in TaskRow
        BY <2>1, ComputedType DEF DecideTx
  <2>3. PICK t : t = tx'[w]
        OBVIOUS
  <2>4. /\ tx' = [tx EXCEPT ![w] = t]
        /\ t.op = "propagate"
        /\ t.seen = ret[task[tx[w].task].ret]
        /\ t.row = FlushTask(task[tx[w].task], tx[w].seen,
                             Decided(tx[w].seen, tx[w].by))
        /\ ret' = ret
        BY <1>12, <2>3 DEF Propagate
  <2>5. /\ t.row.ret = task[tx[w].task].ret
        /\ t.row.ret \in Returns
        BY <1>12, <2>1, <2>2, <2>4, FlushType
        DEF DecideTx, Propagate, TasksKnown
  <2>6. TxBacked(t)
        BY <2>4, <2>5 DEF TxBacked, ApprovalKnown, RowsBacked
  <2>7. TxBacked(t)'
        BY <1>2, <2>6
  <2> QED  BY <1>4, <1>7, <2>4, <2>7 DEF ApprovalKnown
<1>13. ASSUME NEW w \in Workers, CommitGenerate(w)
       PROVE  ApprovalKnown'
  <2>1. tx[w] \in GenerateTx
        BY <1>13, TxByOp DEF CommitGenerate
  <2>2. PICK r \in Returns : r = tx[w].ret
        BY <2>1 DEF GenerateTx
  <2>3. PICK new : new = Generated(tx[w].seen, tx[w].figures)
        OBVIOUS
  <2>4. new.status = "generated" /\ new.approvedBy = NoUser
        BY <2>1, <2>3 DEF Generated, GenerateTx, ReturnRow
  <2>5. Backed(new, r)'
        BY <2>4 DEF Backed
  <2>6. PICK stored, seen : stored = ret[r] /\ seen = tx[w].seen
        OBVIOUS
  <2>7. Backed(stored, r)
        BY <2>6 DEF ApprovalKnown, RowsBacked
  <2>8. Backed(FlushReturn(stored, seen, new), r)'
        BY <1>1, <1>3, <2>5, <2>7
  <2>9. PICK flushed : flushed = FlushReturn(stored, seen, new)
        OBVIOUS
  <2>10. Backed(flushed, r)'
        BY <2>8, <2>9
  <2>11. \/ ret' = [ret EXCEPT ![r] = new]
         \/ ret' = [ret EXCEPT ![r] = flushed]
        BY <1>13, <2>2, <2>3, <2>6, <2>9 DEF CommitGenerate
  <2>12. RowsBacked'
        BY <1>6, <2>5, <2>10, <2>11
  <2> QED  BY <1>5, <1>13, <2>12 DEF CommitGenerate, ApprovalKnown
<1>14. ASSUME NEW w \in Workers, CommitSubmit(w) \/ CommitExport(w)
       PROVE  ApprovalKnown'
  <2>1. tx[w] \in SubmitTx \cup UploadedTx
        BY <1>14, TxByOp DEF CommitSubmit, CommitExport
  <2>2. PICK r \in Returns : r = tx[w].ret
        BY <2>1 DEF SubmitTx, UploadedTx
  <2>3. PICK seen \in ReturnRow : seen = tx[w].seen
        BY <2>1 DEF SubmitTx, UploadedTx
  <2>4. Backed(seen, r)
        BY <2>1, <2>2, <2>3
        DEF ApprovalKnown, TxBacked, SubmitTx, UploadedTx
  <2>5. PICK new : \/ CommitSubmit(w) /\ new = Submitted(seen)
                   \/ CommitExport(w) /\ new = Exported(seen, tx[w].stored)
        BY <1>14
  <2>6. Backed(new, r)
        BY <2>4, <2>5 DEF Backed, Submitted, Exported, ReturnRow
  <2>7. PICK stored : stored = ret[r]
        OBVIOUS
  <2>8. Backed(stored, r)
        BY <2>7 DEF ApprovalKnown, RowsBacked
  <2>9. Backed(FlushReturn(stored, seen, new), r)'
        BY <1>1, <1>3, <2>6, <2>8
  <2>10. PICK flushed : flushed = FlushReturn(stored, seen, new)
        OBVIOUS
  <2>11. Backed(flushed, r)'
        BY <2>9, <2>10
  <2>12. ret' = [ret EXCEPT ![r] = flushed]
        BY <2>2, <2>3, <2>5, <2>7, <2>10 DEF CommitSubmit, CommitExport
  <2>13. RowsBacked' /\ End(w)
        BY <1>6, <1>14, <2>11, <2>12 DEF CommitSubmit, CommitExport
  <2> QED  BY <1>5, <2>13 DEF ApprovalKnown
<1>15. ASSUME NEW w \in Workers, CommitDecide(w)
       PROVE  ApprovalKnown'
  <2>1. tx[w] \in PropagateTx
        BY <1>15, TxByOp DEF CommitDecide
  <2>2. PICK k \in Tasks, r \in Returns, by \in Decision, seen \in ReturnRow :
            /\ k = tx[w].task
            /\ r = tx[w].row.ret
            /\ r = task[k].ret
            /\ by = tx[w].by
            /\ seen = tx[w].seen
        BY <1>15, <2>1 DEF PropagateTx, TasksKnown, CommitDecide
  <2>3. task[k].status # "none"
        BY <1>15, <2>2 DEF TasksKnown, CommitDecide
  <2>4. ASSUME NEW U, by.decision = "approve", by.user \in U
        PROVE  ApprovedBy(r, U)'
    <3>1. decisions'[k] = Append(decisions[k], by)
          BY <1>15, <2>2 DEF CommitDecide
    <3>2. /\ Len(decisions[k]) + 1 \in DOMAIN decisions'[k]
          /\ decisions'[k][Len(decisions[k]) + 1] = by
          BY <3>1
    <3>3. k \in TasksOf(r)'
          BY <2>2, <2>3, TasksStay DEF TasksOf
    <3> QED  BY <2>4, <3>2, <3>3 DEF ApprovedBy
  <2>5. Backed(seen, r)'
    <3>1. Backed(seen, r)
          BY <1>15, <2>2 DEF CommitDecide, ApprovalKnown, TxBacked
    <3> QED  BY <1>1, <3>1
  <2>6. PICK new : new = Propagated(seen, by)
        OBVIOUS
  <2>7. Backed(new, r)'
    <3>1. CASE by.decision = "approve"
      <4>1. new.status = "approved" /\ new.approvedBy = by.user
            BY <2>6, <3>1 DEF Propagated, ReturnRow
      <4>2. ApprovedBy(r, Users)' /\ ApprovedBy(r, {new.approvedBy})'
            BY <2>4, <3>1, <4>1 DEF Decision
      <4> QED  BY <4>2 DEF Backed
    <3>2. CASE by.decision = "reject"
      <4>1. new.status = "generated" /\ new.approvedBy = seen.approvedBy
            BY <2>6, <3>2 DEF Propagated, ReturnRow
      <4> QED  BY <2>5, <4>1 DEF Backed
    <3>3. CASE by.decision = "modify"
      <4>1. new = seen
            BY <2>6, <3>3 DEF Propagated
      <4> QED  BY <2>5, <4>1
    <3> QED  BY <3>1, <3>2, <3>3 DEF Decision, Decisions
  <2>8. PICK stored : stored = ret[r]
        OBVIOUS
  <2>9. Backed(stored, r)'
    <3>1. Backed(stored, r)
          BY <2>8 DEF ApprovalKnown, RowsBacked
    <3> QED  BY <1>1, <3>1
  <2>10. PICK flushed : flushed = FlushReturn(stored, seen, new)
        OBVIOUS
  <2>11. Backed(flushed, r)'
    <3>1. Backed(FlushReturn(stored, seen, new), r)'
          BY <1>3, <2>7, <2>9
    <3> QED  BY <2>10, <3>1
  <2>12. ret' = [ret EXCEPT ![r] = flushed]
        BY <1>15, <2>2, <2>6, <2>8, <2>10 DEF CommitDecide
  <2>13. RowsBacked'
        BY <1>6, <2>11, <2>12
  <2> QED  BY <1>5, <1>15, <2>13 DEF CommitDecide, ApprovalKnown
<1> QED
  BY <1>8, <1>9, <1>10, <1>11, <1>12, <1>13, <1>14, <1>15 DEF Next

-----------------------------------------------------------------------------
(* The theorems. *)

ReviewInv == /\ TypeOK
             /\ TasksKnown
             /\ HasOpenTask
             /\ LastDecisionOnRecord
             /\ ApprovalKnown

LEMMA InitReviewInv == Init => ReviewInv
<1> SUFFICES ASSUME Init
             PROVE  ReviewInv
    OBVIOUS
<1>1. TypeOK
      BY InitType
<1>2. TasksKnown
      BY DEF Init, TasksKnown, NoTask, Idle
<1>3. HasOpenTask
      BY DEF Init, HasOpenTask, NoReturn
<1>4. LastDecisionOnRecord
      BY DEF Init, LastDecisionOnRecord, NoTask
<1>5. ApprovalKnown
      BY DEF Init, ApprovalKnown, RowsBacked, TxBacked, Backed, NoReturn, Idle
<1> QED  BY <1>1, <1>2, <1>3, <1>4, <1>5 DEF ReviewInv

LEMMA Inductive == Spec => []ReviewInv
<1>1. Init => ReviewInv
      BY InitReviewInv
<1>2. ReviewInv /\ [Next]_vars => ReviewInv'
      BY NextType, NextKnown, NextHasOpenTask, NextLastDecision,
         NextApprovalKnown DEF ReviewInv
<1> QED  BY <1>1, <1>2, PTL DEF Spec

\* Rows and transactions keep their types, however requests overlap.
THEOREM TypeCorrect == Spec => []TypeOK
<1>1. ReviewInv => TypeOK
      BY DEF ReviewInv
<1> QED  BY <1>1, Inductive, PTL

\* However generate, submit_for_review, export and decide overlap or fail, a
\* return under review has a task that is open or was decided "modify".
THEOREM ReviewNeverStranded == Spec => []UnderReviewHasTask
<1>1. ReviewInv => UnderReviewHasTask
      BY DEF ReviewInv, HasOpenTask, UnderReviewHasTask, TasksOf
<1> QED  BY <1>1, Inductive, PTL

\* However requests overlap, the row of a decided task carries the last
\* decision of the audit log: its outcome and its author.
THEOREM DecisionNeverSilent == Spec => []LastDecisionOnRecord
<1>1. ReviewInv => LastDecisionOnRecord
      BY DEF ReviewInv
<1> QED  BY <1>1, Inductive, PTL

\* However requests overlap, a return is approved or exported, and a member
\* is recorded as its approver, only after an approve decision in the log.
THEOREM ApprovalNeverInvented == Spec => []ApprovalHasDecision
<1>1. ReviewInv => ApprovalHasDecision
      BY DEF ReviewInv, ApprovalKnown, RowsBacked, Backed, ApprovalHasDecision
<1> QED  BY <1>1, Inductive, PTL

-----------------------------------------------------------------------------
(* Requests that concern one return do not overlap.                        *)

Concerned(w) == IF tx[w].op \in {"decide", "propagate"}
                THEN task[tx[w].task].ret ELSE tx[w].ret

\* The requests of one return come one by one; those of others may overlap
\* with them.
OneByOne == \A v, w \in Workers :
                tx[v] # Idle /\ tx[w] # Idle /\ v # w => Concerned(v) # Concerned(w)

\* What a request has read is then still what is committed, its guard still
\* holds, and what it will write to its task is its decision.
Current(t, rets, tasks, files) ==
    /\ t.op \in {"generate", "submit", "export", "uploaded"}
          => t.seen = rets[t.ret]
    /\ t.op = "generate" => MayGenerate(t.seen)
    /\ t.op = "submit" => MaySubmit(t.seen)
    /\ t.op = "uploaded" => (t.stored => files[t.ret] = t.seen.figures)
    /\ t.op = "decide" => t.seen = tasks[t.task] /\ MayDecide(t.seen)
    /\ t.op = "propagate" => /\ MayDecide(tasks[t.task])
                             /\ t.row = Decided(tasks[t.task], t.by)
                             /\ t.seen = rets[tasks[t.task].ret]

AllCurrent == \A w \in Workers : Current(tx[w], ret, task, file)

SerialInv == /\ AllCurrent
             /\ ReviewQuotesFigures
             /\ ApprovalIsBacked
             /\ DecidedOnce
             /\ ExportFileMatches

\* A flush over the rows that were read writes what was computed.
LEMMA FlushCurrent ==
    /\ \A row, new \in ReturnRow : FlushReturn(row, row, new) = new
    /\ \A row, new \in TaskRow :
          new.ret = row.ret /\ new.figures = row.figures => FlushTask(row, row, new) = new
<1>1. ASSUME NEW row \in ReturnRow, NEW new \in ReturnRow
      PROVE  FlushReturn(row, row, new) = new
      BY DEF FlushReturn, Column, ReturnRow
<1>2. ASSUME NEW row \in TaskRow, NEW new \in TaskRow,
             new.ret = row.ret, new.figures = row.figures
      PROVE  FlushTask(row, row, new) = new
  <2>1. FlushTask(row, row, new) =
            [row EXCEPT !.status = new.status, !.decidedBy = new.decidedBy,
                        !.notes = new.notes]
        BY DEF FlushTask, Column
  <2>2. \A t \in TaskRow :
            t = [status |-> t.status, ret |-> t.ret, figures |-> t.figures,
                 decidedBy |-> t.decidedBy, notes |-> t.notes]
        BY DEF TaskRow
  <2>3. FlushTask(row, row, new) =
            [status |-> new.status, ret |-> row.ret, figures |-> row.figures,
             decidedBy |-> new.decidedBy, notes |-> new.notes]
        BY <2>1, <2>2
  <2> QED  BY <1>2, <2>2, <2>3
<1> QED  BY <1>1, <1>2

\* A request is not disturbed by what is written to another return, to its
\* tasks and to its file.
LEMMA StaysCurrent ==
    ASSUME TypeOK, TasksKnown, NEW v \in Workers, Current(tx[v], ret, task, file),
           NEW r, tx[v] # Idle => Concerned(v) # r,
           \A q \in Returns : q # r => ret'[q] = ret[q] /\ file'[q] = file[q],
           \A k \in Tasks : task[k].status # "none" /\ task[k].ret # r
                               => task'[k] = task[k]
    PROVE  Current(tx[v], ret', task', file')
<1>1. tx[v] \in Tx
      BY DEF TypeOK
<1>2. CASE tx[v] = Idle
      BY <1>2 DEF Idle, Current
<1>3. CASE tx[v].op \in {"generate", "submit", "export", "uploaded"}
  <2>1. tx[v] # Idle /\ Concerned(v) = tx[v].ret
        BY <1>3 DEF Idle, Concerned
  <2>2. tx[v].ret \in Returns
        BY <1>1, <1>3, TxByOp DEF GenerateTx, SubmitTx, ExportTx, UploadedTx
  <2> QED  BY <1>3, <2>1, <2>2 DEF Current
<1>4. CASE tx[v].op \in {"decide", "propagate"}
  <2> DEFINE k == tx[v].task
  <2>1. tx[v] # Idle /\ Concerned(v) = task[k].ret
        BY <1>4 DEF Idle, Concerned
  <2>2. k \in Tasks
        BY <1>1, <1>4, TxByOp DEF DecideTx, PropagateTx
  <2>3. task[k].status # "none" /\ task[k].ret \in Returns
        BY <1>4, <2>2 DEF TasksKnown
  <2>4. task'[k] = task[k] /\ ret'[task[k].ret] = ret[task[k].ret]
        BY <2>1, <2>2, <2>3
  <2> QED  BY <1>4, <2>4 DEF Current
<1> QED
  BY <1>1, <1>2, <1>3, <1>4
  DEF Tx, GenerateTx, SubmitTx, ExportTx, UploadedTx, DecideTx, PropagateTx

\* What the properties of serial requests say of one return.
RowOk(row, r, tasks, files) ==
    /\ row.status = "under_review" =>
          \E k \in Tasks : /\ tasks[k].ret = r
                           /\ tasks[k].status \in {"pending", "modified"}
                           /\ tasks[k].figures = row.figures
    /\ row.status \in {"approved", "exported"} =>
          \E k \in Tasks : /\ tasks[k].ret = r
                           /\ tasks[k].status = "approved"
                           /\ tasks[k].decidedBy = row.approvedBy
    /\ row.exported => files[r] = row.figures

RowsOk(rets, tasks, files) == \A r \in Returns : RowOk(rets[r], r, tasks, files)

LEMMA RowsAreOk ==
    RowsOk(ret, task, file) <=>
        ReviewQuotesFigures /\ ApprovalIsBacked /\ ExportFileMatches
BY DEF RowsOk, RowOk, ReviewQuotesFigures, ApprovalIsBacked, ExportFileMatches,
       TasksOf

\* A step of a request that concerns r leaves the other returns, their tasks
\* and their files alone; what it does to r is left to show.
LEMMA StepOfOne ==
    ASSUME TypeOK, TasksKnown, AllCurrent, OneByOne, RowsOk(ret, task, file),
           NEW w \in Workers, tx[w] # Idle, NEW r \in Returns, r = Concerned(w),
           \A q \in Returns : q # r => ret'[q] = ret[q] /\ file'[q] = file[q],
           \A k \in Tasks : task[k].status # "none" /\ task[k].ret # r
                               => task'[k] = task[k],
           RowOk(ret'[r], r, task', file'),
           NEW t, tx' = [tx EXCEPT ![w] = t], Current(t, ret', task', file')
    PROVE  (AllCurrent /\ RowsOk(ret, task, file))'
<1>1. ASSUME NEW v \in Workers
      PROVE  Current(tx'[v], ret', task', file')
  <2>1. CASE v = w
        BY <2>1 DEF TypeOK
  <2>2. CASE v # w
    <3>1. Current(tx[v], ret, task, file)
          BY DEF AllCurrent
    <3>2. tx[v] # Idle => Concerned(v) # r
          BY <2>2 DEF OneByOne
    <3>3. Current(tx[v], ret', task', file')
          BY <3>1, <3>2, StaysCurrent
    <3> QED  BY <2>2, <3>3 DEF TypeOK
  <2> QED  BY <2>1, <2>2
<1>2. ASSUME NEW q \in Returns, q # r
      PROVE  RowOk(ret'[q], q, task', file')
  <2>1. RowOk(ret[q], q, task, file)
        BY DEF RowsOk
  <2>2. \A k \in Tasks : task[k].ret = q /\ task[k].status # "none"
                            => task'[k] = task[k]
        BY <1>2
  <2>3. ret'[q] = ret[q] /\ file'[q] = file[q]
        BY <1>2
  <2> QED  BY <2>1, <2>2, <2>3 DEF RowOk
<1>3. AllCurrent'
      BY <1>1 DEF AllCurrent
<1>4. RowsOk(ret', task', file')
      BY <1>2 DEF RowsOk
<1> QED  BY <1>3, <1>4

\* A step that writes nothing leaves a request with what it has read.
LEMMA StepOfReader ==
    ASSUME TypeOK, AllCurrent, RowsOk(ret, task, file), NEW w \in Workers,
           NEW t, tx' = [tx EXCEPT ![w] = t], Current(t, ret, task, file),
           UNCHANGED <<ret, task, file>>
    PROVE  (AllCurrent /\ RowsOk(ret, task, file))'
<1>1. \A v \in Workers : Current(tx'[v], ret, task, file)
      BY DEF TypeOK, AllCurrent
<1> QED  BY <1>1 DEF AllCurrent

LEMMA IdleIsCurrent == \A rets, tasks, files : Current(Idle, rets, tasks, files)
BY DEF Current, Idle

\* Each step keeps what it shows of returns, and the figures of approved ones.
FiguresStay == \A r \in Returns : ret[r].status = "approved" =>
                                      ret'[r].figures = ret[r].figures

LEMMA SerialRead ==
    ASSUME TypeOK, TasksKnown, AllCurrent, RowsOk(ret, task, file), NEW w \in Workers,
           \/ BeginGenerate(w) \/ InsertConflict(w) \/ BeginSubmit(w)
           \/ BeginExport(w) \/ BeginDecide(w) \/ Propagate(w) \/ Rollback(w)
    PROVE  (AllCurrent /\ RowsOk(ret, task, file))' /\ FiguresStay
<1>1. UNCHANGED <<ret, task, file>>
      BY DEF BeginGenerate, InsertConflict, BeginSubmit, BeginExport, BeginDecide,
             Propagate, Rollback
<1>2. FiguresStay
      BY <1>1 DEF FiguresStay
<1>3. CASE BeginGenerate(w)
  <2>1. PICK r \in Returns, f \in Figures :
            /\ MayGenerate(ret[r])
            /\ Begin(w, [op |-> "generate", ret |-> r, figures |-> f, seen |-> ret[r]])
        BY <1>3 DEF BeginGenerate
  <2>2. Current([op |-> "generate", ret |-> r, figures |-> f, seen |-> ret[r]],
                ret, task, file)
        BY <2>1 DEF Current
  <2> QED  BY <1>1, <1>2, <2>1, <2>2, StepOfReader DEF Begin
<1>4. CASE InsertConflict(w) \/ Rollback(w)
      BY <1>1, <1>2, <1>4, StepOfReader, IdleIsCurrent DEF InsertConflict, Rollback, End
<1>5. CASE BeginSubmit(w)
  <2>1. PICK r \in Returns, k \in Tasks :
            /\ MaySubmit(ret[r])
            /\ Begin(w, [op |-> "submit", ret |-> r, task |-> k, seen |-> ret[r]])
        BY <1>5 DEF BeginSubmit
  <2>2. Current([op |-> "submit", ret |-> r, task |-> k, seen |-> ret[r]],
                ret, task, file)
        BY <2>1 DEF Current
  <2> QED  BY <1>1, <1>2, <2>1, <2>2, StepOfReader DEF Begin
<1>6. CASE BeginExport(w)
  <2>1. PICK r \in Returns : Begin(w, [op |-> "export", ret |-> r, seen |-> ret[r]])
        BY <1>6 DEF BeginExport
  <2>2. Current([op |-> "export", ret |-> r, seen |-> ret[r]], ret, task, file)
        BY DEF Current
  <2> QED  BY <1>1, <1>2, <2>1, <2>2, StepOfReader DEF Begin
<1>7. CASE BeginDecide(w)
  <2>1. PICK k \in Tasks, by \in Decision :
            /\ MayDecide(task[k])
            /\ Begin(w, [op |-> "decide", task |-> k, by |-> by, seen |-> task[k]])
        BY <1>7 DEF BeginDecide
  <2>2. Current([op |-> "decide", task |-> k, by |-> by, seen |-> task[k]],
                ret, task, file)
        BY <2>1 DEF Current
  <2> QED  BY <1>1, <1>2, <2>1, <2>2, StepOfReader DEF Begin
<1>8. CASE Propagate(w)
  <2> DEFINE k == tx[w].task
             by == tx[w].by
             row == FlushTask(task[k], tx[w].seen, Decided(tx[w].seen, by))
             t == [op |-> "propagate", task |-> k, by |-> by, row |-> row,
                   seen |-> ret[task[k].ret]]
  <2>1. tx[w] \in DecideTx
        BY <1>8, TxByOp DEF Propagate, TypeOK
  <2>2. k \in Tasks /\ by \in Decision /\ task[k] \in TaskRow
        BY <2>1 DEF DecideTx, TypeOK
  <2>3. tx[w].seen = task[k] /\ MayDecide(task[k])
        BY <1>8 DEF Propagate, AllCurrent, Current
  <2>4. Decided(task[k], by) \in TaskRow
        BY <2>2, ComputedType
  <2>5. row = Decided(task[k], by)
    <3>1. /\ Decided(task[k], by).ret = task[k].ret
          /\ Decided(task[k], by).figures = task[k].figures
          BY <2>2 DEF Decided, TaskRow
    <3> QED  BY <2>2, <2>3, <2>4, <3>1, FlushCurrent
  <2> HIDE DEF row
  <2>6. Current(t, ret, task, file)
        BY <2>3, <2>5 DEF Current
  <2>7. tx' = [tx EXCEPT ![w] = t]
        BY <1>8 DEF Propagate, row
  <2> QED  BY <1>1, <1>2, <2>6, <2>7, StepOfReader
<1> QED  BY <1>3, <1>4, <1>5, <1>6, <1>7, <1>8

LEMMA SerialGenerate ==
    ASSUME TypeOK, TasksKnown, AllCurrent, OneByOne, RowsOk(ret, task, file),
           NEW w \in Workers, CommitGenerate(w)
    PROVE  (AllCurrent /\ RowsOk(ret, task, file))' /\ FiguresStay
<1> DEFINE r == tx[w].ret
           new == Generated(ret[r], tx[w].figures)
<1>1. tx[w] \in GenerateTx
      BY TxByOp DEF CommitGenerate, TypeOK
<1>0. /\ r \in Returns /\ ret[r] \in ReturnRow
      /\ tx[w] # Idle /\ Concerned(w) = r
      BY <1>1 DEF GenerateTx, TypeOK, Concerned, Idle
<1>2. r \in Returns /\ ret[r] \in ReturnRow /\ new \in ReturnRow
      BY <1>0, <1>1, ComputedType DEF GenerateTx
<1>3. tx[w].seen = ret[r] /\ MayGenerate(ret[r])
      BY DEF CommitGenerate, AllCurrent, Current
<1>4. ret' = [ret EXCEPT ![r] = new]
      BY <1>2, <1>3, FlushCurrent DEF CommitGenerate
<1>5. ret'[r].status = "generated" /\ ret'[r].exported = FALSE
      BY <1>2, <1>4 DEF Generated, ReturnRow, TypeOK
<1>6. RowOk(ret'[r], r, task', file')
      BY <1>5 DEF RowOk
<1>7. FiguresStay
      BY <1>3, <1>4 DEF FiguresStay, MayGenerate, TypeOK
<1>8. (AllCurrent /\ RowsOk(ret, task, file))'
      BY <1>0, <1>4, <1>6, StepOfOne, IdleIsCurrent DEF CommitGenerate, End, TypeOK
<1> QED  BY <1>7, <1>8

LEMMA SerialSubmit ==
    ASSUME TypeOK, TasksKnown, AllCurrent, OneByOne, RowsOk(ret, task, file),
           NEW w \in Workers, CommitSubmit(w)
    PROVE  (AllCurrent /\ RowsOk(ret, task, file))' /\ FiguresStay
<1> DEFINE r == tx[w].ret
           k == tx[w].task
           new == Submitted(ret[r])
<1>1. tx[w] \in SubmitTx
      BY TxByOp DEF CommitSubmit, TypeOK
<1>2. /\ r \in Returns /\ ret[r] \in ReturnRow /\ new \in ReturnRow /\ k \in Tasks
      /\ tx[w] # Idle /\ Concerned(w) = r
      BY <1>1, ComputedType DEF SubmitTx, TypeOK, Concerned, Idle
<1>3. tx[w].seen = ret[r]
      BY DEF CommitSubmit, AllCurrent, Current
<1>4. /\ ret' = [ret EXCEPT ![r] = new]
      /\ task' = [task EXCEPT ![k] = NewTask(r, ret[r])]
      /\ task[k].status = "none"
      BY <1>2, <1>3, FlushCurrent DEF CommitSubmit
<1>5. /\ ret'[r].status = "under_review"
      /\ ret'[r].exported => ret[r].exported
      /\ ret'[r].figures = ret[r].figures
      BY <1>2, <1>4 DEF Submitted, ReturnRow, TypeOK
<1>6. RowOk(ret'[r], r, task', file')
  <2>1. /\ task'[k].ret = r
        /\ task'[k].status = "pending"
        /\ task'[k].figures = ret[r].figures
        BY <1>2, <1>4 DEF NewTask, TypeOK
  <2>2. RowOk(ret[r], r, task, file) /\ file' = file
        BY <1>2 DEF RowsOk, CommitSubmit
  <2> QED  BY <1>2, <1>5, <2>1, <2>2 DEF RowOk
<1>7. FiguresStay
      BY <1>2, <1>4, <1>5 DEF FiguresStay, TypeOK
<1>8. (AllCurrent /\ RowsOk(ret, task, file))'
      BY <1>2, <1>4, <1>6, StepOfOne, IdleIsCurrent DEF CommitSubmit, End, TypeOK
<1> QED  BY <1>7, <1>8

LEMMA SerialUpload ==
    ASSUME TypeOK, TasksKnown, AllCurrent, OneByOne, RowsOk(ret, task, file),
           NEW w \in Workers, Upload(w)
    PROVE  (AllCurrent /\ RowsOk(ret, task, file))' /\ FiguresStay
<1> DEFINE r == tx[w].ret
<1>1. tx[w] \in ExportTx
      BY TxByOp DEF Upload, TypeOK
<1>2. /\ r \in Returns /\ tx[w] # Idle /\ Concerned(w) = r
      BY <1>1 DEF ExportTx, Concerned, Idle
<1>3. tx[w].seen = ret[r]
      BY DEF Upload, AllCurrent, Current
<1>4. PICK stored \in BOOLEAN :
          /\ file' = IF stored THEN [file EXCEPT ![r] = ret[r].figures] ELSE file
          /\ tx' = [tx EXCEPT ![w] = [op |-> "uploaded", ret |-> r,
                                      seen |-> ret[r], stored |-> stored]]
      BY <1>3 DEF Upload
<1>5. RowOk(ret'[r], r, task', file')
  <2>1. RowOk(ret[r], r, task, file)
        BY <1>2 DEF RowsOk
  <2>2. /\ ret' = ret /\ task' = task
        /\ file'[r] \in {file[r], ret[r].figures}
        BY <1>2, <1>4 DEF Upload, TypeOK
  <2> QED  BY <2>1, <2>2 DEF RowOk
<1>6. Current([op |-> "uploaded", ret |-> r, seen |-> ret[r], stored |-> stored],
              ret', task', file')
      BY <1>2, <1>4 DEF Current, Upload, TypeOK
<1>7. FiguresStay
      BY DEF FiguresStay, Upload
<1>8. (AllCurrent /\ RowsOk(ret, task, file))'
      BY <1>2, <1>4, <1>5, <1>6, StepOfOne DEF Upload, TypeOK
<1> QED  BY <1>7, <1>8

LEMMA SerialExport ==
    ASSUME TypeOK, TasksKnown, AllCurrent, OneByOne, RowsOk(ret, task, file),
           NEW w \in Workers, CommitExport(w)
    PROVE  (AllCurrent /\ RowsOk(ret, task, file))' /\ FiguresStay
<1> DEFINE r == tx[w].ret
           new == Exported(ret[r], tx[w].stored)
<1>1. tx[w] \in UploadedTx
      BY TxByOp DEF CommitExport, TypeOK
<1>0. /\ r \in Returns /\ ret[r] \in ReturnRow
      /\ tx[w].stored \in BOOLEAN
      /\ tx[w] # Idle /\ Concerned(w) = r
      BY <1>1 DEF UploadedTx, TypeOK, Concerned, Idle
<1>2. r \in Returns /\ ret[r] \in ReturnRow /\ new \in ReturnRow
      BY <1>0, ComputedType
<1>3. /\ tx[w].seen = ret[r]
      /\ tx[w].stored => file[r] = ret[r].figures
      BY DEF CommitExport, AllCurrent, Current
<1>4. ret' = [ret EXCEPT ![r] = new] /\ UNCHANGED <<task, file>>
  <2>1. FlushReturn(ret[r], ret[r], new) = new
        BY <1>2, FlushCurrent
  <2> QED  BY <1>3, <2>1 DEF CommitExport
<1>5. /\ ret'[r].status = IF ret[r].status = "approved" THEN "exported" ELSE ret[r].status
      /\ ret'[r].exported => tx[w].stored \/ ret[r].exported
      /\ ret'[r].figures = ret[r].figures
      /\ ret'[r].approvedBy = ret[r].approvedBy
      BY <1>2, <1>4 DEF Exported, ReturnRow, TypeOK
<1>6. RowOk(ret'[r], r, task', file')
  <2>1. RowOk(ret[r], r, task, file)
        BY <1>2 DEF RowsOk
  <2> QED  BY <1>3, <1>4, <1>5, <2>1 DEF RowOk
<1>7. FiguresStay
      BY <1>2, <1>4, <1>5 DEF FiguresStay, TypeOK
<1>8. (AllCurrent /\ RowsOk(ret, task, file))'
      BY <1>0, <1>4, <1>6, StepOfOne, IdleIsCurrent DEF CommitExport, End, TypeOK
<1> QED  BY <1>7, <1>8

LEMMA SerialDecide ==
    ASSUME TypeOK, TasksKnown, AllCurrent, OneByOne, RowsOk(ret, task, file),
           NEW w \in Workers, CommitDecide(w)
    PROVE  (AllCurrent /\ RowsOk(ret, task, file))' /\ FiguresStay
<1> DEFINE k == tx[w].task
           by == tx[w].by
           r == task[k].ret
           new == Propagated(ret[r], by)
<1>1. tx[w] \in PropagateTx
      BY TxByOp DEF CommitDecide, TypeOK
<1>2. /\ k \in Tasks /\ by \in Decision /\ r \in Returns
      /\ tx[w] # Idle /\ Concerned(w) = r
      BY <1>1 DEF PropagateTx, TasksKnown, Concerned, Idle, CommitDecide
<1>3. /\ MayDecide(task[k])
      /\ tx[w].row = Decided(task[k], by)
      /\ tx[w].seen = ret[r]
      /\ tx[w].row.ret = r
      BY <1>2 DEF CommitDecide, AllCurrent, Current, TasksKnown
<1>4. task[k] \in TaskRow /\ ret[r] \in ReturnRow /\ new \in ReturnRow
      BY <1>2, ComputedType DEF TypeOK
<1>5. /\ ret' = [ret EXCEPT ![r] = new]
      /\ task' = [task EXCEPT ![k] = Decided(task[k], by)]
      /\ file' = file
      BY <1>2, <1>3, <1>4, FlushCurrent DEF CommitDecide
<1>6. /\ task'[k].ret = r
      /\ task'[k].figures = task[k].figures
      /\ task'[k].status = DecisionStatus[by.decision]
      /\ task'[k].decidedBy = by.user
      /\ task[k].status = "pending"
      BY <1>2, <1>3, <1>4, <1>5 DEF Decided, TaskRow, TypeOK, MayDecide
<1>7. /\ ret'[r].figures = ret[r].figures
      /\ ret'[r].exported => ret[r].exported
      /\ by.decision = "approve" => /\ ret'[r].status = "approved"
                                    /\ ret'[r].approvedBy = by.user
      /\ by.decision = "reject" => ret'[r].status = "generated"
      /\ by.decision = "modify" => ret'[r] = ret[r]
      BY <1>2, <1>4, <1>5 DEF Propagated, ReturnRow, TypeOK, Decision, Decisions
<1>8. RowOk(ret'[r], r, task', file')
  <2>1. RowOk(ret[r], r, task, file)
        BY <1>2 DEF RowsOk
  <2>2. CASE by.decision = "approve"
    <3>1. task'[k].status = "approved"
          BY <1>6, <2>2 DEF DecisionStatus
    <3> QED  BY <1>2, <1>5, <1>6, <1>7, <2>1, <2>2, <3>1 DEF RowOk
  <2>3. CASE by.decision = "reject"
        BY <1>5, <1>7, <2>1, <2>3 DEF RowOk
  <2>4. CASE by.decision = "modify"
    <3>1. task'[k].status = "modified"
          BY <1>6, <2>4 DEF DecisionStatus
    <3>2. \A j \in Tasks : j # k => task'[j] = task[j]
          BY <1>5
    <3>3. \A j \in Tasks : /\ task'[j].ret = task[j].ret
                           /\ task'[j].figures = task[j].figures
                           /\ task[j].status \in {"pending", "modified"}
                                 => task'[j].status \in {"pending", "modified"}
                           /\ task[j].status = "approved" => task'[j] = task[j]
          BY <1>6, <3>1, <3>2
    <3>4. ret'[r] = ret[r] /\ file' = file
          BY <1>5, <1>7, <2>4
    <3> HIDE DEF r, k
    <3> QED  BY <2>1, <3>3, <3>4 DEF RowOk
  <2> QED  BY <1>2, <2>2, <2>3, <2>4 DEF Decision, Decisions
<1>9. FiguresStay
      BY <1>2, <1>5, <1>7 DEF FiguresStay, TypeOK
<1>10. (AllCurrent /\ RowsOk(ret, task, file))'
      BY <1>2, <1>5, <1>8, StepOfOne, IdleIsCurrent DEF CommitDecide, End, TypeOK
<1> QED  BY <1>9, <1>10

LEMMA NextDecidedOnce ==
    ASSUME TypeOK, TasksKnown, LastDecisionOnRecord, AllCurrent, DecidedOnce,
           [Next]_vars
    PROVE  DecidedOnce'
<1> USE DEF TypeOK
<1>1. CASE UNCHANGED <<task, decisions>>
      BY <1>1 DEF DecidedOnce
<1>2. ASSUME NEW w \in Workers, CommitSubmit(w)
      PROVE  DecidedOnce'
  <2>1. tx[w] \in SubmitTx
        BY <1>2, TxByOp DEF CommitSubmit
  <2>2. Len(decisions[tx[w].task]) = 0
        BY <1>2, <2>1 DEF CommitSubmit, LastDecisionOnRecord, SubmitTx
  <2>3. \A k \in Tasks : k # tx[w].task => task'[k] = task[k]
        BY <1>2 DEF CommitSubmit
  <2>4. decisions' = decisions
        BY <1>2 DEF CommitSubmit
  <2> QED  BY <2>2, <2>3, <2>4 DEF DecidedOnce
<1>3. ASSUME NEW w \in Workers, CommitDecide(w)
      PROVE  DecidedOnce'
  <2> DEFINE k == tx[w].task
             by == tx[w].by
  <2>1. tx[w] \in PropagateTx
        BY <1>3, TxByOp DEF CommitDecide
  <2>2. k \in Tasks /\ by \in Decision
        BY <2>1 DEF PropagateTx
  <2>3. task[k].status = "pending" /\ tx[w].row = Decided(task[k], by)
        BY <1>3 DEF CommitDecide, AllCurrent, Current, MayDecide
  <2>4. decisions[k] \in Seq(Decision) /\ Len(decisions[k]) = 0
        BY <2>2, <2>3 DEF LastDecisionOnRecord
  <2>5. /\ task' = [task EXCEPT ![k] = Decided(task[k], by)]
        /\ decisions' = [decisions EXCEPT ![k] = Append(@, by)]
        BY <1>3, <2>3 DEF CommitDecide
  <2>6. Len(decisions'[k]) = 1 /\ decisions'[k][1] = by
    <3>1. decisions'[k] = Append(decisions[k], by)
          BY <2>2, <2>5
    <3> HIDE DEF k, by
    <3> QED  BY <2>2, <2>4, <3>1
  <2>7. /\ task'[k].status = DecisionStatus[by.decision]
        /\ task'[k].decidedBy = by.user
        /\ task'[k].notes = by.notes
        BY <2>2, <2>5 DEF Decided, TaskRow
  <2>8. \A j \in Tasks : j # k => task'[j] = task[j] /\ decisions'[j] = decisions[j]
        BY <2>5
  <2> HIDE DEF k, by
  <2>9. ASSUME NEW j \in Tasks
        PROVE  /\ Len(decisions'[j]) <= 1
               /\ Len(decisions'[j]) = 1 =>
                     /\ task'[j].status = DecisionStatus[decisions'[j][1].decision]
                     /\ task'[j].decidedBy = decisions'[j][1].user
                     /\ task'[j].notes = decisions'[j][1].notes
    <3>1. CASE j = k
      <4>1. Len(decisions'[j]) <= 1
        <5>1. Len(decisions'[j]) = 1
              BY <2>6, <3>1, Zenon
        <5> HIDE DEF TypeOK
        <5> QED  BY <5>1
      <4>2. /\ task'[j].status = DecisionStatus[decisions'[j][1].decision]
            /\ task'[j].decidedBy = decisions'[j][1].user
            /\ task'[j].notes = decisions'[j][1].notes
            BY <2>6, <2>7, <3>1, Zenon
      <4> QED  BY <4>1, <4>2
    <3>2. CASE j # k
          BY <2>8, <3>2 DEF DecidedOnce
    <3> QED  BY <3>1, <3>2
  <2> QED  BY <2>9 DEF DecidedOnce
<1> QED
  BY <1>1, <1>2, <1>3
  DEF Next, vars, BeginGenerate, CommitGenerate, InsertConflict, BeginSubmit,
      BeginExport, Upload, CommitExport, BeginDecide, Propagate, Rollback

LEMMA NextSerial ==
    ASSUME ReviewInv, OneByOne, SerialInv, [Next]_vars
    PROVE  SerialInv' /\ FiguresStay
<1>1. TypeOK /\ TasksKnown /\ LastDecisionOnRecord /\ AllCurrent
        /\ DecidedOnce /\ RowsOk(ret, task, file)
      BY RowsAreOk DEF ReviewInv, SerialInv
<1>2. (AllCurrent /\ RowsOk(ret, task, file))' /\ FiguresStay
  <2>1. CASE UNCHANGED vars
        BY <1>1, <2>1 DEF vars, AllCurrent, FiguresStay
  <2>2. ASSUME NEW w \in Workers,
               \/ BeginGenerate(w) \/ InsertConflict(w) \/ BeginSubmit(w)
               \/ BeginExport(w) \/ BeginDecide(w) \/ Propagate(w) \/ Rollback(w)
        PROVE  (AllCurrent /\ RowsOk(ret, task, file))' /\ FiguresStay
        BY <1>1, <2>2, SerialRead
  <2>3. ASSUME NEW w \in Workers,
               \/ CommitGenerate(w) \/ CommitSubmit(w) \/ Upload(w)
               \/ CommitExport(w) \/ CommitDecide(w)
        PROVE  (AllCurrent /\ RowsOk(ret, task, file))' /\ FiguresStay
        BY <1>1, <2>3, SerialGenerate, SerialSubmit, SerialUpload, SerialExport,
           SerialDecide
  <2> QED  BY <2>1, <2>2, <2>3 DEF Next
<1>3. DecidedOnce'
      BY <1>1, NextDecidedOnce
<1>4. (ReviewQuotesFigures /\ ApprovalIsBacked /\ ExportFileMatches)'
  <2>1. RowsOk(ret', task', file')
        BY <1>2
  <2> QED
      BY <2>1 DEF RowsOk, RowOk, ReviewQuotesFigures, ApprovalIsBacked,
                  ExportFileMatches, TasksOf
<1> QED  BY <1>2, <1>3, <1>4 DEF SerialInv

LEMMA InitSerial == Init => SerialInv
<1> SUFFICES ASSUME Init
             PROVE  SerialInv
    OBVIOUS
<1>1. AllCurrent
      BY IdleIsCurrent DEF Init, AllCurrent
<1>2. \A r \in Returns : ret[r].status = "none" /\ ret[r].exported = FALSE
      BY DEF Init, NoReturn
<1>3. DecidedOnce
      BY DEF Init, DecidedOnce
<1> QED
  BY <1>1, <1>2, <1>3
  DEF SerialInv, ReviewQuotesFigures, ApprovalIsBacked, ExportFileMatches

\* Behaviours in which the requests of a return come one by one.
SerialSpec == Spec /\ []OneByOne

LEMMA SerialInductive == SerialSpec => [](ReviewInv /\ SerialInv)
<1>1. Init => SerialInv
      BY InitSerial
<1>2. ReviewInv /\ OneByOne /\ SerialInv /\ [Next]_vars => SerialInv'
      BY NextSerial
<1> QED  BY <1>1, <1>2, Inductive, PTL DEF Spec, SerialSpec

\* While the requests of a return do not overlap, a return under review has an
\* open task that quotes its figures, whatever was regenerated, rejected,
\* exported or rolled back before.
THEOREM SerialReviewQuotes == SerialSpec => []ReviewQuotesFigures
<1>1. SerialInv => ReviewQuotesFigures
      BY DEF SerialInv
<1> QED  BY <1>1, SerialInductive, PTL

\* While the requests of a return do not overlap, an approved or exported
\* return names the member of a task of its own that stands as approved.
THEOREM SerialApprovalIsBacked == SerialSpec => []ApprovalIsBacked
<1>1. SerialInv => ApprovalIsBacked
      BY DEF SerialInv
<1> QED  BY <1>1, SerialInductive, PTL

\* While the requests of a return do not overlap, a task is decided once and
\* its row is that decision.
THEOREM SerialDecidedOnce == SerialSpec => []DecidedOnce
<1>1. SerialInv => DecidedOnce
      BY DEF SerialInv
<1> QED  BY <1>1, SerialInductive, PTL

\* While the requests of a return do not overlap, the stored export of a return
\* that names one has its figures, whatever uploads failed or were left behind.
THEOREM SerialExportMatches == SerialSpec => []ExportFileMatches
<1>1. SerialInv => ExportFileMatches
      BY DEF SerialInv
<1> QED  BY <1>1, SerialInductive, PTL

\* While the requests of a return do not overlap, no step changes the figures
\* of an approved return.
THEOREM SerialFiguresFrozen == SerialSpec => ApprovedFiguresFrozen
<1>1. ReviewInv /\ SerialInv /\ OneByOne /\ [Next]_vars => [FiguresStay]_vars
      BY NextSerial
<1>2. [FiguresStay]_vars
        => [\A r \in Returns : ret[r].status = "approved" =>
                                  ret'[r].figures = ret[r].figures]_vars
      BY DEF FiguresStay
<1> QED
  BY <1>1, <1>2, SerialInductive, PTL DEF SerialSpec, Spec, ApprovedFiguresFrozen
=============================================================================
