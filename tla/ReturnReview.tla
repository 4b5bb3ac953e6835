---------------------------- MODULE ReturnReview ----------------------------
(***************************************************************************)
(* Preparation, review and export of GST returns: ReturnService            *)
(* (services/return_service.py) and ApprovalService.decide                 *)
(* (services/approval_service.py), as HTTP requests run them against       *)
(* Postgres.                                                               *)
(*                                                                         *)
(* A request is one transaction of one session at READ COMMITTED.  It      *)
(* reads rows, computes in Python, and its writes become visible at the    *)
(* commit; nothing is locked by a read and no row carries a version.  The  *)
(* session's flush sends only the columns whose value differs from the one *)
(* it loaded, so two overlapping requests merge column by column.  Workers *)
(* are the requests that can be in flight at once: with one worker the     *)
(* requests are serial.                                                    *)
(*                                                                         *)
(* Data: the figures of a return (summary, totals and invoice count, which *)
(* generate computes from the invoices of the period) are one value of     *)
(* Figures; a return is known by its key (type, period) of one             *)
(* organization.  The append-only audit rows of return.* actions, the      *)
(* generated_by column and the return's copy of the review notes are left  *)
(* out: nothing here reads them.                                           *)
(***************************************************************************)
EXTENDS Naturals, Sequences, FiniteSets

CONSTANTS
    Returns,    \* the (return_type, period) keys of one organization
    Tasks,      \* identifiers of review tasks: bounds how many are submitted
    Users,      \* members allowed to prepare or to decide
    Workers,    \* requests that can be in flight at once
    Figures,    \* values an aggregation of the invoices can have
    Notes,      \* decision notes a request can carry
    NoNotes,    \* a request without notes, a NULL column
    NoUser,     \* a NULL user column
    NoKey,      \* the return of a task that does not exist
    NoFigures   \* the figures of a return that does not exist

ASSUME NoValues == /\ NoNotes \in Notes
                   /\ NoUser \notin Users
                   /\ NoKey \notin Returns
                   /\ NoFigures \notin Figures

VARIABLES
    ret,        \* gst_returns rows, committed
    task,       \* review_tasks rows, committed
    decisions,  \* the approval.* rows of audit_logs, by task, in commit order
    file,       \* what the exports bucket holds under the return's key
    tx          \* the transaction each worker has open

vars == <<ret, task, decisions, file, tx>>

-----------------------------------------------------------------------------
(* Rows and transactions. *)

ReturnStatus == {"draft", "generated", "under_review", "approved",
                 "exported", "filed_externally"}

ApprovalStatus == {"pending", "approved", "rejected", "modified"}

Decisions == {"approve", "reject", "modify"}

\* A row with status "none" is a row that is not there.
ReturnRow == [status: ReturnStatus \cup {"none"},
              figures: Figures \cup {NoFigures},
              approvedBy: Users \cup {NoUser},
              exported: BOOLEAN]      \* export_storage_key is set

NoReturn == [status |-> "none", figures |-> NoFigures,
             approvedBy |-> NoUser, exported |-> FALSE]

TaskRow == [status: ApprovalStatus \cup {"none"},
            ret: Returns \cup {NoKey},
            figures: Figures \cup {NoFigures},   \* ai_recommendation
            decidedBy: Users \cup {NoUser},
            notes: Notes]

NoTask == [status |-> "none", ret |-> NoKey, figures |-> NoFigures,
           decidedBy |-> NoUser, notes |-> NoNotes]

Decision == [user: Users, decision: Decisions, notes: Notes]

Idle == [op |-> "idle"]

\* The rows a request read are kept in `seen`: its session's identity map.
GenerateTx == [op: {"generate"}, ret: Returns, figures: Figures,
               seen: ReturnRow]
SubmitTx == [op: {"submit"}, ret: Returns, task: Tasks, seen: ReturnRow]
ExportTx == [op: {"export"}, ret: Returns, seen: ReturnRow]
UploadedTx == [op: {"uploaded"}, ret: Returns, seen: ReturnRow,
               stored: BOOLEAN]
DecideTx == [op: {"decide"}, task: Tasks, by: Decision, seen: TaskRow]
PropagateTx == [op: {"propagate"}, task: Tasks, by: Decision, row: TaskRow,
                seen: ReturnRow]

Tx == {Idle} \cup GenerateTx \cup SubmitTx \cup ExportTx \cup UploadedTx
             \cup DecideTx \cup PropagateTx

TypeOK == /\ ret \in [Returns -> ReturnRow]
          /\ task \in [Tasks -> TaskRow]
          /\ decisions \in [Tasks -> Seq(Decision)]
          /\ file \in [Returns -> Figures \cup {NoFigures}]
          /\ tx \in [Workers -> Tx]

-----------------------------------------------------------------------------
(* What a flush writes: a column only when its value is not the one that   *)
(* was loaded.                                                             *)

Column(stored, seen, new) == IF new # seen THEN new ELSE stored

FlushReturn(stored, seen, new) ==
    [status     |-> Column(stored.status, seen.status, new.status),
     figures    |-> Column(stored.figures, seen.figures, new.figures),
     approvedBy |-> Column(stored.approvedBy, seen.approvedBy, new.approvedBy),
     exported   |-> Column(stored.exported, seen.exported, new.exported)]

FlushTask(stored, seen, new) ==
    [stored EXCEPT
        !.status    = Column(stored.status, seen.status, new.status),
        !.decidedBy = Column(stored.decidedBy, seen.decidedBy, new.decidedBy),
        !.notes     = Column(stored.notes, seen.notes, new.notes)]

-----------------------------------------------------------------------------
(* What each operation computes from the rows it read.  A definition        *)
(* Op_Variant is Op with a mistake in it, which the properties detect.      *)

MayGenerate_AlsoApproved(row) == row.status # "filed_externally"
MayGenerate(row) == row.status \notin {"approved", "filed_externally"}

Generated_KeepsExport(row, figures) ==
    [row EXCEPT !.status = "generated", !.figures = figures,
                !.approvedBy = NoUser]
Generated(row, figures) ==
    [row EXCEPT !.status = "generated", !.figures = figures,
                !.approvedBy = NoUser, !.exported = FALSE]

MaySubmit(row) == row.status \in {"generated", "draft"}

Submitted(row) == [row EXCEPT !.status = "under_review"]

\* The new review task quotes the figures the request read.
NewTask(r, row) == [status |-> "pending", ret |-> r, figures |-> row.figures,
                    decidedBy |-> NoUser, notes |-> NoNotes]

MayExport(row) == row.status # "none"

Exported(row, stored) ==
    [row EXCEPT !.exported = stored \/ @,
                !.status = IF @ = "approved" THEN "exported" ELSE @]

MayDecide_Again(row) == row.status # "none"
MayDecide(row) == row.status = "pending"

DecisionStatus == [approve |-> "approved", reject |-> "rejected",
                   modify |-> "modified"]

Decided_ApproverOnly(row, by) ==
    [row EXCEPT !.status = DecisionStatus[by.decision],
                !.decidedBy = IF by.decision = "approve" THEN by.user ELSE @,
                !.notes = by.notes]
Decided(row, by) == [row EXCEPT !.status = DecisionStatus[by.decision],
                                !.decidedBy = by.user,
                                !.notes = by.notes]

Propagated_RejectIgnored(row, by) ==
    IF by.decision = "approve"
    THEN [row EXCEPT !.status = "approved", !.approvedBy = by.user] ELSE row
Propagated_NoApprover(row, by) ==
    CASE by.decision = "approve" -> [row EXCEPT !.status = "approved"]
      [] by.decision = "reject"  -> [row EXCEPT !.status = "generated"]
      [] by.decision = "modify"  -> row
Propagated_ModifyApproves(row, by) ==
    IF by.decision = "reject" THEN [row EXCEPT !.status = "generated"]
    ELSE [row EXCEPT !.status = "approved", !.approvedBy = by.user]
Propagated(row, by) ==
    CASE by.decision = "approve" -> [row EXCEPT !.status = "approved",
                                                !.approvedBy = by.user]
      [] by.decision = "reject"  -> [row EXCEPT !.status = "generated"]
      [] by.decision = "modify"  -> row

-----------------------------------------------------------------------------
(* The requests.  Each begins by reading and checking; a request whose     *)
(* check fails changes nothing and is not modelled further.                *)

Begin(w, t) == /\ tx[w] = Idle
               /\ tx' = [tx EXCEPT ![w] = t]

End(w) == tx' = [tx EXCEPT ![w] = Idle]

BeginGenerate(w) ==
    \E r \in Returns, f \in Figures :
        /\ MayGenerate(ret[r])
        /\ Begin(w, [op |-> "generate", ret |-> r, figures |-> f,
                     seen |-> ret[r]])
        /\ UNCHANGED <<ret, task, decisions, file>>

CommitGenerate(w) ==
    LET t == tx[w] IN
    /\ t.op = "generate"
    /\ \/ /\ t.seen.status = "none"                \* INSERT
          /\ ret[t.ret].status = "none"
          /\ ret' = [ret EXCEPT ![t.ret] = Generated(t.seen, t.figures)]
       \/ /\ t.seen.status # "none"                \* UPDATE
          /\ ret' = [ret EXCEPT
                        ![t.ret] = FlushReturn(@, t.seen, Generated(t.seen, t.figures))]
    /\ End(w)
    /\ UNCHANGED <<task, decisions, file>>

\* uq_return_org_type_period: another request inserted the row meanwhile.
InsertConflict(w) ==
    LET t == tx[w] IN
    /\ t.op = "generate"
    /\ t.seen.status = "none"
    /\ ret[t.ret].status # "none"
    /\ End(w)
    /\ UNCHANGED <<ret, task, decisions, file>>

BeginSubmit(w) ==
    \E r \in Returns, k \in Tasks :
        /\ MaySubmit(ret[r])
        /\ task[k].status = "none"
        /\ \A v \in Workers : tx[v].op = "submit" => tx[v].task # k
        /\ Begin(w, [op |-> "submit", ret |-> r, task |-> k, seen |-> ret[r]])
        /\ UNCHANGED <<ret, task, decisions, file>>

CommitSubmit(w) ==
    LET t == tx[w] IN
    /\ t.op = "submit"
    /\ task[t.task].status = "none"
    /\ ret' = [ret EXCEPT ![t.ret] = FlushReturn(@, t.seen, Submitted(t.seen))]
    /\ task' = [task EXCEPT ![t.task] = NewTask(t.ret, t.seen)]
    /\ End(w)
    /\ UNCHANGED <<decisions, file>>

BeginExport(w) ==
    \E r \in Returns :
        /\ MayExport(ret[r])
        /\ Begin(w, [op |-> "export", ret |-> r, seen |-> ret[r]])
        /\ UNCHANGED <<ret, task, decisions, file>>

\* The upload is seen at once by everyone; its failure is only logged.
Upload(w) ==
    LET t == tx[w] IN
    /\ t.op = "export"
    /\ \E stored \in BOOLEAN :
        /\ file' = IF stored THEN [file EXCEPT ![t.ret] = t.seen.figures]
                             ELSE file
        /\ tx' = [tx EXCEPT ![w] = [op |-> "uploaded", ret |-> t.ret,
                                    seen |-> t.seen, stored |-> stored]]
    /\ UNCHANGED <<ret, task, decisions>>

CommitExport(w) ==
    LET t == tx[w] IN
    /\ t.op = "uploaded"
    /\ ret' = [ret EXCEPT
                  ![t.ret] = FlushReturn(@, t.seen, Exported(t.seen, t.stored))]
    /\ End(w)
    /\ UNCHANGED <<task, decisions, file>>

BeginDecide(w) ==
    \E k \in Tasks, by \in Decision :
        /\ MayDecide(task[k])
        /\ Begin(w, [op |-> "decide", task |-> k, by |-> by, seen |-> task[k]])
        /\ UNCHANGED <<ret, task, decisions, file>>

\* Selecting the return flushes the task first: the UPDATE waits for the
\* row's lock, which the flush then holds until the commit.
RowIsFree(w, k) ==
    \A v \in Workers \ {w} : tx[v].op = "propagate" => tx[v].task # k

Propagate(w) ==
    LET t == tx[w] IN
    /\ t.op = "decide"
    /\ RowIsFree(w, t.task)
    /\ tx' = [tx EXCEPT ![w] =
                [op |-> "propagate", task |-> t.task, by |-> t.by,
                 row |-> FlushTask(task[t.task], t.seen, Decided(t.seen, t.by)),
                 seen |-> ret[task[t.task].ret]]]
    /\ UNCHANGED <<ret, task, decisions, file>>

CommitDecide(w) ==
    LET t == tx[w] IN
    /\ t.op = "propagate"
    /\ task' = [task EXCEPT ![t.task] = t.row]
    /\ ret' = [ret EXCEPT
                  ![t.row.ret] = FlushReturn(@, t.seen, Propagated(t.seen, t.by))]
    /\ decisions' = [decisions EXCEPT ![t.task] = Append(@, t.by)]
    /\ End(w)
    /\ UNCHANGED file

\* An exception, a lost connection or a crash: the session rolls back.
Rollback(w) ==
    /\ tx[w] # Idle
    /\ End(w)
    /\ UNCHANGED <<ret, task, decisions, file>>

-----------------------------------------------------------------------------
Init == /\ ret = [r \in Returns |-> NoReturn]
        /\ task = [k \in Tasks |-> NoTask]
        /\ decisions = [k \in Tasks |-> <<>>]
        /\ file = [r \in Returns |-> NoFigures]
        /\ tx = [w \in Workers |-> Idle]

Next == \E w \in Workers :
            \/ BeginGenerate(w) \/ CommitGenerate(w) \/ InsertConflict(w)
            \/ BeginSubmit(w) \/ CommitSubmit(w)
            \/ BeginExport(w) \/ Upload(w) \/ CommitExport(w)
            \/ BeginDecide(w) \/ Propagate(w) \/ CommitDecide(w)
            \/ Rollback(w)

Spec == Init /\ [][Next]_vars

-----------------------------------------------------------------------------
(* Properties that hold however requests overlap.                          *)

TasksOf(r) == {k \in Tasks : task[k].ret = r}

\* A return under review is never stranded without a task that put it there:
\* one that nobody has decided, or that was decided "modify" (which by itself
\* does not move the return, see _propagate_return_decision).  Approving or
\* rejecting the last open task must have moved the return, although decide,
\* generate and submit_for_review read and write it unlocked.
UnderReviewHasTask ==
    \A r \in Returns : ret[r].status = "under_review" =>
        \E k \in TasksOf(r) : task[k].status \in {"pending", "modified"}

ApprovedBy(r, users) ==
    \E k \in TasksOf(r) : \E i \in DOMAIN decisions[k] :
        /\ decisions[k][i].decision = "approve"
        /\ decisions[k][i].user \in users

\* No return is approved or exported, and no member is recorded as its
\* approver, without an approve decision (by that member) on one of its tasks
\* in the audit log.
ApprovalHasDecision ==
    \A r \in Returns :
        /\ ret[r].status \in {"approved", "exported"} => ApprovedBy(r, Users)
        /\ ret[r].approvedBy # NoUser => ApprovedBy(r, {ret[r].approvedBy})

\* "A decision is never silent" (approval_service.py): who decided a task and
\* how is what the last approval.* row of the audit log says, even when two
\* requests decided the same task.
LastDecisionOnRecord ==
    \A k \in Tasks : LET n == Len(decisions[k]) IN
        /\ task[k].status \in {"none", "pending"} <=> n = 0
        /\ n > 0 => /\ task[k].status = DecisionStatus[decisions[k][n].decision]
                    /\ task[k].decidedBy = decisions[k][n].user

-----------------------------------------------------------------------------
(* Properties of requests that do not overlap.                             *)

\* A return under review has an open task that quotes the figures the return
\* has now: regenerating takes it out of review, and a stale decision moves it.
ReviewQuotesFigures ==
    \A r \in Returns : ret[r].status = "under_review" =>
        \E k \in TasksOf(r) : /\ task[k].status \in {"pending", "modified"}
                              /\ task[k].figures = ret[r].figures

\* An approved or exported return names an approver, and a task of the return
\* stands as approved by that member: neither a later decision on another task
\* nor an export disturbs either.
ApprovalIsBacked ==
    \A r \in Returns : ret[r].status \in {"approved", "exported"} =>
        \E k \in TasksOf(r) : /\ task[k].status = "approved"
                              /\ task[k].decidedBy = ret[r].approvedBy

\* A task is decided at most once ("This review task was already ...",
\* approval_service.py), and the row tells that decision with its notes.
DecidedOnce ==
    \A k \in Tasks :
        /\ Len(decisions[k]) <= 1
        /\ Len(decisions[k]) = 1 =>
              LET d == decisions[k][1] IN
              /\ task[k].status = DecisionStatus[d.decision]
              /\ task[k].decidedBy = d.user
              /\ task[k].notes = d.notes

\* A return that names a stored export is the return that was exported: its
\* figures are those of the file, whatever uploads failed or were left behind
\* by a request that rolled back.
ExportFileMatches ==
    \A r \in Returns : ret[r].exported => file[r] = ret[r].figures

\* No step changes the figures of a return that is approved.
ApprovedFiguresFrozen ==
    [][\A r \in Returns : ret[r].status = "approved" =>
                             ret'[r].figures = ret[r].figures]_vars

\* "This return has already been approved and can no longer be regenerated."
\* (return_service.py): an export is no way around the approval.
ApprovedNotRegenerated ==
    [][\A r \in Returns : ret[r].status \in {"approved", "exported"} =>
                             ret'[r].figures = ret[r].figures]_vars
=============================================================================
