------------------------------ MODULE Invoices ------------------------------
(***************************************************************************)
(* Invoices of one organization from upload to analysis: the background    *)
(* task of api/v1/invoices.py (InvoiceExtractionService, then              *)
(* ComplianceService.run_check), the requests that check or analyse an     *)
(* invoice again (api/v1/compliance.py, analyze_invoice with ITCService,   *)
(* api/v1/itc.py) and the nightly compliance scan (workers/tasks.py).      *)
(*                                                                         *)
(* A task or request is one transaction of several statements; what it     *)
(* writes is visible when it commits.  run_check is two steps: the query   *)
(* for another invoice with the number, and the row that is flushed.  No   *)
(* statement waits for another transaction: the references of checks and   *)
(* tasks to an invoice do not conflict with the UPDATE of its columns.     *)
(* The demo data (seeded with their checks) are not modelled.              *)
(*                                                                         *)
(* The stored file, confidences, names and amounts are left out.           *)
(***************************************************************************)
EXTENDS InvoiceValidation

CONSTANTS
    Invoices,   \* invoice rows
    Requests,   \* checks, analyses and scans, numbered as they come: a bound
    Readings,   \* what an extraction may read from a file
    Upload      \* the author of the check of the background task

ASSUME InvoicesAssumption ==
    /\ Readings \subseteq Fields
    /\ Requests \subseteq Nat
    /\ Upload \notin Requests

VARIABLES
    row,        \* invoices, committed
    task,       \* the background task of each invoice
    req,        \* where each request is
    checks,     \* compliance_checks with their issues, committed
    itc,        \* itc_records, committed
    reviews,    \* approvals with entity_type invoice, committed
    raced,      \* history: pairs of invoices checked without seeing each other
    lost        \* history: invoices whose task ended without a word on the row

vars == <<row, task, req, checks, itc, reviews, raced, lost>>

-----------------------------------------------------------------------------
\* UPLOADED, VALIDATED, APPROVED and REJECTED are never stored.
InvoiceStatus == {"processing", "extracted", "needs_review", "failed"}

\* A row with status "none" is a row that is not there.
Invoice == [status: InvoiceStatus \cup {"none"}, fields: Fields]

Check == [invoice: Invoices, by: Requests \cup {Upload}, number: Numbers \cup {NoNumber},
          issues: SUBSET Issue,
          score: 0..100, passed: 0..10, status: {"PASSED", "WARNING", "FAILED"}]

ITCRecord == [invoice: Invoices, by: Requests, status: {"ineligible", "review_required"}]

Review == [invoice: Invoices, by: Requests,
           type: {"compliance_exception", "itc_assessment"}]

\* queued -> loaded -> extracted -> checked, or mark after an exception.
Task == [op: {"none", "queued", "loaded", "extracted", "checked", "mark", "done"},
         status: InvoiceStatus \cup {"none"},   \* written, not committed
         fields: Fields,
         check: SUBSET Check]

NoTask == [op |-> "none", status |-> "none", fields |-> Blank, check |-> {}]

Request == [op: {"new", "check", "analyze", "itc", "scan", "done"},
            todo: SUBSET Invoices,              \* loaded, not checked yet
            seen: [Invoices -> Fields],         \* as loaded
            items: BOOLEAN,                     \* the lines are loaded, too
            made: SUBSET Check]                 \* flushed, not committed

New == [op |-> "new", todo |-> {}, seen |-> [i \in Invoices |-> Blank],
        items |-> FALSE, made |-> {}]

Done == [New EXCEPT !.op = "done"]

TypeOK == /\ row \in [Invoices -> Invoice]
          /\ task \in [Invoices -> Task]
          /\ req \in [Requests -> Request]
          /\ checks \subseteq Check
          /\ itc \subseteq ITCRecord
          /\ reviews \subseteq Review
          /\ raced \subseteq SUBSET Invoices
          /\ lost \subseteq Invoices

-----------------------------------------------------------------------------
(* ComplianceService.run_check *)

IsDuplicate_PerStatus(i, number) ==
    number # NoNumber
        /\ \E j \in Invoices \ {i} : row[j].status = "processing" /\ row[j].fields.number = number
IsDuplicate_CountsItself(i, number) ==
    number # NoNumber /\ \E j \in Invoices : row[j].fields.number = number
IsDuplicate(i, number) ==
    number # NoNumber /\ \E j \in Invoices \ {i} : row[j].fields.number = number

CheckOf(i, by, fields) ==
    LET issues == Issues(fields, IsDuplicate(i, fields.number)) IN
    [invoice |-> i, by |-> by, number |-> fields.number, issues |-> issues,
     score |-> Score(issues), passed |-> PassedChecks(issues),
     status |-> ReportStatus(issues)]

\* Tasks that have asked for duplicates and not committed are not seen.
Unseen(i, number) ==
    {{i, j} : j \in {j \in Invoices \ {i} : /\ task[j].op = "checked"
                                            /\ task[j].fields.number = number
                                            /\ number # NoNumber}}

-----------------------------------------------------------------------------
(* Upload and its background task. *)

UploadInvoice(i) ==
    /\ row[i].status = "none"
    /\ row' = [row EXCEPT ![i].status = "processing"]
    /\ task' = [task EXCEPT ![i].op = "queued"]
    /\ UNCHANGED <<req, checks, itc, reviews, raced, lost>>

Load(i) ==
    /\ task[i].op = "queued"
    /\ task' = [task EXCEPT ![i] = [@ EXCEPT !.op = "loaded", !.status = "processing"]]
    /\ UNCHANGED <<row, req, checks, itc, reviews, raced, lost>>

\* An unreadable file is FAILED, a silent or unparsable model NEEDS_REVIEW.
ExtractInto(i) ==
    /\ task[i].op = "loaded"
    /\ \/ \E status \in {"failed", "needs_review"} :
             task' = [task EXCEPT ![i] = [@ EXCEPT !.op = "checked", !.status = status]]
       \/ \E f \in Readings :
             task' = [task EXCEPT ![i] = [@ EXCEPT !.op = "extracted", !.fields = f,
                                                   !.status = "extracted"]]
    /\ UNCHANGED <<row, req, checks, itc, reviews, raced, lost>>

RunCheck_BeforeFields(i) ==
    /\ task[i].op = "extracted"
    /\ task' = [task EXCEPT ![i] =
                    [@ EXCEPT !.op = "checked",
                              !.check = {CheckOf(i, Upload, row[i].fields)}]]
    /\ raced' = raced \cup Unseen(i, task[i].fields.number)
    /\ UNCHANGED <<row, req, checks, itc, reviews, lost>>
RunCheck(i) ==
    /\ task[i].op = "extracted"
    /\ task' = [task EXCEPT ![i] =
                    [@ EXCEPT !.op = "checked",
                              !.check = {CheckOf(i, Upload, task[i].fields)}]]
    /\ raced' = raced \cup Unseen(i, task[i].fields.number)
    /\ UNCHANGED <<row, req, checks, itc, reviews, lost>>

Commit(i) ==
    /\ task[i].op = "checked"
    /\ row' = [row EXCEPT ![i] = [status |-> task[i].status, fields |-> task[i].fields]]
    /\ checks' = checks \cup task[i].check
    /\ task' = [task EXCEPT ![i] = [NoTask EXCEPT !.op = "done"]]
    /\ UNCHANGED <<req, itc, reviews, raced, lost>>

\* Any exception rolls back.
Abort(i) ==
    /\ task[i].op \in {"queued", "loaded", "extracted", "checked"}
    /\ task' = [task EXCEPT ![i] = [NoTask EXCEPT !.op = "mark"]]
    /\ UNCHANGED <<row, req, checks, itc, reviews, raced, lost>>

Mark_Forgotten(i) ==
    /\ task[i].op = "mark"
    /\ task' = [task EXCEPT ![i] = [NoTask EXCEPT !.op = "done"]]
    /\ UNCHANGED <<row, req, checks, itc, reviews, raced, lost>>
Mark(i) ==
    /\ task[i].op = "mark"
    /\ \/ row' = [row EXCEPT ![i].status = "failed"] /\ UNCHANGED lost
       \/ lost' = lost \cup {i} /\ UNCHANGED row
    /\ task' = [task EXCEPT ![i] = [NoTask EXCEPT !.op = "done"]]
    /\ UNCHANGED <<req, checks, itc, reviews, raced>>

-----------------------------------------------------------------------------
(* POST /compliance/check, /invoices/{id}/analyze, /itc/analyze; nightly scan. *)

Begin(q, op, invoices) ==
    /\ req[q] = New
    /\ \A p \in Requests : p < q => req[p] # New
    /\ req' = [req EXCEPT ![q] =
                  [op |-> op, todo |-> invoices, items |-> FALSE, made |-> {},
                   seen |-> [i \in Invoices |-> IF i \in invoices THEN row[i].fields
                                                ELSE Blank]]]
    /\ UNCHANGED <<row, task, checks, itc, reviews, raced, lost>>

WithLines(columns, fields) ==
    [columns EXCEPT !.lines = fields.lines, !.noHsn = fields.noHsn,
                    !.taxOff = IF columns = Blank THEN {} ELSE fields.taxOff]

\* No status is asked for: the invoice may still be PROCESSING.
BeginCheck(q) == \E i \in Invoices : row[i].status # "none" /\ Begin(q, "check", {i})

BeginAnalyze(q) == \E i \in Invoices : row[i].status # "none" /\ Begin(q, "analyze", {i})

BeginITC(q) == \E i \in Invoices : row[i].status # "none" /\ Begin(q, "itc", {i})

Unchecked == {i \in Invoices : row[i].status = "extracted"
                               /\ \A c \in checks : c.invoice # i}

BeginScan(q) == Begin(q, "scan", Unchecked)

\* selectinload is a statement of its own: the row read before the extraction
\* committed may come with the lines after it (and without a known scope).
LoadItems(q) ==
    /\ req[q].todo # {}
    /\ ~ req[q].items
    /\ req' = [req EXCEPT ![q] =
                  [@ EXCEPT !.items = TRUE,
                            !.seen = [i \in Invoices |->
                               IF i \in req[q].todo
                               THEN WithLines(req[q].seen[i], row[i].fields)
                               ELSE Blank]]]
    /\ UNCHANGED <<row, task, checks, itc, reviews, raced, lost>>

CheckNext(q) ==
    /\ req[q].op # "itc"
    /\ req[q].items
    /\ \E i \in req[q].todo :
          /\ req' = [req EXCEPT ![q] =
                        [@ EXCEPT !.todo = req[q].todo \ {i},
                                  !.made = req[q].made
                                              \cup {CheckOf(i, q, req[q].seen[i])}]]
          /\ raced' = raced \cup Unseen(i, req[q].seen[i].number)
    /\ UNCHANGED <<row, task, checks, itc, reviews, lost>>

CommitChecks(q) ==
    /\ req[q].op \in {"check", "scan"}
    /\ req[q].todo = {}
    /\ checks' = checks \cup req[q].made
    /\ req' = [req EXCEPT ![q] = Done]
    /\ UNCHANGED <<row, task, itc, reviews, raced, lost>>

\* ITCService.analyze
RecordOf(q, i) == [invoice |-> i, by |-> q,
                   status |-> IF Disqualified(req[q].seen[i]) THEN "ineligible"
                              ELSE "review_required"]

\* POST /itc/analyze
CommitITC(q) ==
    /\ req[q].op = "itc"
    /\ req[q].items
    /\ itc' = itc \cup {RecordOf(q, i) : i \in req[q].todo}
    /\ req' = [req EXCEPT ![q] = Done]
    /\ UNCHANGED <<row, task, checks, reviews, raced, lost>>

\* Both kinds of ITC record ask for human review.
CommitAnalysis(q) ==
    /\ req[q].op = "analyze"
    /\ req[q].todo = {}
    /\ \E c \in req[q].made :
          LET i == c.invoice IN
          /\ itc' = itc \cup {RecordOf(q, i)}
          /\ reviews' = reviews
                \cup When(Blocking(c.issues),
                          [invoice |-> i, by |-> q, type |-> "compliance_exception"])
                \cup {[invoice |-> i, by |-> q, type |-> "itc_assessment"]}
    /\ checks' = checks \cup req[q].made
    /\ req' = [req EXCEPT ![q] = Done]
    /\ UNCHANGED <<row, task, raced, lost>>

\* Any exception rolls back, the search for the rules on credit included.
Fail(q) ==
    /\ req[q].op \notin {"new", "done"}
    /\ req' = [req EXCEPT ![q] = Done]
    /\ UNCHANGED <<row, task, checks, itc, reviews, raced, lost>>

\* The web process dies with the tasks and the requests it runs.
Crash ==
    LET dead == {i \in Invoices : task[i].op \notin {"none", "done"}} IN
    /\ dead # {}
    /\ task' = [i \in Invoices |-> IF i \in dead THEN [NoTask EXCEPT !.op = "done"]
                                   ELSE task[i]]
    /\ req' = [q \in Requests |-> IF req[q].op \in {"check", "analyze", "itc"} THEN Done
                                  ELSE req[q]]
    /\ lost' = lost \cup dead
    /\ UNCHANGED <<row, checks, itc, reviews, raced>>

-----------------------------------------------------------------------------
Init == /\ row = [i \in Invoices |-> [status |-> "none", fields |-> Blank]]
        /\ task = [i \in Invoices |-> NoTask]
        /\ req = [q \in Requests |-> New]
        /\ checks = {}
        /\ itc = {}
        /\ reviews = {}
        /\ raced = {}
        /\ lost = {}

Work(i) == Load(i) \/ ExtractInto(i) \/ RunCheck(i) \/ Commit(i) \/ Mark(i)

Next == \/ \E i \in Invoices : UploadInvoice(i) \/ Work(i) \/ Abort(i)
        \/ \E q \in Requests : \/ BeginCheck(q) \/ BeginAnalyze(q) \/ BeginITC(q)
                               \/ BeginScan(q) \/ LoadItems(q) \/ CheckNext(q)
                               \/ CommitChecks(q) \/ CommitAnalysis(q) \/ CommitITC(q)
                               \/ Fail(q)
        \/ Crash

Spec == Init /\ [][Next]_vars

\* The event loop keeps running the tasks it has accepted.
FairSpec == Spec /\ \A i \in Invoices : WF_vars(Work(i))

-----------------------------------------------------------------------------
ChecksOf(i) == {c \in checks : c.invoice = i}

\* An invoice shown as EXTRACTED has a check of the fields it shows, although
\* requests may check a blank row, or a blank row with lines, while the
\* extraction is under way.  So the nightly scan, which looks for EXTRACTED
\* invoices without a check, finds none.
ExtractedIsChecked ==
    \A i \in Invoices :
        row[i].status = "extracted"
            => \E c \in ChecksOf(i), duplicate \in BOOLEAN :
                  c.issues = Issues(row[i].fields, duplicate)

Flagged(i) == \E c \in ChecksOf(i) : At("DUPLICATE_INVOICE_NUMBER", "invoice") \in c.issues

\* Of two invoices checked with one number, one is flagged as a duplicate,
\* unless one was checked while the other was checked and not yet committed.
OnlyARaceHidesADuplicate ==
    \A c, d \in checks :
        c.invoice # d.invoice /\ c.number = d.number /\ c.number # NoNumber
            => \/ Flagged(c.invoice) \/ Flagged(d.invoice)
               \/ {c.invoice, d.invoice} \in raced

\* A flag names a number that another EXTRACTED invoice has: an extraction
\* that failed, or was rolled back, makes nobody a duplicate.
FlagIsTrue ==
    \A i \in Invoices : Flagged(i) =>
        \E j \in Invoices \ {i} : /\ row[j].status = "extracted"
                                  /\ row[j].fields.number = row[i].fields.number

\* Credit is offered for review only on an EXTRACTED invoice with a valid
\* supplier, a number, lines and tax, whatever row the analysis had loaded.
CreditNeedsEvidence ==
    \A r \in itc : r.status = "review_required" =>
        /\ row[r.invoice].status = "extracted"
        /\ row[r.invoice].fields.supplier = "valid"
        /\ row[r.invoice].fields.taxed

\* An invoice under way is settled, or its task was lost.
Settles ==
    \A i \in Invoices :
        row[i].status = "processing" ~> row[i].status # "processing" \/ i \in lost
=============================================================================
