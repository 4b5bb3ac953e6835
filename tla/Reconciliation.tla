--------------------------- MODULE Reconciliation ---------------------------
(***************************************************************************)
(* Imports of GSTR-2A/2B files and reconciliation runs of one period of    *)
(* one organization: ReconciliationService                                 *)
(* (services/reconciliation_service.py) behind api/v1/reconciliation.py.   *)
(*                                                                         *)
(* Requests run statement by statement on Postgres (READ COMMITTED): a     *)
(* statement sees what was committed when it began, waits for the locks    *)
(* of rows it deletes or updates, and skips rows that are gone when it     *)
(* gets them.  What a request writes is visible when it commits.           *)
(*                                                                         *)
(* An imported row is <<q, n>>, the n-th row of the file of request q; a   *)
(* match carries the request that made it.  gstr2b_record_id of a match    *)
(* (ON DELETE SET NULL) is NULL exactly when its record is no longer in    *)
(* records.  Names, dates, audit rows and the reads are left out.          *)
(***************************************************************************)
EXTENDS GstrReconciliation, Sequences, WaitsFor

CONSTANTS
    Requests,    \* numbered as they come: bounds the behaviours
    Sources,     \* ReconciliationSource
    Invoices,    \* purchase invoices of the period
    BookEntry,   \* what the extraction reads from each
    Files,       \* contents of the files that may be uploaded
    NoSource

ASSUME RequestsAssumption ==
    /\ Requests \subseteq Nat
    /\ NoSource \notin Sources
    /\ NoBook \notin Invoices
    /\ NoRecord \notin Requests \X Nat
    /\ IsFiniteSet(Invoices)
    /\ BookEntry \in [Invoices -> Entry]
    /\ Files \subseteq Seq(Entry) \ {<<>>}

VARIABLES
    books,      \* invoices with status EXTRACTED
    records,    \* gstr2b_records, committed
    run,        \* the reconciliation_runs row of the period
    matches,    \* its reconciliation_matches, committed
    req,        \* where each request is
    raced       \* history: two runs were open at once

vars == <<books, records, run, matches, req, raced>>

-----------------------------------------------------------------------------
Record == Requests \X Nat

Columns == {"source", "books", "returns", "matched", "mismatch",
            "missing_in_return", "missing_in_books", "itc_at_risk", "unclaimed"}

NoRun == [c \in Columns |-> IF c = "source" THEN NoSource ELSE 0]

RunRow == [source: Sources \cup {NoSource},
           books: Int, returns: Int, matched: Int, mismatch: Int,
           missing_in_return: Int, missing_in_books: Int,
           itc_at_risk: Int, unclaimed: Int]

Result == [status: Status,
           book: Invoices \cup {NoBook},
           record: Record \cup {NoRecord},
           risk: Int, unclaimed: Int]

Match == [by: Requests, result: Result]

\* import: start -> delete -> unlink -> insert
\* run:    start -> records -> find -> (snapshot -> replace ->) flush -> insert
Ops == {"new", "delete", "unlink", "insert_records",
        "records", "find", "snapshot", "replace", "flush", "insert_matches",
        "done"}

Request == [op: Ops,
            source: Sources \cup {NoSource},
            file: Files \cup {<<>>},
            books: SUBSET Invoices,       \* what a run has read
            records: SUBSET Record,       \* what a run has read, or an import deletes
            seen: RunRow,                 \* the run row as loaded
            results: SUBSET Result,
            row: RunRow,                  \* what a run computes for the run row
            old: SUBSET Match]            \* what a run deletes

New == [op |-> "new", source |-> NoSource, file |-> <<>>, books |-> {},
        records |-> {}, seen |-> NoRun, results |-> {},
        row |-> NoRun, old |-> {}]

TypeOK == /\ books \subseteq Invoices
          /\ records \subseteq Record
          /\ run \in RunRow
          /\ matches \subseteq Match
          /\ req \in [Requests -> Request]
          /\ raced \in BOOLEAN

RecordsOf(s) == {r \in records : req[r[1]].source = s}

RecordEntry(r) == req[r[1]].file[r[2]]

IsRun(q) == req[q].op \in {"records", "find", "snapshot", "replace", "flush",
                           "insert_matches"}

-----------------------------------------------------------------------------
(* Steps. *)

Move(q, t) == req' = [req EXCEPT ![q] = t]

IsNext(q) == req[q] = New /\ \A p \in Requests : p < q => req[p] # New

\* Row locks: records that a request has deleted, matches that it has deleted
\* or whose reference it has cleared, the row of the run.
LockedRecords_NotReleased(p) == IF req[p].op \in {"unlink", "insert_records", "done"}
                                THEN req[p].records ELSE {}
LockedRecords(p) == IF req[p].op \in {"unlink", "insert_records"}
                    THEN req[p].records ELSE {}

LockedMatches(p) ==
    CASE req[p].op \in {"flush", "insert_matches"} -> req[p].old
      [] req[p].op = "insert_records" ->
            {m \in matches : m.result.record \in req[p].records}
      [] OTHER -> {}

\* A new row has all columns, the UPDATE of a loaded one those that changed.
Changed(q) == IF req[q].seen = NoRun THEN Columns
              ELSE {c \in Columns : req[q].row[c] # req[q].seen[c]}

LocksRun_OnLoad(p) ==
    req[p].op \in {"snapshot", "replace", "flush", "insert_matches"} /\ Changed(p) # {}
LocksRun(p) == req[p].op = "insert_matches" /\ Changed(p) # {}

Referenced(q) == {r.record : r \in req[q].results} \ {NoRecord}

\* The next statement of q needs a row that p has locked: one that it deletes
\* or updates, the row of the run or, when both insert it, its unique key, or a
\* record that the foreign key of its matches checks.
Waits(q, p) ==
    /\ p # q
    /\ CASE req[q].op = "delete" ->
              req[q].records \cap records \cap LockedRecords(p) # {}
         [] req[q].op = "unlink" ->
              \E m \in matches \cap LockedMatches(p) :
                  m.result.record \in req[q].records
         [] req[q].op = "replace" ->
              req[q].old \cap matches \cap LockedMatches(p) # {}
         [] req[q].op = "flush" -> Changed(q) # {} /\ LocksRun(p)
         [] req[q].op = "insert_matches" ->
              Referenced(q) \cap LockedRecords(p) # {}
         [] OTHER -> FALSE

Waiting(q) == \E p \in Requests : Waits(q, p)

Behind(q) ==
    WaitedFor({w \in Requests \X Requests : Waits(w[1], w[2])}, Requests, q)

\* Postgres aborts a request that waits for itself.
Deadlocked(q) == Waiting(q) /\ q \in Behind(q)

\* uq_gstr2b_record_org_period_source_row
RowsFree(q) ==
    \A r \in RecordsOf(req[q].source) \ req[q].records :
        r[2] \notin DOMAIN req[q].file

ReferencesHold(q) == Referenced(q) \subseteq records

\* The request cannot go on: no records to reconcile, a unique row number, a
\* second run row of the period, or a reference to a record that is gone.
Refused(q) ==
    \/ req[q].op = "records" /\ RecordsOf(req[q].source) = {}
    \/ req[q].op = "insert_records" /\ ~ RowsFree(q)
    \/ req[q].op = "flush" /\ req[q].seen = NoRun /\ run # NoRun
    \/ req[q].op = "insert_matches" /\ ~ ReferencesHold(q)

\* The statement op of q can be executed.
Executes(q, op) == /\ req[q].op = op
                   /\ ~ Refused(q)
                   /\ ~ Waiting(q)

-----------------------------------------------------------------------------
(* POST /reconciliation/upload *)

\* The DELETE of the period and source takes its snapshot.
BeginImport_EverySource(q) ==
    /\ IsNext(q)
    /\ \E s \in Sources, f \in Files :
          Move(q, [New EXCEPT !.op = "delete", !.source = s, !.file = f,
                              !.records = records])
    /\ UNCHANGED <<books, records, run, matches, raced>>
BeginImport(q) ==
    /\ IsNext(q)
    /\ \E s \in Sources, f \in Files :
          Move(q, [New EXCEPT !.op = "delete", !.source = s, !.file = f,
                              !.records = RecordsOf(s)])
    /\ UNCHANGED <<books, records, run, matches, raced>>

DeleteRecords(q) ==
    /\ Executes(q, "delete")
    /\ Move(q, [req[q] EXCEPT !.op = "unlink", !.records = @ \cap records])
    /\ UNCHANGED <<books, records, run, matches, raced>>

\* ON DELETE SET NULL updates the matches of the deleted records.
UnlinkMatches(q) ==
    /\ Executes(q, "unlink")
    /\ Move(q, [req[q] EXCEPT !.op = "insert_records"])
    /\ UNCHANGED <<books, records, run, matches, raced>>

CommitImport(q) ==
    /\ Executes(q, "insert_records")
    /\ records' = (records \ req[q].records)
                    \cup {<<q, n>> : n \in DOMAIN req[q].file}
    /\ Move(q, [req[q] EXCEPT !.op = "done", !.records = {}])
    /\ UNCHANGED <<books, run, matches, raced>>

-----------------------------------------------------------------------------
(* POST /reconciliation/run *)

BeginRun(q) ==
    /\ IsNext(q)
    /\ \E s \in Sources : Move(q, [New EXCEPT !.op = "records", !.source = s,
                                              !.books = books])
    /\ raced' = (raced \/ \E p \in Requests : IsRun(p))
    /\ UNCHANGED <<books, records, run, matches>>

ReadRecords(q) ==
    /\ Executes(q, "records")
    /\ Move(q, [req[q] EXCEPT !.op = "find", !.records = RecordsOf(req[q].source)])
    /\ UNCHANGED <<books, records, run, matches, raced>>

\* What reconciling the invoices B with the records rec may give.
Outcomes(B, rec) ==
    {Reconcile([i \in B |-> BookEntry[i]], bo, rec, ro) :
        bo \in Orders(B), ro \in Orders(DOMAIN rec)}

ResultsOf(q) ==
    Outcomes(req[q].books, [r \in req[q].records |-> RecordEntry(r)])

\* The row of a run from source s with these results.
RowOf(s, results) ==
    LET sum == Summarize(results) IN
    [c \in Columns |-> IF c = "source" THEN s ELSE sum[c]]

FindRun(q) ==
    /\ Executes(q, "find")
    /\ \E results \in ResultsOf(q) :
          Move(q, [req[q] EXCEPT !.op = IF run = NoRun THEN "flush" ELSE "snapshot",
                                 !.seen = run, !.results = results,
                                 !.row = RowOf(req[q].source, results)])
    /\ UNCHANGED <<books, records, run, matches, raced>>

\* The DELETE of the run's matches takes its snapshot.
SnapshotMatches(q) ==
    /\ Executes(q, "snapshot")
    /\ Move(q, [req[q] EXCEPT !.op = "replace", !.old = matches])
    /\ UNCHANGED <<books, records, run, matches, raced>>

DeleteMatches(q) ==
    /\ Executes(q, "replace")
    /\ Move(q, [req[q] EXCEPT !.op = "flush", !.old = @ \cap matches])
    /\ UNCHANGED <<books, records, run, matches, raced>>

\* The row of the run is inserted or updated.
FlushRun(q) ==
    /\ Executes(q, "flush")
    /\ Move(q, [req[q] EXCEPT !.op = "insert_matches"])
    /\ UNCHANGED <<books, records, run, matches, raced>>

CommitRun(q) ==
    /\ Executes(q, "insert_matches")
    /\ matches' = (matches \ req[q].old) \cup [by: {q}, result: req[q].results]
    /\ run' = [c \in Columns |-> IF c \in Changed(q) THEN req[q].row[c] ELSE run[c]]
    /\ Move(q, [req[q] EXCEPT !.op = "done", !.old = {}])
    /\ UNCHANGED <<books, records, raced>>

-----------------------------------------------------------------------------
Over(q) == [req[q] EXCEPT !.op = "done", !.books = {}, !.records = {},
                          !.seen = NoRun, !.results = {}, !.row = NoRun,
                          !.old = {}]

Refuse(q) ==
    /\ Refused(q)
    /\ Move(q, Over(q))
    /\ UNCHANGED <<books, records, run, matches, raced>>

Deadlock(q) ==
    /\ Deadlocked(q)
    /\ Move(q, Over(q))
    /\ UNCHANGED <<books, records, run, matches, raced>>

\* Any other error rolls the request back.
Fail(q) ==
    /\ req[q].op \notin {"new", "done"}
    /\ Move(q, Over(q))
    /\ UNCHANGED <<books, records, run, matches, raced>>

\* A background extraction commits an invoice of the period.
Extract(i) ==
    /\ i \notin books
    /\ books' = books \cup {i}
    /\ UNCHANGED <<records, run, matches, req, raced>>

-----------------------------------------------------------------------------
Init == /\ books = {}
        /\ records = {}
        /\ run = NoRun
        /\ matches = {}
        /\ req = [q \in Requests |-> New]
        /\ raced = FALSE

Work(q) == \/ DeleteRecords(q) \/ UnlinkMatches(q) \/ CommitImport(q)
           \/ ReadRecords(q) \/ FindRun(q) \/ SnapshotMatches(q)
           \/ DeleteMatches(q) \/ FlushRun(q) \/ CommitRun(q)
           \/ Refuse(q) \/ Deadlock(q)

Next == \/ \E q \in Requests : BeginImport(q) \/ BeginRun(q) \/ Work(q) \/ Fail(q)
        \/ \E i \in Invoices : Extract(i)

Spec == Init /\ [][Next]_vars

-----------------------------------------------------------------------------
Made(q) == {m.result : m \in {m \in matches : m.by = q}}

\* "Any count mismatch within a key falls through as missing/extra rows rather
\* than being silently dropped": each invoice and each record that a run has
\* read is in exactly one of its matches.
NothingDropped ==
    \A q \in Requests : Made(q) # {} =>
        /\ \A i \in req[q].books : Cardinality({r \in Made(q) : r.book = i}) = 1
        /\ \A j \in req[q].records : Cardinality({r \in Made(q) : r.record = j}) = 1

\* The credit claimed beyond what the suppliers of the paired invoices have
\* reported is at risk, up to the tolerance of each matched pair.
RiskCoversExcess ==
    \A q \in Requests : Made(q) # {} =>
        LET claimed  == MapThenSumSet(LAMBDA i : BookEntry[i].tax, req[q].books)
            reported == MapThenSumSet(LAMBDA r : RecordEntry(r).tax, req[q].records)
            sum == req[q].row IN
        claimed - (reported - sum["unclaimed"])
            <= sum["itc_at_risk"] + TaxTolerance * sum["matched"]

Open(q) == req[q].op \notin {"new", "done"}
CanGoOn(q) == /\ Open(q)
              /\ Executes(q, req[q].op) \/ Refused(q) \/ Deadlocked(q)
              /\ req[q].op = "find" => ResultsOf(q) # {}

\* Requests never wait for ever: one that is open can execute its statement, is
\* refused or is aborted, or waits, through others perhaps, for one that can.
SomeoneGoesOn ==
    \A q \in Requests :
        Open(q) => CanGoOn(q) \/ \E p \in Behind(q) : CanGoOn(p)

\* Imports alone take their locks in one order, and so do runs: only an import
\* and a run that wait for each other, directly or through others, deadlock.
OneKindNeverDeadlocks ==
    \A q \in Requests : Deadlocked(q) =>
        \E p \in Behind(q) : q \in Behind(p) /\ (IsRun(p) <=> ~ IsRun(q))

\* What ReconciledPeriod sees: the committed rows.
Uploaded == [s \in Sources |-> [r \in RecordsOf(s) |-> RecordEntry(r)]]
Found == {m.result : m \in matches}

Period == INSTANCE ReconciledPeriod WITH
    Results <- Outcomes, Row <- RowOf, NoRow <- NoRun,
    file <- Uploaded, results <- Found, row <- run, overlapped <- raced

\* Statement by statement, with locks, failures and snapshots, imports and runs
\* do what they would do one by one: "re-uploading a period+source replaces its
\* records outright" and a run is about one whole file of its source.
ActsInTurn == Period!Spec
=============================================================================
