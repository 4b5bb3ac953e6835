# A TLA+ model of GST-AI-COPILOT

GST-AI-COPILOT is a FastAPI backend (`src/backend/app`) with a Next.js frontend. An organization
uploads invoices and documents, has them extracted and checked, reconciles them with GSTR-2A/2B
imports, prepares GST returns, has them reviewed by a member, keeps double-entry books, and asks
questions that are answered over its documents. The state is in Postgres (SQLAlchemy, async), in
Qdrant and a pickled BM25 index (search), in object storage, and, for work in progress, in the web
process (background tasks) and in Celery.

The specifications here are about what the tests of the repository, which are unit tests of pure
functions, cannot reach: requests that overlap, fail half-way, are repeated, or come in an order
nobody expected.

## How a request runs

Everything that changes state is a request (or a task) with one session of its own
(`core/database.py`). The facts the models share:

- A handler calls `session.commit()` itself (a background task commits when it ends) and an
  exception rolls back. Postgres runs at READ COMMITTED: each SELECT sees what is committed at that
  moment, and what the session itself flushed.
- No query takes a row lock (`with_for_update` does not occur) and no table has a version column.
- A session keeps the rows it loaded. A flush writes only the *columns* whose value differs from
  the loaded one, so two overlapping requests merge column by column (`FlushReturn`, `Flush`).
- A flushed INSERT holds its keys of the unique indexes: a second INSERT of a key waits for the
  first transaction to end and fails if it committed. A flushed UPDATE holds the row's lock.

So a request is modelled as the steps between which others can run: it begins by reading and
checking, may flush, and commits; at any step it may roll back (an exception, a lost connection, a
crash). The first modules keep the open transaction of a worker in `tx[w]`, with the rows it read;
the set `Workers` bounds the requests in flight. One worker means serial requests. In
DocumentIngestion, Reconciliation, Invoices and Chat the requests themselves are a finite set and
`req[q]` is where one is, since what they write is named by them. In Reports a request that writes
is one step, and the report that reads beside it is several.

## Inventory

| Component | State | Operations | Hard behaviour | Correct when |
|---|---|---|---|---|
| Return preparation (`return_service.py`) | `gst_returns` rows: status, figures, approver, export key; the exports bucket | `generate`, `submit_for_review`, `export` | overlapping requests; the upload is outside the transaction | an approved return keeps its figures; the stored file has the figures of the row that names it |
| Review tasks (`approval_service.py`) | `review_tasks` rows, `approval.*` audit rows | `decide`, which also moves the return | two decisions on one task; stale tasks | approvals are backed by decisions; nothing is decided silently; no return is stranded |
| Books (`accounting_service.py`) | account groups, ledgers, vouchers, entries | `ensure_chart_of_accounts`, `create_ledger`, `create_voucher`, `post_invoice` | numbers from a count; check then insert; unique keys | numbers are 1, 2, 3, ...; one posting per invoice; a whole chart |
| Financial statements (`rules/accounting.py`) | none | trial balance, P&L, balance sheet, outstanding balances, statement | rounding, tolerance, date ranges; vouchers committed between the SELECTs of a report | a report is of one moment; the trial balance and the sheet tie as far as the vouchers do |
| Return aggregation (`rules/return_aggregation.py`) | none | GSTR-1 and GSTR-3B figures, the export rows | grouping | every part adds up to the whole; the books tell the same tax |
| Members (`organization_service.py`, `rules/org_membership.py`, `security/dependencies.py`) | `organization_members` rows | `add_member`, `update_member` | check then write on several rows | an administrator remains; a revocation stays |
| Ingestion (`ingestion_service.py`, `api/v1/documents.py`, `workers/tasks.py`) | document and chunk rows, Qdrant points, the BM25 file | upload, process, re-index, delete | three stores and no common commit; crash of the process; retries | an INDEXED document is found, and once; a content has one active row; every document settles |
| Invoices (`api/v1/invoices.py`, `invoice_extraction_service.py`) | `invoices` rows and line items | upload, extract, analyze, nightly scan | background tasks, crash, repeated analysis | an EXTRACTED invoice has been checked; every invoice settles |
| Compliance (`compliance_service.py`, `rules/invoice_validation.py`) | `compliance_checks` rows | `run_check` | duplicates checked at once | a duplicate number is flagged |
| Reconciliation (`reconciliation_service.py`, `rules/gstr_reconciliation.py`) | imported records, run, matches | `import_records`, `run` | two runs of a period; replaced imports | counts agree with matches; each invoice and record is matched once |
| ITC (`itc_service.py`, `api/v1/itc.py`) | `itc_records` rows | analyze | a row read before its extraction commits | credit is offered on evidence only |
| Analytics | none | read | | |
| Authentication (`auth_service.py`, `security/jwt.py`) | users, memberships, tokens | register, login, refresh | a token outlives a membership | a token names an organization of its user |
| Chat (`chat_service.py`, `agents/`) | sessions, messages, agent runs; the memory of the graph's threads | send, stream | failure in the middle of a stream, time limits, two messages at once, restarts | a turn is stored whole, before "done"; no answer shows another conversation's figures; what nobody reviews is grounded; every message ends |
| Retrieval (`rag/`) | none of its own | retrieve, rerank, answer | two rankings, several collections, citations made up by the model | citations refer to retrieved chunks; weak evidence goes to review |
| Calculator (`rules/gst_calculator.py`) | none | tax of a supply, of a list of lines | rounding of halves | the halves make the tax |
| GSTIN checksum | none | pure | | |

Interactions: `generate` reads invoices; `submit_for_review` creates a review task and `decide`
moves the return back; `post_invoice` reads an invoice and writes ledgers and a voucher; extraction
runs compliance, which creates review tasks; reconciliation reads invoices; chat reads the indexes
that ingestion writes; every request passes the role check that the member rows decide. The
complete list with what is modelled is `components` in `PROJECT.json`, the hazards with the line
where each bites are under `hazards`.

## Modules

### ReturnReview

`ReturnService` and `ApprovalService.decide` over the rows of one organization.

| Code | Model |
|---|---|
| `gst_returns` row of a (type, period) | `ret[r]`, status `"none"` when there is no row |
| summary, totals, invoice count | `figures`, one value chosen by `BeginGenerate`: the invoices may have changed |
| `review_tasks` row; `ai_recommendation` | `task[k]`; its `figures` |
| `audit_logs` rows `approval.*` | `decisions[k]`, in commit order |
| the object under the export key | `file[r]` |
| `generate` | `BeginGenerate` (read, guard, aggregate), `CommitGenerate` or `InsertConflict` (unique key) |
| `submit_for_review` | `BeginSubmit`, `CommitSubmit` (return and new task together) |
| `export` | `BeginExport`, `Upload` (visible at once; its failure is swallowed), `CommitExport` |
| `decide` | `BeginDecide`, `Propagate` (autoflush of the task, read of the return), `CommitDecide` |
| rollback | `Rollback` |

`figures` hides the JSON of a return: no code here looks into it. Left out: audit rows of
`return.*`, `generated_by`, the return's copy of the notes.

Properties that hold however requests overlap: `UnderReviewHasTask`, `ApprovalHasDecision`,
`LastDecisionOnRecord`. Properties of serial requests (their configuration has one worker, and they
fail with two, because of the lost updates described below): `ReviewQuotesFigures`,
`ApprovalIsBacked`, `DecidedOnce`, `ExportFileMatches`, `ApprovedFiguresFrozen`.

What the model shows of overlapping requests, beyond the finding: a `generate` that read a return
before its approval commits new figures over the approved row; two decisions that read the same
pending task both succeed; when the second decider's columns equal the loaded ones they keep the
first decider's values; a `modify` decision leaves the return under review with no open task
(by the code's intent it "does not by itself move the return"), so it can only be regenerated.

### Books

`AccountingService` over ledgers and vouchers of one organization. A ledger is its name: the model
keeps what tells names apart, the case (`Lower`) and surrounding blanks (`Strip`), because the
lookup ignores case, the unique index does not, and `create_ledger` compares before it strips.

| Code | Model |
|---|---|
| committed `ledgers`, `vouchers` rows | `ledgers`, `vouchers` |
| `ensure_chart_of_accounts` and its flushes | `BeginChart` / `BeginPost`, `FlushChart` |
| the already-posted check of `post_invoice` | `CheckPosted` |
| case-insensitive lookup of a ledger | `Lookup`; two matches raise |
| insert of a ledger, `uq_ledger_org_name` | `InsertLedger`, waiting in `NamesFree` for who `HoldsNames` |
| `_next_voucher_number` | `CountVouchers` with `NextNumber` |
| insert of a voucher, `uq_voucher_org_type_number` | `InsertVoucher`, waiting in `NumberFree` for who `HoldsNumber` |
| who waits for whom, directly or through others | `Waits`, `Behind` |
| commit, rollback | `Commit`, `Rollback` |

`raced` is a history variable: the invoices that two open requests were posting at one time.
`PostedOnceUnlessRaced` says the guard is right except in that case, `PostedOnce` (the message of
the code) is violated by it. `GaplessNumbers` holds under every interleaving: a count that has
become stale gives a number that exists, and the unique index turns that into an error response,
never into a gap.

`NeverDeadlocks` says that no request is behind itself, so there is no action in which Postgres
breaks a cycle: every request takes the names of the chart, the name of a party and a voucher number
in this order. `WaitsFor` has the one definition that this and Reconciliation need, those whom a
request waits for through any number of others, as the least set that is closed under waiting.

`RequestEnds` is checked under `FairSpec`: strong fairness of each worker's own steps. The server
keeps running the coroutine of an accepted request, and Postgres queues the waiters of a key and
wakes them when the holder ends, so a waiter is not passed over for ever; weak fairness would not
say that, because the wait is disabled whenever a newcomer holds the key. New requests are not
fair: nobody has to send one.

### OrgMembers

`add_member` and `update_member` with the admission of `require_roles`. A member is the role and
`is_active` of its row; `Change` is the body of the request (`NoRole` and `Keep` for fields not
sent). `Admit` reads the caller, `ReadAdd`/`ReadUpdate` read the target, `CheckUpdate` counts the
administrators over all members as they are committed then, with the caller's change applied to
the target, and `Write` commits the changed columns. `raced` is a history variable: two requests
have overlapped. The model stops when no administrator is left, since nobody is admitted: the runs
say `CHECK_DEADLOCK FALSE`.

### DocumentIngestion

`IngestionService` with the requests and the background tasks of `api/v1/documents.py`, over three
stores of which one has transactions. A request `q` of `Requests` goes through `req[q].op`: first
the request up to its commit, then the task it leaves to the web process. The chunks a task cuts
and embeds are one batch, named by its request: a chunk row, a Qdrant point and a BM25 entry are
each "a batch of `q`".

| Code | Model |
|---|---|
| `documents` row with its `document_chunks` | `doc[d]`, `doc[d].chunks`, committed |
| points of the collection; the BM25 corpus in Redis | `qdrant`; `bm25` |
| `content_hash` | `content`; two uploads of one content are one file |
| `create_pending_document` | `BeginUpload` (look-up, conflict or reuse), then `CommitInsert` or `CommitRetry`, with the upload to the storage that may fail |
| the reindex handler | `BeginReindex`, `CommitReindex` (commits PROCESSING if the loaded row was not) |
| the delete handler | `Delete` (soft: chunks and points stay) |
| `process_document` | `LoadProcess`, `ReadFile` (flushes PROCESSING, loads the file), `Upsert`, `Flush` (chunk rows, INDEXED), `Scroll`, `Build`, `Commit` |
| its `except` clauses | `Fail`: FAILED is committed with the chunk rows flushed so far |
| `reindex_document` | `LoadReindex`, `Clear` (the old points go), `Bump` or `NoText`, then as above |
| the tasks' outer `except` | `Abort` (rolls back), `Mark` (a second session; its own failure is logged only) |
| a request that fails, the process that dies | `Refuse`, `Crash` |

`locked` is the lock of a flushed UPDATE of the document's row; `Store` waits for it. `mishaps` and
`upset` are history variables: what went wrong with the documents of a content, and with the
collection. They delimit what the properties promise: `"overlap"` (two requests for one content
open at once), `"broken"` (a task failed on a document that had been indexed), `"lost"` (a task
ended without a word on the row). Every property that excludes one of them does so because the code
goes wrong there: two uploads of one file at once both find no row and insert two; a failed
re-index leaves chunk rows without points; two rebuilds of the BM25 index may store the older
snapshot last; a crash leaves a row PROCESSING, which no later upload of the file takes up.

Properties: `OneActiveRow`, `IndexedIsFound`, `IndexedOnce`, `LexicalAgrees`, and `Settles` under
`FairSpec`, weak fairness of each request's own steps: the event loop runs what it has accepted,
requests are finitely many, and a row lock is held by one request that goes on to release it.
`Abort`, `Refuse`, `Crash` and new requests are not fair.

### GstrReconciliation and Reconciliation

`GstrReconciliation` is `rules/gstr_reconciliation.py`: books and records are functions from
identifiers to entries, each with an order, because the code pairs the entries of one key (supplier
and normalized number) by their position in lists that no query sorts. `Paired`, `Pair`,
`MissingInReturn`, `MissingInBooks`, `Reconcile` and `Summarize` are the functions of the file; a
blank number pairs with nothing.

`Reconciliation` is `ReconciliationService` behind its two endpoints, over one period.

| Code | Model |
|---|---|
| `gstr2b_records` | `records`: row `<<q, n>>` is row n of the file of request q |
| `reconciliation_runs` row; `reconciliation_matches` | `run`, `NoRun` when there is none; `matches`, with the request that made each |
| EXTRACTED purchase invoices | `books`, growing by `Extract` |
| `import_records` | `BeginImport` (snapshot of the DELETE), `DeleteRecords`, `UnlinkMatches` (ON DELETE SET NULL), `CommitImport` |
| `run` | `BeginRun` (invoices), `ReadRecords`, `FindRun` (pure rules, run row), `SnapshotMatches` and `DeleteMatches` (the DELETE), `FlushRun`, `CommitRun` |
| no records; the unique keys; the foreign key | `Refuse` when `Refused` |
| a lock cycle; any other error | `Deadlock`; `Fail` |

A DELETE is two steps because its snapshot is taken before it waits: rows committed meanwhile are
not in it. What is locked follows from where the requests are (`LockedRecords`, `LockedMatches`,
`LocksRun`), and so does who waits for whom: `Waits` for one lock, `Behind` through others
(`WaitsFor`). A request that is behind itself is `Deadlocked`, whatever the length of the cycle, and
Postgres aborts it. An import that unlinks matches, a re-run that holds them and writes the row of
the run, and a second re-run that has written it make a cycle of three; it takes six requests, more than the
run has, and is covered by the theorems.
One user runs everything, so `run_by` is no reason to write the row.

`SomeoneGoesOn` says that every open request goes on or is behind one that does,
`OneKindNeverDeadlocks` that a cycle always has an import and a run in it.

`ReconciledPeriod` is the abstract specification: what the service promises of a period as if
uploads and runs came one by one. `Upload` replaces the file of one source as a whole, `Run` leaves
the results of one whole file with their row. It has no statements, locks, snapshots, failures or
order of commits. `Reconciliation` implements it (`ActsInTurn`) under the mapping that sees the
committed rows: `file` is `Uploaded`, `results` is `Found`, `row` is `run`, and `overlapped` is
`raced`. It weakens two promises where the code does: a run may leave out invoices that were
extracted while it worked, and after two runs have overlapped `Run` may keep results and columns of
the row from the run before it. `UploadsNeverMix` (the rows of a source are those of one request),
`RunIsCurrent` and `RunIsItsMatches` say parts of it with the variables of Reconciliation; they are
in `Reconciliation_proofs`, where they are theorems.

### InvoiceValidation and Invoices

`InvoiceValidation` has the ten rules of `rules/invoice_validation.py` with severities, penalty,
score and status, and the disqualifiers of the input tax credit. An invoice is reduced to what the
rules tell apart.

| Code | Model |
|---|---|
| `invoices` row with its items | `row[i]`: status and `fields` |
| background task of an upload | `task[i]`: `Load`, `ExtractInto`, `RunCheck`, `Commit`; `Abort`, then `Mark` in a second session |
| `compliance_checks`, `itc_records`, tasks of invoices | `checks`, `itc`, `reviews` |
| `/compliance/check`, `/invoices/{id}/analyze`, `/itc/analyze`, the nightly scan | `BeginCheck`, `BeginAnalyze`, `BeginITC`, `BeginScan`; `LoadItems` (selectinload is a second statement), `CheckNext`, then `CommitChecks`, `CommitAnalysis` or `CommitITC` |
| a request that fails; the web process that dies | `Fail`; `Crash` |

`raced` holds the pairs of invoices of which one was checked while the other was checked and not
yet committed, `lost` the invoices whose task ended without a word on the row.

`ExtractedIsChecked` has a consequence for the scan: status and check of an upload are committed
together, so no invoice that the application stores is EXTRACTED without a check, and the scan
finds nothing; the invoices that do need somebody (PROCESSING after a crash) it does not look for.
`Settles` is checked under weak fairness of the task's own steps: the event loop runs what it has
accepted and no step waits for anybody. `Abort`, `Crash` and the requests are not fair.

### Statements, ReturnAggregation, GstCalculator and Reports

Three modules of pure functions, each named after the functions of its file: `Statements` is
`rules/accounting.py` (`Balanced`, `TrialBalance`, `ProfitAndLoss`, `BalanceSheet`,
`LedgerStatement`), `ReturnAggregation` is `rules/return_aggregation.py` (`Gstr1`, `Gstr3b`,
`CsvRows`), `GstCalculator` is `rules/gst_calculator.py`. Amounts are integers: paise once stored,
thousandths of a rupee where a request may carry more places than a column keeps.

`Reports` composes them with `AccountingService`. Writing requests are one step each (`Books` has
their interleavings, without amounts); a report is not, because it reads the ledgers, the sums
before its period and the sums of its period with three SELECTs at READ COMMITTED, and a balance
sheet does so twice.

| Code | Model |
|---|---|
| `ledgers` rows with their groups; `vouchers` with `voucher_entries` | `ledgers`, a function from names to accounts; `books` |
| invoices that were extracted | `arrived` and the constant `Bill` |
| `date.today()`, `current_fy_range` | `today`, `YearStart`, `YearEnd` |
| the report endpoints | `Ask` (defaults of the dates), `ListLedgers`, `SumBefore`, `SumPeriod`; `Answer` is the response |
| `_ledger_lines` | `LedgerLines` with `Before`, `Movement` |
| `create_ledger`; `create_voucher` | `CreateLedger`; `Enter` and `CreateVoucher` (validate, then store two places) |
| `post_invoice` | `Post` with `InvoiceEntries`, `VoucherDate`, `WithParty` |
| an extraction that commits; the calendar | `Arrive`; `NextDay` |

Dates are strings in the code. An ISO date is a day; a missing one is `NoValue`, and one in another
format sorts before every ISO date (`Early`) or after all (`Late`).

`ReportsAreOfOneMoment` says what READ COMMITTED leaves of consistency: a report that is not
`Disturbed` (a new ledger after its list was read, or a voucher that falls before a sum it has
already read) is the books as they are when it completes. `ReportsTie` states "the trial balance
ties" with what the code adds to it: the tolerance of each voucher, half a paisa for each rounded
entry, the opening balances, and for a balance sheet the profit of other years. A voucher of two
entries can be out by one paisa, one of three by two. `BooksAgreeWithReturns` and `SectionsAddUp`
compare the two modules that read one invoice: the tax ledgers of a period with its GSTR-3B, and
the parts of a GSTR-1 with each other. The day book, which shows the latest 200 vouchers, is left
out.

### Conversation, GroundedAnswer and Chat

`Conversation` is the abstract specification: what `ConversationService` promises. A conversation
is a list of turns; a turn (question, answer and run) joins it as a whole, made from a bounded
number of turns that were there before, and before its request is told that it is done; turns stay.

`GroundedAnswer` is a question answered from excerpts (`rag/pipeline.py` over
`rag/hybrid_retriever.py`): the fusion of the vector and the BM25 ranking, the cut to the context,
the citations a text makes or makes up, the confidence and the request for review. Every order of
the hits, every choice of the reranker and every set of numbers in brackets is possible;
`ResearchOutcomes` is what can come of them.

`Chat` is `ConversationService` behind `api/v1/chat.py`, over the supervisor graph and its nodes.

| Code | Model |
|---|---|
| `chat_sessions` with `chat_messages`, `agent_runs` | `turns[c]`, committed; a conversation has the name of the request that opened it |
| the checkpoint of the graph (`MemorySaver`) | `memory[c]`, empty again after `Restart` |
| `send_message`, `stream_message` up to the first flush | `Begin` (session new, or read with its history), `NotFound` |
| `messages[-_HISTORY_MESSAGES:]`, the last 20 messages by `created_at` | `Latest`, the last `HistoryTurns` turns (ten in the code, two messages each) |
| the second flush: session row and run; the session event of a stream | `Touch`, which waits for the lock of the session's row |
| `graph.ainvoke` under `wait_for` | `GraphAnswers`, `GraphStops` |
| the calculation and support paths of a stream | `NodeAnswers`, `NodeStops` |
| the research path of a stream | `Token`, `Final`, `Breaks` |
| the commit; the response or the done event | `Store`; `Reply` |
| anything else that raises; the client goes away; the process dies | `Fail`; `Disconnect`; `Restart` |

The history of an answer is not the whole conversation: both paths cut it to the last 20 messages
(`chat_service.py:41`, `:116`, `:241`). The two messages of a turn are written by one transaction
and the question of the request itself is not in the collection it has loaded, so these are the last
ten turns, whole. They are the last by `created_at`, which Postgres sets to the start of a
transaction (`models/mixins.py:41`): the order in which requests start, not the one in which their
turns are committed or in which they read the conversation. The model numbers requests by it, and
`Late` names those that later ones may overtake between the two. The one consumer of the history,
`rag/query_rewriter.py:31`, reads its last six messages; the rewriting itself is left out.
`KnowsLatestUnraced` says that an answer is made from exactly the last `HistoryTurns` of the turns
stored before it and not raced by it: besides the cut, the races are all that is lost, and they
always are. It does not say that two messages sent at once see each other, since they do not.

A sent message and a streamed one differ in more than the tokens, and the model keeps that: the
graph merges what a node returns into the thread's state, so a field a node does not set is that of
an earlier turn, while a stream starts from an empty one. `raced` holds the pairs of requests that
were open on one conversation.

Properties: `KeepsPromises` is the refinement, `Abstract == INSTANCE Conversation` with the turns
reduced to who made them, of what and with which end, and the event of a session that was only
announced seen as nothing. `KnowsLatestUnraced` is about the history an answer is made from,
`ShowsOwnOrRemembered` about whose calculation and citations it shows, `CompletedIsGrounded` about
the runs nobody is asked to review. `TurnEnds` says that again and
again no message is open: they are finitely many and each is sent once, so all of them end. It is
checked under `FairSpec`, weak fairness of
`Goes(q)`: the event loop runs what is ready, and a time limit fires. No answer of the graph or of
a node is fair (`GraphStops` and `NodeStops` are what `chat_request_timeout_seconds` guarantees);
of a research stream, which has no limit as a whole, a read of the next token returns or times out
(the HTTP client's limit) and the model's context bounds their number. A waiter for the row lock
starves under this fairness only while other requests end one after the other, and requests are
finitely many.

What the model shows beside its properties: citations of an earlier turn can be shown with a
calculation of a later one, and an answer whose commit fails is remembered by the thread all the
same; an error can be told for a turn that is stored, since `refresh` follows the commit; from the
turn after the cut on, an answer forgets the beginning of its conversation; a conversation whose first stream is under way is announced before anybody else can open it; a stream
of research holds the lock of its conversation as long as it lasts. Not in the model: both rows
of a turn have one `created_at`, so which of them is shown first is left to the database; the
`disclaimer` of a low-confidence answer is dropped on the way to the client.

### MC modules and proof modules

`MCReturnReview`, `MCBooks`, `MCOrgMembers`, `MCReconciliation`, `MCInvoices` and `MCReports` give
TLC its symmetry sets and the functions that a configuration cannot write; DocumentIngestion and
Chat compare requests by number and need none. `MCReports` makes the amounts of its invoices with
`GstCalculator` and has TLC evaluate `HalvesMakeTheTax`. `ReturnReview_proofs`, `Books_proofs`,
`OrgMembers_proofs`, `DocumentIngestion_proofs`, `Reconciliation_proofs`, `Invoices_proofs`,
`Reports_proofs` and `Chat_proofs` extend the specifications with their theorems, those about the
functions of GstrReconciliation, Statements and ReturnAggregation included. The two that add up
amounts each begin with the same lemmas about sums over finite sets.

A definition `Op_Variant` next to `Op` is `Op` with a plausible mistake, used to see that the
properties detect it (`mutants` in `PROJECT.json`); no action uses it.

## Runs

| Run | Question | Bounds | States |
|---|---|---|---|
| `ReviewSerial` | what serial requests keep, with rollbacks and failed uploads | 1 return, 3 review tasks, 2 members, 2 figures, 1 worker | 236 thousand |
| `ReviewConcurrent` | what survives lost updates | 1 return, 2 tasks, 2 members, 1 figure, 2 workers | 2.05 million |
| `ReviewExport` (violated) | is an approved return protected? | 1 task, 2 figures, 1 worker | finding 1 |
| `Books` | numbers, postings and the chart under interleaving; no cycle of waits; requests end | 4 names (one a case variant, one with a leading blank), 2 invoices, 2 voucher types, 2 vouchers a type, 2 workers | 201 thousand |
| `BooksTwice` (violated) | is an invoice posted once? | the same | finding 2 |
| `Members` | administrators and revocations | 3 users, 2 roles, 2 workers | 87 thousand |
| `Ingestion` | rows, chunks, points and BM25 entries through failures, crashes and retries; documents settle | 3 requests, 2 documents, 2 contents | 194 thousand |
| `Reconciliation` | imports and runs under interleaving, failures and lock cycles; the matching; the refinement of `ReconciledPeriod` | 4 requests, 2 sources, 2 invoices of one key, a file of two rows | 474 thousand |
| `Invoices` | checks, duplicates and credit through failures and crashes; invoices settle | 2 invoices, 2 requests, 2 readings (clean, and every kind of issue), 2 lines | 263 thousand |
| `Chat` | turns, memory, grounding; the refinement of `Conversation`; messages end | 1 streamed message, which may be overtaken, and 2 sent ones, 2 conversations, a history of 1 turn, 1 token, 1 restart, 2 collections of 2 chunks, 3 excerpts | 705 thousand |
| `Reports` | what reports say while vouchers are committed; what the returns say of the same invoices | 2 days, each a financial year; 4 invoices (a sale of two rates, a refund, one without a date, one with a date in another format), 3 manual vouchers, 1 new ledger with an opening balance, 2 vouchers | 164 thousand |
| `ReportsNextYear` (violated) | are the assets the claims on them? | the same | finding 3 |

Why these bounds are enough to be interesting. Returns do not interact, so one is as good as
several; two tasks let a stale one meet a current one, three let a decision follow two
submissions, and two workers are one race; two figures tell a reviewed return from a regenerated
one. In `ReviewConcurrent` figures play no part in the three properties, so one is enough. Two
workers and two voucher numbers make a count stale and a number taken; the four ledger names are
the cases that the look-up, the strip and the index treat differently. Three users are the two
administrators of a race and a member to change. Three requests are an upload, something that goes
wrong with it and a repetition, or a second document whose rebuild of the BM25 index covers the
first; with two contents a request of one meets rows of the other. Four requests
of a period are an import, a run, and two that overlap afterwards (import and run, two imports, or
two re-runs); two invoices and one record of a key leave one invoice unpaired, and the record with
no number must stay alone. Two invoices make a duplicate; two requests are an analysis that reads a
row too early and one that reads it in time. Three messages of two conversations are a stream and a
sent message that meet in one of them, and one that must not see the other's; one restart forgets
what one life remembered, and one token tells a broken answer from an empty one; three excerpts of
two collections are the least that a cut, a citation of the last and a citation of nothing need.
The history of ten turns is cut to one in `Chat`, so that the third message meets the cut, after two
turns that may have been stored in another order than they were begun.
Two financial years are one and the next; two vouchers are one before a report and one that is
committed while it is made, or a posted invoice and a manual voucher that touches the same ledger;
the invoices are the kinds the entries and the groups treat differently. Symmetry is used on the sets of model values in the
runs without liveness properties.

Deadlock is checked except where the system may stop: `Members` (no administrator left) and the
runs of DocumentIngestion, Reconciliation, Invoices (`Requests` is used up) and Chat (the messages
are). In Reconciliation `SomeoneGoesOn` takes its place: it is an invariant about the requests that
are open.

## Findings

1. **An approved return can be regenerated after its export** (`ReviewExport`).
   `return_service.py:144` protects APPROVED and FILED_EXTERNALLY; `export` moves APPROVED to
   EXPORTED, which the guard lets through. The figures change and the approver is cleared, although
   the code says "This return has already been approved and can no longer be regenerated."
2. **An invoice can be posted twice** (`BooksTwice`). Two overlapping `post_invoice` requests both
   find no voucher; the second counts after the first committed and takes the next number, so the
   unique index does not stop it.
3. **The balance sheet of a second year does not balance** (`ReportsNextYear`). It adds the profit
   from the start of the current financial year (`accounting_service.py:602`) to balances that run
   from the beginning; nothing carries earlier profits over to equity, so they are missing from the
   claims, although `rules/accounting.py:5` says "Assets = Liabilities + Equity", and the
   repository's `README.md:469` says the same of its reports.

Known limits without a run of their own, most of them kept as history variables in the properties
that hold:

- Two ledgers can have names that differ by case only: `create_ledger` compares the name with its
  blanks (`accounting_service.py:210`) and strips it afterwards (`:220`), and the unique index minds
  the case, so " ACME" is created beside "acme". Every later look-up of the name raises on the two
  rows; the request fails and nothing else does (`Lookup` of Books).
- Two administrators who demote each other at once leave none: each check counts the caller, who is
  still an administrator in the committed rows (`AdminRemainsUnlessRaced`).
- An ingestion that fails after its upsert leaves points without chunk rows, and the retry adds them
  once more (`mishaps` in `IndexedOnce`).
- Overlapping re-runs of a reconciliation keep the matches of both, with the counts of one: the
  DELETE of the second does not see what the first commits while it waits
  (`Run` of ReconciledPeriod promises a replacement only without `overlapped`).
- Two uploads with one invoice number, checked at once, are both unflagged
  (`OnlyARaceHidesADuplicate`).
- Two messages of one conversation at once are answered without each other: `KnowsLatestUnraced`
  says that these are the only turns lost beside those before the cut.

## Proofs

All theorems are for every value of the constants that satisfies the named assumptions of the
modules (`NoValues`, `BooksAssumption`, `RolesAssumption`, `IngestionAssumption`,
`ReconciliationAssumption`, `RequestsAssumption`, `ValidationAssumption`, `InvoicesAssumption`,
`RetrievalAssumption`, `ChatAssumption`, `CalendarIsNatural`, `ReportsAssumption`); facts about
finite sets and cardinality come from FiniteSetTheorems, and that a set of numbers has a smallest
from WellFoundedInduction. None of the stated properties is inductive; each proof finds the strengthening
that is.

- `ReturnReview_proofs`: `ReviewInv` adds to the type invariant `TasksKnown` (a task named by the
  log or a transaction exists), `HasOpenTask`, `LastDecisionOnRecord` and `ApprovalKnown`, each
  extended to what a request in flight carries: the rows in `seen` were committed once, so an
  `under_review` seen by a decider came with a task, an approver seen came with a decision of the
  log (which only grows), and a flushed task row will agree with the decision that the same commit
  appends. `TypeCorrect`, `ReviewNeverStranded`, `DecisionNeverSilent`, `ApprovalNeverInvented`.
  The properties of serial requests hold of more than the one worker of `ReviewSerial`: `SerialSpec`
  is `Spec` with any number of workers whose requests of one return come one by one (`OneByOne`),
  which one worker always does. `SerialInv` ties the committed row, its open task and the log to the
  figures of the moment: who holds a row holds the committed one, and an approval of the log
  is of the figures that are there. `SerialReviewQuotes`, `SerialApprovalIsBacked`, `SerialDecidedOnce`,
  `SerialExportMatches`, `SerialFiguresFrozen`.
- `Books_proofs`: `BooksInv` is `TypeInv` (with the books finite), `NumbersInv` (a counted number
  is never ahead of the books, and a request that has inserted a number holds exactly the next one,
  alone for its type), `PostingInv` (a request past the check posts an invoice that nobody posted,
  or the invoice is in `raced`) and `ChartInv` (who holds part of the chart holds all that is
  missing). `TypeCorrect`, `VouchersGapless`, `PostingIsOnce`, `ChartStaysWhole`. `HoldersInv` says
  what a request holds when it waits: only a request with the whole chart goes on to a party, and no
  two hold the same name. Every wait is then for a request of a lower `Level`, so the requests below
  a level are a set that waiting does not leave: `WaitsEnd`.
- `OrgMembers_proofs`: `AdminInv` says that without an overlap at most one transaction is open and
  the row it has seen is the committed one, so its check still speaks of the committed rows;
  `RolesKept` that an active member has a role. `TypeCorrect`, `SerialAdminRemains`;
  `RevocationIsKept` is an action property and follows from the type invariant and the flush of
  changed columns alone.
- `DocumentIngestion_proofs`: `IngestionInv` says where rows come from (`Rows`, `Held`,
  `Inserting`), that chunk rows and the batches a re-index replaces belong to tasks that are over
  (`Owned`), that a task's points are there from its upsert to its commit (`Embedded`), and that
  without overlap the requests of a content come one by one (`AloneOpen`), insert the only active
  row (`AloneRow`) and delete points only under a committed PROCESSING (`Covered`). Every step of a
  request is first reduced to what it may do to its row, its points and itself (`RowStep`,
  `PointsStep`, `OpStep`), and the invariant is shown for these. `TypeCorrect`,
  `UploadsAreUnique`, `IndexedDocumentsAreFound`. `MirrorInv` says of the documents that met no
  mishap that points and chunk rows mirror each other at every stage of their one request, which is
  `DocumentsAreIndexedOnce`. `Lexical` says which requests a BM25 index that is being rebuilt can
  still miss, which is `LexicalIndexAgrees`.
- `Reconciliation_proofs`, of the matching: an entry is paired by its rank among the entries of its
  key, and ranks are injective in an order without repetitions (`RankIsInjective`), so the two sides
  of a key are paired one to one and the rest is left over once (`EachOnce`). The figures of a
  result are sums. What they need of sums over finite sets (a sum of two functions, a comparison
  term by term) is proved by induction on the set: of the subsets for which a statement fails there
  would be a smallest one (`SubsetInduction`, of a set of sets and not of an operator). From it
  `CreditIsCovered`: the tax at risk and the credit not claimed are at least what the books have
  more than the returns, and the reverse, whatever is paired.
  Of the requests: `Inv` says that the committed rows are whole files of imports that are
  over, of one import for each source, and the committed matches whole results of runs that are
  over (`StoredInv`), and what a request in flight carries of them (`RequestsInv`): the records it
  deletes or has read are whole files of its source. Every file has a first row, so the unique
  row number lets an import commit only when no other file is left; a record that the foreign key
  found at the commit of a run brings its whole file, which is then the one of the source. The
  results are exact by `EachOnce`. `SerialInv` adds that without an overlap one run is open and what
  it has loaded is committed, so writing the changed columns writes the whole row. `UploadsAreWhole`,
  `MatchesAreComplete`, `RunsAreCurrent`, `RunsAreSummaries`. `Covered` carries `CreditIsCovered`
  from the result that a run computes to the summary that it commits, with the invoices and records
  that it had read: `RiskIsCovered`. `TypeCorrect` needs that what is computed from typed entries is
  an integer, sums included.
  Of the waits: those behind an open request are open, and finitely many have come so far
  (`FewStarted`). If none of them could go on, each would wait for another, and waits in a finite set
  of which each has one end in a cycle (`SomeCycle`), whose members are deadlocked and go on after
  all: `NoneWaitsForEver`.
  `LocksApart` says that a record is locked by one import at most. So an import waits for an import
  only before it has locks, and a run for a run only when that one is at a later statement: a cycle
  must have both kinds, `DeadlocksAreMixed`.
  Of the abstract specification: `DerivedInv` says that the results a run carries are outcomes of
  the invoices and the file it has read, and its row theirs. With `RunsAreCurrent` this makes
  `CommitRun` a `Run` of ReconciledPeriod, with `UploadsAreWhole`'s invariant `CommitImport` is an
  `Upload`, and all else is an `Overlap` or is not seen: `Implements`.
- `Reports_proofs`: every figure becomes a sum over the places of entries or lines (`NetInIs`,
  `TotalsOfSome`), and what such sums say is regrouped: by ledger (`NetByLedger`), by voucher
  (`NetByVoucher`), by dates that are apart (`NetOfBoth`), by rate, by group and by row of the
  export. For the returns the invoices that arrived are all that is needed: `ReturnsAddUp`.
  `BookedInv` says that every voucher keeps the stored form of entries that balance, those of a
  draft or of an invoice that arrived, posted once and under its date if it has one, on ledgers that
  there are. A voucher leaves out the taxes that are not positive and must balance without them, so
  no tax of a posted invoice is further below zero than the tolerance (`TaxesArePositive`), and the
  tax ledgers of a day and its GSTR-3B are the same sum but for the tolerance of each voucher:
  `BooksAgree`. `ReportInv` says what the
  report in the making has read: the list of the ledgers, unless one was made since (`ListInv`), the
  sums of the first n vouchers, with the dates of all later ones kept (`SumsInv`), and of a balance
  sheet the profit of the books (`ProfitInv`). `BookedInv /\ ReportInv` is inductive, and gives
  `ReportsAgree` and `ReportsNearlyTie`: the vouchers that a trial balance adds up, those seen
  before its period and those of it, are apart, so it is out by what some of the vouchers are
  (`WithinSlack`), and twice that is at most the tolerance and the rounding of all. Of the
  calculator `HalvesAreTheTax` says for the sums of an invoice of any lines what `HalvesMakeTheTax`
  has TLC evaluate for one line of bounded amounts.
- `Invoices_proofs`: the key is that an EXTRACTED row never changes again (`Kept`), so what a check,
  a request or a credit record says of such a row stays true. `Inv` has `RowsOk` (a row has fields
  only when it is EXTRACTED, and then its task is over; a checked task carries the check of exactly
  its fields), `RequestsOk` (a number or a valid supplier that a request has loaded is that of an
  EXTRACTED row, although the lines may be newer than the columns), `ChecksOk` (a flag has a twin)
  and `PairsOk` (of two invoices known by one number one has been told, or they are in `raced`).
  Every step is a move of one task (`Moves`) or of one request, which leaves the rows alone.
  `TypeCorrect` (with the score in 0..100 and at most nine failed rules), `ExtractedChecked`,
  `RacesOnly`, `FlagsAreTrue`, `CreditHasEvidence`.
- `Chat_proofs`: `ChatInv` says that a request is in one place (a turn is stored once, its
  conversation is open to it), that the turns a request knows are the latest of the stored ones it
  has not raced, and that what the memory of a thread and a turn in the making show was made by
  requests of the conversation in this life. The second part is kept because everyone in `raced` has
  begun (`RacedBegun`): a turn that is stored was never raced by a request that begins later,
  and what a request has not raced stays as it is after it has begun. `LatestIsShort`
  gives the bound of `Conversation`: the earliest of the latest turns, which exists because the
  numbers are well-founded, has fewer than `HistoryTurns` after it. `TypeCorrect`,
  `HistoryIsKnown`, `ShownIsRemembered`, `Implements` (every step of Chat is a step of Conversation
  or leaves what it sees unchanged), and `CompletedHolds`, which rests on `ReviewIsSound`: a fused
  score is at most the share of a first rank in both rankings (`RetrievedBound`), so the best scores
  of any context give hardly 20 of a thousand, one citation 200, and the threshold of 350 takes two
  citations.

Model-checked only: `RequestEnds`, `Settles` and `TurnEnds`. Liveness under fairness is beyond the
prover; every other property of the passing runs is stated by a theorem.

## Not modelled, and why

- Text, names, ranking scores of the models and prompts are data that the modelled control does not
  look at; what a model answers is a choice.
- Authentication: `register` inserts the rows from which OrgMembers and Reports start; `login` writes
  an audit row and `refresh` reads. Which of several memberships a refreshed token names is an
  unordered SELECT, so there is no promise to state. Hashing and signing are library code.
- The decision of review tasks of invoices, reconciliation runs and chat answers: the code of
  `decide` without its propagation, which ReturnReview has.
- The endpoint row of the calculator, the audit rows, the dashboards, the day book and the CSV
  layouts: written or read, and looked at by nothing that is modelled.
- The ingestion scripts and the Celery task that nothing queues: the same service code without a
  request.
- The GSTIN checksum is a pure call over characters that unit tests cover. Analytics only reads. LLM
  providers, document loaders and web plumbing keep no state. The frontend is a client.

## Plan

Done: ReturnReview, Books, OrgMembers, DocumentIngestion, Reconciliation with GstrReconciliation,
its abstract ReconciledPeriod and WaitsFor, Invoices with InvoiceValidation, Reports with Statements,
ReturnAggregation and GstCalculator, Chat with GroundedAnswer and its abstract Conversation.

To model next: the decisions of review tasks that are not of returns; the ingestion of the scripts
beside the uploads of users.
