-------------------------- MODULE DocumentIngestion --------------------------
(***************************************************************************)
(* Upload, indexing, re-indexing and deletion of documents:                *)
(* IngestionService (services/ingestion_service.py) and the background     *)
(* tasks of api/v1/documents.py, over Postgres, one Qdrant collection and  *)
(* its BM25 index in Redis.                                                *)
(*                                                                         *)
(* Only Postgres has transactions: what a task does to Qdrant and Redis is *)
(* visible at once and stays when the task fails.  A request answers and   *)
(* then runs its task in the same process, with a session of its own; a    *)
(* crash of the process takes all of them.  A flushed UPDATE of a document *)
(* row holds the row's lock until the transaction ends.                    *)
(*                                                                         *)
(* Data: a file is its content (the hash); the chunks that one task cuts   *)
(* and embeds are one batch, named by the request it runs for, so a chunk  *)
(* row, a Qdrant point and a BM25 entry are a request each.  Titles,       *)
(* versions, page counts and error messages (set exactly when a row is     *)
(* FAILED) are left out.  A definition Op_Variant is Op with a mistake the *)
(* properties detect.                                                      *)
(***************************************************************************)
EXTENDS Naturals, FiniteSets

CONSTANTS
    Requests,   \* the requests, numbered as they come: bounds the behaviours
    Docs,       \* identifiers of document rows, numbered as they are used
    Contents,   \* contents of files, numbered as they are first uploaded
    NoDoc, NoContent

ASSUME IngestionAssumption ==
    /\ Requests \subseteq Nat
    /\ Docs \subseteq Nat
    /\ Contents \subseteq Nat
    /\ NoDoc \notin Docs
    /\ NoContent \notin Contents

VARIABLES
    doc,        \* documents rows with their document_chunks, committed
    qdrant,     \* batches whose points are in the collection
    bm25,       \* batches in the stored BM25 corpus
    req,        \* where each request is
    mishaps,    \* history: what went wrong with the documents of a content
    upset       \* history: something went wrong with the collection

vars == <<doc, qdrant, bm25, req, mishaps, upset>>

-----------------------------------------------------------------------------
\* UPLOADED, the column's default, and ARCHIVED are never stored.
DocumentStatus == {"processing", "indexed", "failed"}

\* A row with status "none" is a row that is not there.
Document == [status: DocumentStatus \cup {"none"},
             content: Contents \cup {NoContent},
             active: BOOLEAN,
             chunks: SUBSET Requests]

NoDocument == [status |-> "none", content |-> NoContent, active |-> FALSE,
               chunks |-> {}]

\* The first line are requests before their commit, the others their tasks.
Ops == {"new", "insert", "retry", "reopen",
        "process", "read",
        "reindex", "clear", "bump",
        "upsert", "flush", "scroll", "build", "commit", "mark", "done"}

Request == [op: Ops,
            doc: Docs \cup {NoDoc},
            content: Contents \cup {NoContent},
            seen: DocumentStatus \cup {"none"},  \* status the session loaded
            old: SUBSET Requests,                \* chunks a re-index replaces
            hits: SUBSET Requests,               \* what the scroll returned
            reindexes: BOOLEAN,
            locked: BOOLEAN]                     \* holds the row's lock

New == [op |-> "new", doc |-> NoDoc, content |-> NoContent, seen |-> "none",
        old |-> {}, hits |-> {}, reindexes |-> FALSE, locked |-> FALSE]

Done(t) == [New EXCEPT !.op = "done", !.doc = t.doc, !.content = t.content]

Mishaps == {"overlap",  \* two requests for the content were open at once
            "broken",   \* a task failed on a document that had been indexed
            "lost"}     \* a task ended without a word on the row

TypeOK == /\ doc \in [Docs -> Document]
          /\ qdrant \subseteq Requests
          /\ bm25 \subseteq Requests
          /\ req \in [Requests -> Request]
          /\ mishaps \in [Contents -> SUBSET Mishaps]
          /\ upset \in BOOLEAN

Open(q) == req[q].op \notin {"new", "done"}

Points(d) == {q \in qdrant : req[q].doc = d}

ActiveRows(c) == {d \in Docs : doc[d].active /\ doc[d].content = c}

-----------------------------------------------------------------------------
(* Steps. *)

Move(q, t) == req' = [req EXCEPT ![q] = t]

\* The next request comes.
IsNext(q) == req[q] = New /\ \A p \in Requests : p < q => req[p] # New

\* The request q is about the content of t from now on.
Begin(q, t) ==
    /\ IsNext(q)
    /\ Move(q, t)
    /\ mishaps' = IF \E p \in Requests : Open(p) /\ req[p].content = t.content
                  THEN [mishaps EXCEPT ![t.content] = @ \cup {"overlap"}]
                  ELSE mishaps
    /\ upset' = (upset \/ \E p \in Requests : Open(p))
    /\ UNCHANGED <<doc, qdrant, bm25>>

RowFree(q) == \A p \in Requests \ {q} :
                  req[p].locked => req[p].doc # req[q].doc

\* Writes the row of q's document; the UPDATE waits for the row's lock.
Store(q, row) == RowFree(q) /\ doc' = [doc EXCEPT ![req[q].doc] = row]

Row(q) == doc[req[q].doc]

\* The document has been indexed, by this task or before.
WasIndexed(q) == Row(q).chunks \cup Points(req[q].doc) # {}

\* The task has deleted points or written some.
Touched(q) == q \in qdrant \/ (req[q].old # {} /\ req[q].op # "clear")

\* The task of q ends badly.
Note(q, kinds) ==
    LET broken == IF WasIndexed(q) THEN {"broken"} ELSE {} IN
    /\ mishaps' = [mishaps EXCEPT ![req[q].content] = @ \cup kinds \cup broken]
    /\ upset' = (upset \/ Touched(q))

-----------------------------------------------------------------------------
(* The requests. *)

FreshRow(d) ==
    /\ \A p \in Requests : req[p].doc # d
    /\ \A e \in Docs : e < d => \E p \in Requests : req[p].doc = e

NextContent(c) ==
    \A b \in Contents : b < c => \E p \in Requests : req[p].content = b

\* A row of the content that is FAILED is used again, any other is a conflict.
BeginUpload_AnyRow(q) ==
    \E c \in Contents, d \in Docs :
        /\ FreshRow(d)
        /\ Begin(q, [New EXCEPT !.op = "insert", !.doc = d, !.content = c])
BeginUpload(q) ==
    \E c \in Contents, d \in Docs :
        \/ /\ ActiveRows(c) = {} /\ NextContent(c)
           /\ FreshRow(d)
           /\ Begin(q, [New EXCEPT !.op = "insert", !.doc = d, !.content = c])
        \/ /\ ActiveRows(c) = {d}
           /\ doc[d].status = "failed"
           /\ Begin(q, [New EXCEPT !.op = "retry", !.doc = d, !.content = c])

\* A failed upload to the object storage is a FAILED row.
CommitInsert(q) ==
    /\ req[q].op = "insert"
    /\ \E status \in {"processing", "failed"} :
          Store(q, [status |-> status, content |-> req[q].content,
                    active |-> TRUE, chunks |-> {}])
    /\ Move(q, [req[q] EXCEPT !.op = "process"])
    /\ UNCHANGED <<qdrant, bm25, mishaps, upset>>

CommitRetry(q) ==
    /\ req[q].op = "retry"
    /\ \E status \in {"processing", "failed"} :
          Store(q, [Row(q) EXCEPT !.status = status])
    /\ Move(q, [req[q] EXCEPT !.op = "process"])
    /\ UNCHANGED <<qdrant, bm25, mishaps, upset>>

BeginReindex(q) ==
    \E d \in Docs :
        /\ doc[d].status # "none"
        /\ Begin(q, [New EXCEPT !.op = "reopen", !.doc = d,
                                !.content = doc[d].content,
                                !.seen = doc[d].status, !.reindexes = TRUE])

CommitReindex_KeepsStatus(q) ==
    /\ req[q].op = "reopen"
    /\ Move(q, [req[q] EXCEPT !.op = "reindex", !.seen = "none"])
    /\ UNCHANGED <<doc, qdrant, bm25, mishaps, upset>>
CommitReindex(q) ==
    /\ req[q].op = "reopen"
    /\ IF req[q].seen = "processing" THEN UNCHANGED doc
       ELSE Store(q, [Row(q) EXCEPT !.status = "processing"])
    /\ Move(q, [req[q] EXCEPT !.op = "reindex", !.seen = "none"])
    /\ UNCHANGED <<qdrant, bm25, mishaps, upset>>

\* A soft delete: the chunks and the points stay.
Delete(q) ==
    /\ IsNext(q)
    /\ \E d \in Docs :
          /\ doc[d].status # "none"
          /\ \A p \in Requests : req[p].locked => req[p].doc # d
          /\ doc' = [doc EXCEPT ![d].active = FALSE]
    /\ Move(q, Done(New))
    /\ UNCHANGED <<qdrant, bm25, mishaps, upset>>

-----------------------------------------------------------------------------
(* The tasks. *)

LoadProcess(q) ==
    /\ req[q].op = "process"
    /\ IF Row(q).status = "failed" THEN Move(q, Done(req[q]))
       ELSE Move(q, [req[q] EXCEPT !.op = "read", !.seen = Row(q).status])
    /\ UNCHANGED <<doc, qdrant, bm25, mishaps, upset>>

\* The flush writes PROCESSING unless the row had it; then the file is read.
ReadFile(q) ==
    /\ req[q].op = "read"
    /\ req[q].seen # "processing" => RowFree(q)
    /\ Move(q, [req[q] EXCEPT !.op = "upsert", !.seen = "none",
                              !.locked = req[q].seen # "processing"])
    /\ UNCHANGED <<doc, qdrant, bm25, mishaps, upset>>

LoadReindex(q) ==
    /\ req[q].op = "reindex"
    /\ Move(q, [req[q] EXCEPT !.op = "clear", !.old = Row(q).chunks])
    /\ UNCHANGED <<doc, qdrant, bm25, mishaps, upset>>

\* The old points go at once, their rows with the commit.  (A second re-index
\* of the same chunks waits for their rows and not only, as here, in Bump for
\* the row of the document: the model allows more orders.)
Clear(q) ==
    /\ req[q].op = "clear"
    /\ qdrant' = qdrant \ req[q].old
    /\ Move(q, [req[q] EXCEPT !.op = "bump"])
    /\ UNCHANGED <<doc, bm25, mishaps, upset>>

\* The version always changes, so the row is always locked.
Bump(q) ==
    /\ req[q].op = "bump"
    /\ RowFree(q)
    /\ Move(q, [req[q] EXCEPT !.op = "upsert", !.locked = TRUE])
    /\ UNCHANGED <<doc, qdrant, bm25, mishaps, upset>>

\* The file has no text any more: nothing rebuilds the BM25 index.
NoText(q) ==
    /\ req[q].op = "bump"
    /\ Store(q, [Row(q) EXCEPT !.status = "failed", !.chunks = @ \ req[q].old])
    /\ Move(q, Done(req[q]))
    /\ upset' = (upset \/ req[q].old # {})
    /\ UNCHANGED <<qdrant, bm25, mishaps>>

Upsert(q) ==
    /\ req[q].op = "upsert"
    /\ qdrant' = qdrant \cup {q}
    /\ Move(q, [req[q] EXCEPT !.op = "flush"])
    /\ UNCHANGED <<doc, bm25, mishaps, upset>>

Flush(q) ==
    /\ req[q].op = "flush"
    /\ RowFree(q)
    /\ Move(q, [req[q] EXCEPT !.op = "scroll", !.locked = TRUE])
    /\ UNCHANGED <<doc, qdrant, bm25, mishaps, upset>>

Scroll_OwnChunks(q) ==
    /\ req[q].op = "scroll"
    /\ Move(q, [req[q] EXCEPT !.op = "build", !.hits = {q}])
    /\ UNCHANGED <<doc, qdrant, bm25, mishaps, upset>>
Scroll(q) ==
    /\ req[q].op = "scroll"
    /\ Move(q, [req[q] EXCEPT !.op = "build", !.hits = qdrant])
    /\ UNCHANGED <<doc, qdrant, bm25, mishaps, upset>>

\* Redis is optional: without it the stored corpus stays as it was.
Build(q) ==
    /\ req[q].op = "build"
    /\ \/ bm25' = req[q].hits /\ UNCHANGED upset
       \/ UNCHANGED bm25 /\ upset' = TRUE
    /\ Move(q, [req[q] EXCEPT !.op = "commit", !.hits = {}])
    /\ UNCHANGED <<doc, qdrant, mishaps>>

Commit_KeepsOld(q) ==
    /\ req[q].op = "commit"
    /\ Store(q, [Row(q) EXCEPT !.status = "indexed", !.chunks = @ \cup {q}])
    /\ Move(q, Done(req[q]))
    /\ UNCHANGED <<qdrant, bm25, mishaps, upset>>
Commit(q) ==
    /\ req[q].op = "commit"
    /\ Store(q, [Row(q) EXCEPT !.status = "indexed",
                               !.chunks = (@ \ req[q].old) \cup {q}])
    /\ Move(q, Done(req[q]))
    /\ UNCHANGED <<qdrant, bm25, mishaps, upset>>

\* process_document turns an exception of the storage, the loader or Qdrant
\* into a FAILED row, and commits it with the chunk rows it has flushed.
Fail(q) ==
    /\ req[q].op \in {"read", "upsert", "flush", "scroll", "build"}
    /\ ~ req[q].reindexes
    /\ Store(q, [Row(q) EXCEPT
                    !.status = "failed",
                    !.chunks = IF req[q].op \in {"scroll", "build"} THEN @ \cup {q} ELSE @])
    /\ Move(q, Done(req[q]))
    /\ Note(q, {})
    /\ UNCHANGED <<qdrant, bm25>>

\* Any other exception rolls the task back.
Abort(q) ==
    /\ req[q].op \in {"process", "read", "reindex", "clear", "bump", "upsert",
                      "flush", "scroll", "build", "commit"}
    /\ Move(q, [Done(req[q]) EXCEPT !.op = "mark"])
    /\ Note(q, {})
    /\ UNCHANGED <<doc, qdrant, bm25>>

Mark_Forgotten(q) ==
    /\ req[q].op = "mark"
    /\ Move(q, Done(req[q]))
    /\ UNCHANGED <<doc, qdrant, bm25, mishaps, upset>>
Mark(q) ==
    /\ req[q].op = "mark"
    /\ \/ /\ Store(q, [Row(q) EXCEPT !.status = "failed"])
          /\ UNCHANGED <<mishaps, upset>>
       \/ UNCHANGED doc /\ Note(q, {"lost"})
    /\ Move(q, Done(req[q]))
    /\ UNCHANGED <<qdrant, bm25>>

\* The request itself fails before its commit.
Refuse(q) ==
    /\ req[q].op \in {"insert", "retry", "reopen"}
    /\ Move(q, Done(req[q]))
    /\ UNCHANGED <<doc, qdrant, bm25, mishaps, upset>>

\* The process dies with every request and task it runs.
Crash ==
    LET dead == {q \in Requests : Open(q)}
        of(c) == {q \in dead : req[q].content = c} IN
    /\ dead # {}
    /\ req' = [q \in Requests |-> IF q \in dead THEN Done(req[q]) ELSE req[q]]
    /\ mishaps' = [c \in Contents |->
                      mishaps[c] \cup (IF of(c) # {} THEN {"lost"} ELSE {})
                        \cup (IF \E q \in of(c) : WasIndexed(q) THEN {"broken"} ELSE {})]
    /\ upset' = (upset \/ \E q \in dead : Touched(q))
    /\ UNCHANGED <<doc, qdrant, bm25>>

-----------------------------------------------------------------------------
Init == /\ doc = [d \in Docs |-> NoDocument]
        /\ qdrant = {}
        /\ bm25 = {}
        /\ req = [q \in Requests |-> New]
        /\ mishaps = [c \in Contents |-> {}]
        /\ upset = FALSE

Work(q) == \/ CommitInsert(q) \/ CommitRetry(q) \/ CommitReindex(q)
           \/ LoadProcess(q) \/ ReadFile(q)
           \/ LoadReindex(q) \/ Clear(q) \/ Bump(q) \/ NoText(q)
           \/ Upsert(q) \/ Flush(q) \/ Scroll(q) \/ Build(q) \/ Commit(q)
           \/ Fail(q) \/ Mark(q)

Next == \/ \E q \in Requests : \/ BeginUpload(q) \/ BeginReindex(q) \/ Delete(q)
                               \/ Work(q) \/ Abort(q) \/ Refuse(q)
        \/ Crash

Spec == Init /\ [][Next]_vars

\* The event loop keeps running what it has accepted.
FairSpec == Spec /\ \A q \in Requests : WF_vars(Work(q))

-----------------------------------------------------------------------------
\* A content has at most one active row, through failures, retries, deletions
\* and new uploads: otherwise scalar_one_or_none raises on every later upload
\* of it.  Only uploads that overlap can break this.
OneActiveRow ==
    \A c \in Contents : "overlap" \notin mishaps[c] =>
        Cardinality(ActiveRows(c)) <= 1

\* A document shown as INDEXED has points of its own that a search can find,
\* whatever failed, crashed or was repeated before: the status that the
\* re-index request commits first covers the time without points.
IndexedIsFound ==
    \A d \in Docs :
        doc[d].status = "indexed" /\ "overlap" \notin mishaps[doc[d].content]
            => doc[d].chunks \cap Points(d) # {}

\* An INDEXED document is indexed exactly once and its chunk rows are the
\* mirror of its points, unless a task failed on it when it had been indexed:
\* unreadable files, refused uploads and re-indexing never index it twice.
IndexedOnce ==
    \A d \in Docs :
        doc[d].status = "indexed" /\ mishaps[doc[d].content] \cap {"overlap", "broken"} = {}
            => doc[d].chunks = Points(d) /\ Cardinality(Points(d)) = 1

\* When nothing is under way and nothing has gone wrong, the BM25 index is
\* over the points of the collection ("Rebuild the BM25 index for a
\* collection from all points currently stored in Qdrant").
LexicalAgrees ==
    ~ upset /\ (\A q \in Requests : ~ Open(q)) => bm25 = qdrant

\* A document under way becomes INDEXED or FAILED, or its task was lost.
Settles ==
    \A d \in Docs :
        doc[d].status = "processing" ~>
            \/ doc[d].status # "processing"
            \/ "lost" \in mishaps[doc[d].content]
=============================================================================
