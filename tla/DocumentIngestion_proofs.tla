---------------------- MODULE DocumentIngestion_proofs ----------------------
(***************************************************************************)
(* Proofs about DocumentIngestion for any number of requests, documents    *)
(* and contents.                                                           *)
(***************************************************************************)
EXTENDS DocumentIngestion, FiniteSetTheorems, TLAPS

LEMMA NewType == New \in Request
BY DEF New, Request, Ops, DocumentStatus

\* A request that is over is a request.
LEMMA DoneType ==
    ASSUME NEW t \in Request
    PROVE  /\ Done(t) \in Request
           /\ Done(t).op = "done"
           /\ Done(t).doc = t.doc
           /\ Done(t).content = t.content
           /\ Done(t).old = {}
<1>1. New \in Request /\ New.old = {}
      BY NewType DEF New
<1>2. t.doc \in Docs \cup {NoDoc} /\ t.content \in Contents \cup {NoContent}
      BY DEF Request
<1>3. "done" \in Ops
      BY DEF Ops
<1> HIDE DEF Ops
<1> QED  BY <1>1, <1>2, <1>3 DEF Done, Request

-----------------------------------------------------------------------------
(* Type correctness. *)

LEMMA NoteType ==
    ASSUME TypeOK, NEW q \in Requests, NEW kinds \in SUBSET Mishaps,
           Note(q, kinds)
    PROVE  mishaps' \in [Contents -> SUBSET Mishaps] /\ upset' \in BOOLEAN
<1> DEFINE broken == IF WasIndexed(q) THEN {"broken"} ELSE {}
<1>1. broken \in SUBSET Mishaps
      BY DEF Mishaps
<1>2. mishaps' = [mishaps EXCEPT ![req[q].content] = @ \cup kinds \cup broken]
      BY DEF Note
<1>3. upset' = (upset \/ Touched(q))
      BY DEF Note
<1> HIDE DEF broken
<1>4. upset' \in BOOLEAN
      BY <1>3, Zenon DEF TypeOK, Touched
<1> QED  BY <1>1, <1>2, <1>4 DEF TypeOK

LEMMA BeginType ==
    ASSUME TypeOK, NEW q \in Requests, NEW t \in Request, Begin(q, t)
    PROVE  TypeOK'
<1>1. req' \in [Requests -> Request]
      BY DEF Begin, Move, TypeOK
<1>2. mishaps' \in [Contents -> SUBSET Mishaps]
      BY DEF Begin, TypeOK, Mishaps
<1>3. upset' \in BOOLEAN
      BY Zenon DEF Begin, TypeOK
<1> QED  BY <1>1, <1>2, <1>3 DEF Begin, TypeOK

LEMMA OpsKnown ==
    Ops = {"new", "insert", "retry", "reopen", "process", "read", "reindex",
           "clear", "bump", "upsert", "flush", "scroll", "build", "commit",
           "mark", "done"}
BY DEF Ops

\* What Store writes is a row, if it is given one.
LEMMA StoreType ==
    ASSUME TypeOK, NEW q \in Requests, NEW row \in Document, Store(q, row)
    PROVE  /\ doc' \in [Docs -> Document]
           /\ \A d \in Docs \ {req[q].doc} : doc'[d] = doc[d]
BY DEF Store, TypeOK

\* An open request is about a document and a content.
Placed == \A q \in Requests :
    Open(q) => req[q].doc \in Docs /\ req[q].content \in Contents

LEMMA UploadType ==
    ASSUME TypeOK, NEW q \in Requests, BeginUpload(q) \/ BeginReindex(q)
    PROVE  TypeOK'
<1>1. CASE BeginUpload(q)
  <2>1. PICK c \in Contents, d \in Docs :
            \/ Begin(q, [New EXCEPT !.op = "insert", !.doc = d, !.content = c])
            \/ Begin(q, [New EXCEPT !.op = "retry", !.doc = d, !.content = c])
        BY <1>1 DEF BeginUpload
  <2>2. /\ [New EXCEPT !.op = "insert", !.doc = d, !.content = c] \in Request
        /\ [New EXCEPT !.op = "retry", !.doc = d, !.content = c] \in Request
        BY NewType DEF Request, Ops
  <2> QED  BY <2>1, <2>2, BeginType
<1>2. CASE BeginReindex(q)
  <2>1. PICK d \in Docs :
            /\ doc[d].status # "none"
            /\ Begin(q, [New EXCEPT !.op = "reopen", !.doc = d,
                                    !.content = doc[d].content,
                                    !.seen = doc[d].status, !.reindexes = TRUE])
        BY <1>2 DEF BeginReindex
  <2>2. [New EXCEPT !.op = "reopen", !.doc = d, !.content = doc[d].content,
                    !.seen = doc[d].status, !.reindexes = TRUE] \in Request
    <3>1. /\ doc[d].content \in Contents \cup {NoContent}
          /\ doc[d].status \in DocumentStatus \cup {"none"}
          BY DEF TypeOK, Document
    <3>2. "reopen" \in Ops
          BY DEF Ops
    <3> QED  BY NewType, <3>1, <3>2 DEF Request
  <2> QED  BY <2>1, <2>2, BeginType
<1> QED  BY <1>1, <1>2

\* What a request or its task does on its own: the request moves on about the
\* same document, and no other row changes.
OwnStep(q) == Work(q) \/ Abort(q) \/ Refuse(q)

Moved(q) ==
    /\ Open(q)
    /\ req' = [req EXCEPT ![q] = req'[q]]
    /\ req'[q] \in Request
    /\ req'[q].doc = req[q].doc
    /\ req'[q].content = req[q].content
    /\ req'[q].op \notin {"new", "insert"}

Written(q) ==
    /\ doc' \in [Docs -> Document]
    /\ \A d \in Docs \ {req[q].doc} : doc'[d] = doc[d]
    /\ mishaps' \in [Contents -> SUBSET Mishaps]
    /\ \A c \in Contents : mishaps[c] \subseteq mishaps'[c]
    /\ upset' \in BOOLEAN

LEMMA MovedBy ==
    ASSUME TypeOK, NEW q \in Requests, Open(q), NEW t \in Request, Move(q, t),
           t.doc = req[q].doc, t.content = req[q].content,
           t.op \notin {"new", "insert"}
    PROVE  Moved(q)
BY DEF Move, Moved, TypeOK

\* A request that ends, or waits to mark its document.
LEMMA EndedOn ==
    ASSUME TypeOK, NEW q \in Requests, Open(q),
           \/ Move(q, Done(req[q]))
           \/ Move(q, [Done(req[q]) EXCEPT !.op = "mark"])
    PROVE  Moved(q)
<1>1. req[q] \in Request
      BY DEF TypeOK
<1>2. CASE Move(q, Done(req[q]))
      BY <1>1, <1>2, DoneType, MovedBy
<1>3. CASE Move(q, [Done(req[q]) EXCEPT !.op = "mark"])
  <2> DEFINE t == [Done(req[q]) EXCEPT !.op = "mark"]
  <2>1. /\ t \in Request /\ t.op = "mark"
        /\ t.doc = req[q].doc /\ t.content = req[q].content
        BY <1>1, DoneType, OpsKnown DEF Request
  <2>2. Move(q, t)
        BY <1>3
  <2> HIDE DEF t
  <2> QED  BY <2>1, <2>2, MovedBy
<1> QED  BY <1>2, <1>3

LEMMA NoteWritten ==
    ASSUME TypeOK, NEW q \in Requests, NEW kinds \in SUBSET Mishaps,
           Note(q, kinds)
    PROVE  /\ mishaps' \in [Contents -> SUBSET Mishaps]
           /\ \A c \in Contents : mishaps[c] \subseteq mishaps'[c]
           /\ upset' \in BOOLEAN
<1>1. PICK broken : mishaps' = [mishaps EXCEPT ![req[q].content] = @ \cup kinds \cup broken]
      BY DEF Note
<1>2. \A c \in Contents : mishaps[c] \subseteq mishaps'[c]
      BY <1>1 DEF TypeOK
<1> QED  BY <1>2, NoteType

LEMMA OwnSteps ==
    ASSUME TypeOK, Placed, NEW q \in Requests, OwnStep(q)
    PROVE  Moved(q) /\ Written(q)
<1>1. /\ req[q] \in Request
      /\ req[q].content \in Contents \cup {NoContent}
      /\ Open(q) => Row(q) \in Document
      BY DEF TypeOK, Placed, Row, Request
<1>o. /\ {"process", "read", "reindex", "clear", "bump", "upsert", "flush", "scroll",
          "build", "commit", "mark"} \subseteq Ops
      /\ "none" \in DocumentStatus \cup {"none"}
      BY DEF Ops
<1>k. {} \in SUBSET Mishaps /\ {"lost"} \in SUBSET Mishaps
      BY DEF Mishaps
<1>2. ASSUME UNCHANGED doc, UNCHANGED mishaps, upset' \in BOOLEAN
      PROVE  Written(q)
      BY <1>2 DEF Written, TypeOK
<1>3. ASSUME NEW row \in Document, Store(q, row), UNCHANGED mishaps,
             upset' \in BOOLEAN
      PROVE  Written(q)
      BY <1>3, StoreType DEF Written, TypeOK
<1>4. upset \in BOOLEAN
      BY DEF TypeOK
<1>5. CASE CommitInsert(q)
  <2>1. Open(q) /\ req[q].content \in Contents
        BY <1>5 DEF CommitInsert, Open, Placed
  <2>2. PICK status \in {"processing", "failed"} :
            Store(q, [status |-> status, content |-> req[q].content,
                      active |-> TRUE, chunks |-> {}])
        BY <1>5 DEF CommitInsert
  <2>3. [status |-> status, content |-> req[q].content, active |-> TRUE,
         chunks |-> {}] \in Document
        BY <2>1 DEF Document, DocumentStatus
  <2> DEFINE t == [req[q] EXCEPT !.op = "process"]
  <2>4. Move(q, t)
        BY <1>5 DEF CommitInsert
  <2>5. /\ t \in Request /\ t.op = "process"
        /\ t.doc = req[q].doc /\ t.content = req[q].content
        BY <1>1, <1>o DEF Request
  <2> HIDE DEF t
  <2>6. Moved(q)
        BY <2>1, <2>4, <2>5, MovedBy
  <2> QED  BY <1>3, <1>4, <1>5, <2>2, <2>3, <2>6 DEF CommitInsert
<1>6. CASE CommitRetry(q)
  <2>1. Open(q)
        BY <1>6 DEF CommitRetry, Open
  <2>2. PICK status \in {"processing", "failed"} :
            Store(q, [Row(q) EXCEPT !.status = status])
        BY <1>6 DEF CommitRetry
  <2>3. [Row(q) EXCEPT !.status = status] \in Document
        BY <1>1, <2>1 DEF Document, DocumentStatus
  <2> DEFINE t == [req[q] EXCEPT !.op = "process"]
  <2>4. Move(q, t)
        BY <1>6 DEF CommitRetry
  <2>5. /\ t \in Request /\ t.op = "process"
        /\ t.doc = req[q].doc /\ t.content = req[q].content
        BY <1>1, <1>o DEF Request
  <2> HIDE DEF t
  <2>6. Moved(q)
        BY <2>1, <2>4, <2>5, MovedBy
  <2> QED  BY <1>3, <1>4, <1>6, <2>2, <2>3, <2>6 DEF CommitRetry
<1>7. CASE CommitReindex(q)
  <2>1. Open(q)
        BY <1>7 DEF CommitReindex, Open
  <2>2. [Row(q) EXCEPT !.status = "processing"] \in Document
        BY <1>1, <2>1 DEF Document, DocumentStatus
  <2> DEFINE t == [req[q] EXCEPT !.op = "reindex", !.seen = "none"]
  <2>3. Move(q, t)
        BY <1>7 DEF CommitReindex
  <2>4. /\ t \in Request /\ t.op = "reindex"
        /\ t.doc = req[q].doc /\ t.content = req[q].content
        BY <1>1, <1>o DEF Request
  <2> HIDE DEF t
  <2>5. Moved(q)
        BY <2>1, <2>3, <2>4, MovedBy
  <2> QED  BY <1>2, <1>3, <1>4, <1>7, <2>2, <2>5 DEF CommitReindex
<1>8. CASE LoadProcess(q)
  <2>1. Open(q)
        BY <1>8 DEF LoadProcess, Open
  <2>2. Written(q)
        BY <1>2, <1>4, <1>8 DEF LoadProcess
  <2>3. CASE Move(q, Done(req[q]))
        BY <2>1, <2>2, <2>3, EndedOn
  <2> DEFINE seen == Row(q).status
             t == [req[q] EXCEPT !.op = "read", !.seen = seen]
  <2>4. CASE Move(q, t)
    <3>1. seen \in DocumentStatus \cup {"none"}
          BY <1>1, <2>1 DEF Document
    <3> HIDE DEF seen
    <3>2. /\ t \in Request /\ t.op = "read"
          /\ t.doc = req[q].doc /\ t.content = req[q].content
          BY <1>1, <3>1, <1>o DEF Request
    <3> HIDE DEF t
    <3> QED  BY <2>1, <2>2, <2>4, <3>2, MovedBy
  <2> QED  BY <1>8, <2>3, <2>4 DEF LoadProcess
<1>9. CASE ReadFile(q)
  <2>1. Open(q)
        BY <1>9 DEF ReadFile, Open
  <2> DEFINE locks == req[q].seen # "processing"
             t == [req[q] EXCEPT !.op = "upsert", !.seen = "none", !.locked = locks]
  <2>2. locks \in BOOLEAN
        OBVIOUS
  <2>3. Move(q, t)
        BY <1>9 DEF ReadFile
  <2> HIDE DEF locks
  <2>4. /\ t \in Request /\ t.op = "upsert"
        /\ t.doc = req[q].doc /\ t.content = req[q].content
        BY <1>1, <2>2, <1>o DEF Request
  <2> HIDE DEF t
  <2>5. Moved(q)
        BY <2>1, <2>3, <2>4, MovedBy
  <2> QED  BY <1>2, <1>4, <1>9, <2>5 DEF ReadFile
<1>10. CASE LoadReindex(q)
  <2>1. Open(q)
        BY <1>10 DEF LoadReindex, Open
  <2> DEFINE old == Row(q).chunks
             t == [req[q] EXCEPT !.op = "clear", !.old = old]
  <2>2. old \in SUBSET Requests
        BY <1>1, <2>1 DEF Document
  <2>3. Move(q, t)
        BY <1>10 DEF LoadReindex
  <2> HIDE DEF old
  <2>4. /\ t \in Request /\ t.op = "clear"
        /\ t.doc = req[q].doc /\ t.content = req[q].content
        BY <1>1, <2>2, <1>o DEF Request
  <2> HIDE DEF t
  <2>5. Moved(q)
        BY <2>1, <2>3, <2>4, MovedBy
  <2> QED  BY <1>2, <1>4, <1>10, <2>5 DEF LoadReindex
<1>11. CASE Clear(q)
  <2>1. Open(q)
        BY <1>11 DEF Clear, Open
  <2> DEFINE t == [req[q] EXCEPT !.op = "bump"]
  <2>2. Move(q, t)
        BY <1>11 DEF Clear
  <2>3. /\ t \in Request /\ t.op = "bump"
        /\ t.doc = req[q].doc /\ t.content = req[q].content
        BY <1>1, <1>o DEF Request
  <2> HIDE DEF t
  <2>4. Moved(q)
        BY <2>1, <2>2, <2>3, MovedBy
  <2> QED  BY <1>2, <1>4, <1>11, <2>4 DEF Clear
<1>12. CASE Bump(q)
  <2>1. Open(q)
        BY <1>12 DEF Bump, Open
  <2> DEFINE t == [req[q] EXCEPT !.op = "upsert", !.locked = TRUE]
  <2>2. Move(q, t)
        BY <1>12 DEF Bump
  <2>3. /\ t \in Request /\ t.op = "upsert"
        /\ t.doc = req[q].doc /\ t.content = req[q].content
        BY <1>1, <1>o DEF Request
  <2> HIDE DEF t
  <2>4. Moved(q)
        BY <2>1, <2>2, <2>3, MovedBy
  <2> QED  BY <1>2, <1>4, <1>12, <2>4 DEF Bump
<1>13. CASE NoText(q)
  <2>1. Open(q)
        BY <1>13 DEF NoText, Open
  <2>2. [Row(q) EXCEPT !.status = "failed", !.chunks = @ \ req[q].old] \in Document
        BY <1>1, <2>1 DEF Document, DocumentStatus
  <2>3. upset' \in BOOLEAN
        BY <1>4, <1>13, Zenon DEF NoText
  <2>4. Moved(q)
        BY <1>13, <2>1, EndedOn DEF NoText
  <2> QED  BY <1>3, <1>13, <2>2, <2>3, <2>4 DEF NoText
<1>14. CASE Upsert(q)
  <2>1. Open(q)
        BY <1>14 DEF Upsert, Open
  <2> DEFINE t == [req[q] EXCEPT !.op = "flush"]
  <2>2. Move(q, t)
        BY <1>14 DEF Upsert
  <2>3. /\ t \in Request /\ t.op = "flush"
        /\ t.doc = req[q].doc /\ t.content = req[q].content
        BY <1>1, <1>o DEF Request
  <2> HIDE DEF t
  <2>4. Moved(q)
        BY <2>1, <2>2, <2>3, MovedBy
  <2> QED  BY <1>2, <1>4, <1>14, <2>4 DEF Upsert
<1>15. CASE Flush(q)
  <2>1. Open(q)
        BY <1>15 DEF Flush, Open
  <2> DEFINE t == [req[q] EXCEPT !.op = "scroll", !.locked = TRUE]
  <2>2. Move(q, t)
        BY <1>15 DEF Flush
  <2>3. /\ t \in Request /\ t.op = "scroll"
        /\ t.doc = req[q].doc /\ t.content = req[q].content
        BY <1>1, <1>o DEF Request
  <2> HIDE DEF t
  <2>4. Moved(q)
        BY <2>1, <2>2, <2>3, MovedBy
  <2> QED  BY <1>2, <1>4, <1>15, <2>4 DEF Flush
<1>16. CASE Scroll(q)
  <2>1. Open(q)
        BY <1>16 DEF Scroll, Open
  <2>2. qdrant \in SUBSET Requests
        BY DEF TypeOK
  <2> DEFINE t == [req[q] EXCEPT !.op = "build", !.hits = qdrant]
  <2>3. Move(q, t)
        BY <1>16 DEF Scroll
  <2>4. /\ t \in Request /\ t.op = "build"
        /\ t.doc = req[q].doc /\ t.content = req[q].content
        BY <1>1, <2>2, <1>o DEF Request
  <2> HIDE DEF t
  <2>5. Moved(q)
        BY <2>1, <2>3, <2>4, MovedBy
  <2> QED  BY <1>2, <1>4, <1>16, <2>5 DEF Scroll
<1>17. CASE Build(q)
  <2>1. Open(q)
        BY <1>17 DEF Build, Open
  <2> DEFINE t == [req[q] EXCEPT !.op = "commit", !.hits = {}]
  <2>2. Move(q, t)
        BY <1>17 DEF Build
  <2>3. /\ t \in Request /\ t.op = "commit"
        /\ t.doc = req[q].doc /\ t.content = req[q].content
        BY <1>1, <1>o DEF Request
  <2> HIDE DEF t
  <2>4. Moved(q)
        BY <2>1, <2>2, <2>3, MovedBy
  <2> QED  BY <1>2, <1>4, <1>17, <2>4 DEF Build
<1>18. CASE Commit(q)
  <2>1. Open(q)
        BY <1>18 DEF Commit, Open
  <2>2. [Row(q) EXCEPT !.status = "indexed",
                       !.chunks = (@ \ req[q].old) \cup {q}] \in Document
        BY <1>1, <2>1 DEF Document, DocumentStatus
  <2>3. Moved(q)
        BY <1>18, <2>1, EndedOn DEF Commit
  <2> QED  BY <1>3, <1>4, <1>18, <2>2, <2>3 DEF Commit
<1>19. CASE Fail(q)
  <2>1. Open(q)
        BY <1>19 DEF Fail, Open
  <2>2. PICK chunks \in SUBSET Requests :
            Store(q, [Row(q) EXCEPT !.status = "failed", !.chunks = chunks])
    <3> DEFINE chunks == IF req[q].op \in {"scroll", "build"} THEN Row(q).chunks \cup {q}
                         ELSE Row(q).chunks
    <3>1. chunks \in SUBSET Requests
          BY <1>1, <2>1 DEF Document
    <3>2. Store(q, [Row(q) EXCEPT !.status = "failed", !.chunks = chunks])
          BY <1>19 DEF Fail
    <3> HIDE DEF chunks
    <3> QED  BY <3>1, <3>2
  <2>3. [Row(q) EXCEPT !.status = "failed", !.chunks = chunks] \in Document
        BY <1>1, <2>1 DEF Document, DocumentStatus
  <2>4. Moved(q)
        BY <1>19, <2>1, EndedOn DEF Fail
  <2>5. Note(q, {})
        BY <1>19 DEF Fail
  <2> QED  BY <2>2, <2>3, <2>4, <2>5, <1>k, StoreType, NoteWritten DEF Written
<1>20. CASE Mark(q)
  <2>1. Open(q)
        BY <1>20 DEF Mark, Open
  <2>2. Moved(q)
        BY <1>20, <2>1, EndedOn DEF Mark
  <2>3. [Row(q) EXCEPT !.status = "failed"] \in Document
        BY <1>1, <2>1 DEF Document, DocumentStatus
  <2>4. CASE UNCHANGED doc /\ Note(q, {"lost"})
        BY <2>2, <2>4, <1>k, NoteWritten DEF Written, TypeOK
  <2> QED  BY <1>3, <1>4, <1>20, <2>2, <2>3, <2>4 DEF Mark
<1>21. CASE Abort(q)
  <2>1. Open(q)
        BY <1>21 DEF Abort, Open
  <2>2. Moved(q)
        BY <1>21, <2>1, EndedOn DEF Abort
  <2>3. UNCHANGED doc /\ Note(q, {})
        BY <1>21 DEF Abort
  <2> QED  BY <2>2, <2>3, <1>k, NoteWritten DEF Written, TypeOK
<1>22. CASE Refuse(q)
  <2>1. Open(q)
        BY <1>22 DEF Refuse, Open
  <2>2. Moved(q)
        BY <1>22, <2>1, EndedOn DEF Refuse
  <2> QED  BY <1>2, <1>4, <1>22, <2>2 DEF Refuse
<1> QED
  BY <1>5, <1>6, <1>7, <1>8, <1>9, <1>10, <1>11, <1>12, <1>13, <1>14, <1>15,
     <1>16, <1>17, <1>18, <1>19, <1>20, <1>21, <1>22 DEF OwnStep, Work

-----------------------------------------------------------------------------
(* The inductive invariant. *)

\* A row that is there has the content some request gave it.
Rows == \A d \in Docs :
    /\ doc[d].status = "none" => doc[d] = NoDocument
    /\ doc[d].status # "none" =>
           doc[d].content \in Contents /\ \E p \in Requests : req[p].doc = d

\* Past its insert a request is about a row of its content.
Held == \A q \in Requests :
    Open(q) /\ req[q].op # "insert" =>
        Row(q).status # "none" /\ Row(q).content = req[q].content

\* A row to be inserted is nobody else's.
Inserting == \A q \in Requests :
    req[q].op = "insert" =>
        /\ Row(q).status = "none"
        /\ \A p \in Requests \ {q} : req[p].doc # req[q].doc

\* Batches with chunk rows, and those a re-index replaces, are of tasks that
\* are over and were about the same document.
Owned ==
    /\ \A d \in Docs : \A p \in doc[d].chunks :
           req[p].op = "done" /\ req[p].doc = d
    /\ \A q \in Requests : \A p \in req[q].old :
           req[p].op = "done" /\ req[p].doc = req[q].doc

\* From its upsert to its commit a task's points are there.
Embedded == \A q \in Requests :
    req[q].op \in {"flush", "scroll", "build", "commit"} => q \in qdrant

NoOverlap(c) == "overlap" \notin mishaps[c]

\* Without overlap the requests for a content come one by one...
AloneOpen == \A p, q \in Requests :
    Open(p) /\ Open(q) /\ req[p].content = req[q].content
        /\ NoOverlap(req[q].content) => p = q

\* ...so that an insert adds the only active row...
AloneRow ==
    /\ \A d, e \in Docs :
           doc[d].active /\ doc[e].active /\ doc[d].content = doc[e].content
               /\ NoOverlap(doc[d].content) => d = e
    /\ \A q \in Requests :
           req[q].op = "insert" /\ NoOverlap(req[q].content) =>
               \A d \in Docs : ~ (doc[d].active /\ doc[d].content = req[q].content)

\* ...and nothing undoes the PROCESSING under which the old points go.
Covered == \A q \in Requests :
    req[q].op \in {"reopen", "reindex", "clear"} /\ NoOverlap(req[q].content) =>
        IF req[q].op = "reopen" THEN req[q].seen = Row(q).status
                                ELSE Row(q).status = "processing"

IngestionInv == /\ TypeOK /\ Placed /\ Rows /\ Held /\ Inserting
                /\ Owned /\ Embedded /\ AloneOpen /\ AloneRow /\ Covered
                /\ IndexedIsFound

-----------------------------------------------------------------------------
(* What a step does with the row, the points and the request. *)

\* A row that is stored is of the content; it is made active by the insert
\* only, has a new batch only if the task is over, and is INDEXED only with
\* the points of this batch.
RowStep(q) ==
    \/ UNCHANGED doc /\ (req[q].op = "insert" => req'[q].op = "done")
    \/ \E row \in Document :
          /\ doc' = [doc EXCEPT ![req[q].doc] = row]
          /\ row.status # "none" /\ row.content = req[q].content
          /\ row.active => req[q].op = "insert" \/ Row(q).active
          /\ \A p \in row.chunks :
                 p \in Row(q).chunks \/ (p = q /\ req'[q].op = "done")
          /\ row.status = "indexed" => q \in row.chunks /\ q \in qdrant

\* A task adds its own points and deletes those its re-index replaces.
PointsStep(q) ==
    \/ UNCHANGED qdrant
    \/ qdrant' = qdrant \cup {q}
    \/ req[q].op = "clear" /\ qdrant' = qdrant \ req[q].old

OpStep(q) ==
    /\ req'[q].op \in {"flush", "scroll", "build", "commit"} =>
           q \in qdrant' /\ req[q].op # "clear"
    /\ req'[q].op # "reopen"
    /\ req'[q].op = "reindex" => req[q].op = "reopen"
    /\ req'[q].op = "clear" => req[q].op = "reindex"
    /\ \A p \in req'[q].old : p \in req[q].old \/ p \in Row(q).chunks

LEMMA StoredRow ==
    ASSUME NEW q \in Requests, NEW row \in Document, Store(q, row),
           row.status # "none", row.content = req[q].content,
           row.active => req[q].op = "insert" \/ Row(q).active,
           \A p \in row.chunks :
               p \in Row(q).chunks \/ (p = q /\ req'[q].op = "done"),
           row.status = "indexed" => q \in row.chunks /\ q \in qdrant
    PROVE  RowStep(q)
BY DEF Store, RowStep

LEMMA RowSteps ==
    ASSUME TypeOK, Placed, Held, Embedded, NEW q \in Requests, OwnStep(q)
    PROVE  RowStep(q) /\ PointsStep(q) /\ OpStep(q)
<1>1. /\ req[q] \in Request /\ req \in [Requests -> Request]
      /\ req[q].doc \in Docs => Row(q) \in Document
      BY DEF TypeOK, Row
<1>2. ASSUME Open(q), req[q].op # "insert"
      PROVE  /\ Row(q) \in Document
             /\ Row(q).status # "none" /\ Row(q).content = req[q].content
      BY <1>1, <1>2 DEF Placed, Held
<1>3. ASSUME NEW t, Move(q, t)
      PROVE  req'[q] = t
      BY <1>1, <1>3 DEF Move
<1>4. /\ Done(req[q]).op = "done" /\ Done(req[q]).old = {}
      /\ [Done(req[q]) EXCEPT !.op = "mark"].op = "mark"
      /\ [Done(req[q]) EXCEPT !.op = "mark"].old = {}
  <2>1. Done(req[q]) \in Request /\ Done(req[q]).op = "done" /\ Done(req[q]).old = {}
        BY <1>1, DoneType
  <2> QED  BY <2>1 DEF Request
<1>5. CASE CommitInsert(q)
  <2>1. req'[q] = [req[q] EXCEPT !.op = "process"]
        BY <1>3, <1>5 DEF CommitInsert
  <2>2. req'[q].op = "process" /\ req'[q].old = req[q].old
        BY <1>1, <2>1 DEF Request
  <2>3. PICK status \in {"processing", "failed"} :
            Store(q, [status |-> status, content |-> req[q].content,
                      active |-> TRUE, chunks |-> {}])
        BY <1>5 DEF CommitInsert
  <2>4. req[q].op = "insert" /\ req[q].content \in Contents
        BY <1>5 DEF CommitInsert, Placed, Open
  <2>5. [status |-> status, content |-> req[q].content, active |-> TRUE,
         chunks |-> {}] \in Document
        BY <2>4 DEF Document, DocumentStatus
  <2>6. RowStep(q)
        BY <2>3, <2>4, <2>5, StoredRow
  <2> QED  BY <1>5, <2>2, <2>6 DEF CommitInsert, PointsStep, OpStep
<1>6. CASE CommitRetry(q)
  <2>1. req'[q] = [req[q] EXCEPT !.op = "process"]
        BY <1>3, <1>6 DEF CommitRetry
  <2>2. req'[q].op = "process" /\ req'[q].old = req[q].old
        BY <1>1, <2>1 DEF Request
  <2>3. PICK status \in {"processing", "failed"} :
            Store(q, [Row(q) EXCEPT !.status = status])
        BY <1>6 DEF CommitRetry
  <2>4. Open(q) /\ req[q].op # "insert"
        BY <1>6 DEF CommitRetry, Open
  <2> DEFINE row == [Row(q) EXCEPT !.status = status]
  <2>5. /\ row \in Document /\ row.status = status
        /\ row.content = Row(q).content /\ row.active = Row(q).active
        /\ row.chunks = Row(q).chunks
        BY <1>2, <2>4 DEF Document, DocumentStatus
  <2>6. Store(q, row)
        BY <2>3
  <2> HIDE DEF row
  <2>7. RowStep(q)
        BY <1>2, <2>4, <2>5, <2>6, StoredRow
  <2> QED  BY <1>6, <2>2, <2>7 DEF CommitRetry, PointsStep, OpStep
<1>7. CASE CommitReindex(q)
  <2>1. req'[q] = [req[q] EXCEPT !.op = "reindex", !.seen = "none"]
        BY <1>3, <1>7 DEF CommitReindex
  <2>2. req'[q].op = "reindex" /\ req'[q].old = req[q].old
        BY <1>1, <2>1 DEF Request
  <2>3. Open(q) /\ req[q].op = "reopen"
        BY <1>7 DEF CommitReindex, Open
  <2> DEFINE row == [Row(q) EXCEPT !.status = "processing"]
  <2>4. /\ row \in Document /\ row.status = "processing"
        /\ row.content = Row(q).content /\ row.active = Row(q).active
        /\ row.chunks = Row(q).chunks
        BY <1>2, <2>3 DEF Document, DocumentStatus
  <2>5. UNCHANGED doc \/ Store(q, row)
        BY <1>7 DEF CommitReindex
  <2> HIDE DEF row
  <2>6. RowStep(q)
    <3>1. CASE UNCHANGED doc
          BY <2>3, <3>1 DEF RowStep
    <3>2. CASE Store(q, row)
          BY <1>2, <2>3, <2>4, <3>2, StoredRow
    <3> QED  BY <2>5, <3>1, <3>2
  <2> QED  BY <1>7, <2>2, <2>3, <2>6 DEF CommitReindex, PointsStep, OpStep
<1>8. CASE LoadProcess(q) \/ ReadFile(q) \/ Bump(q)
  <2>1. /\ \/ req'[q] = Done(req[q])
           \/ \E seen : req'[q] = [req[q] EXCEPT !.op = "read", !.seen = seen]
           \/ \E locked : req'[q] = [req[q] EXCEPT !.op = "upsert", !.seen = "none",
                                                   !.locked = locked]
           \/ req'[q] = [req[q] EXCEPT !.op = "upsert", !.locked = TRUE]
        /\ req[q].op \in {"process", "read", "bump"}
        BY <1>3, <1>8 DEF LoadProcess, ReadFile, Bump
  <2>2. /\ req'[q].op \in {"done", "read", "upsert"}
        /\ req'[q].old \subseteq req[q].old
        BY <1>1, <1>4, <2>1 DEF Request
  <2>3. UNCHANGED doc /\ UNCHANGED qdrant
        BY <1>8 DEF LoadProcess, ReadFile, Bump
  <2> QED  BY <2>1, <2>2, <2>3 DEF RowStep, PointsStep, OpStep
<1>9. CASE LoadReindex(q)
  <2>1. /\ req'[q] = [req[q] EXCEPT !.op = "clear", !.old = Row(q).chunks]
        /\ req[q].op = "reindex"
        BY <1>3, <1>9 DEF LoadReindex
  <2>2. req'[q].op = "clear" /\ req'[q].old = Row(q).chunks
        BY <1>1, <2>1 DEF Request
  <2> QED  BY <1>9, <2>1, <2>2 DEF LoadReindex, RowStep, PointsStep, OpStep
<1>10. CASE Clear(q)
  <2>1. req'[q] = [req[q] EXCEPT !.op = "bump"] /\ req[q].op = "clear"
        BY <1>3, <1>10 DEF Clear
  <2>2. req'[q].op = "bump" /\ req'[q].old = req[q].old
        BY <1>1, <2>1 DEF Request
  <2> QED  BY <1>10, <2>1, <2>2 DEF Clear, RowStep, PointsStep, OpStep
<1>11. CASE NoText(q)
  <2>1. req'[q] = Done(req[q])
        BY <1>3, <1>11 DEF NoText
  <2>2. Open(q) /\ req[q].op # "insert"
        BY <1>11 DEF NoText, Open
  <2> DEFINE row == [Row(q) EXCEPT !.status = "failed", !.chunks = @ \ req[q].old]
  <2>3. /\ row \in Document /\ row.status = "failed"
        /\ row.content = Row(q).content /\ row.active = Row(q).active
        /\ row.chunks \subseteq Row(q).chunks
        BY <1>2, <2>2 DEF Document, DocumentStatus
  <2>4. Store(q, row)
        BY <1>11 DEF NoText
  <2> HIDE DEF row
  <2>5. RowStep(q)
        BY <1>2, <2>2, <2>3, <2>4, StoredRow
  <2> QED  BY <1>4, <1>11, <2>1, <2>5 DEF NoText, PointsStep, OpStep
<1>12. CASE Upsert(q)
  <2>1. req'[q] = [req[q] EXCEPT !.op = "flush"] /\ req[q].op = "upsert"
        BY <1>3, <1>12 DEF Upsert
  <2>2. req'[q].op = "flush" /\ req'[q].old = req[q].old
        BY <1>1, <2>1 DEF Request
  <2> QED  BY <1>12, <2>1, <2>2 DEF Upsert, RowStep, PointsStep, OpStep
<1>13. CASE Flush(q) \/ Scroll(q) \/ Build(q)
  <2>1. /\ \/ req'[q] = [req[q] EXCEPT !.op = "scroll", !.locked = TRUE]
           \/ \E hits : req'[q] = [req[q] EXCEPT !.op = "build", !.hits = hits]
           \/ req'[q] = [req[q] EXCEPT !.op = "commit", !.hits = {}]
        /\ req[q].op \in {"flush", "scroll", "build"}
        BY <1>3, <1>13 DEF Flush, Scroll, Build
  <2>2. /\ req'[q].op \in {"scroll", "build", "commit"}
        /\ req'[q].old = req[q].old
        BY <1>1, <2>1 DEF Request
  <2>3. UNCHANGED doc /\ UNCHANGED qdrant
        BY <1>13 DEF Flush, Scroll, Build
  <2> QED  BY <2>1, <2>2, <2>3 DEF Embedded, RowStep, PointsStep, OpStep
<1>14. CASE Commit(q)
  <2>1. req'[q] = Done(req[q])
        BY <1>3, <1>14 DEF Commit
  <2>2. Open(q) /\ req[q].op = "commit"
        BY <1>14 DEF Commit, Open
  <2> DEFINE row == [Row(q) EXCEPT !.status = "indexed",
                                   !.chunks = (@ \ req[q].old) \cup {q}]
  <2>3. /\ row \in Document /\ row.status = "indexed"
        /\ row.content = Row(q).content /\ row.active = Row(q).active
        /\ row.chunks = (Row(q).chunks \ req[q].old) \cup {q}
        BY <1>2, <2>2 DEF Document, DocumentStatus
  <2>4. Store(q, row)
        BY <1>14 DEF Commit
  <2> HIDE DEF row
  <2>5. q \in qdrant /\ req'[q].op = "done"
        BY <1>4, <2>1, <2>2 DEF Embedded
  <2>6. RowStep(q)
        BY <1>2, <2>2, <2>3, <2>4, <2>5, StoredRow
  <2> QED  BY <1>4, <1>14, <2>1, <2>6 DEF Commit, PointsStep, OpStep
<1>15. CASE Fail(q)
  <2>1. req'[q] = Done(req[q])
        BY <1>3, <1>15 DEF Fail
  <2>2. Open(q) /\ req[q].op # "insert"
        BY <1>15 DEF Fail, Open
  <2> DEFINE chunks == IF req[q].op \in {"scroll", "build"} THEN Row(q).chunks \cup {q}
                       ELSE Row(q).chunks
             row == [Row(q) EXCEPT !.status = "failed", !.chunks = chunks]
  <2>3. chunks \in SUBSET Requests /\ chunks \subseteq Row(q).chunks \cup {q}
        BY <1>2, <2>2 DEF Document
  <2>4. Store(q, row)
        BY <1>15 DEF Fail
  <2> HIDE DEF chunks
  <2>5. /\ row \in Document /\ row.status = "failed"
        /\ row.content = Row(q).content /\ row.active = Row(q).active
        /\ row.chunks = chunks
        BY <1>2, <2>2, <2>3 DEF Document, DocumentStatus
  <2> HIDE DEF row
  <2>6. RowStep(q)
        BY <1>2, <1>4, <2>1, <2>2, <2>3, <2>4, <2>5, StoredRow
  <2> QED  BY <1>4, <1>15, <2>1, <2>6 DEF Fail, PointsStep, OpStep
<1>16. CASE Mark(q)
  <2>1. req'[q] = Done(req[q])
        BY <1>3, <1>16 DEF Mark
  <2>2. Open(q) /\ req[q].op # "insert"
        BY <1>16 DEF Mark, Open
  <2> DEFINE row == [Row(q) EXCEPT !.status = "failed"]
  <2>3. /\ row \in Document /\ row.status = "failed"
        /\ row.content = Row(q).content /\ row.active = Row(q).active
        /\ row.chunks = Row(q).chunks
        BY <1>2, <2>2 DEF Document, DocumentStatus
  <2>4. UNCHANGED doc \/ Store(q, row)
        BY <1>16 DEF Mark
  <2> HIDE DEF row
  <2>5. RowStep(q)
    <3>1. CASE UNCHANGED doc
          BY <2>2, <3>1 DEF RowStep
    <3>2. CASE Store(q, row)
          BY <1>2, <2>2, <2>3, <3>2, StoredRow
    <3> QED  BY <2>4, <3>1, <3>2
  <2> QED  BY <1>4, <1>16, <2>1, <2>5 DEF Mark, PointsStep, OpStep
<1>17. CASE Abort(q) \/ Refuse(q)
  <2>1. \/ req'[q] = [Done(req[q]) EXCEPT !.op = "mark"] /\ req[q].op # "insert"
        \/ req'[q] = Done(req[q])
        BY <1>3, <1>17 DEF Abort, Refuse
  <2>2. UNCHANGED doc /\ UNCHANGED qdrant
        BY <1>17 DEF Abort, Refuse
  <2> QED  BY <1>4, <2>1, <2>2 DEF RowStep, PointsStep, OpStep
<1> QED
  BY <1>5, <1>6, <1>7, <1>8, <1>9, <1>10, <1>11, <1>12, <1>13, <1>14, <1>15,
     <1>16, <1>17 DEF OwnStep, Work

-----------------------------------------------------------------------------
(* The steps of a request and of its task keep the invariant. *)

LEMMA OwnKeeps ==
    ASSUME IngestionInv, NEW q \in Requests, OwnStep(q)
    PROVE  IngestionInv'
<1> USE DEF IngestionInv
<1>1. Moved(q) /\ Written(q) /\ RowStep(q) /\ PointsStep(q) /\ OpStep(q)
      BY OwnSteps, RowSteps
<1> DEFINE D == req[q].doc
           c0 == req[q].content
<1>2. /\ D \in Docs /\ c0 \in Contents
      /\ req'[q].op \notin {"new", "insert"}
      /\ req[q].op \notin {"new", "done"}
      /\ \A p \in Requests : req'[p].doc = req[p].doc /\ req'[p].content = req[p].content
      /\ \A p \in Requests \ {q} : req'[p] = req[p]
      BY <1>1 DEF Moved, Open, Placed, TypeOK
<1>3. /\ \A d \in Docs \ {D} : doc'[d] = doc[d]
      /\ \A c \in Contents : "overlap" \in mishaps[c] => "overlap" \in mishaps'[c]
      BY <1>1 DEF Written
<1>4. \/ UNCHANGED doc /\ (req[q].op = "insert" => req'[q].op = "done")
      \/ /\ doc'[D].status # "none" /\ doc'[D].content = c0
         /\ doc'[D].active => req[q].op = "insert" \/ doc[D].active
         /\ \A p \in doc'[D].chunks :
                p \in doc[D].chunks \/ (p = q /\ req'[q].op = "done")
         /\ doc'[D].status = "indexed" => q \in doc'[D].chunks /\ q \in qdrant
      BY <1>1, <1>2 DEF RowStep, Row, TypeOK
<1>5. doc[D].status # "none" => doc[D].content = c0 /\ req[q].op # "insert"
      BY <1>2 DEF Held, Open, Row, Inserting
<1>6. req[q].op # "insert" => doc[D].status # "none"
      BY <1>2 DEF Held, Open, Row
<1>7. \A p \in Requests \ {q} : Open(p) /\ req[p].doc = D =>
          req[p].op # "insert" /\ req[p].content = c0
      BY <1>2, <1>5 DEF Held, Inserting, Row
<1> HIDE DEF D, c0
<1>8. TypeOK'
  <2>1. qdrant' \subseteq Requests
        BY <1>1 DEF PointsStep, TypeOK
  <2>2. bm25' \subseteq Requests
    <3>1. req[q].hits \subseteq Requests
          BY DEF TypeOK, Request
    <3>2. bm25' = bm25 \/ bm25' = req[q].hits
          BY DEF OwnStep, Work, CommitInsert, CommitRetry, CommitReindex, LoadProcess,
                 ReadFile, LoadReindex, Clear, Bump, NoText, Upsert, Flush, Scroll,
                 Build, Commit, Fail, Mark, Abort, Refuse
    <3> QED  BY <3>1, <3>2 DEF TypeOK
  <2>3. req' \in [Requests -> Request]
        BY <1>1 DEF Moved, TypeOK
  <2> QED  BY <1>1, <2>1, <2>2, <2>3 DEF Written, TypeOK
<1>9. Placed'
      BY <1>2 DEF Placed, Open
<1>10. Rows'
  <2> SUFFICES ASSUME NEW d \in Docs
               PROVE  /\ doc'[d].status = "none" => doc'[d] = NoDocument
                      /\ doc'[d].status # "none" =>
                             /\ doc'[d].content \in Contents
                             /\ \E p \in Requests : req'[p].doc = d
      BY DEF Rows
  <2>1. CASE doc'[d] = doc[d]
        BY <1>2, <2>1 DEF Rows
  <2>2. CASE d = D /\ doc'[D].status # "none" /\ doc'[D].content = c0
        BY <1>2, <2>2 DEF D
  <2> QED  BY <1>3, <1>4, <2>1, <2>2
<1>11. Held'
  <2> SUFFICES ASSUME NEW p \in Requests, req'[p].op \notin {"new", "done", "insert"}
               PROVE  /\ doc'[req'[p].doc].status # "none"
                      /\ doc'[req'[p].doc].content = req'[p].content
      BY DEF Held, Open, Row
  <2>1. req'[p].doc = req[p].doc /\ req'[p].content = req[p].content /\ req[p].doc \in Docs
        BY <1>2 DEF Placed, Open
  <2>2. CASE p = q
    <3>1. doc'[D].status # "none" /\ doc'[D].content = c0
          BY <1>4, <1>5, <1>6, <2>2
    <3> QED  BY <2>1, <2>2, <3>1 DEF D, c0
  <2>3. CASE p # q /\ req[p].doc # D
        BY <1>2, <1>3, <2>1, <2>3 DEF Held, Open, Row
  <2>4. CASE p # q /\ req[p].doc = D
    <3>1. doc[D].status # "none" /\ req[p].content = c0
          BY <1>2, <1>7, <2>4 DEF Held, Open, Row
    <3>2. doc'[D].status # "none" /\ doc'[D].content = c0
          BY <1>4, <1>5, <3>1
    <3> QED  BY <2>1, <2>4, <3>1, <3>2
  <2> QED  BY <2>2, <2>3, <2>4
<1>12. Inserting'
  <2> SUFFICES ASSUME NEW p \in Requests, req'[p].op = "insert"
               PROVE  /\ doc'[req'[p].doc].status = "none"
                      /\ \A r \in Requests \ {p} : req'[r].doc # req'[p].doc
      BY DEF Inserting, Row
  <2>1. p # q /\ req'[p] = req[p] /\ req[p].doc \in Docs
        BY <1>2 DEF Placed, Open
  <2>2. req[p].doc # D
        BY <2>1 DEF Inserting, D
  <2> QED  BY <1>2, <1>3, <2>1, <2>2 DEF Inserting, Row
<1>13. Owned'
  <2>1. \A p \in Requests : req[p].op = "done" => req'[p].op = "done"
        BY <1>2
  <2>2. ASSUME NEW d \in Docs, NEW p \in doc'[d].chunks
        PROVE  req'[p].op = "done" /\ req'[p].doc = d
    <3>1. p \in doc[d].chunks \/ (p = q /\ d = D /\ req'[q].op = "done")
          BY <1>3, <1>4
    <3>2. p \in Requests
          BY <3>1 DEF TypeOK, Document
    <3> QED  BY <1>2, <2>1, <3>1, <3>2 DEF Owned, D
  <2>3. ASSUME NEW r \in Requests, NEW p \in req'[r].old
        PROVE  req'[p].op = "done" /\ req'[p].doc = req'[r].doc
    <3>1. p \in req[r].old \/ (r = q /\ p \in doc[D].chunks)
          BY <1>1, <1>2 DEF OpStep, Row, D
    <3>2. p \in Requests
          BY <1>2, <3>1 DEF TypeOK, Document, Request
    <3> QED  BY <1>2, <2>1, <3>1, <3>2 DEF Owned, D
  <2> QED  BY <2>2, <2>3 DEF Owned
<1>14. Embedded'
  <2> SUFFICES ASSUME NEW p \in Requests,
                      req'[p].op \in {"flush", "scroll", "build", "commit"}
               PROVE  p \in qdrant'
      BY DEF Embedded
  <2>1. CASE p = q
        BY <1>1, <2>1 DEF OpStep
  <2>2. CASE p # q
    <3>1. p \in qdrant /\ req[p].op # "done"
          BY <1>2, <2>2 DEF Embedded
    <3> QED  BY <1>1, <3>1 DEF PointsStep, Owned
  <2> QED  BY <2>1, <2>2
<1>15. AloneOpen'
  <2> SUFFICES ASSUME NEW p \in Requests, NEW r \in Requests,
                      req'[p].op \notin {"new", "done"}, req'[r].op \notin {"new", "done"},
                      req'[p].content = req'[r].content,
                      "overlap" \notin mishaps'[req'[r].content]
               PROVE  p = r
      BY DEF AloneOpen, NoOverlap, Open
  <2>1. req[p].op \notin {"new", "done"} /\ req[r].op \notin {"new", "done"}
        BY <1>2
  <2> QED  BY <1>2, <1>3, <2>1 DEF AloneOpen, NoOverlap, Open, Placed
<1>16. AloneRow'
  <2>1. \A d \in Docs : doc'[d].active =>
            \/ doc[d].active /\ doc'[d].content = doc[d].content
            \/ d = D /\ req[q].op = "insert" /\ doc'[d].content = c0
    <3> SUFFICES ASSUME NEW d \in Docs, doc'[d].active
                 PROVE  \/ doc[d].active /\ doc'[d].content = doc[d].content
                        \/ d = D /\ req[q].op = "insert" /\ doc'[d].content = c0
        OBVIOUS
    <3> QED  BY <1>3, <1>4, <1>5, <1>6
  <2>2. \A d \in Docs : doc'[d].active => doc'[d].content \in Contents
    <3>1. \A d \in Docs : doc[d].active => doc[d].content \in Contents
          BY DEF Rows, NoDocument
    <3> QED  BY <1>2, <2>1, <3>1
  <2>3. ASSUME req[q].op = "insert", "overlap" \notin mishaps[c0]
        PROVE  \A d \in Docs : ~ (doc[d].active /\ doc[d].content = c0)
        BY <2>3 DEF AloneRow, NoOverlap, c0
  <2>4. ASSUME NEW d \in Docs, NEW e \in Docs, doc'[d].active, doc'[e].active,
               doc'[d].content = doc'[e].content,
               "overlap" \notin mishaps'[doc'[d].content]
        PROVE  d = e
    <3>1. "overlap" \notin mishaps[doc'[d].content]
          BY <1>3, <2>2, <2>4
    <3>2. CASE doc[d].active /\ doc'[d].content = doc[d].content
               /\ doc[e].active /\ doc'[e].content = doc[e].content
          BY <2>4, <3>1, <3>2 DEF AloneRow, NoOverlap
    <3> QED  BY <2>1, <2>3, <2>4, <3>1, <3>2
  <2>5. ASSUME NEW p \in Requests, req'[p].op = "insert",
               "overlap" \notin mishaps'[req'[p].content], NEW d \in Docs,
               doc'[d].active, doc'[d].content = req'[p].content
        PROVE  FALSE
    <3>1. p # q /\ req'[p] = req[p] /\ req[p].content \in Contents
          BY <1>2, <2>5 DEF Placed, Open
    <3>2. "overlap" \notin mishaps[req[p].content]
          BY <1>3, <2>5, <3>1
    <3>3. c0 # req[p].content
          BY <1>2, <2>5, <3>1, <3>2 DEF AloneOpen, NoOverlap, Open, c0
    <3> QED  BY <2>1, <2>5, <3>1, <3>2, <3>3 DEF AloneRow, NoOverlap
  <2> QED  BY <2>4, <2>5 DEF AloneRow, NoOverlap
<1>17. Covered'
  <2> SUFFICES ASSUME NEW p \in Requests,
                      req'[p].op \in {"reopen", "reindex", "clear"},
                      "overlap" \notin mishaps'[req'[p].content]
               PROVE  IF req'[p].op = "reopen" THEN req'[p].seen = doc'[req'[p].doc].status
                      ELSE doc'[req'[p].doc].status = "processing"
      BY DEF Covered, NoOverlap, Row
  <2>1. /\ req[p].content \in Contents /\ "overlap" \notin mishaps[req[p].content]
        /\ Open(p) /\ req[p].doc \in Docs
        BY <1>2, <1>3 DEF Open, Placed
  <2>2. CASE p # q
    <3>1. req[p].content # c0
          BY <1>2, <2>1, <2>2 DEF AloneOpen, NoOverlap, Open, c0
    <3>2. req[p].doc # D
          BY <1>7, <2>1, <2>2, <3>1
    <3> QED  BY <1>2, <1>3, <2>1, <2>2, <3>2 DEF Covered, NoOverlap, Row
  <2>3. CASE p = q
    <3>1. \/ CommitReindex(q)
          \/ LoadReindex(q) /\ req[q].op = "reindex" /\ req'[q].op = "clear"
      <4>1. \/ req'[q].op = "reindex" /\ req[q].op = "reopen"
            \/ req'[q].op = "clear" /\ req[q].op = "reindex"
            BY <1>1, <2>3 DEF OpStep
      <4>2. req'[q].op \notin {"done", "mark"}
            BY <4>1
      <4>3. Done(req[q]).op = "done" /\ [Done(req[q]) EXCEPT !.op = "mark"].op = "mark"
            BY DEF Done, New
      <4>4. ~ Move(q, Done(req[q])) /\ ~ Move(q, [Done(req[q]) EXCEPT !.op = "mark"])
            BY <4>2, <4>3 DEF Move, TypeOK
      <4>5. ~ Abort(q) /\ ~ Refuse(q)
            BY <4>4 DEF Abort, Refuse
      <4> QED
        BY <4>1, <4>5 DEF OwnStep, Work, CommitInsert, CommitRetry, LoadProcess, ReadFile,
                 LoadReindex, Clear, Bump, NoText, Upsert, Flush, Scroll, Build,
                 Commit, Fail, Mark
    <3>2. CASE CommitReindex(q)
      <4>1. req[q].op = "reopen" /\ req'[q].op = "reindex"
            BY <1>1, <2>3, <3>2 DEF CommitReindex, OpStep
      <4>2. req[q].seen = doc[D].status
            BY <2>1, <2>3, <4>1 DEF Covered, NoOverlap, Row, D
      <4>3. doc[D] \in Document
            BY <1>2 DEF TypeOK
      <4>4. doc'[D].status = "processing"
        <5>1. CASE req[q].seen = "processing"
              BY <3>2, <4>2, <5>1 DEF CommitReindex
        <5>2. CASE req[q].seen # "processing"
          <6>1. doc' = [doc EXCEPT ![D] = [doc[D] EXCEPT !.status = "processing"]]
                BY <3>2, <5>2 DEF CommitReindex, Store, Row, D
          <6>2. doc'[D] = [doc[D] EXCEPT !.status = "processing"]
                BY <1>2, <6>1 DEF TypeOK
          <6> QED  BY <4>3, <6>2 DEF Document
        <5> QED  BY <5>1, <5>2
      <4> QED  BY <1>2, <2>3, <4>1, <4>4 DEF D
    <3>3. CASE LoadReindex(q) /\ req[q].op = "reindex" /\ req'[q].op = "clear"
      <4>1. doc[D].status = "processing"
            BY <2>1, <2>3, <3>3 DEF Covered, NoOverlap, Row, D
      <4> QED  BY <1>2, <2>3, <3>3, <4>1 DEF LoadReindex, D
    <3> QED  BY <3>1, <3>2, <3>3
  <2> QED  BY <2>2, <2>3
<1>18. IndexedIsFound'
  <2> SUFFICES ASSUME NEW d \in Docs, doc'[d].status = "indexed",
                      "overlap" \notin mishaps'[doc'[d].content]
               PROVE  \E p \in doc'[d].chunks : p \in qdrant' /\ req'[p].doc = d
      BY DEF IndexedIsFound, Points
  <2>1. CASE doc'[d] = doc[d]
    <3>1. doc[d].content \in Contents
          BY <2>1 DEF Rows
    <3>2. PICK p \in doc[d].chunks : p \in qdrant /\ req[p].doc = d
          BY <1>3, <2>1, <3>1 DEF IndexedIsFound, Points
    <3>3. p \in Requests
          BY DEF TypeOK, Document
    <3>4. p \in qdrant'
      <4>1. CASE req[q].op = "clear"
        <5>1. d # D
          <6>1. ASSUME d = D
                PROVE  FALSE
            <7>1. doc[d].content = c0 /\ "overlap" \notin mishaps[c0]
                  BY <1>3, <1>5, <2>1, <3>1, <6>1
            <7> QED  BY <2>1, <4>1, <6>1, <7>1 DEF Covered, NoOverlap, Row, D, c0
          <6> QED  BY <6>1
        <5>2. p \notin req[q].old
              BY <3>2, <5>1 DEF Owned, D
        <5> QED  BY <1>1, <3>2, <5>2 DEF PointsStep
      <4>2. CASE req[q].op # "clear"
            BY <1>1, <3>2, <4>2 DEF PointsStep
      <4> QED  BY <4>1, <4>2
    <3> QED  BY <1>2, <2>1, <3>2, <3>3, <3>4
  <2>2. CASE d = D /\ q \in doc'[D].chunks /\ q \in qdrant
    <3>1. q \notin req[q].old
          BY <1>2 DEF Owned
    <3>2. q \in qdrant'
          BY <1>1, <2>2, <3>1 DEF PointsStep
    <3> QED  BY <1>2, <2>2, <3>2 DEF D
  <2> QED  BY <1>3, <1>4, <2>1, <2>2
<1> QED
  BY <1>8, <1>9, <1>10, <1>11, <1>12, <1>13, <1>14, <1>15, <1>16, <1>17, <1>18

-----------------------------------------------------------------------------
(* A request that begins, a deletion and a crash keep it too. *)

Begun(q) ==
    /\ req[q] = New
    /\ req' = [req EXCEPT ![q] = req'[q]]
    /\ UNCHANGED <<doc, qdrant>>
    /\ req'[q].doc \in Docs /\ req'[q].content \in Contents /\ req'[q].old = {}
    /\ \A c \in Contents : "overlap" \in mishaps[c] => "overlap" \in mishaps'[c]
    /\ \A p \in Requests : Open(p) /\ req[p].content = req'[q].content =>
           "overlap" \in mishaps'[req'[q].content]
    /\ \/ /\ req'[q].op = "insert"
          /\ \A p \in Requests : req[p].doc # req'[q].doc
          /\ \A d \in Docs : ~ (doc[d].active /\ doc[d].content = req'[q].content)
       \/ /\ req'[q].op \in {"retry", "reopen"}
          /\ doc[req'[q].doc].status # "none"
          /\ doc[req'[q].doc].content = req'[q].content
          /\ req'[q].op = "reopen" => req'[q].seen = doc[req'[q].doc].status

LEMMA BeginShape ==
    ASSUME TypeOK, NEW q \in Requests, NEW t \in Request, Begin(q, t),
           t.content \in Contents
    PROVE  /\ req[q] = New
           /\ req' = [req EXCEPT ![q] = req'[q]] /\ req'[q] = t
           /\ UNCHANGED <<doc, qdrant>>
           /\ \A c \in Contents : "overlap" \in mishaps[c] => "overlap" \in mishaps'[c]
           /\ \A p \in Requests : Open(p) /\ req[p].content = t.content =>
                  "overlap" \in mishaps'[t.content]
<1>1. req[q] = New /\ UNCHANGED <<doc, qdrant>>
      BY DEF Begin, IsNext
<1>2. req' = [req EXCEPT ![q] = req'[q]] /\ req'[q] = t
      BY DEF Begin, Move, TypeOK
<1>3. CASE \E p \in Requests : Open(p) /\ req[p].content = t.content
  <2>1. mishaps' = [mishaps EXCEPT ![t.content] = @ \cup {"overlap"}]
        BY <1>3 DEF Begin
  <2> QED  BY <1>1, <1>2, <2>1 DEF TypeOK
<1>4. CASE ~ \E p \in Requests : Open(p) /\ req[p].content = t.content
  <2>1. mishaps' = mishaps
        BY <1>4 DEF Begin
  <2> QED  BY <1>1, <1>2, <1>4, <2>1
<1> QED  BY <1>3, <1>4

LEMMA BeginSteps ==
    ASSUME TypeOK, Rows, NEW q \in Requests, BeginUpload(q) \/ BeginReindex(q)
    PROVE  Begun(q)
<1>1. ASSUME NEW c \in Contents, NEW d \in Docs,
             ActiveRows(c) = {}, FreshRow(d),
             Begin(q, [New EXCEPT !.op = "insert", !.doc = d, !.content = c])
      PROVE  Begun(q)
  <2> DEFINE t == [New EXCEPT !.op = "insert", !.doc = d, !.content = c]
  <2>1. /\ t \in Request /\ t.op = "insert" /\ t.doc = d /\ t.content = c /\ t.old = {}
        BY NewType DEF Request, Ops, New
  <2>2. Begin(q, t)
        BY <1>1
  <2> HIDE DEF t
  <2>3. \A e \in Docs : ~ (doc[e].active /\ doc[e].content = c)
        BY <1>1 DEF ActiveRows
  <2>4. \A p \in Requests : req[p].doc # d
        BY <1>1 DEF FreshRow
  <2> QED  BY <2>1, <2>2, <2>3, <2>4, BeginShape DEF Begun
<1>2. ASSUME NEW c \in Contents, NEW d \in Docs,
             ActiveRows(c) = {d},
             Begin(q, [New EXCEPT !.op = "retry", !.doc = d, !.content = c])
      PROVE  Begun(q)
  <2> DEFINE t == [New EXCEPT !.op = "retry", !.doc = d, !.content = c]
  <2>1. /\ t \in Request /\ t.op = "retry" /\ t.doc = d /\ t.content = c /\ t.old = {}
        BY NewType DEF Request, Ops, New
  <2>2. Begin(q, t)
        BY <1>2
  <2> HIDE DEF t
  <2>3. d \in ActiveRows(c)
        BY <1>2
  <2>4. doc[d].active /\ doc[d].content = c
        BY <2>3 DEF ActiveRows
  <2>5. doc[d].status # "none"
        BY <2>4 DEF Rows, NoDocument
  <2> QED  BY <2>1, <2>2, <2>4, <2>5, BeginShape DEF Begun
<1>3. ASSUME NEW d \in Docs, doc[d].status # "none",
             Begin(q, [New EXCEPT !.op = "reopen", !.doc = d,
                                  !.content = doc[d].content,
                                  !.seen = doc[d].status, !.reindexes = TRUE])
      PROVE  Begun(q)
  <2> DEFINE t == [New EXCEPT !.op = "reopen", !.doc = d, !.content = doc[d].content,
                              !.seen = doc[d].status, !.reindexes = TRUE]
  <2>1. /\ doc[d].content \in Contents
        /\ doc[d].status \in DocumentStatus \cup {"none"}
        BY <1>3 DEF TypeOK, Document, Rows
  <2>2. "reopen" \in Ops
        BY DEF Ops
  <2>3. /\ t \in Request /\ t.op = "reopen" /\ t.doc = d /\ t.content = doc[d].content
        /\ t.seen = doc[d].status /\ t.old = {}
        BY NewType, <2>1, <2>2 DEF Request, New
  <2>4. Begin(q, t)
        BY <1>3
  <2> HIDE DEF t
  <2> QED  BY <1>3, <2>1, <2>3, <2>4, BeginShape DEF Begun
<1>4. CASE BeginUpload(q)
  <2>1. PICK c \in Contents, d \in Docs :
            \/ /\ ActiveRows(c) = {} /\ FreshRow(d)
               /\ Begin(q, [New EXCEPT !.op = "insert", !.doc = d, !.content = c])
            \/ /\ ActiveRows(c) = {d}
               /\ Begin(q, [New EXCEPT !.op = "retry", !.doc = d, !.content = c])
        BY <1>4 DEF BeginUpload
  <2> QED  BY <1>1, <1>2, <2>1
<1>5. CASE BeginReindex(q)
      BY <1>3, <1>5 DEF BeginReindex
<1> QED  BY <1>4, <1>5

LEMMA BeginKeeps ==
    ASSUME IngestionInv, NEW q \in Requests, BeginUpload(q) \/ BeginReindex(q)
    PROVE  IngestionInv'
<1> USE DEF IngestionInv
<1>1. Begun(q)
      BY BeginSteps
<1>2. /\ req[q].op = "new" /\ req[q].doc = NoDoc /\ req[q].old = {}
      /\ \A p \in Requests \ {q} : req'[p] = req[p]
      /\ doc' = doc /\ qdrant' = qdrant
      BY <1>1 DEF Begun, New, TypeOK
<1>3. req'[q].op \in {"insert", "retry", "reopen"} /\ req'[q].old = {}
      BY <1>1 DEF Begun
<1>4. \A c \in Contents : "overlap" \in mishaps[c] => "overlap" \in mishaps'[c]
      BY <1>1 DEF Begun
<1>5. \A p \in Requests : Open(p) => p # q /\ req[p].content \in Contents
      BY <1>2 DEF Open, Placed
<1>6. TypeOK'
      BY UploadType
<1>7. Placed'
      BY <1>1, <1>2 DEF Placed, Open, Begun
<1>8. Rows'
  <2> SUFFICES ASSUME NEW d \in Docs
               PROVE  /\ doc[d].status = "none" => doc[d] = NoDocument
                      /\ doc[d].status # "none" =>
                             /\ doc[d].content \in Contents
                             /\ \E p \in Requests : req'[p].doc = d
      BY <1>2 DEF Rows
  <2>1. \A p \in Requests : req[p].doc = d => p # q
        BY <1>2, IngestionAssumption
  <2> QED  BY <1>2, <2>1 DEF Rows
<1>9. Held'
      BY <1>1, <1>2 DEF Held, Open, Row, Begun
<1>10. Inserting'
  <2> SUFFICES ASSUME NEW p \in Requests, req'[p].op = "insert"
               PROVE  /\ doc[req'[p].doc].status = "none"
                      /\ \A r \in Requests \ {p} : req'[r].doc # req'[p].doc
      BY <1>2 DEF Inserting, Row
  <2>1. CASE p = q
    <3>1. \A r \in Requests : req[r].doc # req'[q].doc
          BY <1>1, <2>1 DEF Begun
    <3>2. doc[req'[q].doc].status = "none"
          BY <1>1, <3>1 DEF Begun, Rows
    <3> QED  BY <1>2, <2>1, <3>1, <3>2
  <2>2. CASE p # q
    <3>1. req'[p] = req[p] /\ doc[req[p].doc].status = "none"
          BY <1>2, <2>2 DEF Inserting, Row
    <3>2. req'[q].doc # req[p].doc
          BY <1>1, <2>2, <3>1 DEF Begun
    <3> QED  BY <1>2, <2>2, <3>1, <3>2 DEF Inserting
  <2> QED  BY <2>1, <2>2
<1>11. Owned'
  <2>1. \A p \in Requests : req[p].op = "done" => req'[p] = req[p]
        BY <1>2
  <2>2. ASSUME NEW d \in Docs, NEW p \in doc[d].chunks
        PROVE  req'[p].op = "done" /\ req'[p].doc = d
    <3>1. p \in Requests
          BY DEF TypeOK, Document
    <3> QED  BY <2>1, <3>1 DEF Owned
  <2>3. ASSUME NEW r \in Requests, NEW p \in req'[r].old
        PROVE  req'[p].op = "done" /\ req'[p].doc = req'[r].doc
    <3>1. r # q /\ p \in req[r].old /\ req'[r] = req[r]
          BY <1>2, <1>3
    <3>2. p \in Requests
          BY <3>1 DEF TypeOK, Request
    <3> QED  BY <2>1, <3>1, <3>2 DEF Owned
  <2> QED  BY <1>2, <2>2, <2>3 DEF Owned
<1>12. Embedded'
      BY <1>2, <1>3 DEF Embedded
<1>13. AloneOpen'
  <2>1. ASSUME NEW p \in Requests \ {q}, req'[p].op \notin {"new", "done"},
               req'[p].content = req'[q].content
        PROVE  "overlap" \in mishaps'[req'[q].content]
        BY <1>1, <1>2, <2>1 DEF Begun, Open
  <2>2. ASSUME NEW p \in Requests \ {q}, NEW r \in Requests \ {q},
               req'[p].op \notin {"new", "done"}, req'[r].op \notin {"new", "done"},
               req'[p].content = req'[r].content,
               "overlap" \notin mishaps'[req'[r].content]
        PROVE  p = r
        BY <1>2, <1>4, <1>5, <2>2 DEF AloneOpen, NoOverlap, Open
  <2> QED  BY <2>1, <2>2 DEF AloneOpen, NoOverlap, Open
<1>14. AloneRow'
  <2>1. \A d, e \in Docs :
           doc[d].active /\ doc[e].active /\ doc[d].content = doc[e].content
               /\ "overlap" \notin mishaps'[doc[d].content] => d = e
    <3>1. \A d \in Docs : doc[d].active => doc[d].content \in Contents
          BY DEF Rows, NoDocument
    <3> QED  BY <1>4, <3>1 DEF AloneRow, NoOverlap
  <2>2. ASSUME NEW p \in Requests, req'[p].op = "insert",
               "overlap" \notin mishaps'[req'[p].content]
        PROVE  \A d \in Docs : ~ (doc[d].active /\ doc[d].content = req'[p].content)
    <3>1. CASE p = q
          BY <1>1, <2>2, <3>1 DEF Begun
    <3>2. CASE p # q
      <4>1. req'[p] = req[p] /\ Open(p)
            BY <1>2, <2>2, <3>2 DEF Open
      <4>2. "overlap" \notin mishaps[req[p].content]
            BY <1>4, <1>5, <2>2, <4>1
      <4> QED  BY <2>2, <4>1, <4>2 DEF AloneRow, NoOverlap
    <3> QED  BY <3>1, <3>2
  <2> QED  BY <1>2, <2>1, <2>2 DEF AloneRow, NoOverlap
<1>15. Covered'
  <2> SUFFICES ASSUME NEW p \in Requests,
                      req'[p].op \in {"reopen", "reindex", "clear"},
                      "overlap" \notin mishaps'[req'[p].content]
               PROVE  IF req'[p].op = "reopen" THEN req'[p].seen = doc[req'[p].doc].status
                      ELSE doc[req'[p].doc].status = "processing"
      BY <1>2 DEF Covered, NoOverlap, Row
  <2>1. CASE p = q
        BY <1>1, <2>1 DEF Begun
  <2>2. CASE p # q
    <3>1. req'[p] = req[p] /\ Open(p)
          BY <1>2, <2>2 DEF Open
    <3>2. "overlap" \notin mishaps[req[p].content]
          BY <1>4, <1>5, <3>1
    <3> QED  BY <3>1, <3>2 DEF Covered, NoOverlap, Row
  <2> QED  BY <2>1, <2>2
<1>16. IndexedIsFound'
  <2> SUFFICES ASSUME NEW d \in Docs, doc[d].status = "indexed",
                      "overlap" \notin mishaps'[doc[d].content]
               PROVE  \E p \in doc[d].chunks : p \in qdrant /\ req'[p].doc = d
      BY <1>2 DEF IndexedIsFound, Points
  <2>1. "overlap" \notin mishaps[doc[d].content]
        BY <1>4 DEF Rows
  <2>2. PICK p \in doc[d].chunks : p \in qdrant /\ req[p].doc = d
        BY <2>1 DEF IndexedIsFound, Points
  <2>3. p \in Requests /\ req[p].op = "done"
        BY DEF TypeOK, Document, Owned
  <2> QED  BY <1>2, <2>2, <2>3
<1> QED
  BY <1>6, <1>7, <1>8, <1>9, <1>10, <1>11, <1>12, <1>13, <1>14, <1>15, <1>16

LEMMA DeleteKeeps ==
    ASSUME IngestionInv, NEW q \in Requests, Delete(q)
    PROVE  IngestionInv'
<1> USE DEF IngestionInv
<1>1. PICK e \in Docs : /\ doc[e].status # "none"
                        /\ doc' = [doc EXCEPT ![e].active = FALSE]
      BY DEF Delete
<1>2. /\ \A d \in Docs : /\ doc'[d].status = doc[d].status
                         /\ doc'[d].content = doc[d].content
                         /\ doc'[d].chunks = doc[d].chunks
                         /\ doc'[d].active => doc[d].active
                         /\ doc[d].status = "none" => doc'[d] = doc[d]
      /\ doc' \in [Docs -> Document]
      BY <1>1 DEF TypeOK, Document
<1>3. /\ req[q] = New /\ UNCHANGED <<qdrant, bm25, mishaps, upset>>
      /\ req' = [req EXCEPT ![q] = Done(New)]
      BY DEF Delete, IsNext, Move
<1>4. /\ Done(New) \in Request /\ Done(New).op = "done"
      /\ Done(New).doc = NoDoc /\ Done(New).old = {}
      BY NewType, DoneType DEF New
<1>5. /\ req'[q] = Done(New)
      /\ \A p \in Requests \ {q} : req'[p] = req[p]
      /\ req[q].op = "new" /\ req[q].doc = NoDoc /\ req[q].old = {}
      BY <1>3 DEF TypeOK, New
<1>6. /\ \A p \in Requests : req'[p].doc = req[p].doc
      /\ \A p \in Requests : req'[p].op \notin {"new", "done"} =>
             req'[p] = req[p] /\ Open(p) /\ req[p].doc \in Docs
      BY <1>4, <1>5 DEF Open, Placed
<1>7. TypeOK'
      BY <1>2, <1>3, <1>4 DEF TypeOK
<1>8. Placed'
      BY <1>6 DEF Placed, Open
<1>9. Rows'
      BY <1>2, <1>6 DEF Rows
<1>10. Held'
       BY <1>2, <1>6 DEF Held, Open, Row
<1>11. Inserting'
  <2> SUFFICES ASSUME NEW p \in Requests, req'[p].op = "insert"
               PROVE  /\ doc'[req'[p].doc].status = "none"
                      /\ \A r \in Requests \ {p} : req'[r].doc # req'[p].doc
      BY DEF Inserting, Row
  <2>1. req'[p] = req[p] /\ req[p].doc \in Docs
        BY <1>6
  <2> QED  BY <1>2, <1>6, <2>1 DEF Inserting, Row
<1>12. Owned'
  <2>1. \A p \in Requests : req[p].op = "done" => req'[p] = req[p]
        BY <1>5
  <2>2. ASSUME NEW d \in Docs, NEW p \in doc'[d].chunks
        PROVE  req'[p].op = "done" /\ req'[p].doc = d
    <3>1. p \in doc[d].chunks
          BY <1>2
    <3>2. p \in Requests
          BY <3>1 DEF TypeOK, Document
    <3> QED  BY <2>1, <3>1, <3>2 DEF Owned
  <2>3. ASSUME NEW r \in Requests, NEW p \in req'[r].old
        PROVE  req'[p].op = "done" /\ req'[p].doc = req'[r].doc
    <3>1. p \in req[r].old
          BY <1>4, <1>5
    <3>2. p \in Requests
          BY <3>1 DEF TypeOK, Request
    <3> QED  BY <1>6, <2>1, <3>1, <3>2 DEF Owned
  <2> QED  BY <2>2, <2>3 DEF Owned
<1>13. Embedded'
       BY <1>3, <1>6 DEF Embedded
<1>14. AloneOpen'
       BY <1>3, <1>6 DEF AloneOpen, NoOverlap, Open
<1>15. AloneRow'
  <2>1. ASSUME NEW p \in Requests, req'[p].op = "insert"
        PROVE  req'[p] = req[p]
        BY <1>6, <2>1
  <2> QED  BY <1>2, <1>3, <2>1 DEF AloneRow, NoOverlap
<1>16. Covered'
  <2> SUFFICES ASSUME NEW p \in Requests,
                      req'[p].op \in {"reopen", "reindex", "clear"},
                      "overlap" \notin mishaps'[req'[p].content]
               PROVE  IF req'[p].op = "reopen" THEN req'[p].seen = doc'[req'[p].doc].status
                      ELSE doc'[req'[p].doc].status = "processing"
      BY DEF Covered, NoOverlap, Row
  <2>1. req'[p] = req[p] /\ req[p].doc \in Docs
        BY <1>6
  <2> QED  BY <1>2, <1>3, <2>1 DEF Covered, NoOverlap, Row
<1>17. IndexedIsFound'
  <2>1. \A d \in Docs : doc[d].chunks \subseteq Requests
        BY DEF TypeOK, Document
  <2> QED  BY <1>2, <1>3, <1>6, <2>1 DEF IndexedIsFound, Points
<1> QED
  BY <1>7, <1>8, <1>9, <1>10, <1>11, <1>12, <1>13, <1>14, <1>15, <1>16, <1>17

LEMMA CrashKeeps ==
    ASSUME IngestionInv, Crash
    PROVE  IngestionInv'
<1> USE DEF IngestionInv
<1>1. /\ UNCHANGED <<doc, qdrant, bm25>>
      /\ req' = [q \in Requests |-> IF Open(q) THEN Done(req[q]) ELSE req[q]]
      BY DEF Crash
<1>2. \A q \in Requests : req[q] \in Request
      BY DEF TypeOK
<1>3. \A q \in Requests :
          /\ req'[q] \in Request
          /\ req'[q].doc = req[q].doc
          /\ req'[q].op \in {"new", "done"}
          /\ req[q].op = "done" => req'[q].op = "done"
          /\ req'[q].old \subseteq req[q].old
      BY <1>1, <1>2, DoneType DEF Open
<1>4. /\ mishaps' \in [Contents -> SUBSET Mishaps]
      /\ \A c \in Contents : "overlap" \in mishaps[c] => "overlap" \in mishaps'[c]
  <2>1. PICK lost, broken :
            /\ \A c \in Contents : lost[c] \in SUBSET Mishaps /\ broken[c] \in SUBSET Mishaps
            /\ mishaps' = [c \in Contents |-> mishaps[c] \cup lost[c] \cup broken[c]]
    <3> DEFINE dead == {q \in Requests : Open(q)}
               of(c) == {q \in dead : req[q].content = c}
               lost == [c \in Contents |-> IF of(c) # {} THEN {"lost"} ELSE {}]
               broken == [c \in Contents |->
                             IF \E q \in of(c) : WasIndexed(q) THEN {"broken"} ELSE {}]
    <3>1. mishaps' = [c \in Contents |->
                         mishaps[c] \cup (IF of(c) # {} THEN {"lost"} ELSE {})
                           \cup (IF \E q \in of(c) : WasIndexed(q) THEN {"broken"} ELSE {})]
          BY DEF Crash
    <3> HIDE DEF of
    <3>2. \A c \in Contents : lost[c] \in SUBSET Mishaps /\ broken[c] \in SUBSET Mishaps
          BY DEF Mishaps
    <3>3. mishaps' = [c \in Contents |-> mishaps[c] \cup lost[c] \cup broken[c]]
          BY <3>1
    <3> HIDE DEF lost, broken
    <3> QED  BY <3>2, <3>3
  <2> QED  BY <2>1 DEF TypeOK
<1>5. upset' \in BOOLEAN
      BY Zenon DEF Crash, TypeOK
<1>6. TypeOK'
      BY <1>1, <1>3, <1>4, <1>5 DEF TypeOK
<1>7. Placed' /\ Held' /\ Inserting' /\ Embedded' /\ AloneOpen' /\ Covered'
      BY <1>3 DEF Placed, Held, Inserting, Embedded, AloneOpen, Covered, Open
<1>8. Rows'
      BY <1>1, <1>3 DEF Rows
<1>9. Owned'
  <2>1. \A d \in Docs : doc[d].chunks \subseteq Requests
        BY DEF TypeOK, Document
  <2>2. \A q \in Requests : req[q].old \subseteq Requests
        BY <1>2 DEF Request
  <2> QED  BY <1>1, <1>3, <2>1, <2>2 DEF Owned
<1>10. AloneRow'
  <2>1. \A d \in Docs : doc[d].active => doc[d].content \in Contents
        BY DEF Rows, NoDocument
  <2> QED  BY <1>1, <1>3, <1>4, <2>1 DEF AloneRow, NoOverlap
<1>11. IndexedIsFound'
  <2> SUFFICES ASSUME NEW d \in Docs, doc[d].status = "indexed",
                      "overlap" \notin mishaps'[doc[d].content]
               PROVE  \E p \in doc[d].chunks : p \in qdrant /\ req'[p].doc = d
      BY <1>1 DEF IndexedIsFound, Points
  <2>1. "overlap" \notin mishaps[doc[d].content]
        BY <1>4 DEF Rows
  <2>2. PICK p \in doc[d].chunks : p \in qdrant /\ req[p].doc = d
        BY <2>1 DEF IndexedIsFound, Points
  <2>3. p \in Requests
        BY DEF TypeOK, Document
  <2> QED  BY <1>3, <2>2, <2>3
<1> QED
  BY <1>6, <1>7, <1>8, <1>9, <1>10, <1>11

-----------------------------------------------------------------------------
LEMMA InitHolds == Init => IngestionInv
<1> SUFFICES ASSUME Init PROVE IngestionInv
    OBVIOUS
<1>1. New \in Request /\ New.op = "new" /\ New.old = {}
      BY NewType DEF New
<1>2. /\ NoDocument \in Document /\ NoDocument.status = "none"
      /\ ~ NoDocument.active /\ NoDocument.chunks = {}
      BY DEF NoDocument, Document
<1>3. TypeOK
      BY <1>1, <1>2 DEF Init, TypeOK
<1>4. /\ Placed /\ Rows /\ Held /\ Inserting /\ Owned /\ Embedded
      /\ AloneOpen /\ AloneRow /\ Covered /\ IndexedIsFound
      BY <1>1, <1>2 DEF Init, Placed, Rows, Held, Inserting, Owned, Embedded,
                        AloneOpen, AloneRow, Covered, IndexedIsFound, Open
<1> QED  BY <1>3, <1>4 DEF IngestionInv

LEMMA NextKeeps == IngestionInv /\ [Next]_vars => IngestionInv'
<1> SUFFICES ASSUME IngestionInv, [Next]_vars PROVE IngestionInv'
    OBVIOUS
<1>1. CASE Next
  <2>1. ASSUME NEW q \in Requests, BeginUpload(q) \/ BeginReindex(q)
        PROVE  IngestionInv'
        BY <2>1, BeginKeeps
  <2>2. ASSUME NEW q \in Requests, Delete(q)
        PROVE  IngestionInv'
        BY <2>2, DeleteKeeps
  <2>3. ASSUME NEW q \in Requests, Work(q) \/ Abort(q) \/ Refuse(q)
        PROVE  IngestionInv'
        BY <2>3, OwnKeeps DEF OwnStep
  <2>4. ASSUME Crash
        PROVE  IngestionInv'
        BY <2>4, CrashKeeps
  <2> QED  BY <1>1, <2>1, <2>2, <2>3, <2>4 DEF Next
<1>2. CASE UNCHANGED vars
  <2> USE <1>2 DEF vars, IngestionInv
  <2>1. TypeOK' /\ Placed' /\ Rows' /\ Held' /\ Inserting'
        BY DEF TypeOK, Placed, Rows, Held, Inserting, Open, Row
  <2>2. Owned' /\ Embedded' /\ AloneOpen' /\ AloneRow' /\ Covered'
        BY DEF Owned, Embedded, AloneOpen, AloneRow, Covered, NoOverlap, Open, Row
  <2>3. IndexedIsFound'
        BY DEF IndexedIsFound, Points
  <2> QED  BY <2>1, <2>2, <2>3
<1> QED  BY <1>1, <1>2

LEMMA Invariance == Spec => []IngestionInv
BY InitHolds, NextKeeps, PTL DEF Spec

\* Whatever the number of requests, documents and contents, every variable
\* keeps its type: in particular no row is stored with a status outside the
\* three that a request or a task writes.
THEOREM TypeCorrect == Spec => []TypeOK
<1>1. IngestionInv => TypeOK
      BY DEF IngestionInv
<1> QED  BY <1>1, Invariance, PTL

\* A content has at most one active document row as long as its uploads and
\* re-indexings do not overlap, through every failure, crash and deletion.
THEOREM UploadsAreUnique == Spec => []OneActiveRow
<1>1. IngestionInv => OneActiveRow
  <2> SUFFICES ASSUME IngestionInv, NEW c \in Contents, "overlap" \notin mishaps[c]
               PROVE  Cardinality(ActiveRows(c)) <= 1
      BY DEF OneActiveRow
  <2>1. \A d, e \in ActiveRows(c) : d = e
        BY DEF IngestionInv, AloneRow, NoOverlap, ActiveRows
  <2>2. CASE ActiveRows(c) = {}
    <3>1. Cardinality({}) = 0
          BY FS_EmptySet
    <3> QED  BY <2>2, <3>1
  <2>3. CASE ActiveRows(c) # {}
    <3>1. PICK d : ActiveRows(c) = {d}
          BY <2>1, <2>3
    <3>2. Cardinality({d}) = 1
          BY FS_Singleton
    <3> QED  BY <3>1, <3>2
  <2> QED  BY <2>2, <2>3
<1> QED  BY <1>1, Invariance, PTL

\* A document shown as INDEXED has points of its own in the collection that
\* are those of one of its chunk rows, whatever failed or crashed before.
THEOREM IndexedDocumentsAreFound == Spec => []IndexedIsFound
<1>1. IngestionInv => IndexedIsFound
      BY DEF IngestionInv
<1> QED  BY <1>1, Invariance, PTL

-----------------------------------------------------------------------------
(* The chunk rows of a document mirror its points. *)

Inside == {"flush", "scroll", "build", "commit"}

Refilling == {"bump", "upsert"} \cup Inside

\* Only a task past its upsert has points, and only a re-index has batches to
\* replace.
Placing == \A q \in Requests :
    /\ q \in qdrant => req[q].op \in Inside \cup {"mark", "done"}
    /\ req[q].op \in {"insert", "retry", "process", "read"} => req[q].old = {}

\* What the stage of a request says of its document, when it is alone on it:
\* a first indexing, or its repetition, starts from nothing; a re-index has
\* loaded all there is, then deleted the points, then written its own.
Stage(q) ==
    /\ req[q].op \in {"retry", "process", "read", "mark"} => Row(q).chunks = {}
    /\ req[q].op \in {"clear"} \cup Refilling => Row(q).chunks = req[q].old
    /\ req[q].op \in {"bump", "upsert"} => Points(req[q].doc) = {}
    /\ req[q].op \in Inside => Points(req[q].doc) = {q}

Mirror(d) ==
    /\ \A x, y \in doc[d].chunks : x = y
    /\ doc[d].status = "failed" => doc[d].chunks = {}
    /\ (\A q \in Requests : req[q].doc = d => req[q].op \notin Refilling) =>
           Points(d) = doc[d].chunks
    /\ \A q \in Requests : req[q].doc = d => Stage(q)

Calm(c) == mishaps[c] \cap {"overlap", "broken"} = {}

Mirrored == \A d \in Docs :
    doc[d].status # "none" /\ Calm(doc[d].content) => Mirror(d)

MirrorInv == IngestionInv /\ Placing /\ Mirrored

\* The frame of a step of a request: it moves on alone, what it says of its
\* content only grows, and the points of other documents stay.
LEMMA OwnFrame ==
    ASSUME IngestionInv, NEW q \in Requests, OwnStep(q)
    PROVE  /\ Open(q) /\ req[q].doc \in Docs /\ req[q].content \in Contents
           /\ req' = [req EXCEPT ![q] = req'[q]] /\ req'[q] \in Request
           /\ \A p \in Requests : req'[p].doc = req[p].doc
           /\ \A p \in Requests \ {q} : req'[p] = req[p]
           /\ \A d \in Docs \ {req[q].doc} : doc'[d] = doc[d]
           /\ \A c \in Contents : mishaps[c] \subseteq mishaps'[c]
           /\ \A d \in Docs : Points(d)' = {p \in qdrant' : req[p].doc = d}
           /\ \A d \in Docs \ {req[q].doc} : Points(d)' = Points(d)
           /\ doc'[req[q].doc].status # "none" =>
                  doc'[req[q].doc].content = req[q].content
<1> USE DEF IngestionInv
<1>1. Moved(q) /\ Written(q) /\ RowStep(q) /\ PointsStep(q)
      BY OwnSteps, RowSteps
<1>2. /\ Open(q) /\ req[q].doc \in Docs /\ req[q].content \in Contents
      /\ req' = [req EXCEPT ![q] = req'[q]] /\ req'[q] \in Request
      /\ \A p \in Requests : req'[p].doc = req[p].doc
      /\ \A p \in Requests \ {q} : req'[p] = req[p]
      BY <1>1 DEF Moved, Placed, TypeOK
<1>3. qdrant' \subseteq Requests
      BY <1>1 DEF PointsStep, TypeOK
<1>4. \A d \in Docs : Points(d)' = {p \in qdrant' : req[p].doc = d}
      BY <1>2, <1>3 DEF Points
<1>5. \A p \in Requests : req[p].doc # req[q].doc => (p \in qdrant' <=> p \in qdrant)
      BY <1>1 DEF PointsStep, Owned
<1>6. \A d \in Docs \ {req[q].doc} : Points(d)' = Points(d)
      BY <1>3, <1>4, <1>5 DEF Points, TypeOK
<1>7. doc'[req[q].doc].status # "none" => doc'[req[q].doc].content = req[q].content
  <2>1. doc[req[q].doc].status # "none" => doc[req[q].doc].content = req[q].content
        BY <1>2 DEF Held, Inserting, Row, Open
  <2> QED  BY <1>1, <1>2, <2>1 DEF RowStep, TypeOK
<1> QED  BY <1>1, <1>2, <1>4, <1>6, <1>7 DEF Written

\* A document whose content is calm is as the only open request on it says.
LEMMA OwnStage ==
    ASSUME MirrorInv, NEW q \in Requests, Open(q), Calm(req[q].content)
    PROVE  /\ \A p \in Requests \ {q} : req[p].doc = req[q].doc => ~ Open(p)
           /\ Row(q) \in Document /\ req[q] \in Request
           /\ req[q].op # "insert" => Row(q).content = req[q].content
           /\ \A x, y \in Row(q).chunks : x = y
           /\ Row(q).status = "failed" => Row(q).chunks = {}
           /\ req[q].op \notin Refilling => Points(req[q].doc) = Row(q).chunks
           /\ req[q].op = "insert" => Row(q).chunks = {}
           /\ Stage(q)
<1> USE DEF MirrorInv, IngestionInv
<1> DEFINE D == req[q].doc
<1>1. D \in Docs /\ Row(q) \in Document /\ req[q] \in Request /\ req[q].content \in Contents
      BY DEF Placed, TypeOK, Row
<1>2. \A p \in Requests \ {q} : req[p].doc = D => ~ Open(p)
  <2> SUFFICES ASSUME NEW p \in Requests \ {q}, req[p].doc = D, Open(p)
               PROVE  FALSE
      OBVIOUS
  <2>1. req[p].op # "insert" /\ req[q].op # "insert"
        BY DEF Inserting
  <2>2. req[p].content = req[q].content
        BY <2>1 DEF Held, Row
  <2> QED  BY <2>2 DEF AloneOpen, NoOverlap, Calm
<1>3. CASE req[q].op = "insert"
  <2>1. Row(q) = NoDocument
        BY <1>1, <1>3 DEF Inserting, Rows, Row
  <2>2. Points(D) = {}
        BY <1>3 DEF Points, Placing, Inserting, TypeOK, Inside
  <2> QED  BY <1>1, <1>2, <1>3, <2>1, <2>2 DEF NoDocument, Stage, Refilling, Inside
<1>4. CASE req[q].op # "insert"
  <2>1. Row(q).status # "none" /\ Row(q).content = req[q].content
        BY <1>4 DEF Held
  <2>2. Mirror(D)
        BY <1>1, <2>1 DEF Mirrored, Row
  <2>3. req[q].op \notin Refilling => Points(D) = Row(q).chunks
    <3> SUFFICES ASSUME req[q].op \notin Refilling
                 PROVE  \A p \in Requests : req[p].doc = D => req[p].op \notin Refilling
        BY <2>2 DEF Mirror, Row
    <3>1. ASSUME NEW p \in Requests, ~ Open(p)
          PROVE  req[p].op \notin Refilling
          BY <3>1 DEF Open, Refilling, Inside
    <3> QED  BY <1>2, <3>1
  <2> QED  BY <1>1, <1>2, <1>4, <2>1, <2>2, <2>3 DEF Mirror, Row
<1> QED  BY <1>3, <1>4

\* What the step of a request leaves its document in.
After(q) ==
    /\ \A x, y \in Row(q).chunks : x = y
    /\ Row(q).status = "failed" => Row(q).chunks = {}
    /\ req[q].op \notin Refilling => Points(req[q].doc) = Row(q).chunks
    /\ Stage(q)

\* Steps that move a request without points, rows or replaced batches.
LEMMA AfterStays ==
    ASSUME MirrorInv, NEW q \in Requests, OwnStep(q), After(q),
           req'[q].old = req[q].old, UNCHANGED qdrant,
           doc'[req[q].doc].chunks = doc[req[q].doc].chunks,
           doc'[req[q].doc].status = "failed" => doc[req[q].doc].chunks = {},
           \/ req[q].op \in {"bump", "upsert"} /\ req'[q].op \in {"bump", "upsert"}
           \/ req[q].op \in Inside /\ req'[q].op \in Inside
           \/ req[q].op \notin Refilling /\ req'[q].op \in {"reindex", "done"}
           \/ /\ req[q].op \notin Refilling /\ doc[req[q].doc].chunks = {}
              /\ req[q].old = {}
              /\ req'[q].op \in {"process", "read", "upsert", "mark"}
    PROVE  After(q)'
<1> DEFINE D == req[q].doc
<1>1. /\ D \in Docs /\ req'[q].doc = D
      /\ Points(D)' = {p \in qdrant' : req[p].doc = D}
      BY OwnFrame DEF MirrorInv
<1>2. Points(D)' = Points(D)
      BY <1>1 DEF Points
<1>3. /\ Row(q)' = doc'[D] /\ Row(q) = doc[D]
      /\ Points(req[q].doc)' = Points(D)'
      BY <1>1 DEF Row, Points
<1> HIDE DEF D
<1>4. D = req[q].doc
      BY DEF D
<1> QED
  BY <1>1, <1>2, <1>3, <1>4 DEF After, Stage, Refilling, Inside

LEMMA OwnAfter ==
    ASSUME MirrorInv, NEW q \in Requests, OwnStep(q),
           mishaps'[req[q].content] \cap {"overlap", "broken"} = {}
    PROVE  After(q)'
<1> DEFINE D == req[q].doc
<1>1. /\ D \in Docs /\ req[q].content \in Contents /\ req'[q].doc = D
      /\ Open(q) /\ req[q] \in Request /\ req \in [Requests -> Request]
      /\ mishaps[req[q].content] \subseteq mishaps'[req[q].content]
      /\ Points(D)' = {p \in qdrant' : req[p].doc = D}
      BY OwnFrame DEF MirrorInv, IngestionInv, TypeOK
<1>2. Calm(req[q].content)
      BY <1>1 DEF Calm
<1>3. /\ After(q) /\ Row(q) \in Document
      /\ req[q].op = "insert" => Row(q).chunks = {}
      BY <1>1, <1>2, OwnStage DEF After
<1>4. /\ q \in qdrant => req[q].op \in Inside \cup {"mark", "done"}
      /\ req[q].op \in {"insert", "retry", "process", "read"} => req[q].old = {}
      BY DEF MirrorInv, Placing
<1>5. ASSUME NEW t, Move(q, t)
      PROVE  req'[q] = t
      BY <1>1, <1>5 DEF Move
<1>6. /\ Done(req[q]).op = "done" /\ Done(req[q]).old = {}
      /\ [Done(req[q]) EXCEPT !.op = "mark"].op = "mark"
      /\ [Done(req[q]) EXCEPT !.op = "mark"].old = {}
  <2>1. Done(req[q]) \in Request /\ Done(req[q]).op = "done" /\ Done(req[q]).old = {}
        BY <1>1, DoneType
  <2> QED  BY <2>1 DEF Request
<1>7. ASSUME NEW row, Store(q, row)
      PROVE  doc'[D] = row
      BY <1>1, <1>7 DEF Store, MirrorInv, IngestionInv, TypeOK
<1>8. ASSUME UNCHANGED doc
      PROVE  doc'[D] = doc[D] /\ Row(q)' = doc[D]
      BY <1>1, <1>8 DEF Row
<1>9. Row(q) = doc[D] /\ Row(q)' = doc'[D]
      BY <1>1 DEF Row
<1>10. ASSUME NEW kinds \in SUBSET Mishaps, Note(q, kinds)
       PROVE  doc[D].chunks = {} /\ Points(D) = {}
  <2>1. mishaps' = [mishaps EXCEPT ![req[q].content] =
                       @ \cup kinds \cup (IF WasIndexed(q) THEN {"broken"} ELSE {})]
        BY <1>10 DEF Note
  <2>2. ~ WasIndexed(q)
        BY <1>1, <2>1 DEF MirrorInv, IngestionInv, TypeOK
  <2> QED  BY <1>9, <2>2 DEF WasIndexed
<1>11. CASE CommitInsert(q)
  <2>1. /\ req'[q] = [req[q] EXCEPT !.op = "process"] /\ req[q].op = "insert"
        /\ UNCHANGED qdrant
        BY <1>5, <1>11 DEF CommitInsert
  <2>2. doc'[D].chunks = {}
        BY <1>7, <1>11 DEF CommitInsert
  <2>3. req'[q].op = "process" /\ req'[q].old = req[q].old /\ doc[D].chunks = {}
        BY <1>1, <1>3, <1>9, <2>1 DEF Request
  <2> QED  BY <1>3, <1>4, <2>1, <2>2, <2>3, AfterStays DEF Refilling, Inside
<1>12. CASE CommitRetry(q)
  <2>1. /\ req'[q] = [req[q] EXCEPT !.op = "process"] /\ req[q].op = "retry"
        /\ UNCHANGED qdrant
        BY <1>5, <1>12 DEF CommitRetry
  <2>2. PICK status : doc'[D] = [Row(q) EXCEPT !.status = status]
        BY <1>7, <1>12 DEF CommitRetry
  <2>3. doc[D].chunks = {}
        BY <1>3, <1>9, <2>1 DEF After, Stage
  <2>4. doc'[D].chunks = doc[D].chunks
        BY <1>3, <1>9, <2>2 DEF Document
  <2>5. req'[q].op = "process" /\ req'[q].old = req[q].old
        BY <1>1, <2>1 DEF Request
  <2> QED  BY <1>3, <1>4, <2>1, <2>3, <2>4, <2>5, AfterStays DEF Refilling, Inside
<1>13. CASE CommitReindex(q)
  <2>1. /\ req'[q] = [req[q] EXCEPT !.op = "reindex", !.seen = "none"]
        /\ req[q].op = "reopen" /\ UNCHANGED qdrant
        BY <1>5, <1>13 DEF CommitReindex
  <2>2. \/ doc'[D] = doc[D]
        \/ doc'[D] = [Row(q) EXCEPT !.status = "processing"]
        BY <1>7, <1>8, <1>13 DEF CommitReindex
  <2>3. /\ doc'[D].chunks = doc[D].chunks
        /\ doc'[D].status = "failed" => doc[D].status = "failed"
        BY <1>3, <1>9, <2>2 DEF Document
  <2>4. doc'[D].status = "failed" => doc[D].chunks = {}
        BY <1>3, <1>9, <2>3 DEF After
  <2>5. req'[q].op = "reindex" /\ req'[q].old = req[q].old
        BY <1>1, <2>1 DEF Request
  <2> QED  BY <1>3, <2>1, <2>3, <2>4, <2>5, AfterStays DEF Refilling, Inside
<1>14. CASE LoadProcess(q) \/ ReadFile(q)
  <2>1. /\ \/ req'[q] = Done(req[q])
           \/ \E seen : req'[q] = [req[q] EXCEPT !.op = "read", !.seen = seen]
           \/ \E locked : req'[q] = [req[q] EXCEPT !.op = "upsert", !.seen = "none",
                                                   !.locked = locked]
        /\ req[q].op \in {"process", "read"} /\ UNCHANGED <<doc, qdrant>>
        BY <1>5, <1>14 DEF LoadProcess, ReadFile
  <2>2. req'[q].op \in {"done", "read", "upsert"} /\ req'[q].old = req[q].old
        BY <1>1, <1>4, <1>6, <2>1 DEF Request
  <2>3. doc[D].chunks = {}
        BY <1>3, <1>9, <2>1 DEF After, Stage
  <2> QED  BY <1>3, <1>4, <2>1, <2>2, <2>3, AfterStays DEF Refilling, Inside
<1>15. CASE LoadReindex(q)
  <2>1. /\ req'[q] = [req[q] EXCEPT !.op = "clear", !.old = Row(q).chunks]
        /\ req[q].op = "reindex" /\ UNCHANGED <<doc, qdrant>>
        BY <1>5, <1>15 DEF LoadReindex
  <2>2. req'[q].op = "clear" /\ req'[q].old = doc[D].chunks
        BY <1>1, <1>9, <2>1 DEF Request
  <2>3. Row(q)' = Row(q) /\ Points(req[q].doc)' = Points(D)
        BY <1>1, <1>8, <1>9, <2>1 DEF Points
  <2> QED  BY <1>3, <1>9, <2>1, <2>2, <2>3 DEF After, Stage, Refilling, Inside
<1>16. CASE Clear(q)
  <2>1. /\ req'[q] = [req[q] EXCEPT !.op = "bump"] /\ req[q].op = "clear"
        /\ qdrant' = qdrant \ req[q].old /\ UNCHANGED doc
        BY <1>5, <1>16 DEF Clear
  <2>2. req'[q].op = "bump" /\ req'[q].old = req[q].old
        BY <1>1, <2>1 DEF Request
  <2>3. Row(q).chunks = req[q].old /\ Points(D) = Row(q).chunks
        BY <1>3, <2>1 DEF After, Stage, Refilling, Inside
  <2>4. Row(q)' = Row(q) /\ Points(req[q].doc)' = {}
        BY <1>1, <1>8, <1>9, <2>1, <2>3 DEF Points
  <2> QED  BY <1>3, <1>9, <2>1, <2>2, <2>3, <2>4 DEF After, Stage, Refilling, Inside
<1>17. CASE Bump(q)
  <2>1. /\ req'[q] = [req[q] EXCEPT !.op = "upsert", !.locked = TRUE]
        /\ req[q].op = "bump" /\ UNCHANGED <<doc, qdrant>>
        BY <1>5, <1>17 DEF Bump
  <2>2. req'[q].op = "upsert" /\ req'[q].old = req[q].old
        BY <1>1, <2>1 DEF Request
  <2>3. doc'[D].status = "failed" => doc[D].chunks = {}
        BY <1>3, <1>9, <2>1 DEF After
  <2> QED  BY <1>3, <2>1, <2>2, <2>3, AfterStays
<1>18. CASE NoText(q)
  <2>1. req'[q] = Done(req[q]) /\ req[q].op = "bump" /\ UNCHANGED qdrant
        BY <1>5, <1>18 DEF NoText
  <2>2. doc'[D] = [Row(q) EXCEPT !.status = "failed", !.chunks = @ \ req[q].old]
        BY <1>7, <1>18 DEF NoText
  <2>3. Row(q).chunks = req[q].old /\ Points(D) = {}
        BY <1>3, <2>1 DEF After, Stage, Refilling
  <2>4. doc'[D].chunks = {}
        BY <1>3, <2>2, <2>3 DEF Document
  <2>5. Points(req[q].doc)' = {}
        BY <1>1, <2>1, <2>3 DEF Points
  <2>6. req'[q].op = "done"
        BY <1>6, <2>1
  <2> QED  BY <1>9, <2>4, <2>5, <2>6 DEF After, Stage, Refilling, Inside
<1>19. CASE Upsert(q)
  <2>1. /\ req'[q] = [req[q] EXCEPT !.op = "flush"] /\ req[q].op = "upsert"
        /\ qdrant' = qdrant \cup {q} /\ UNCHANGED doc
        BY <1>5, <1>19 DEF Upsert
  <2>2. req'[q].op = "flush" /\ req'[q].old = req[q].old
        BY <1>1, <2>1 DEF Request
  <2>3. Row(q).chunks = req[q].old /\ Points(D) = {}
        BY <1>3, <2>1 DEF After, Stage, Refilling
  <2>4. Row(q)' = Row(q) /\ Points(req[q].doc)' = {q}
        BY <1>1, <1>8, <1>9, <2>1, <2>3 DEF Points
  <2> QED  BY <1>3, <1>9, <2>1, <2>2, <2>3, <2>4 DEF After, Stage, Refilling, Inside
<1>20. CASE Flush(q) \/ Scroll(q) \/ Build(q)
  <2>1. /\ \/ req'[q] = [req[q] EXCEPT !.op = "scroll", !.locked = TRUE]
           \/ \E hits : req'[q] = [req[q] EXCEPT !.op = "build", !.hits = hits]
           \/ req'[q] = [req[q] EXCEPT !.op = "commit", !.hits = {}]
        /\ req[q].op \in {"flush", "scroll", "build"} /\ UNCHANGED <<doc, qdrant>>
        BY <1>5, <1>20 DEF Flush, Scroll, Build
  <2>2. req'[q].op \in {"scroll", "build", "commit"} /\ req'[q].old = req[q].old
        BY <1>1, <2>1 DEF Request
  <2>3. doc'[D].status = "failed" => doc[D].chunks = {}
        BY <1>3, <1>9, <2>1 DEF After
  <2> QED  BY <1>3, <2>1, <2>2, <2>3, AfterStays DEF Inside
<1>21. CASE Commit(q)
  <2>1. req'[q] = Done(req[q]) /\ req[q].op = "commit" /\ UNCHANGED qdrant
        BY <1>5, <1>21 DEF Commit
  <2>2. doc'[D] = [Row(q) EXCEPT !.status = "indexed",
                                 !.chunks = (@ \ req[q].old) \cup {q}]
        BY <1>7, <1>21 DEF Commit
  <2>3. Row(q).chunks = req[q].old /\ Points(D) = {q}
        BY <1>3, <2>1 DEF After, Stage, Refilling, Inside
  <2>4. doc'[D].chunks = {q} /\ doc'[D].status = "indexed"
        BY <1>3, <2>2, <2>3 DEF Document
  <2>5. Points(req[q].doc)' = {q}
        BY <1>1, <2>1, <2>3 DEF Points
  <2>6. req'[q].op = "done"
        BY <1>6, <2>1
  <2> QED  BY <1>9, <2>4, <2>5, <2>6 DEF After, Stage, Refilling, Inside
<1>22. CASE Fail(q)
  <2>1. /\ req'[q] = Done(req[q]) /\ UNCHANGED qdrant /\ Note(q, {})
        /\ req[q].op \in {"read", "upsert", "flush", "scroll", "build"}
        BY <1>5, <1>22 DEF Fail
  <2>2. doc[D].chunks = {} /\ Points(D) = {}
        BY <1>10, <2>1
  <2>3. req[q].op \notin Inside
    <3>1. req[q].op \in Inside => Points(D) = {q}
          BY <1>3 DEF After, Stage
    <3> QED  BY <2>2, <3>1
  <2>4. doc'[D] = [Row(q) EXCEPT !.status = "failed", !.chunks = @]
        BY <1>7, <1>22, <2>3 DEF Fail, Inside
  <2>5. doc'[D].chunks = {}
        BY <1>3, <1>9, <2>2, <2>4 DEF Document
  <2>6. Points(req[q].doc)' = {}
        BY <1>1, <2>1, <2>2 DEF Points
  <2>7. req'[q].op = "done"
        BY <1>6, <2>1
  <2> QED  BY <1>9, <2>5, <2>6, <2>7 DEF After, Stage, Refilling, Inside
<1>23. CASE Mark(q)
  <2>1. req'[q] = Done(req[q]) /\ UNCHANGED qdrant /\ req[q].op = "mark"
        BY <1>5, <1>23 DEF Mark
  <2>2. Row(q).chunks = {} /\ Points(D) = {}
        BY <1>3, <2>1 DEF After, Stage, Refilling, Inside
  <2>3. doc'[D] = [Row(q) EXCEPT !.status = "failed"] \/ doc'[D] = doc[D]
        BY <1>7, <1>8, <1>23 DEF Mark
  <2>4. doc'[D].chunks = {}
        BY <1>3, <1>9, <2>2, <2>3 DEF Document
  <2>5. Points(req[q].doc)' = {}
        BY <1>1, <2>1, <2>2 DEF Points
  <2>6. req'[q].op = "done"
        BY <1>6, <2>1
  <2> QED  BY <1>9, <2>4, <2>5, <2>6 DEF After, Stage, Refilling, Inside
<1>24. CASE Abort(q)
  <2>1. /\ req'[q] = [Done(req[q]) EXCEPT !.op = "mark"] /\ UNCHANGED <<doc, qdrant>>
        /\ Note(q, {})
        BY <1>5, <1>24 DEF Abort
  <2>2. doc[D].chunks = {} /\ Points(D) = {}
        BY <1>10, <2>1
  <2>3. doc'[D].chunks = {} /\ Points(req[q].doc)' = {}
        BY <1>1, <1>8, <2>1, <2>2 DEF Points
  <2>4. req'[q].op = "mark"
        BY <1>6, <2>1
  <2> QED  BY <1>9, <2>3, <2>4 DEF After, Stage, Refilling, Inside
<1>25. CASE Refuse(q)
  <2>1. /\ req'[q] = Done(req[q]) /\ UNCHANGED <<doc, qdrant>>
        /\ req[q].op \in {"insert", "retry", "reopen"}
        BY <1>5, <1>25 DEF Refuse
  <2>2. Row(q)' = Row(q) /\ Points(req[q].doc)' = Points(D)
        BY <1>1, <1>8, <1>9, <2>1 DEF Points
  <2>3. req'[q].op = "done"
        BY <1>6, <2>1
  <2> QED  BY <1>3, <2>1, <2>2, <2>3 DEF After, Stage, Refilling, Inside
<1> QED
  BY <1>11, <1>12, <1>13, <1>14, <1>15, <1>16, <1>17, <1>18, <1>19, <1>20, <1>21,
     <1>22, <1>23, <1>24, <1>25 DEF OwnStep, Work

LEMMA OwnPlacing ==
    ASSUME MirrorInv, NEW q \in Requests, OwnStep(q)
    PROVE  Placing'
<1> USE DEF MirrorInv
<1>1. /\ req[q] \in Request /\ req \in [Requests -> Request]
      /\ \A p \in Requests \ {q} : req'[p] = req[p]
      BY OwnFrame DEF IngestionInv, TypeOK
<1>2. PointsStep(q) /\ Open(q) /\ OpStep(q) /\ Moved(q)
      BY OwnSteps, RowSteps, OwnFrame DEF IngestionInv
<1>3. \A p \in Requests \ {q} : p \in qdrant' => p \in qdrant
      BY <1>2 DEF PointsStep
<1>4. \A p \in Requests \ {q} :
          /\ p \in qdrant' => req'[p].op \in Inside \cup {"mark", "done"}
          /\ req'[p].op \in {"insert", "retry", "process", "read"} => req'[p].old = {}
      BY <1>1, <1>3 DEF Placing
<1>5. ASSUME NEW t, Move(q, t)
      PROVE  req'[q] = t
      BY <1>1, <1>5 DEF Move
<1>6. /\ Done(req[q]).op = "done" /\ Done(req[q]).old = {}
      /\ [Done(req[q]) EXCEPT !.op = "mark"].op = "mark"
      /\ [Done(req[q]) EXCEPT !.op = "mark"].old = {}
  <2>1. Done(req[q]) \in Request /\ Done(req[q]).op = "done" /\ Done(req[q]).old = {}
        BY <1>1, DoneType
  <2> QED  BY <2>1 DEF Request
<1>7. \/ req'[q].op \in {"mark", "done"} /\ req'[q].old = {}
      \/ /\ req[q].op \in {"insert", "retry", "process"} /\ req'[q].op \in {"process", "read"}
         /\ req'[q].old = req[q].old /\ UNCHANGED qdrant
      \/ /\ req[q].op \in {"reopen", "reindex", "clear", "bump", "read"}
         /\ req'[q].op \in {"reindex", "clear", "bump", "upsert"}
         /\ q \notin qdrant' \/ q \in qdrant
      \/ req'[q].op \in Inside
  <2>1. CASE CommitInsert(q) \/ CommitRetry(q) \/ CommitReindex(q)
    <3>1. /\ \/ req'[q] = [req[q] EXCEPT !.op = "process"] /\ req[q].op \in {"insert", "retry"}
             \/ /\ req'[q] = [req[q] EXCEPT !.op = "reindex", !.seen = "none"]
                /\ req[q].op = "reopen"
          /\ UNCHANGED qdrant
          BY <1>5, <2>1 DEF CommitInsert, CommitRetry, CommitReindex
    <3> QED  BY <1>1, <3>1 DEF Request
  <2>2. CASE LoadProcess(q) \/ ReadFile(q)
    <3>1. /\ \/ req'[q] = Done(req[q])
             \/ /\ \E seen : req'[q] = [req[q] EXCEPT !.op = "read", !.seen = seen]
                /\ req[q].op = "process"
             \/ /\ \E locked : req'[q] = [req[q] EXCEPT !.op = "upsert", !.seen = "none",
                                                        !.locked = locked]
                /\ req[q].op = "read"
          /\ UNCHANGED qdrant
          BY <1>5, <2>2 DEF LoadProcess, ReadFile
    <3> QED  BY <1>1, <1>6, <3>1 DEF Request
  <2>3. CASE LoadReindex(q) \/ Clear(q) \/ Bump(q)
    <3>1. /\ \/ /\ \E old : req'[q] = [req[q] EXCEPT !.op = "clear", !.old = old]
                /\ req[q].op = "reindex"
             \/ req'[q] = [req[q] EXCEPT !.op = "bump"] /\ req[q].op = "clear"
             \/ /\ req'[q] = [req[q] EXCEPT !.op = "upsert", !.locked = TRUE]
                /\ req[q].op = "bump"
          /\ qdrant' \subseteq qdrant
          BY <1>5, <2>3 DEF LoadReindex, Clear, Bump
    <3> QED  BY <1>1, <3>1 DEF Request
  <2>4. CASE Upsert(q) \/ Flush(q) \/ Scroll(q) \/ Build(q)
    <3>1. \/ req'[q] = [req[q] EXCEPT !.op = "flush"]
          \/ req'[q] = [req[q] EXCEPT !.op = "scroll", !.locked = TRUE]
          \/ \E hits : req'[q] = [req[q] EXCEPT !.op = "build", !.hits = hits]
          \/ req'[q] = [req[q] EXCEPT !.op = "commit", !.hits = {}]
          BY <1>5, <2>4 DEF Upsert, Flush, Scroll, Build
    <3> QED  BY <1>1, <3>1 DEF Request, Inside
  <2>5. CASE \/ NoText(q) \/ Commit(q) \/ Fail(q) \/ Mark(q) \/ Abort(q) \/ Refuse(q)
    <3>1. \/ req'[q] = Done(req[q])
          \/ req'[q] = [Done(req[q]) EXCEPT !.op = "mark"]
          BY <1>5, <2>5 DEF NoText, Commit, Fail, Mark, Abort, Refuse
    <3> QED  BY <1>6, <3>1
  <2> QED  BY <2>1, <2>2, <2>3, <2>4, <2>5 DEF OwnStep, Work
<1>8. /\ q \in qdrant' => req'[q].op \in Inside \cup {"mark", "done"}
      /\ req'[q].op \in {"insert", "retry", "process", "read"} => req'[q].old = {}
      BY <1>7 DEF Placing, Inside
<1> QED  BY <1>4, <1>8 DEF Placing

LEMMA OwnMirror ==
    ASSUME MirrorInv, NEW q \in Requests, OwnStep(q)
    PROVE  MirrorInv'
<1> DEFINE D == req[q].doc
<1>1. IngestionInv' /\ Placing'
      BY OwnKeeps, OwnPlacing DEF MirrorInv
<1>2. /\ Open(q) /\ D \in Docs /\ req[q].content \in Contents
      /\ \A p \in Requests : req'[p].doc = req[p].doc
      /\ \A p \in Requests \ {q} : req'[p] = req[p]
      /\ \A d \in Docs \ {D} : doc'[d] = doc[d] /\ Points(d)' = Points(d)
      /\ \A c \in Contents : mishaps[c] \subseteq mishaps'[c]
      /\ doc'[D].status # "none" => doc'[D].content = req[q].content
      BY OwnFrame DEF MirrorInv
<1>3. ASSUME NEW d \in Docs, doc'[d].status # "none",
             mishaps'[doc'[d].content] \cap {"overlap", "broken"} = {}
      PROVE  Mirror(d)'
  <2>1. CASE d = D
    <3>1. mishaps'[req[q].content] \cap {"overlap", "broken"} = {}
          BY <1>2, <1>3, <2>1
    <3>2. After(q)'
          BY <3>1, OwnAfter
    <3>3. Calm(req[q].content)
          BY <1>2, <3>1 DEF Calm
    <3>4. \A p \in Requests \ {q} : req[p].doc = D => ~ Open(p)
          BY <1>2, <3>3, OwnStage
    <3>5. \A p \in Requests \ {q} : req'[p].doc = D => req'[p].op \in {"new", "done"}
          BY <1>2, <3>4 DEF Open
    <3>6. \A p \in Requests \ {q} : req'[p].doc = D => Stage(p)'
          BY <3>5 DEF Stage, Refilling, Inside
    <3>7. req'[q].doc = D /\ Row(q)' = doc'[D] /\ Points(req[q].doc)' = Points(D)'
          BY <1>2 DEF Row, Points
    <3> HIDE DEF D
    <3> QED  BY <2>1, <3>2, <3>6, <3>7 DEF Mirror, After
  <2>2. CASE d # D
    <3>1. doc'[d] = doc[d] /\ Points(d)' = Points(d)
          BY <1>2, <2>2
    <3>2. doc[d].content \in Contents
          BY <1>3, <3>1 DEF MirrorInv, IngestionInv, Rows
    <3>3. Mirror(d)
          BY <1>2, <1>3, <3>1, <3>2 DEF MirrorInv, Mirrored, Calm
    <3>4. ASSUME NEW p \in Requests, req'[p].doc = d
          PROVE  req'[p] = req[p] /\ Stage(p)'
      <4>1. p # q /\ req'[p] = req[p] /\ req[p].doc = d
            BY <1>2, <2>2, <3>4
      <4>2. Stage(p)
            BY <3>3, <4>1 DEF Mirror
      <4>3. Row(p)' = Row(p) /\ Points(req[p].doc)' = Points(req[p].doc)
            BY <3>1, <4>1 DEF Row, Points
      <4> QED  BY <4>1, <4>2, <4>3 DEF Stage
    <3>5. \A p \in Requests : req[p].doc = d => req'[p] = req[p]
          BY <1>2, <3>4
    <3>6. (\A p \in Requests : req'[p].doc = d => req'[p].op \notin Refilling) =>
              (\A p \in Requests : req[p].doc = d => req[p].op \notin Refilling)
          BY <1>2, <3>5
    <3> QED  BY <3>1, <3>3, <3>4, <3>6 DEF Mirror
  <2> QED  BY <2>1, <2>2
<1>4. Mirrored'
      BY <1>3 DEF Mirrored, Calm
<1> QED  BY <1>1, <1>4 DEF MirrorInv

LEMMA BeginMirror ==
    ASSUME MirrorInv, NEW q \in Requests, BeginUpload(q) \/ BeginReindex(q)
    PROVE  MirrorInv'
<1> USE DEF MirrorInv
<1>1. Begun(q) /\ IngestionInv'
      BY BeginSteps, BeginKeeps DEF IngestionInv
<1>2. /\ req[q].op = "new" /\ req[q].doc = NoDoc /\ q \notin qdrant
      /\ \A p \in Requests \ {q} : req'[p] = req[p]
      /\ doc' = doc /\ qdrant' = qdrant /\ qdrant \subseteq Requests
      /\ req'[q].op \in {"insert", "retry", "reopen"} /\ req'[q].old = {}
      /\ req'[q].doc \in Docs
      BY <1>1 DEF Begun, New, IngestionInv, TypeOK, Placing, Inside
<1>3. /\ req'[q].op = "insert" => doc[req'[q].doc].status = "none"
      /\ req'[q].op = "retry" => doc[req'[q].doc].status = "failed"
  <2>1. req'[q].op = "insert" => doc[req'[q].doc].status = "none"
        BY <1>1, <1>2 DEF Begun, IngestionInv, Rows
  <2>2. ASSUME req'[q].op = "retry"
        PROVE  doc[req'[q].doc].status = "failed"
    <3>1. CASE BeginUpload(q)
      <4>1. PICK c \in Contents, d \in Docs :
                \/ Begin(q, [New EXCEPT !.op = "insert", !.doc = d, !.content = c])
                \/ /\ doc[d].status = "failed"
                   /\ Begin(q, [New EXCEPT !.op = "retry", !.doc = d, !.content = c])
            BY <3>1 DEF BeginUpload
      <4>2. ASSUME NEW t, Begin(q, t)
            PROVE  req'[q] = t
            BY <4>2 DEF Begin, Move, IngestionInv, TypeOK
      <4>3. /\ [New EXCEPT !.op = "insert", !.doc = d, !.content = c].op = "insert"
            /\ [New EXCEPT !.op = "retry", !.doc = d, !.content = c].doc = d
            BY DEF New
      <4> QED  BY <2>2, <4>1, <4>2, <4>3
    <3>2. CASE BeginReindex(q)
      <4>1. PICK d \in Docs :
                Begin(q, [New EXCEPT !.op = "reopen", !.doc = d, !.content = doc[d].content,
                                     !.seen = doc[d].status, !.reindexes = TRUE])
            BY <3>2 DEF BeginReindex
      <4>2. ASSUME NEW t, Begin(q, t)
            PROVE  req'[q] = t
            BY <4>2 DEF Begin, Move, IngestionInv, TypeOK
      <4>3. [New EXCEPT !.op = "reopen", !.doc = d, !.content = doc[d].content,
                        !.seen = doc[d].status, !.reindexes = TRUE].op = "reopen"
            BY DEF New
      <4>4. req'[q].op = "reopen"
            BY <4>1, <4>2, <4>3
      <4> QED  BY <2>2, <4>4
    <3> QED  BY <3>1, <3>2
  <2> QED  BY <2>1, <2>2
<1>4. \A c \in Contents : mishaps[c] \subseteq mishaps'[c]
  <2>1. PICK t : Begin(q, t)
        BY DEF BeginUpload, BeginReindex
  <2>2. \/ mishaps' = [mishaps EXCEPT ![t.content] = @ \cup {"overlap"}]
        \/ mishaps' = mishaps
        BY <2>1 DEF Begin
  <2> QED  BY <2>2 DEF IngestionInv, TypeOK
<1>5. Placing'
      BY <1>2 DEF Placing
<1>6. \A d \in Docs : Points(d)' = Points(d)
      BY <1>2 DEF Points
<1>7. ASSUME NEW d \in Docs, doc[d].status # "none",
             mishaps'[doc[d].content] \cap {"overlap", "broken"} = {}
      PROVE  Mirror(d)'
  <2>1. Mirror(d)
        BY <1>4, <1>7 DEF Mirrored, Calm, IngestionInv, Rows
  <2>2. ASSUME NEW p \in Requests, req'[p].doc = d
        PROVE  Stage(p)'
    <3>1. CASE p = q
      <4>1. req'[q].op \in {"retry", "reopen"}
            BY <1>2, <1>3, <1>7, <2>2, <3>1
      <4>2. req'[q].op = "retry" => doc[d].chunks = {}
            BY <1>3, <2>1, <2>2, <3>1 DEF Mirror
      <4> QED  BY <1>2, <2>2, <3>1, <4>1, <4>2 DEF Stage, Row, Refilling, Inside
    <3>2. CASE p # q
      <4>1. req'[p] = req[p] /\ Stage(p)
            BY <1>2, <2>1, <2>2, <3>2 DEF Mirror
      <4>2. Row(p)' = Row(p) /\ Points(req[p].doc)' = Points(req[p].doc)
            BY <1>2, <1>6, <2>2, <4>1 DEF Row, Points
      <4> QED  BY <4>1, <4>2 DEF Stage
    <3> QED  BY <3>1, <3>2
  <2>3. (\A p \in Requests : req'[p].doc = d => req'[p].op \notin Refilling) =>
            (\A p \in Requests : req[p].doc = d => req[p].op \notin Refilling)
    <3>1. req[q].op \notin Refilling
          BY <1>2 DEF Refilling, Inside
    <3> QED  BY <1>2, <3>1
  <2> QED  BY <1>2, <1>6, <2>1, <2>2, <2>3 DEF Mirror
<1>8. Mirrored'
      BY <1>2, <1>7 DEF Mirrored, Calm
<1> QED  BY <1>1, <1>5, <1>8

LEMMA DeleteMirror ==
    ASSUME MirrorInv, NEW q \in Requests, Delete(q)
    PROVE  MirrorInv'
<1> USE DEF MirrorInv
<1>1. IngestionInv'
      BY DeleteKeeps
<1>2. \A d \in Docs : /\ doc'[d].status = doc[d].status
                      /\ doc'[d].content = doc[d].content
                      /\ doc'[d].chunks = doc[d].chunks
  <2>1. PICK e \in Docs : doc' = [doc EXCEPT ![e].active = FALSE]
        BY DEF Delete
  <2> QED  BY <2>1 DEF IngestionInv, TypeOK, Document
<1>3. /\ req[q] = New /\ UNCHANGED <<qdrant, mishaps>>
      /\ req' = [req EXCEPT ![q] = Done(New)]
      BY DEF Delete, IsNext, Move
<1>4. /\ Done(New).op = "done" /\ Done(New).doc = NoDoc
      BY NewType, DoneType DEF New
<1>5. /\ req'[q] = Done(New) /\ req[q].op = "new" /\ req[q].doc = NoDoc
      /\ \A p \in Requests \ {q} : req'[p] = req[p]
      BY <1>3 DEF IngestionInv, TypeOK, New
<1>6. Placing'
      BY <1>3, <1>4, <1>5 DEF Placing
<1>7. \A p \in Requests : req'[p].doc = req[p].doc
      BY <1>4, <1>5
<1>8. \A d \in Docs : Points(d)' = Points(d)
      BY <1>3, <1>7 DEF Points, IngestionInv, TypeOK
<1>9. ASSUME NEW d \in Docs, Mirror(d)
      PROVE  Mirror(d)'
  <2>1. ASSUME NEW p \in Requests, req'[p].doc = d
        PROVE  req'[p] = req[p] /\ Stage(p)'
    <3>1. p # q /\ req'[p] = req[p] /\ req[p].doc = d
          BY <1>4, <1>5, <2>1, IngestionAssumption
    <3>2. Stage(p)
          BY <1>9, <3>1 DEF Mirror
    <3>3. Row(p)'.chunks = Row(p).chunks /\ Points(req[p].doc)' = Points(req[p].doc)
          BY <1>2, <1>8, <3>1 DEF Row, Points
    <3> QED  BY <3>1, <3>2, <3>3 DEF Stage
  <2>2. (\A p \in Requests : req'[p].doc = d => req'[p].op \notin Refilling) =>
            (\A p \in Requests : req[p].doc = d => req[p].op \notin Refilling)
        BY <1>7, <2>1
  <2> QED  BY <1>2, <1>8, <1>9, <2>1, <2>2 DEF Mirror
<1>10. Mirrored'
       BY <1>2, <1>3, <1>9 DEF Mirrored, Calm
<1> QED  BY <1>1, <1>6, <1>10

LEMMA CrashMirror ==
    ASSUME MirrorInv, Crash
    PROVE  MirrorInv'
<1> USE DEF MirrorInv
<1>1. IngestionInv'
      BY CrashKeeps
<1>2. /\ UNCHANGED <<doc, qdrant, bm25>>
      /\ req' = [q \in Requests |-> IF Open(q) THEN Done(req[q]) ELSE req[q]]
      BY DEF Crash
<1>3. \A q \in Requests :
          /\ req'[q].doc = req[q].doc
          /\ Open(q) => req'[q].op = "done"
          /\ ~ Open(q) => req'[q] = req[q]
          /\ req'[q].op \in {"new", "done"}
          /\ req[q].op = "done" => req'[q].op = "done"
      BY <1>2, DoneType DEF Open, IngestionInv, TypeOK
<1>4. \A d \in Docs : Points(d)' = Points(d)
      BY <1>2, <1>3 DEF Points, IngestionInv, TypeOK
<1>5. Placing'
  <2>1. \A q \in Requests : q \in qdrant => req'[q].op = "done"
        BY <1>3 DEF Placing, Open, Inside
  <2> QED  BY <1>2, <1>3, <2>1 DEF Placing
<1>6. \A c \in Contents :
          /\ mishaps[c] \subseteq mishaps'[c]
          /\ \A q \in Requests :
                 Open(q) /\ req[q].content = c /\ WasIndexed(q) => "broken" \in mishaps'[c]
  <2> DEFINE dead == {q \in Requests : Open(q)}
             of(c) == {q \in dead : req[q].content = c}
             lost(c) == IF of(c) # {} THEN {"lost"} ELSE {}
             broken(c) == IF \E q \in of(c) : WasIndexed(q) THEN {"broken"} ELSE {}
  <2>1. mishaps' = [c \in Contents |-> mishaps[c] \cup lost(c) \cup broken(c)]
        BY DEF Crash
  <2>2. ASSUME NEW c \in Contents, NEW q \in Requests, Open(q), req[q].content = c,
               WasIndexed(q)
        PROVE  "broken" \in broken(c)
        BY <2>2
  <2> HIDE DEF lost, broken
  <2> QED  BY <2>1, <2>2
<1>7. ASSUME NEW d \in Docs, doc[d].status # "none",
             mishaps'[doc[d].content] \cap {"overlap", "broken"} = {}
      PROVE  Mirror(d)'
  <2>1. Mirror(d) /\ doc[d].content \in Contents
        BY <1>6, <1>7 DEF Mirrored, Calm, IngestionInv, Rows
  <2>2. \A p \in Requests : Stage(p)'
        BY <1>3 DEF Stage, Refilling, Inside
  <2>3. Points(d) = doc[d].chunks
    <3>1. CASE \E p \in Requests : req[p].doc = d /\ req[p].op \in Refilling
      <4>1. PICK p \in Requests : req[p].doc = d /\ req[p].op \in Refilling
            BY <3>1
      <4>2. Open(p) /\ req[p].op # "insert"
            BY <4>1 DEF Open, Refilling, Inside
      <4>3. req[p].content = doc[d].content
            BY <4>1, <4>2 DEF IngestionInv, Held, Row
      <4>4. ~ WasIndexed(p)
            BY <1>6, <1>7, <2>1, <4>2, <4>3
      <4> QED  BY <4>1, <4>4 DEF WasIndexed, Row
    <3>2. CASE ~ \E p \in Requests : req[p].doc = d /\ req[p].op \in Refilling
          BY <2>1, <3>2 DEF Mirror
    <3> QED  BY <3>1, <3>2
  <2> QED  BY <1>2, <1>4, <2>1, <2>2, <2>3 DEF Mirror
<1>8. Mirrored'
      BY <1>2, <1>7 DEF Mirrored, Calm
<1> QED  BY <1>1, <1>5, <1>8

LEMMA MirrorInvariance == Spec => []MirrorInv
<1>1. Init => MirrorInv
  <2> SUFFICES ASSUME Init PROVE MirrorInv
      OBVIOUS
  <2>1. \A q \in Requests : req[q].op = "new" /\ q \notin qdrant
        BY DEF Init, New
  <2>2. \A d \in Docs : doc[d].status = "none"
        BY DEF Init, NoDocument
  <2> QED  BY <2>1, <2>2, InitHolds DEF MirrorInv, Placing, Mirrored
<1>2. MirrorInv /\ [Next]_vars => MirrorInv'
  <2> SUFFICES ASSUME MirrorInv, [Next]_vars PROVE MirrorInv'
      OBVIOUS
  <2>1. CASE Next
    <3>1. ASSUME NEW q \in Requests, Work(q) \/ Abort(q) \/ Refuse(q)
          PROVE  MirrorInv'
          BY <3>1, OwnMirror DEF OwnStep
    <3> QED  BY <2>1, <3>1, BeginMirror, DeleteMirror, CrashMirror DEF Next
  <2>2. CASE UNCHANGED vars
    <3>1. IngestionInv'
          BY <2>2, NextKeeps DEF MirrorInv
    <3>2. Placing' /\ Mirrored'
          BY <2>2 DEF vars, MirrorInv, Placing, Mirrored, Calm, Mirror, Stage, Points, Row
    <3> QED  BY <3>1, <3>2 DEF MirrorInv
  <2> QED  BY <2>1, <2>2
<1> QED  BY <1>1, <1>2, PTL DEF Spec

\* An INDEXED document is indexed exactly once: its chunk rows are the mirror
\* of its points in the collection, one batch, unless a task failed on it when
\* it had been indexed or two requests for its content overlapped.
THEOREM DocumentsAreIndexedOnce == Spec => []IndexedOnce
<1>1. MirrorInv => IndexedOnce
  <2> SUFFICES ASSUME MirrorInv, NEW d \in Docs, doc[d].status = "indexed",
                      Calm(doc[d].content)
               PROVE  doc[d].chunks = Points(d) /\ Cardinality(Points(d)) = 1
      BY DEF IndexedOnce, Calm
  <2> USE DEF MirrorInv
  <2>1. Mirror(d)
        BY DEF Mirrored
  <2>2. doc[d].chunks \cap Points(d) # {}
        BY DEF IngestionInv, IndexedIsFound, Calm
  <2>3. \A q \in Requests : req[q].doc = d => req[q].op \notin Refilling
    <3> SUFFICES ASSUME NEW q \in Requests, req[q].doc = d, req[q].op \in Refilling
                 PROVE  FALSE
        OBVIOUS
    <3>1. doc[d].chunks = req[q].old
          BY <2>1 DEF Mirror, Stage, Row
    <3>2. CASE req[q].op \in {"bump", "upsert"}
          BY <2>1, <2>2, <3>2 DEF Mirror, Stage
    <3>3. CASE req[q].op \in Inside
      <4>1. Points(d) = {q}
            BY <2>1, <3>3 DEF Mirror, Stage
      <4>2. req[q].op = "done"
            BY <2>2, <4>1 DEF IngestionInv, Owned
      <4> QED  BY <3>3, <4>2 DEF Inside
    <3> QED  BY <3>2, <3>3 DEF Refilling
  <2>4. Points(d) = doc[d].chunks
        BY <2>1, <2>3 DEF Mirror
  <2>5. PICK q : Points(d) = {q}
        BY <2>1, <2>2, <2>4 DEF Mirror
  <2> QED  BY <2>4, <2>5, FS_Singleton
<1> QED  BY <1>1, MirrorInvariance, PTL

-----------------------------------------------------------------------------
(* The BM25 index is over the points of the collection. *)

Stale == {"bump", "upsert", "flush", "scroll", "build"}

\* While nothing has gone wrong requests come one by one, and the index lags
\* only while a task has deleted or written points and not yet rebuilt it; a
\* task that ends there has touched the points, so something went wrong.
Lexical ==
    ~ upset =>
        /\ \A p, q \in Requests : Open(p) /\ Open(q) => p = q
        /\ (\A q \in Requests : req[q].op \notin Stale) => bm25 = qdrant
        /\ \A q \in Requests :
               /\ req[q].op \in {"bump", "upsert"} /\ req[q].old = {} => bm25 = qdrant
               /\ req[q].op = "build" => req[q].hits = qdrant

LEMMA OwnLexical ==
    ASSUME IngestionInv, Lexical, NEW q \in Requests, OwnStep(q)
    PROVE  Lexical'
<1> SUFFICES ASSUME ~ upset' PROVE Lexical'
    BY DEF Lexical
<1> DEFINE fresh == bm25' = qdrant'
<1>1. /\ Open(q) /\ req[q] \in Request /\ req \in [Requests -> Request]
      /\ \A p \in Requests \ {q} : req'[p] = req[p]
      BY OwnFrame DEF IngestionInv, TypeOK
<1>2. ASSUME NEW t, Move(q, t)
      PROVE  req'[q] = t
      BY <1>1, <1>2 DEF Move
<1>3. /\ Done(req[q]).op = "done"
      /\ [Done(req[q]) EXCEPT !.op = "mark"].op = "mark"
  <2>1. Done(req[q]) \in Request /\ Done(req[q]).op = "done"
        BY <1>1, DoneType
  <2> QED  BY <2>1 DEF Request
<1>4. ASSUME NEW kinds, Note(q, kinds)
      PROVE  ~ upset /\ q \notin qdrant /\ (req[q].old = {} \/ req[q].op = "clear")
      BY <1>4, Zenon DEF Note, Touched
<1>5. ~ upset
  <2>1. CASE UNCHANGED upset
        BY <2>1
  <2>2. CASE \E kinds : Note(q, kinds)
        BY <1>4, <2>2
  <2>3. CASE NoText(q)
        BY <2>3 DEF NoText
  <2>4. UNCHANGED upset \/ (\E kinds : Note(q, kinds)) \/ NoText(q)
    <3>1. CASE CommitInsert(q) \/ CommitRetry(q) \/ CommitReindex(q) \/ LoadProcess(q)
               \/ ReadFile(q) \/ LoadReindex(q) \/ Clear(q) \/ Bump(q)
          BY <3>1 DEF CommitInsert, CommitRetry, CommitReindex, LoadProcess, ReadFile,
                      LoadReindex, Clear, Bump
    <3>2. CASE Upsert(q) \/ Flush(q) \/ Scroll(q) \/ Build(q) \/ Commit(q) \/ Refuse(q)
          BY <3>2 DEF Upsert, Flush, Scroll, Build, Commit, Refuse
    <3>3. CASE Fail(q) \/ Abort(q) \/ Mark(q)
          BY <3>3 DEF Fail, Abort, Mark
    <3> QED  BY <3>1, <3>2, <3>3 DEF OwnStep, Work
  <2> QED  BY <2>1, <2>2, <2>3, <2>4
<1>6. /\ \A p \in Requests \ {q} : ~ Open(p) /\ req'[p].op \in {"new", "done"}
      /\ req[q].op \notin Stale => bm25 = qdrant
      /\ req[q].op \in {"bump", "upsert"} /\ req[q].old = {} => bm25 = qdrant
      /\ req[q].op = "build" => req[q].hits = qdrant
  <2>1. \A p \in Requests \ {q} : ~ Open(p)
        BY <1>1, <1>5 DEF Lexical
  <2>2. \A p \in Requests \ {q} : req[p].op \in {"new", "done"}
        BY <2>1 DEF Open
  <2>3. \A p \in Requests \ {q} : req[p].op \notin Stale
        BY <2>2 DEF Stale
  <2> QED  BY <1>1, <1>5, <2>1, <2>2, <2>3 DEF Lexical
<1>7. SUFFICES /\ req'[q].op \notin Stale => bm25' = qdrant'
               /\ req'[q].op \in {"bump", "upsert"} /\ req'[q].old = {} => bm25' = qdrant'
               /\ req'[q].op = "build" => req'[q].hits = qdrant'
  <2>1. \A p, r \in Requests : Open(p)' /\ Open(r)' => p = r
        BY <1>6 DEF Open
  <2>2. \A p \in Requests \ {q} : req'[p].op \notin {"bump", "upsert", "build"}
        BY <1>6
  <2> QED  BY <1>7, <2>1, <2>2 DEF Lexical
<1>8. CASE CommitInsert(q) \/ CommitRetry(q) \/ CommitReindex(q)
  <2>1. /\ \/ req'[q] = [req[q] EXCEPT !.op = "process"]
           \/ req'[q] = [req[q] EXCEPT !.op = "reindex", !.seen = "none"]
        /\ req[q].op \in {"insert", "retry", "reopen"} /\ UNCHANGED <<qdrant, bm25>>
        BY <1>2, <1>8 DEF CommitInsert, CommitRetry, CommitReindex
  <2>2. req'[q].op \in {"process", "reindex"}
        BY <1>1, <2>1 DEF Request
  <2> QED  BY <1>6, <2>1, <2>2 DEF Stale
<1>9. CASE LoadProcess(q) \/ ReadFile(q) \/ LoadReindex(q)
  <2>1. /\ \/ req'[q] = Done(req[q])
           \/ \E seen : req'[q] = [req[q] EXCEPT !.op = "read", !.seen = seen]
           \/ \E locked : req'[q] = [req[q] EXCEPT !.op = "upsert", !.seen = "none",
                                                   !.locked = locked]
           \/ \E old : req'[q] = [req[q] EXCEPT !.op = "clear", !.old = old]
        /\ req[q].op \in {"process", "read", "reindex"} /\ UNCHANGED <<qdrant, bm25>>
        BY <1>2, <1>9 DEF LoadProcess, ReadFile, LoadReindex
  <2>2. req'[q].op \in {"done", "read", "upsert", "clear"}
        BY <1>1, <1>3, <2>1 DEF Request
  <2> QED  BY <1>6, <2>1, <2>2 DEF Stale
<1>10. CASE Clear(q)
  <2>1. /\ req'[q] = [req[q] EXCEPT !.op = "bump"] /\ req[q].op = "clear"
        /\ qdrant' = qdrant \ req[q].old /\ UNCHANGED bm25
        BY <1>2, <1>10 DEF Clear
  <2>2. req'[q].op = "bump" /\ req'[q].old = req[q].old
        BY <1>1, <2>1 DEF Request
  <2>3. req'[q].old = {} => qdrant' = qdrant
        BY <2>1, <2>2
  <2> QED  BY <1>6, <2>1, <2>2, <2>3 DEF Stale
<1>11. CASE Bump(q)
  <2>1. /\ req'[q] = [req[q] EXCEPT !.op = "upsert", !.locked = TRUE]
        /\ req[q].op = "bump" /\ UNCHANGED <<qdrant, bm25>>
        BY <1>2, <1>11 DEF Bump
  <2>2. req'[q].op = "upsert" /\ req'[q].old = req[q].old
        BY <1>1, <2>1 DEF Request
  <2> QED  BY <1>6, <2>1, <2>2 DEF Stale
<1>12. CASE NoText(q)
  <2>1. /\ req'[q] = Done(req[q]) /\ req[q].op = "bump" /\ UNCHANGED <<qdrant, bm25>>
        /\ req[q].old = {}
        BY <1>2, <1>12 DEF NoText
  <2> QED  BY <1>3, <1>6, <2>1
<1>13. CASE Upsert(q)
  <2>1. req'[q] = [req[q] EXCEPT !.op = "flush"]
        BY <1>2, <1>13 DEF Upsert
  <2>2. req'[q].op = "flush"
        BY <1>1, <2>1 DEF Request
  <2> QED  BY <2>2 DEF Stale
<1>14. CASE Flush(q)
  <2>1. req'[q] = [req[q] EXCEPT !.op = "scroll", !.locked = TRUE]
        BY <1>2, <1>14 DEF Flush
  <2>2. req'[q].op = "scroll"
        BY <1>1, <2>1 DEF Request
  <2> QED  BY <2>2 DEF Stale
<1>15. CASE Scroll(q)
  <2>1. req'[q] = [req[q] EXCEPT !.op = "build", !.hits = qdrant] /\ UNCHANGED qdrant
        BY <1>2, <1>15 DEF Scroll
  <2>2. req'[q].op = "build" /\ req'[q].hits = qdrant'
        BY <1>1, <2>1 DEF Request
  <2> QED  BY <2>2 DEF Stale
<1>16. CASE Build(q)
  <2>1. /\ req'[q] = [req[q] EXCEPT !.op = "commit", !.hits = {}] /\ req[q].op = "build"
        /\ bm25' = req[q].hits /\ UNCHANGED qdrant
        BY <1>2, <1>16 DEF Build
  <2>2. req'[q].op = "commit"
        BY <1>1, <2>1 DEF Request
  <2> QED  BY <1>6, <2>1, <2>2
<1>17. CASE Commit(q) \/ Mark(q) \/ Refuse(q)
  <2>1. /\ req'[q] = Done(req[q]) /\ UNCHANGED <<qdrant, bm25>>
        /\ req[q].op \in {"commit", "mark", "insert", "retry", "reopen"}
        BY <1>2, <1>17 DEF Commit, Mark, Refuse
  <2> QED  BY <1>3, <1>6, <2>1 DEF Stale
<1>18. CASE Fail(q) \/ Abort(q)
  <2>1. /\ \/ req'[q] = Done(req[q])
           \/ req'[q] = [Done(req[q]) EXCEPT !.op = "mark"]
        /\ UNCHANGED <<qdrant, bm25>> /\ Note(q, {})
        BY <1>2, <1>18 DEF Fail, Abort
  <2>2. req[q].op \notin {"flush", "scroll", "build", "commit"}
        BY <1>4, <2>1 DEF IngestionInv, Embedded
  <2>3. bm25 = qdrant
    <3>1. CASE req[q].op \in {"bump", "upsert"}
          BY <1>4, <1>6, <2>1, <3>1
    <3>2. CASE req[q].op \notin {"bump", "upsert"}
          BY <1>6, <2>2, <3>2 DEF Stale
    <3> QED  BY <3>1, <3>2
  <2> QED  BY <1>3, <2>1, <2>3
<1> QED
  BY <1>8, <1>9, <1>10, <1>11, <1>12, <1>13, <1>14, <1>15, <1>16, <1>17, <1>18
     DEF OwnStep, Work

LEMMA OtherLexical ==
    ASSUME IngestionInv, Lexical,
           \/ \E q \in Requests : BeginUpload(q) \/ BeginReindex(q) \/ Delete(q)
           \/ Crash
    PROVE  Lexical'
<1> SUFFICES ASSUME ~ upset' PROVE Lexical'
    BY DEF Lexical
<1> USE DEF IngestionInv
<1>1. ASSUME NEW q \in Requests, BeginUpload(q) \/ BeginReindex(q)
      PROVE  Lexical'
  <2>1. PICK t : Begin(q, t)
        BY <1>1 DEF BeginUpload, BeginReindex
  <2>2. ~ upset /\ ~ \E p \in Requests : Open(p)
        BY <2>1, Zenon DEF Begin
  <2>3. \A p \in Requests : req[p].op \in {"new", "done"}
        BY <2>2 DEF Open
  <2>4. bm25' = qdrant'
        BY <2>1, <2>2, <2>3 DEF Lexical, Begin, Stale
  <2>5. Begun(q)
        BY <1>1, BeginSteps
  <2>6. /\ \A p \in Requests \ {q} : req'[p] = req[p]
        /\ req'[q].op \in {"insert", "retry", "reopen"}
        BY <2>5 DEF Begun, TypeOK
  <2>7. \A p \in Requests : req'[p].op # "build"
        BY <2>3, <2>6
  <2>8. \A p, r \in Requests : Open(p)' /\ Open(r)' => p = r
        BY <2>3, <2>6 DEF Open
  <2> QED  BY <2>4, <2>7, <2>8 DEF Lexical
<1>2. ASSUME NEW q \in Requests, Delete(q)
      PROVE  Lexical'
  <2>1. /\ req[q] = New /\ UNCHANGED <<qdrant, bm25, upset>>
        /\ req' = [req EXCEPT ![q] = Done(New)]
        BY <1>2 DEF Delete, IsNext, Move
  <2>2. Done(New).op = "done" /\ New.op = "new"
        BY NewType, DoneType DEF New
  <2>3. /\ req'[q].op = "done" /\ req[q].op = "new"
        /\ \A p \in Requests \ {q} : req'[p] = req[p]
        BY <2>1, <2>2 DEF TypeOK
  <2>4. \A p \in Requests : \/ req'[p] = req[p]
                            \/ req'[p].op = "done" /\ req[p].op = "new"
        BY <2>3
  <2>5. \A p \in Requests : Open(p)' => Open(p)
        BY <2>4 DEF Open
  <2>6. (\A p \in Requests : req'[p].op \notin Stale) =>
            (\A p \in Requests : req[p].op \notin Stale)
        BY <2>4 DEF Stale
  <2>7. \A p \in Requests : req'[p].op \in {"bump", "upsert", "build"} => req'[p] = req[p]
        BY <2>4
  <2> QED  BY <2>1, <2>5, <2>6, <2>7 DEF Lexical
<1>3. ASSUME Crash
      PROVE  Lexical'
  <2>1. /\ UNCHANGED <<qdrant, bm25>>
        /\ req' = [q \in Requests |-> IF Open(q) THEN Done(req[q]) ELSE req[q]]
        BY <1>3 DEF Crash
  <2>2. \A q \in Requests : req'[q].op \in {"new", "done"}
        BY <2>1, DoneType DEF Open, TypeOK
  <2>3. ~ upset /\ \A q \in Requests : Open(q) => ~ Touched(q)
    <3>1. upset' = (upset \/ \E q \in {q \in Requests : Open(q)} : Touched(q))
          BY <1>3 DEF Crash
    <3> QED  BY <3>1, Zenon
  <2>4. \A q \in Requests : Open(q) =>
            q \notin qdrant /\ (req[q].old = {} \/ req[q].op = "clear")
        BY <2>3, Zenon DEF Touched
  <2>5. bm25 = qdrant
    <3>1. CASE \E q \in Requests : req[q].op \in Stale
      <4>1. PICK q \in Requests : req[q].op \in Stale
            BY <3>1
      <4>2. q \notin qdrant /\ (req[q].old = {} \/ req[q].op = "clear")
            BY <2>4, <4>1 DEF Open, Stale
      <4>3. req[q].op \in {"bump", "upsert"} /\ req[q].old = {}
            BY <4>1, <4>2 DEF Embedded, Stale
      <4> QED  BY <2>3, <4>3 DEF Lexical
    <3>2. CASE ~ \E q \in Requests : req[q].op \in Stale
          BY <2>3, <3>2 DEF Lexical
    <3> QED  BY <3>1, <3>2
  <2> QED  BY <2>1, <2>2, <2>5 DEF Lexical, Open
<1> QED  BY <1>1, <1>2, <1>3

\* When nothing is under way and nothing has gone wrong, the BM25 index is over
\* the points of the collection, however many documents were indexed, indexed
\* again or deleted before.
THEOREM LexicalIndexAgrees == Spec => []LexicalAgrees
<1>1. Init => Lexical
  <2>1. Init => \A q \in Requests : req[q].op = "new"
        BY DEF Init, New
  <2> QED  BY <2>1 DEF Init, Lexical, Open
<1>2. IngestionInv /\ Lexical /\ [Next]_vars => Lexical'
  <2> SUFFICES ASSUME IngestionInv, Lexical, [Next]_vars PROVE Lexical'
      OBVIOUS
  <2>1. CASE Next
    <3>1. ASSUME NEW q \in Requests, Work(q) \/ Abort(q) \/ Refuse(q)
          PROVE  Lexical'
          BY <3>1, OwnLexical DEF OwnStep
    <3> QED  BY <2>1, <3>1, OtherLexical DEF Next
  <2>2. CASE UNCHANGED vars
        BY <2>2 DEF vars, Lexical, Open
  <2> QED  BY <2>1, <2>2
<1>3. Lexical => LexicalAgrees
  <2>1. \A q \in Requests : ~ Open(q) => req[q].op \notin Stale
        BY DEF Open, Stale
  <2> QED  BY <2>1 DEF Lexical, LexicalAgrees
<1> QED  BY <1>1, <1>2, <1>3, Invariance, PTL DEF Spec
=============================================================================
