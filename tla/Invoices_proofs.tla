--------------------------- MODULE Invoices_proofs ---------------------------
(***************************************************************************)
(* Proofs for Invoices: its type invariant and its safety properties.  A   *)
(* row that is EXTRACTED never changes again (RowsKept), so whatever a     *)
(* check, a request or a record says of such a row stays true.             *)
(***************************************************************************)
EXTENDS Invoices, FiniteSetTheorems, TLAPS

Dup == At("DUPLICATE_INVOICE_NUMBER", "invoice")

-----------------------------------------------------------------------------
(* The rules of InvoiceValidation. *)

LEMMA BlankIsFields == Blank \in Fields
  BY DEF Blank, Fields, Gstin

\* What the parts of the issues are.
LEMMA IssuesTyped ==
  ASSUME NEW inv \in Fields, NEW duplicate \in BOOLEAN
  PROVE  Issues(inv, duplicate) \in SUBSET Issue
<1>1. inv.taxOff \in SUBSET Lines
  BY DEF Fields
<1>2. {[code |-> "TAX_ARITHMETIC_MISMATCH", field |-> "items", line |-> n] :
          n \in inv.taxOff} \in SUBSET Issue
  BY <1>1 DEF Issue, Severity, Fieldnames
<1>3. /\ GstinIssues(inv.supplier, "supplier_gstin") \in SUBSET Issue
      /\ GstinIssues(inv.buyer, "buyer_gstin") \in SUBSET Issue
  BY DEF GstinIssues, When, At, Issue, Severity, Fieldnames
<1>4. /\ When(inv.number = NoNumber, At("INVOICE_NUMBER_MISSING", "invoice")) \in SUBSET Issue
      /\ When(duplicate, At("DUPLICATE_INVOICE_NUMBER", "invoice")) \in SUBSET Issue
      /\ When(~ inv.dated, At("INVOICE_DATE_MISSING", "invoice")) \in SUBSET Issue
      /\ When(~ inv.placed, At("PLACE_OF_SUPPLY_MISSING", "invoice")) \in SUBSET Issue
      /\ When(inv.lines = {}, At("NO_LINE_ITEMS", "items")) \in SUBSET Issue
      /\ When(inv.noHsn # {}, At("HSN_SAC_MISSING", "items")) \in SUBSET Issue
  BY DEF When, At, Issue, Severity, Fieldnames
<1> QED BY <1>2, <1>3, <1>4 DEF Issues

\* Only a duplicate is flagged as one.
LEMMA FlaggedWhenDuplicate ==
  ASSUME NEW inv, NEW duplicate \in BOOLEAN
  PROVE  Dup \in Issues(inv, duplicate) <=> duplicate
<1>1. Dup.code = "DUPLICATE_INVOICE_NUMBER"
  BY DEF Dup, At
<1>2. ASSUME NEW code, NEW field, NEW c \in BOOLEAN, code # "DUPLICATE_INVOICE_NUMBER"
      PROVE  Dup \notin When(c, At(code, field))
  BY <1>1, <1>2 DEF When, At
<1>3. ASSUME NEW gstin, NEW field PROVE Dup \notin GstinIssues(gstin, field)
  BY <1>2 DEF GstinIssues
<1>4. Dup \notin {[code |-> "TAX_ARITHMETIC_MISMATCH", field |-> "items", line |-> n] :
                     n \in inv.taxOff}
  BY <1>1
<1>5. Dup \in When(duplicate, At("DUPLICATE_INVOICE_NUMBER", "invoice")) <=> duplicate
  BY DEF When, Dup
<1>6. /\ Dup \notin When(inv.number = NoNumber, At("INVOICE_NUMBER_MISSING", "invoice"))
      /\ Dup \notin When(~ inv.dated, At("INVOICE_DATE_MISSING", "invoice"))
      /\ Dup \notin When(~ inv.placed, At("PLACE_OF_SUPPLY_MISSING", "invoice"))
      /\ Dup \notin When(inv.lines = {}, At("NO_LINE_ITEMS", "items"))
      /\ Dup \notin When(inv.noHsn # {}, At("HSN_SAC_MISSING", "items"))
  BY <1>2
<1> QED BY <1>3, <1>4, <1>5, <1>6 DEF Issues

LEMMA WhenFinite ==
  ASSUME NEW c, NEW i PROVE IsFiniteSet(When(c, i))
  BY FS_EmptySet, FS_Singleton DEF When

LEMMA UnionFinite ==
  ASSUME NEW S, IsFiniteSet(S), NEW T, IsFiniteSet(T)
  PROVE  IsFiniteSet(S \cup T)
  BY FS_Union

LEMMA GstinFinite ==
  ASSUME NEW g, NEW f PROVE IsFiniteSet(GstinIssues(g, f))
  BY WhenFinite, UnionFinite DEF GstinIssues

LEMMA IssuesFinite ==
  ASSUME NEW inv \in Fields, NEW duplicate \in BOOLEAN
  PROVE  IsFiniteSet(Issues(inv, duplicate))
<1> DEFINE off == {[code |-> "TAX_ARITHMETIC_MISMATCH", field |-> "items", line |-> n] :
                      n \in inv.taxOff}
           of == [n \in inv.taxOff |->
                     [code |-> "TAX_ARITHMETIC_MISMATCH", field |-> "items", line |-> n]]
<1>1. IsFiniteSet(off)
  <2>1. IsFiniteSet(inv.taxOff)
    BY ValidationAssumption, FS_Subset DEF Fields
  <2>2. of \in Surjection(inv.taxOff, off)
    BY DEF Surjection
  <2> QED BY <2>1, <2>2, FS_Surjection
<1> DEFINE p1 == GstinIssues(inv.supplier, "supplier_gstin")
           p2 == GstinIssues(inv.buyer, "buyer_gstin")
           p3 == When(inv.number = NoNumber, At("INVOICE_NUMBER_MISSING", "invoice"))
           p4 == When(duplicate, At("DUPLICATE_INVOICE_NUMBER", "invoice"))
           p5 == When(~ inv.dated, At("INVOICE_DATE_MISSING", "invoice"))
           p6 == When(~ inv.placed, At("PLACE_OF_SUPPLY_MISSING", "invoice"))
           p7 == When(inv.lines = {}, At("NO_LINE_ITEMS", "items"))
           p8 == When(inv.noHsn # {}, At("HSN_SAC_MISSING", "items"))
<1>2. /\ IsFiniteSet(p1) /\ IsFiniteSet(p2) /\ IsFiniteSet(p3) /\ IsFiniteSet(p4)
      /\ IsFiniteSet(p5) /\ IsFiniteSet(p6) /\ IsFiniteSet(p7) /\ IsFiniteSet(p8)
  BY WhenFinite, GstinFinite
<1>3. Issues(inv, duplicate) =
        ((p1 \cup p2) \cup (p3 \cup p4)) \cup ((p5 \cup p6) \cup (p7 \cup p8)) \cup off
  BY DEF Issues
<1> HIDE DEF p1, p2, p3, p4, p5, p6, p7, p8, off
<1>4. IsFiniteSet(p1 \cup p2) /\ IsFiniteSet(p3 \cup p4)
  BY <1>2, UnionFinite
<1>5. IsFiniteSet(p5 \cup p6) /\ IsFiniteSet(p7 \cup p8)
  BY <1>2, UnionFinite
<1>6. IsFiniteSet((p1 \cup p2) \cup (p3 \cup p4))
  BY <1>4, UnionFinite
<1>7. IsFiniteSet((p5 \cup p6) \cup (p7 \cup p8))
  BY <1>5, UnionFinite
<1>8. IsFiniteSet(((p1 \cup p2) \cup (p3 \cup p4)) \cup ((p5 \cup p6) \cup (p7 \cup p8)))
  BY <1>6, <1>7, UnionFinite
<1> QED BY <1>1, <1>3, <1>8, UnionFinite

LEMMA OneMore ==
  ASSUME NEW S, IsFiniteSet(S), NEW x
  PROVE  /\ IsFiniteSet(S \cup {x})
         /\ Cardinality(S) \in Nat /\ Cardinality(S \cup {x}) \in Nat
         /\ Cardinality(S \cup {x}) <= Cardinality(S) + 1
<1>1. IsFiniteSet(S \cup {x})
  BY FS_AddElement
<1>2. Cardinality(S) \in Nat /\ Cardinality(S \cup {x}) \in Nat
  BY <1>1, FS_CardinalityType
<1>3. Cardinality(S \cup {x}) = IF x \in S THEN Cardinality(S) ELSE Cardinality(S) + 1
  BY FS_AddElement
<1> QED BY <1>1, <1>2, <1>3

LEMMA AtMostNine ==
  ASSUME NEW x1, NEW x2, NEW x3, NEW x4, NEW x5, NEW x6, NEW x7, NEW x8, NEW x9,
         NEW S, S = {x1, x2, x3, x4, x5, x6, x7, x8, x9}
  PROVE  IsFiniteSet(S) /\ Cardinality(S) <= 9
<1> DEFINE s1 == {x1}
           s2 == s1 \cup {x2}
           s3 == s2 \cup {x3}
           s4 == s3 \cup {x4}
           s5 == s4 \cup {x5}
           s6 == s5 \cup {x6}
           s7 == s6 \cup {x7}
           s8 == s7 \cup {x8}
           s9 == s8 \cup {x9}
<1>1. IsFiniteSet(s1) /\ Cardinality(s1) <= 1
  <2>1. \A x : IsFiniteSet({x}) /\ Cardinality({x}) = 1
    BY FS_Singleton
  <2> QED BY <2>1
<1>10. S = s9
  OBVIOUS
<1> HIDE DEF s1
<1>2. IsFiniteSet(s2) /\ Cardinality(s2) <= 2
  <2>1. /\ IsFiniteSet(s2) /\ Cardinality(s1) \in Nat /\ Cardinality(s2) \in Nat
        /\ Cardinality(s2) <= Cardinality(s1) + 1
    BY <1>1, OneMore
  <2> HIDE DEF s2
  <2> QED BY <1>1, <2>1
<1> HIDE DEF s2
<1>3. IsFiniteSet(s3) /\ Cardinality(s3) <= 3
  BY <1>2, OneMore
<1> HIDE DEF s3
<1>4. IsFiniteSet(s4) /\ Cardinality(s4) <= 4
  BY <1>3, OneMore
<1> HIDE DEF s4
<1>5. IsFiniteSet(s5) /\ Cardinality(s5) <= 5
  BY <1>4, OneMore
<1> HIDE DEF s5
<1>6. IsFiniteSet(s6) /\ Cardinality(s6) <= 6
  BY <1>5, OneMore
<1> HIDE DEF s6
<1>7. IsFiniteSet(s7) /\ Cardinality(s7) <= 7
  BY <1>6, OneMore
<1> HIDE DEF s7
<1>8. IsFiniteSet(s8) /\ Cardinality(s8) <= 8
  BY <1>7, OneMore
<1> HIDE DEF s8
<1>9. IsFiniteSet(s9) /\ Cardinality(s9) <= 9
  BY <1>8, OneMore
<1> HIDE DEF s9
<1> QED BY <1>9, <1>10

\* The rules that fail are at most nine: a GSTIN is missing or malformed.
LEMMA PassedTyped ==
  ASSUME NEW inv \in Fields, NEW duplicate \in BOOLEAN
  PROVE  PassedChecks(Issues(inv, duplicate)) \in 0..10
<1> DEFINE failed == {<<i.code, i.field>> : i \in Issues(inv, duplicate)}
           Of(gstin) == IF gstin = "missing" THEN "GSTIN_MISSING" ELSE "GSTIN_INVALID_FORMAT"
           x1 == <<Of(inv.supplier), "supplier_gstin">>
           x2 == <<Of(inv.buyer), "buyer_gstin">>
           x3 == <<"INVOICE_NUMBER_MISSING", "invoice">>
           x4 == <<"DUPLICATE_INVOICE_NUMBER", "invoice">>
           x5 == <<"INVOICE_DATE_MISSING", "invoice">>
           x6 == <<"PLACE_OF_SUPPLY_MISSING", "invoice">>
           x7 == <<"NO_LINE_ITEMS", "items">>
           x8 == <<"HSN_SAC_MISSING", "items">>
           x9 == <<"TAX_ARITHMETIC_MISMATCH", "items">>
           all == {x1, x2, x3, x4, x5, x6, x7, x8, x9}
<1>1. ASSUME NEW i \in Issues(inv, duplicate)
      PROVE  <<i.code, i.field>> \in all
  <2>1. CASE i \in GstinIssues(inv.supplier, "supplier_gstin")
    BY <2>1 DEF GstinIssues, When, At
  <2>2. CASE i \in GstinIssues(inv.buyer, "buyer_gstin")
    BY <2>2 DEF GstinIssues, When, At
  <2>3. CASE i \notin GstinIssues(inv.supplier, "supplier_gstin")
               \cup GstinIssues(inv.buyer, "buyer_gstin")
    BY <2>3 DEF Issues, When, At
  <2> QED BY <2>1, <2>2, <2>3
<1> HIDE DEF x1, x2, x3, x4, x5, x6, x7, x8, x9
<1>2. IsFiniteSet(all) /\ Cardinality(all) <= 9
  <2> DEFINE S == all
  <2>1. S = {x1, x2, x3, x4, x5, x6, x7, x8, x9}
    OBVIOUS
  <2> HIDE DEF S
  <2>2. IsFiniteSet(S) /\ Cardinality(S) <= 9
    BY <2>1, AtMostNine
  <2> QED BY <2>2 DEF S
<1> HIDE DEF all
<1>3. failed \in SUBSET all
  BY <1>1
<1> HIDE DEF failed
<1>4. IsFiniteSet(failed) /\ Cardinality(failed) <= Cardinality(all)
  BY <1>2, <1>3, FS_Subset
<1>5. Cardinality(failed) \in Nat /\ Cardinality(all) \in Nat
  BY <1>2, <1>4, FS_CardinalityType
<1>6. 10 - Cardinality(failed) \in 0..10
  BY <1>2, <1>4, <1>5
<1> QED BY <1>6 DEF PassedChecks, failed

LEMMA ScoreTyped ==
  ASSUME NEW issues, IsFiniteSet(issues)
  PROVE  /\ Score(issues) \in 0..100
         /\ ReportStatus(issues) \in {"PASSED", "WARNING", "FAILED"}
<1>1. \A severity : Cardinality(Graver(issues, severity)) \in Nat
  BY FS_Subset, FS_CardinalityType DEF Graver
<1>2. Penalty(issues) \in Nat
  BY <1>1 DEF Penalty
<1>3. Score(issues) \in 0..100
  BY <1>2 DEF Score
<1> QED BY <1>3 DEF ReportStatus

LEMMA CheckTyped ==
  ASSUME NEW i \in Invoices, NEW by \in Requests \cup {Upload}, NEW fields \in Fields
  PROVE  /\ CheckOf(i, by, fields) \in Check
         /\ CheckOf(i, by, fields).invoice = i
         /\ CheckOf(i, by, fields).number = fields.number
         /\ CheckOf(i, by, fields).issues = Issues(fields, IsDuplicate(i, fields.number))
<1> DEFINE duplicate == IsDuplicate(i, fields.number)
           issues == Issues(fields, duplicate)
<1>1. duplicate \in BOOLEAN
  BY DEF IsDuplicate
<1> HIDE DEF duplicate
<1>2. issues \in SUBSET Issue
  BY <1>1, IssuesTyped
<1>3. Score(issues) \in 0..100 /\ ReportStatus(issues) \in {"PASSED", "WARNING", "FAILED"}
  BY <1>1, IssuesFinite, ScoreTyped
<1>4. PassedChecks(issues) \in 0..10
  BY <1>1, PassedTyped
<1>5. fields.number \in Numbers \cup {NoNumber}
  BY DEF Fields
<1>6. CheckOf(i, by, fields) =
        [invoice |-> i, by |-> by, number |-> fields.number, issues |-> issues,
         score |-> Score(issues), passed |-> PassedChecks(issues),
         status |-> ReportStatus(issues)]
  BY DEF CheckOf, duplicate
<1> HIDE DEF issues
<1>7. CheckOf(i, by, fields) \in Check
  BY <1>2, <1>3, <1>4, <1>5, <1>6 DEF Check
<1>8. CheckOf(i, by, fields).issues = issues
  BY <1>6
<1> QED BY <1>6, <1>7, <1>8 DEF issues, duplicate

-----------------------------------------------------------------------------
(* The inductive invariant. *)

\* Another invoice is EXTRACTED with this number.
Twin(i, n) ==
    /\ n # NoNumber
    /\ \E j \in Invoices \ {i} : row[j].status = "extracted" /\ row[j].fields.number = n

\* What a check says of rows.
Sound(c) == Dup \in c.issues => Twin(c.invoice, c.number)
Shown(c) == c.number # NoNumber => /\ row[c.invoice].status = "extracted"
                                   /\ row[c.invoice].fields.number = c.number

Covers(c, i, fields) ==
    /\ c.invoice = i /\ c.number = fields.number
    /\ \E duplicate \in BOOLEAN : c.issues = Issues(fields, duplicate)

\* A row has fields only when it is EXTRACTED, and then its task is over.
RowOk(i) ==
    /\ row[i].fields # Blank => row[i].status = "extracted"
    /\ row[i].status = "none" => task[i].op = "none"
    /\ row[i].status = "extracted" => task[i].op = "done"

TaskOk(i) ==
    /\ task[i].op \in {"none", "queued", "loaded", "mark", "done"} =>
          task[i].fields = Blank /\ task[i].check = {}
    /\ task[i].op = "extracted" => task[i].status = "extracted" /\ task[i].check = {}
    /\ task[i].op = "checked" =>
          \/ /\ task[i].status \in {"failed", "needs_review"}
             /\ task[i].fields = Blank /\ task[i].check = {}
          \/ /\ task[i].status = "extracted"
             /\ \E c \in Check : /\ task[i].check = {c}
                                 /\ Covers(c, i, task[i].fields) /\ Sound(c)

\* What a request has loaded that could give credit or a number is a row for good.
SeenOk(q, i) ==
    /\ req[q].seen[i].number # NoNumber =>
          /\ row[i].status = "extracted"
          /\ row[i].fields.number = req[q].seen[i].number
    /\ req[q].seen[i].supplier = "valid" /\ req[q].seen[i].taxed =>
          /\ row[i].status = "extracted"
          /\ row[i].fields.supplier = "valid"
          /\ row[i].fields.taxed

MadeOk(q) == \A c \in req[q].made : Sound(c) /\ Shown(c)
ChecksOk == \A c \in checks : Sound(c) /\ Shown(c)

\* Invoice i has been checked by its upload with number n, and has been flagged.
Known(i, n) ==
    \/ row[i].status = "extracted" /\ row[i].fields.number = n
    \/ task[i].op = "checked" /\ task[i].fields.number = n
Told(i) == \E c \in checks \cup task[i].check : c.invoice = i /\ Dup \in c.issues

PairOk(i, j) ==
    \A n \in Numbers :
        i # j /\ Known(i, n) /\ Known(j, n) =>
            Told(i) \/ Told(j) \/ {i, j} \in raced

RowsOk == \A i \in Invoices : RowOk(i) /\ TaskOk(i)
RequestsOk == \A q \in Requests : MadeOk(q) /\ \A i \in Invoices : SeenOk(q, i)
PairsOk == \A i, j \in Invoices : PairOk(i, j)

Inv == /\ TypeOK
       /\ RowsOk
       /\ RequestsOk
       /\ ChecksOk
       /\ PairsOk
       /\ ExtractedIsChecked
       /\ CreditNeedsEvidence

\* What a step may do to a row.
Kept == \A i \in Invoices : row[i].status = "extracted" => row'[i] = row[i]

-----------------------------------------------------------------------------
(* The types. *)

LEMMA TypesInit == Init => TypeOK
<1> SUFFICES ASSUME Init PROVE TypeOK
  OBVIOUS
<1>1. row \in [Invoices -> Invoice]
  BY BlankIsFields DEF Init, Invoice
<1>2. task \in [Invoices -> Task]
  BY BlankIsFields DEF Init, NoTask, Task
<1>3. req \in [Requests -> Request]
  BY BlankIsFields DEF Init, New, Request
<1> QED BY <1>1, <1>2, <1>3 DEF Init, TypeOK

LEMMA TaskOver ==
  /\ [NoTask EXCEPT !.op = "done"] \in Task
  /\ [NoTask EXCEPT !.op = "mark"] \in Task
  /\ [NoTask EXCEPT !.op = "done"].op = "done"
  /\ [NoTask EXCEPT !.op = "mark"].op = "mark"
  /\ \A op \in {"done", "mark"} : /\ [NoTask EXCEPT !.op = op].fields = Blank
                                  /\ [NoTask EXCEPT !.op = op].check = {}
  BY BlankIsFields DEF NoTask, Task

LEMMA RequestOver ==
  /\ Done \in Request
  /\ Done.op = "done" /\ Done.made = {} /\ Done.seen = [i \in Invoices |-> Blank]
  BY BlankIsFields DEF Done, New, Request

LEMMA WithLinesTyped ==
  ASSUME NEW columns \in Fields, NEW fields \in Fields
  PROVE  /\ WithLines(columns, fields) \in Fields
         /\ WithLines(columns, fields).number = columns.number
         /\ WithLines(columns, fields).supplier = columns.supplier
         /\ WithLines(columns, fields).taxed = columns.taxed
  BY DEF WithLines, Fields

LEMMA TaskEdits ==
  ASSUME NEW t \in Task, NEW status \in InvoiceStatus, NEW fields \in Fields,
         NEW check \in SUBSET Check,
         NEW op \in {"queued", "loaded", "extracted", "checked"}
  PROVE  /\ [t EXCEPT !.op = op] \in Task
         /\ [t EXCEPT !.op = op, !.status = status] \in Task
         /\ [t EXCEPT !.op = op, !.fields = fields, !.status = status] \in Task
         /\ [t EXCEPT !.op = op, !.check = check] \in Task
  BY DEF Task

LEMMA RequestEdits ==
  ASSUME NEW r \in Request, NEW seen \in [Invoices -> Fields],
         NEW todo \in SUBSET Invoices, NEW made \in SUBSET Check
  PROVE  /\ [r EXCEPT !.items = TRUE, !.seen = seen] \in Request
         /\ [r EXCEPT !.todo = todo, !.made = made] \in Request
  BY DEF Request

\* The invoice part of the types, step by step.
LEMMA WorkTyped ==
  ASSUME TypeOK, NEW i \in Invoices, UploadInvoice(i) \/ Work(i) \/ Abort(i)
  PROVE  TypeOK'
<1> USE DEF TypeOK
<1>1. CASE UploadInvoice(i)
  BY <1>1 DEF UploadInvoice, Invoice, InvoiceStatus, Task
<1>0. task[i] \in Task /\ task \in [Invoices -> Task]
  OBVIOUS
<1>2. CASE Load(i)
  <2>1. [task[i] EXCEPT !.op = "loaded", !.status = "processing"] \in Task
    BY <1>0, TaskEdits, BlankIsFields DEF InvoiceStatus
  <2> QED BY <1>2, <2>1 DEF Load
<1>3. CASE ExtractInto(i)
  <2>1. ASSUME NEW status \in {"failed", "needs_review"}
        PROVE  [task[i] EXCEPT !.op = "checked", !.status = status] \in Task
    BY <1>0, TaskEdits, BlankIsFields DEF InvoiceStatus
  <2>2. ASSUME NEW f \in Readings
        PROVE  [task[i] EXCEPT !.op = "extracted", !.fields = f,
                               !.status = "extracted"] \in Task
    BY <1>0, TaskEdits, InvoicesAssumption DEF InvoiceStatus
  <2>3. task' \in [Invoices -> Task]
    BY <1>0, <1>3, <2>1, <2>2 DEF ExtractInto
  <2> QED BY <1>3, <2>3 DEF ExtractInto
<1>4. CASE RunCheck(i)
  <2>1. task[i].fields \in Fields
    BY <1>0 DEF Task
  <2> DEFINE c == CheckOf(i, Upload, task[i].fields)
  <2>2. c \in Check
    BY <2>1, CheckTyped
  <2>3. task' = [task EXCEPT ![i] = [task[i] EXCEPT !.op = "checked", !.check = {c}]]
    BY <1>4 DEF RunCheck
  <2> HIDE DEF c
  <2>4. [task[i] EXCEPT !.op = "checked", !.check = {c}] \in Task
    BY <1>0, <2>2, TaskEdits, BlankIsFields DEF InvoiceStatus
  <2>5. Unseen(i, task[i].fields.number) \subseteq SUBSET Invoices
    BY DEF Unseen
  <2> QED BY <1>4, <2>3, <2>4, <2>5 DEF RunCheck
<1>5. CASE Commit(i)
  <2>1. /\ task[i].fields \in Fields /\ task[i].check \in SUBSET Check
        /\ task[i].status \in InvoiceStatus \cup {"none"}
    BY DEF Task
  <2>2. [status |-> task[i].status, fields |-> task[i].fields] \in Invoice
    BY <2>1 DEF Invoice
  <2> QED BY <1>5, <2>1, <2>2, TaskOver DEF Commit
<1>6. CASE Mark(i)
  <2>1. row' \in [Invoices -> Invoice]
    BY <1>6 DEF Mark, Invoice, InvoiceStatus
  <2>2. lost' \subseteq Invoices
    BY <1>6 DEF Mark
  <2> QED BY <1>6, <2>1, <2>2, TaskOver DEF Mark
<1>7. CASE Abort(i)
  BY <1>7, TaskOver DEF Abort
<1> QED BY <1>1, <1>2, <1>3, <1>4, <1>5, <1>6, <1>7 DEF Work

RequestStep(q) == \/ BeginCheck(q) \/ BeginAnalyze(q) \/ BeginITC(q) \/ BeginScan(q)
                  \/ LoadItems(q) \/ CheckNext(q)
                  \/ CommitChecks(q) \/ CommitAnalysis(q) \/ CommitITC(q) \/ Fail(q)

\* The four ways to begin.
LEMMA Beginnings ==
  ASSUME TypeOK, NEW q \in Requests,
         BeginCheck(q) \/ BeginAnalyze(q) \/ BeginITC(q) \/ BeginScan(q)
  PROVE  \E op \in {"check", "analyze", "itc", "scan"}, S \in SUBSET Invoices : Begin(q, op, S)
<1>1. CASE BeginCheck(q)
  BY <1>1 DEF BeginCheck
<1>2. CASE BeginAnalyze(q)
  BY <1>2 DEF BeginAnalyze
<1>3. CASE BeginITC(q)
  BY <1>3 DEF BeginITC
<1>4. CASE BeginScan(q)
  BY <1>4 DEF BeginScan, Unchecked
<1> QED BY <1>1, <1>2, <1>3, <1>4

LEMMA RequestTyped ==
  ASSUME TypeOK, NEW q \in Requests, RequestStep(q)
  PROVE  TypeOK'
<1> USE DEF TypeOK
<1>1. /\ req[q] \in Request /\ req[q].todo \in SUBSET Invoices
      /\ req[q].seen \in [Invoices -> Fields] /\ req[q].made \in SUBSET Check
  BY DEF Request
<1>2. \A i \in Invoices : row[i].fields \in Fields
  BY DEF Invoice
<1>3. CASE BeginCheck(q) \/ BeginAnalyze(q) \/ BeginITC(q) \/ BeginScan(q)
  <2>1. PICK op \in {"check", "analyze", "itc", "scan"}, S \in SUBSET Invoices : Begin(q, op, S)
    BY <1>3, Beginnings
  <2>2. [op |-> op, todo |-> S, items |-> FALSE, made |-> {},
         seen |-> [i \in Invoices |-> IF i \in S THEN row[i].fields ELSE Blank]] \in Request
    BY <1>2, BlankIsFields DEF Request
  <2> QED BY <2>1, <2>2 DEF Begin
<1>4. CASE LoadItems(q)
  <2> DEFINE seen == [i \in Invoices |-> IF i \in req[q].todo
                                         THEN WithLines(req[q].seen[i], row[i].fields)
                                         ELSE Blank]
  <2>1. seen \in [Invoices -> Fields]
    BY <1>1, <1>2, WithLinesTyped, BlankIsFields
  <2>2. req' = [req EXCEPT ![q] = [req[q] EXCEPT !.items = TRUE, !.seen = seen]]
    BY <1>4, Zenon DEF LoadItems
  <2> HIDE DEF seen
  <2>3. [req[q] EXCEPT !.items = TRUE, !.seen = seen] \in Request
    BY <1>1, <2>1, RequestEdits
  <2> QED BY <1>4, <2>2, <2>3 DEF LoadItems
<1>5. CASE CheckNext(q)
  <2>1. PICK i \in req[q].todo :
           /\ req' = [req EXCEPT ![q] =
                         [@ EXCEPT !.todo = req[q].todo \ {i},
                                   !.made = req[q].made
                                               \cup {CheckOf(i, q, req[q].seen[i])}]]
           /\ raced' = raced \cup Unseen(i, req[q].seen[i].number)
    BY <1>5 DEF CheckNext
  <2>2. i \in Invoices /\ req[q].seen[i] \in Fields
    BY <1>1
  <2>3. CheckOf(i, q, req[q].seen[i]) \in Check
    BY <2>2, CheckTyped
  <2>4. req' \in [Requests -> Request]
    <3> DEFINE made == req[q].made \cup {CheckOf(i, q, req[q].seen[i])}
               todo == req[q].todo \ {i}
    <3>1. req' = [req EXCEPT ![q] = [req[q] EXCEPT !.todo = todo, !.made = made]]
      BY <2>1, Zenon
    <3>2. todo \in SUBSET Invoices /\ made \in SUBSET Check
      BY <1>1, <2>3
    <3> HIDE DEF made, todo
    <3>3. [req[q] EXCEPT !.todo = todo, !.made = made] \in Request
      BY <1>1, <3>2, RequestEdits
    <3> QED BY <3>1, <3>3
  <2>5. raced' \subseteq SUBSET Invoices
    BY <2>1, <2>2 DEF Unseen
  <2> QED BY <1>5, <2>4, <2>5 DEF CheckNext
<1>6. \A i \in Invoices : RecordOf(q, i) \in ITCRecord
  BY DEF RecordOf, ITCRecord
<1>7. CASE CommitChecks(q)
  BY <1>1, <1>7, RequestOver DEF CommitChecks
<1>8. CASE CommitITC(q)
  <2>1. {RecordOf(q, i) : i \in req[q].todo} \subseteq ITCRecord
    BY <1>1, <1>6
  <2> QED BY <1>8, <2>1, RequestOver DEF CommitITC
<1>9. CASE CommitAnalysis(q)
  <2>1. PICK c \in req[q].made :
           /\ itc' = itc \cup {RecordOf(q, c.invoice)}
           /\ reviews' = reviews
                 \cup When(Blocking(c.issues),
                           [invoice |-> c.invoice, by |-> q, type |-> "compliance_exception"])
                 \cup {[invoice |-> c.invoice, by |-> q, type |-> "itc_assessment"]}
    BY <1>9 DEF CommitAnalysis
  <2>2. c.invoice \in Invoices
    BY <1>1 DEF Check
  <2>3. itc' \subseteq ITCRecord
    BY <1>6, <2>1, <2>2
  <2>4. reviews' \subseteq Review
    BY <2>1, <2>2 DEF Review, When
  <2> QED BY <1>1, <1>9, <2>3, <2>4, RequestOver DEF CommitAnalysis
<1>10. CASE Fail(q)
  BY <1>10, RequestOver DEF Fail
<1> QED BY <1>3, <1>4, <1>5, <1>7, <1>8, <1>9, <1>10 DEF RequestStep

LEMMA CrashTyped == ASSUME TypeOK, Crash PROVE TypeOK'
  BY TaskOver, RequestOver DEF TypeOK, Crash

LEMMA TypesStep == TypeOK /\ [Next]_vars => TypeOK'
<1> SUFFICES ASSUME TypeOK, [Next]_vars PROVE TypeOK'
  OBVIOUS
<1>1. CASE \E i \in Invoices : UploadInvoice(i) \/ Work(i) \/ Abort(i)
  BY <1>1, WorkTyped
<1>2. CASE \E q \in Requests : RequestStep(q)
  BY <1>2, RequestTyped
<1>3. CASE Crash
  BY <1>3, CrashTyped
<1>4. CASE UNCHANGED vars
  BY <1>4 DEF vars, TypeOK
<1> QED BY <1>1, <1>2, <1>3, <1>4 DEF Next, RequestStep

\* The types of rows, checks, tasks and requests hold in every state.
THEOREM TypeCorrect == Spec => []TypeOK
<1> QED BY TypesInit, TypesStep, PTL DEF Spec

-----------------------------------------------------------------------------
(* What stays true when EXTRACTED rows are kept. *)

LEMMA CheckKept ==
  ASSUME Kept, NEW c, c.invoice \in Invoices
  PROVE  /\ Sound(c) => Sound(c)'
         /\ Shown(c) => Shown(c)'
  BY DEF Kept, Sound, Shown, Twin

LEMMA ChecksKept ==
  ASSUME TypeOK, ChecksOk, Kept, NEW c \in checks
  PROVE  Sound(c)' /\ Shown(c)'
<1>1. c.invoice \in Invoices
  BY DEF TypeOK, Check
<1> QED BY <1>1, CheckKept DEF ChecksOk

LEMMA MadeKept ==
  ASSUME TypeOK, Kept, NEW q \in Requests, MadeOk(q), NEW c \in req[q].made
  PROVE  Sound(c)' /\ Shown(c)'
<1>1. c.invoice \in Invoices
  BY DEF TypeOK, Check, Request
<1> QED BY <1>1, CheckKept DEF MadeOk

LEMMA TaskKept ==
  ASSUME TypeOK, Kept, NEW i \in Invoices, TaskOk(i), task'[i] = task[i]
  PROVE  TaskOk(i)'
<1>1. CASE task[i].op # "checked" \/ task[i].status # "extracted"
  BY <1>1 DEF TaskOk
<1>2. CASE task[i].op = "checked" /\ task[i].status = "extracted"
  <2>1. PICK c \in Check : /\ task[i].check = {c}
                           /\ Covers(c, i, task[i].fields) /\ Sound(c)
    BY <1>2 DEF TaskOk
  <2>2. Sound(c)'
    BY <2>1, CheckKept DEF Check
  <2>3. Covers(c, i, task'[i].fields)
    BY <2>1
  <2> QED BY <1>2, <2>1, <2>2, <2>3 DEF TaskOk, Covers
<1> QED BY <1>1, <1>2

LEMMA SeenKept ==
  ASSUME Kept, NEW q \in Requests, NEW i \in Invoices, SeenOk(q, i),
         req'[q].seen[i] = req[q].seen[i]
  PROVE  SeenOk(q, i)'
  BY DEF Kept, SeenOk

\* A request that is over, or has not begun, holds nothing.
LEMMA NothingHeld ==
  ASSUME NEW q \in Requests, req'[q] = Done
  PROVE  MadeOk(q)' /\ \A i \in Invoices : SeenOk(q, i)'
<1>1. req'[q].made = {} /\ \A i \in Invoices : req'[q].seen[i] = Blank
  BY RequestOver
<1>2. Blank.number = NoNumber /\ Blank.supplier = "missing"
  BY DEF Blank
<1> QED BY <1>1, <1>2 DEF MadeOk, SeenOk

LEMMA RequestsKept ==
  ASSUME TypeOK, RequestsOk, Kept,
         \A q \in Requests : req'[q] = req[q] \/ req'[q] = Done
  PROVE  RequestsOk'
<1> SUFFICES ASSUME NEW q \in Requests
             PROVE  MadeOk(q)' /\ \A i \in Invoices : SeenOk(q, i)'
  BY DEF RequestsOk
<1>1. CASE req'[q] = Done
  BY <1>1, NothingHeld
<1>2. CASE req'[q] = req[q]
  <2>1. MadeOk(q)'
    BY <1>2, MadeKept DEF MadeOk, RequestsOk
  <2>2. \A i \in Invoices : SeenOk(q, i)'
    BY <1>2, SeenKept DEF RequestsOk
  <2> QED BY <2>1, <2>2
<1> QED BY <1>1, <1>2

LEMMA CreditKept ==
  ASSUME TypeOK, CreditNeedsEvidence, Kept, NEW r \in itc, r.status = "review_required"
  PROVE  /\ row'[r.invoice].status = "extracted"
         /\ row'[r.invoice].fields.supplier = "valid"
         /\ row'[r.invoice].fields.taxed
<1>1. r.invoice \in Invoices
  BY DEF TypeOK, ITCRecord
<1> QED BY <1>1 DEF CreditNeedsEvidence, Kept

LEMMA PairsKept ==
  ASSUME PairsOk, raced \subseteq raced',
         \A i \in Invoices, n \in Numbers :
            Known(i, n)' => Known(i, n) /\ (Told(i) => Told(i)')
  PROVE  PairsOk'
<1> SUFFICES ASSUME NEW i \in Invoices, NEW j \in Invoices, NEW n \in Numbers,
                    i # j, Known(i, n)', Known(j, n)'
             PROVE  Told(i)' \/ Told(j)' \/ {i, j} \in raced'
  BY DEF PairsOk, PairOk
<1>1. Told(i) \/ Told(j) \/ {i, j} \in raced
  BY DEF PairsOk, PairOk
<1> QED BY <1>1

LEMMA ExtractedKept ==
  ASSUME ExtractedIsChecked, checks \subseteq checks',
         \A i \in Invoices : row'[i].status = "extracted" =>
             \/ row'[i] = row[i]
             \/ \E c \in checks' : Covers(c, i, row'[i].fields)
  PROVE  ExtractedIsChecked'
<1> SUFFICES ASSUME NEW i \in Invoices, row'[i].status = "extracted"
             PROVE  \E c \in ChecksOf(i)', duplicate \in BOOLEAN :
                       c.issues = Issues(row'[i].fields, duplicate)
  BY DEF ExtractedIsChecked
<1>1. CASE row'[i] = row[i]
  <2>1. \E c \in ChecksOf(i), duplicate \in BOOLEAN :
           c.issues = Issues(row[i].fields, duplicate)
    BY <1>1 DEF ExtractedIsChecked
  <2> QED BY <1>1, <2>1 DEF ChecksOf
<1>2. CASE \E c \in checks' : Covers(c, i, row'[i].fields)
  BY <1>2 DEF ChecksOf, Covers
<1> QED BY <1>1, <1>2

\* A check flags its invoice when another one has the number, which is then EXTRACTED.
LEMMA CheckOfSound ==
  ASSUME TypeOK, RowsOk, NEW i \in Invoices, NEW by \in Requests \cup {Upload},
         NEW fields \in Fields
  PROVE  /\ Sound(CheckOf(i, by, fields))
         /\ Covers(CheckOf(i, by, fields), i, fields)
         /\ Dup \in CheckOf(i, by, fields).issues <=> IsDuplicate(i, fields.number)
<1> DEFINE c == CheckOf(i, by, fields)
<1>1. /\ c.invoice = i /\ c.number = fields.number
      /\ c.issues = Issues(fields, IsDuplicate(i, fields.number))
  BY CheckTyped
<1> HIDE DEF c
<1>2. IsDuplicate(i, fields.number) \in BOOLEAN
  BY DEF IsDuplicate
<1>3. Dup \in c.issues <=> IsDuplicate(i, fields.number)
  BY <1>1, <1>2, FlaggedWhenDuplicate
<1>4. Covers(c, i, fields)
  BY <1>1, <1>2 DEF Covers
<1>5. ASSUME IsDuplicate(i, fields.number) PROVE Twin(i, fields.number)
  <2>1. PICK j \in Invoices \ {i} : row[j].fields.number = fields.number
    BY <1>5 DEF IsDuplicate
  <2>2. fields.number # NoNumber
    BY <1>5 DEF IsDuplicate
  <2>3. row[j].fields # Blank
    BY <2>1, <2>2 DEF Blank
  <2> QED BY <2>1, <2>2, <2>3 DEF Twin, RowsOk, RowOk
<1>6. Sound(c)
  BY <1>1, <1>3, <1>5 DEF Sound
<1> QED BY <1>3, <1>4, <1>6 DEF c

-----------------------------------------------------------------------------
(* The steps of an upload and its task. *)

\* A step that moves the task of one invoice, and its row as long as that is
\* not EXTRACTED.
Moves(i) == /\ row[i].status # "extracted"
            /\ \A j \in Invoices \ {i} : row'[j] = row[j] /\ task'[j] = task[j]
            /\ req' = req /\ itc' = itc /\ reviews' = reviews

LEMMA WorkMoves ==
  ASSUME TypeOK, RowsOk, NEW i \in Invoices, UploadInvoice(i) \/ Work(i) \/ Abort(i)
  PROVE  Moves(i)
<1>1. row[i].status = "extracted" => task[i].op = "done" /\ row[i].status # "none"
  BY DEF RowsOk, RowOk
<1>2. row \in [Invoices -> Invoice] /\ task \in [Invoices -> Task]
  BY DEF TypeOK
<1> HIDE DEF TypeOK
<1>3. CASE UploadInvoice(i)
  BY <1>1, <1>2, <1>3 DEF UploadInvoice, Moves
<1>4. CASE Load(i)
  BY <1>1, <1>2, <1>4 DEF Load, Moves
<1>5. CASE ExtractInto(i)
  BY <1>1, <1>2, <1>5 DEF ExtractInto, Moves
<1>6. CASE RunCheck(i)
  BY <1>1, <1>2, <1>6 DEF RunCheck, Moves
<1>7. CASE Commit(i)
  BY <1>1, <1>2, <1>7 DEF Commit, Moves
<1>8. CASE Mark(i)
  BY <1>1, <1>2, <1>8 DEF Mark, Moves
<1>9. CASE Abort(i)
  BY <1>1, <1>2, <1>9 DEF Abort, Moves
<1> QED BY <1>3, <1>4, <1>5, <1>6, <1>7, <1>8, <1>9 DEF Work

LEMMA MovesKept == ASSUME NEW i \in Invoices, Moves(i) PROVE Kept
  BY DEF Moves, Kept

\* It is enough to look at the row and the task that have moved.
LEMMA MovesRows ==
  ASSUME TypeOK, RowsOk, NEW i \in Invoices, Moves(i), RowOk(i)', TaskOk(i)'
  PROVE  RowsOk'
<1> SUFFICES ASSUME NEW j \in Invoices, j # i PROVE RowOk(j)' /\ TaskOk(j)'
  BY DEF RowsOk
<1>1. row'[j] = row[j] /\ task'[j] = task[j] /\ RowOk(j) /\ TaskOk(j)
  BY DEF Moves, RowsOk
<1>2. RowOk(j)'
  BY <1>1 DEF RowOk
<1> QED BY <1>1, <1>2, MovesKept, TaskKept

\* The step of a task that writes no check and forgets none that counts.
LEMMA MovesPairs ==
  ASSUME TypeOK, PairsOk, NEW i \in Invoices, Moves(i),
         checks' = checks, raced' = raced,
         \A n \in Numbers : ~ Known(i, n)'
  PROVE  PairsOk'
<1>1. ASSUME NEW j \in Invoices, NEW n \in Numbers, Known(j, n)'
      PROVE  Known(j, n) /\ (Told(j) => Told(j)')
  <2>1. j # i
    BY <1>1
  <2>2. row'[j] = row[j] /\ task'[j] = task[j]
    BY <2>1 DEF Moves
  <2>3. Known(j, n)
    BY <1>1, <2>2 DEF Known
  <2>4. Told(j) => Told(j)'
    BY <2>2 DEF Told
  <2> QED BY <2>3, <2>4
<1> QED BY <1>1, PairsKept

LEMMA BlankHasNoNumber == \A n \in Numbers : n # Blank.number
  BY ValidationAssumption DEF Blank

\* Upload, Load, Extract, Mark, Abort: no check is made or committed.
LEMMA QuietMove ==
  ASSUME Inv, NEW i \in Invoices, Moves(i), checks' = checks, raced' = raced,
         RowOk(i)', TaskOk(i)', TypeOK',
         row'[i].status # "extracted",
         task'[i].op = "checked" => task'[i].fields = Blank
  PROVE  Inv'
<1> USE DEF Inv
<1>1. Kept
  BY MovesKept
<1>2. RowsOk'
  BY MovesRows
<1>3. RequestsOk'
  BY <1>1, RequestsKept DEF Moves
<1>4. ChecksOk'
  BY <1>1, ChecksKept DEF ChecksOk
<1>5. PairsOk'
  <2>1. \A n \in Numbers : ~ Known(i, n)'
    BY BlankHasNoNumber DEF Known
  <2> QED BY <2>1, MovesPairs
<1>6. ExtractedIsChecked'
  <2>1. \A j \in Invoices : row'[j].status = "extracted" => row'[j] = row[j]
    BY DEF Moves
  <2> QED BY <2>1, ExtractedKept
<1>7. CreditNeedsEvidence'
  BY <1>1, CreditKept DEF Moves, CreditNeedsEvidence
<1> QED BY <1>2, <1>3, <1>4, <1>5, <1>6, <1>7

LEMMA QuietWork ==
  ASSUME Inv, NEW i \in Invoices,
         \/ UploadInvoice(i) \/ Load(i) \/ ExtractInto(i) \/ Mark(i) \/ Abort(i)
  PROVE  Inv'
<1>1. TypeOK /\ RowOk(i) /\ TaskOk(i) /\ RowsOk
  BY DEF Inv, RowsOk
<1>2. UploadInvoice(i) \/ Work(i) \/ Abort(i)
  BY DEF Work
<1>3. TypeOK' /\ Moves(i)
  BY <1>1, <1>2, WorkTyped, WorkMoves
<1>4. row[i] \in Invoice /\ task[i] \in Task
  BY <1>1 DEF TypeOK
<1>5. checks' = checks /\ raced' = raced
  BY DEF UploadInvoice, Load, ExtractInto, Mark, Abort
<1>6. row \in [Invoices -> Invoice] /\ task \in [Invoices -> Task]
  BY <1>1 DEF TypeOK
<1>7. /\ RowOk(i)' /\ TaskOk(i)'
      /\ row'[i].status # "extracted"
      /\ task'[i].op = "checked" => task'[i].fields = Blank
  <2>1. CASE UploadInvoice(i)
    <3>1. /\ row'[i].status = "processing" /\ row'[i].fields = row[i].fields
          /\ task'[i].op = "queued" /\ task'[i].fields = task[i].fields
          /\ task'[i].check = task[i].check
      BY <1>4, <1>6, <2>1 DEF UploadInvoice, Invoice, Task
    <3>2. row[i].status = "none" /\ task[i].op = "none"
      BY <1>1, <2>1 DEF UploadInvoice, RowOk
    <3> QED BY <1>1, <3>1, <3>2 DEF RowOk, TaskOk
  <2>2. CASE Load(i)
    <3>1. /\ row' = row /\ task[i].op = "queued"
          /\ task'[i].op = "loaded" /\ task'[i].fields = task[i].fields
          /\ task'[i].check = task[i].check
      BY <1>4, <1>6, <2>2 DEF Load, Task
    <3> QED BY <1>1, <3>1 DEF RowOk, TaskOk
  <2>3. CASE ExtractInto(i)
    <3>1. row' = row /\ task[i].op = "loaded"
      BY <2>3 DEF ExtractInto
    <3>2. ASSUME NEW status \in {"failed", "needs_review"},
                 task' = [task EXCEPT ![i] = [@ EXCEPT !.op = "checked", !.status = status]]
          PROVE  /\ task'[i].op = "checked" /\ task'[i].status = status
                 /\ task'[i].fields = task[i].fields /\ task'[i].check = task[i].check
      BY <1>4, <1>6, <3>2 DEF Task
    <3>3. ASSUME NEW f \in Readings,
                 task' = [task EXCEPT ![i] = [@ EXCEPT !.op = "extracted", !.fields = f,
                                                       !.status = "extracted"]]
          PROVE  /\ task'[i].op = "extracted" /\ task'[i].status = "extracted"
                 /\ task'[i].check = task[i].check
      BY <1>4, <1>6, <3>3 DEF Task
    <3>4. \/ /\ task'[i].op = "checked" /\ task'[i].status \in {"failed", "needs_review"}
             /\ task'[i].fields = task[i].fields /\ task'[i].check = task[i].check
          \/ /\ task'[i].op = "extracted" /\ task'[i].status = "extracted"
             /\ task'[i].check = task[i].check
      BY <2>3, <3>2, <3>3 DEF ExtractInto
    <3> QED BY <1>1, <3>1, <3>4 DEF RowOk, TaskOk
  <2>4. CASE Mark(i)
    <3>1. /\ task[i].op = "mark"
          /\ row'[i].status \in {"failed", row[i].status}
          /\ row'[i].fields = row[i].fields
          /\ task'[i].op = "done" /\ task'[i].fields = Blank /\ task'[i].check = {}
      BY <1>4, <1>6, <2>4, TaskOver DEF Mark, Invoice
    <3> QED BY <1>1, <3>1 DEF RowOk, TaskOk
  <2>5. CASE Abort(i)
    <3>1. /\ task[i].op \in {"queued", "loaded", "extracted", "checked"}
          /\ row' = row
          /\ task'[i].op = "mark" /\ task'[i].fields = Blank /\ task'[i].check = {}
      BY <1>4, <1>6, <2>5, TaskOver DEF Abort
    <3> QED BY <1>1, <3>1 DEF RowOk, TaskOk
  <2> QED BY <2>1, <2>2, <2>3, <2>4, <2>5
<1> QED BY <1>3, <1>5, <1>7, QuietMove

\* The check of a task sees the invoices that are committed, and races the tasks
\* that have been checked and are not.
LEMMA RunCheckInv == ASSUME Inv, NEW i \in Invoices, RunCheck(i) PROVE Inv'
<1>1. TypeOK /\ RowOk(i) /\ TaskOk(i) /\ RowsOk
  BY DEF Inv, RowsOk
<1>2. TypeOK' /\ Moves(i)
  BY <1>1, WorkTyped, WorkMoves DEF Work
<1>3. Kept
  BY <1>2, MovesKept
<1> DEFINE fields == task[i].fields
<1>4. fields \in Fields /\ task[i] \in Task /\ task \in [Invoices -> Task]
  BY <1>1 DEF TypeOK, Task
<1>0. PICK c : c = CheckOf(i, Upload, fields)
  OBVIOUS
<1>5. /\ c \in Check /\ c.invoice = i /\ Sound(c) /\ Covers(c, i, fields)
      /\ Dup \in c.issues <=> IsDuplicate(i, fields.number)
  BY <1>0, <1>1, <1>4, CheckTyped, CheckOfSound
<1>6. /\ task' = [task EXCEPT ![i] = [task[i] EXCEPT !.op = "checked", !.check = {c}]]
      /\ task[i].op = "extracted" /\ row' = row /\ req' = req
      /\ checks' = checks /\ itc' = itc
      /\ raced' = raced \cup Unseen(i, fields.number)
  BY <1>0 DEF RunCheck
<1>7. /\ task'[i].op = "checked" /\ task'[i].status = task[i].status
      /\ task'[i].fields = fields /\ task'[i].check = {c}
  BY <1>4, <1>6 DEF Task
<1> HIDE DEF fields
<1>8. Sound(c)'
  BY <1>3, <1>5, CheckKept
<1>9. TaskOk(i)'
  <2>1. task'[i].status = "extracted"
    BY <1>1, <1>6, <1>7 DEF TaskOk
  <2>2. Covers(c, i, task'[i].fields)
    BY <1>5, <1>7
  <2> QED BY <1>5, <1>7, <1>8, <2>1, <2>2 DEF TaskOk, Covers
<1>10. RowOk(i)'
  BY <1>1, <1>6, <1>7 DEF RowOk
<1>11. RowsOk'
  BY <1>1, <1>2, <1>9, <1>10, MovesRows
<1>12. RequestsOk'
  BY <1>3, <1>6, RequestsKept DEF Inv
<1>13. ChecksOk'
  BY <1>3, <1>6, ChecksKept DEF ChecksOk, Inv
<1>14. PairsOk'
  <2>1. ASSUME NEW j \in Invoices, j # i, NEW n \in Numbers, Known(j, n)'
        PROVE  Known(j, n) /\ (Told(j) => Told(j)')
    <3>1. task'[j] = task[j] /\ row'[j] = row[j]
      BY <1>2, <2>1 DEF Moves
    <3> QED BY <1>6, <2>1, <3>1 DEF Known, Told
  <2>2. ASSUME NEW n \in Numbers, Known(i, n)' PROVE n = fields.number /\ n # NoNumber
    <3>1. row'[i].status # "extracted"
      BY <1>1, <1>6 DEF RowOk
    <3> QED BY <1>7, <2>2, <3>1, ValidationAssumption DEF Known
  <2>3. ASSUME NEW j \in Invoices, j # i, NEW n \in Numbers, Known(i, n)', Known(j, n)'
        PROVE  Told(i)' \/ {i, j} \in raced'
    <3>1. Known(j, n) /\ n = fields.number /\ n # NoNumber
      BY <2>1, <2>2, <2>3
    <3>2. CASE row[j].status = "extracted" /\ row[j].fields.number = n
      <4>1. IsDuplicate(i, fields.number)
        BY <2>3, <3>1, <3>2 DEF IsDuplicate
      <4> QED BY <1>5, <1>7, <4>1 DEF Told
    <3>3. CASE task[j].op = "checked" /\ task[j].fields.number = n
      <4>1. {i, j} \in Unseen(i, fields.number)
        BY <2>3, <3>1, <3>3 DEF Unseen
      <4> QED BY <1>6, <4>1
    <3> QED BY <3>1, <3>2, <3>3 DEF Known
  <2>4. ASSUME NEW j \in Invoices, NEW k \in Invoices, j # k, NEW n \in Numbers,
               Known(j, n)', Known(k, n)'
        PROVE  Told(j)' \/ Told(k)' \/ {j, k} \in raced'
    <3>1. CASE j = i
      BY <2>3, <2>4, <3>1
    <3>2. CASE k = i
      <4>1. {k, j} = {j, k}
        OBVIOUS
      <4> QED BY <2>3, <2>4, <3>2, <4>1
    <3>3. CASE j # i /\ k # i
      <4>1. Told(j) \/ Told(k) \/ {j, k} \in raced
        BY <2>1, <2>4, <3>3 DEF Inv, PairsOk, PairOk
      <4> QED BY <1>6, <2>1, <2>4, <3>3, <4>1
    <3> QED BY <3>1, <3>2, <3>3
  <2> QED BY <2>4 DEF PairsOk, PairOk
<1>15. ExtractedIsChecked'
  BY <1>6, ExtractedKept DEF Inv
<1>16. CreditNeedsEvidence'
  BY <1>3, <1>6, CreditKept DEF Inv, CreditNeedsEvidence
<1> QED BY <1>2, <1>11, <1>12, <1>13, <1>14, <1>15, <1>16 DEF Inv

\* The fields and their check are committed together.
LEMMA CommitInv == ASSUME Inv, NEW i \in Invoices, Commit(i) PROVE Inv'
<1>1. TypeOK /\ RowOk(i) /\ TaskOk(i) /\ RowsOk
  BY DEF Inv, RowsOk
<1>2. TypeOK' /\ Moves(i)
  BY <1>1, WorkTyped, WorkMoves DEF Work
<1>3. Kept
  BY <1>2, MovesKept
<1>4. /\ task[i] \in Task /\ task \in [Invoices -> Task] /\ row \in [Invoices -> Invoice]
      /\ task[i].check \subseteq Check
  BY <1>1 DEF TypeOK, Task
<1>5. /\ row'[i].status = task[i].status /\ row'[i].fields = task[i].fields
      /\ task[i].op = "checked" /\ checks' = checks \cup task[i].check
      /\ task'[i].op = "done" /\ task'[i].fields = Blank /\ task'[i].check = {}
      /\ req' = req /\ itc' = itc /\ raced' = raced
  BY <1>4, TaskOver DEF Commit
<1>6. \/ /\ task[i].status \in {"failed", "needs_review"}
         /\ task[i].fields = Blank /\ task[i].check = {}
      \/ /\ task[i].status = "extracted"
         /\ \E c \in Check : /\ task[i].check = {c}
                             /\ Covers(c, i, task[i].fields) /\ Sound(c)
  BY <1>1, <1>5 DEF TaskOk
<1>7. RowOk(i)' /\ TaskOk(i)'
  BY <1>5, <1>6 DEF RowOk, TaskOk
<1>8. RowsOk'
  BY <1>1, <1>2, <1>7, MovesRows
<1>9. RequestsOk'
  BY <1>3, <1>5, RequestsKept DEF Inv
<1>10. ChecksOk'
  <2>1. ASSUME NEW c \in task[i].check PROVE Sound(c)' /\ Shown(c)'
    <3>1. /\ task[i].status = "extracted" /\ Covers(c, i, task[i].fields) /\ Sound(c)
          /\ c \in Check
      BY <1>6, <2>1
    <3>2. Sound(c)'
      BY <1>3, <3>1, CheckKept DEF Check
    <3>3. Shown(c)'
      BY <1>5, <3>1 DEF Shown, Covers
    <3> QED BY <3>2, <3>3
  <2>2. ASSUME NEW c \in checks PROVE Sound(c)' /\ Shown(c)'
    BY <1>3, ChecksKept DEF Inv
  <2> QED BY <1>5, <2>1, <2>2 DEF ChecksOk
<1>11. PairsOk'
  <2>1. ASSUME NEW j \in Invoices, NEW n \in Numbers, Known(j, n)'
        PROVE  Known(j, n) /\ (Told(j) => Told(j)')
    <3>1. CASE j = i
      BY <1>5, <2>1, <3>1 DEF Known, Told
    <3>2. CASE j # i
      <4>1. row'[j] = row[j] /\ task'[j] = task[j]
        BY <1>2, <3>2 DEF Moves
      <4> QED BY <1>5, <2>1, <4>1 DEF Known, Told
    <3> QED BY <3>1, <3>2
  <2> QED BY <1>5, <2>1, PairsKept DEF Inv
<1>12. ExtractedIsChecked'
  <2>1. ASSUME NEW j \in Invoices, row'[j].status = "extracted"
        PROVE  row'[j] = row[j] \/ \E c \in checks' : Covers(c, j, row'[j].fields)
    <3>1. CASE j = i
      BY <1>5, <1>6, <2>1, <3>1
    <3>2. CASE j # i
      BY <1>2, <3>2 DEF Moves
    <3> QED BY <3>1, <3>2
  <2> QED BY <1>5, <2>1, ExtractedKept DEF Inv
<1>13. CreditNeedsEvidence'
  BY <1>3, <1>5, CreditKept DEF Inv, CreditNeedsEvidence
<1> QED BY <1>2, <1>8, <1>9, <1>10, <1>11, <1>12, <1>13 DEF Inv

LEMMA CrashInv == ASSUME Inv, Crash PROVE Inv'
<1>1. TypeOK /\ RowsOk
  BY DEF Inv
<1>2. TypeOK'
  BY <1>1, CrashTyped
<1>3. /\ row' = row /\ checks' = checks /\ itc' = itc /\ raced' = raced
      /\ \A q \in Requests : req'[q] = req[q] \/ req'[q] = Done
  BY <1>1 DEF Crash, TypeOK
<1>4. \A i \in Invoices :
         \/ task'[i] = task[i]
         \/ /\ task[i].op \notin {"none", "done"}
            /\ task'[i] = [NoTask EXCEPT !.op = "done"]
  BY DEF Crash
<1>5. Kept
  BY <1>3 DEF Kept
<1>6. RowsOk'
  <2> SUFFICES ASSUME NEW i \in Invoices PROVE RowOk(i)' /\ TaskOk(i)'
    BY DEF RowsOk
  <2>1. RowOk(i) /\ TaskOk(i)
    BY <1>1 DEF RowsOk
  <2>2. CASE task'[i] = task[i]
    BY <1>1, <1>3, <1>5, <2>1, <2>2, TaskKept DEF RowOk
  <2>3. CASE task[i].op \notin {"none", "done"} /\ task'[i] = [NoTask EXCEPT !.op = "done"]
    <3>1. task'[i].op = "done" /\ task'[i].fields = Blank /\ task'[i].check = {}
      BY <2>3, TaskOver
    <3> QED BY <1>3, <2>1, <2>3, <3>1 DEF RowOk, TaskOk
  <2> QED BY <1>4, <2>2, <2>3
<1>7. RequestsOk'
  BY <1>3, <1>5, RequestsKept DEF Inv
<1>8. ChecksOk'
  BY <1>3, <1>5, ChecksKept DEF Inv, ChecksOk
<1>9. PairsOk'
  <2>1. ASSUME NEW i \in Invoices, NEW n \in Numbers, Known(i, n)'
        PROVE  Known(i, n) /\ (Told(i) => Told(i)')
    <3>1. CASE task'[i] = task[i]
      BY <1>3, <2>1, <3>1 DEF Known, Told
    <3>2. CASE task[i].op \notin {"none", "done"} /\ task'[i] = [NoTask EXCEPT !.op = "done"]
      <4>1. task'[i].op = "done" /\ row[i].status # "extracted"
        BY <1>1, <3>2, TaskOver DEF RowsOk, RowOk
      <4> QED BY <1>3, <2>1, <4>1 DEF Known
    <3> QED BY <1>4, <3>1, <3>2
  <2> QED BY <1>3, <2>1, PairsKept DEF Inv
<1>10. ExtractedIsChecked'
  BY <1>3, ExtractedKept DEF Inv
<1>11. CreditNeedsEvidence'
  BY <1>3, <1>5, CreditKept DEF Inv, CreditNeedsEvidence
<1> QED BY <1>2, <1>6, <1>7, <1>8, <1>9, <1>10, <1>11 DEF Inv

-----------------------------------------------------------------------------
(* The steps of a request. *)

\* A request leaves rows and tasks alone, and forgets no check.
LEMMA RequestFrame ==
  ASSUME TypeOK, NEW q \in Requests, RequestStep(q)
  PROVE  /\ row' = row /\ task' = task
         /\ checks \subseteq checks' /\ raced \subseteq raced'
         /\ \A p \in Requests \ {q} : req'[p] = req[p]
<1>1. req \in [Requests -> Request]
  BY DEF TypeOK
<1>2. CASE BeginCheck(q) \/ BeginAnalyze(q) \/ BeginITC(q) \/ BeginScan(q)
  <2>1. PICK op \in {"check", "analyze", "itc", "scan"}, S \in SUBSET Invoices : Begin(q, op, S)
    BY <1>2, Beginnings
  <2> QED BY <1>1, <2>1 DEF Begin
<1>3. CASE LoadItems(q)
  BY <1>1, <1>3 DEF LoadItems
<1>4. CASE CheckNext(q)
  BY <1>1, <1>4 DEF CheckNext
<1>5. CASE CommitChecks(q)
  BY <1>1, <1>5 DEF CommitChecks
<1>6. CASE CommitAnalysis(q)
  BY <1>1, <1>6 DEF CommitAnalysis
<1>7. CASE CommitITC(q)
  BY <1>1, <1>7 DEF CommitITC
<1>8. CASE Fail(q)
  BY <1>1, <1>8 DEF Fail
<1> QED BY <1>2, <1>3, <1>4, <1>5, <1>6, <1>7, <1>8 DEF RequestStep

\* What is true of a row that has been read.
LEMMA RowSeen ==
  ASSUME TypeOK, RowsOk, NEW i \in Invoices
  PROVE  /\ row[i].fields.number # NoNumber => row[i].status = "extracted"
         /\ row[i].fields.supplier = "valid" => row[i].status = "extracted"
<1>1. Blank.number = NoNumber /\ Blank.supplier = "missing"
  BY DEF Blank
<1> QED BY <1>1 DEF RowsOk, RowOk

\* The request that moves holds what is true of rows.
LEMMA HeldIsTrue ==
  ASSUME Inv, NEW q \in Requests, RequestStep(q)
  PROVE  MadeOk(q)' /\ \A i \in Invoices : SeenOk(q, i)'
<1>1. TypeOK /\ RowsOk /\ MadeOk(q) /\ \A i \in Invoices : SeenOk(q, i)
  BY DEF Inv, RequestsOk
<1>2. row' = row
  BY <1>1, RequestFrame
<1>3. Kept
  BY <1>2 DEF Kept
<1>4. /\ req \in [Requests -> Request]
      /\ req[q].seen \in [Invoices -> Fields]
      /\ \A i \in Invoices : row[i].fields \in Fields
  BY <1>1 DEF TypeOK, Request, Invoice
<1>5. /\ Blank.number = NoNumber /\ Blank.supplier = "missing"
  BY DEF Blank
<1>6. CASE BeginCheck(q) \/ BeginAnalyze(q) \/ BeginITC(q) \/ BeginScan(q)
  <2>1. PICK op \in {"check", "analyze", "itc", "scan"}, S \in SUBSET Invoices : Begin(q, op, S)
    BY <1>1, <1>6, Beginnings
  <2>2. /\ req'[q].made = {}
        /\ \A i \in Invoices : req'[q].seen[i] \in {row[i].fields, Blank}
    BY <1>4, <2>1 DEF Begin
  <2>3. MadeOk(q)'
    BY <2>2 DEF MadeOk
  <2>4. ASSUME NEW i \in Invoices PROVE SeenOk(q, i)'
    BY <1>1, <1>2, <1>5, <2>2, RowSeen DEF SeenOk
  <2> QED BY <2>3, <2>4
<1>7. CASE LoadItems(q)
  <2> DEFINE seen == [i \in Invoices |-> IF i \in req[q].todo
                                         THEN WithLines(req[q].seen[i], row[i].fields)
                                         ELSE Blank]
  <2>1. req' = [req EXCEPT ![q] = [req[q] EXCEPT !.items = TRUE, !.seen = seen]]
    BY <1>7, Zenon DEF LoadItems
  <2>2. ASSUME NEW i \in Invoices
        PROVE  \/ seen[i] = Blank
               \/ /\ seen[i].number = req[q].seen[i].number
                  /\ seen[i].supplier = req[q].seen[i].supplier
                  /\ seen[i].taxed = req[q].seen[i].taxed
    BY <1>4, WithLinesTyped
  <2> HIDE DEF seen
  <2>3. req[q] \in Request
    BY <1>4
  <2>4. req'[q].made = req[q].made /\ req'[q].seen = seen
    BY <1>4, <2>1, <2>3 DEF Request
  <2>5. MadeOk(q)'
    BY <1>1, <1>3, <2>4, MadeKept DEF MadeOk
  <2>6. ASSUME NEW i \in Invoices PROVE SeenOk(q, i)'
    BY <1>1, <1>2, <1>5, <2>2, <2>4 DEF SeenOk
  <2> QED BY <2>5, <2>6
<1>8. CASE CheckNext(q)
  <2>1. PICK i \in req[q].todo :
           req' = [req EXCEPT ![q] =
                      [@ EXCEPT !.todo = req[q].todo \ {i},
                                !.made = req[q].made
                                            \cup {CheckOf(i, q, req[q].seen[i])}]]
    BY <1>8 DEF CheckNext
  <2>2. PICK c : c = CheckOf(i, q, req[q].seen[i])
    OBVIOUS
  <2>3. i \in Invoices /\ req[q].seen[i] \in Fields
    BY <1>4 DEF Request
  <2>4. c.invoice = i /\ c.number = req[q].seen[i].number /\ Sound(c)
    BY <1>1, <2>2, <2>3, CheckTyped, CheckOfSound
  <2>5. Shown(c)
    BY <1>1, <2>3, <2>4 DEF Shown, SeenOk
  <2>6. Sound(c)' /\ Shown(c)'
    BY <1>3, <2>3, <2>4, <2>5, CheckKept
  <2>7. req'[q].made = req[q].made \cup {c} /\ req'[q].seen = req[q].seen
    <3> DEFINE made == req[q].made \cup {c}
               todo == req[q].todo \ {i}
    <3>1. req' = [req EXCEPT ![q] = [req[q] EXCEPT !.todo = todo, !.made = made]]
      BY <2>1, <2>2, Zenon
    <3> HIDE DEF made, todo
    <3>2. req[q] \in Request
      BY <1>4
    <3>3. req'[q].made = made /\ req'[q].seen = req[q].seen
      BY <1>4, <3>1, <3>2 DEF Request
    <3> QED BY <3>3 DEF made
  <2>8. MadeOk(q)'
    BY <1>1, <1>3, <2>6, <2>7, MadeKept DEF MadeOk
  <2>9. \A j \in Invoices : SeenOk(q, j)'
    BY <1>1, <1>3, <2>7, SeenKept
  <2> QED BY <2>8, <2>9
<1>9. CASE CommitChecks(q) \/ CommitAnalysis(q) \/ CommitITC(q) \/ Fail(q)
  <2>1. req'[q] = Done
    BY <1>4, <1>9 DEF CommitChecks, CommitAnalysis, CommitITC, Fail
  <2> QED BY <2>1, NothingHeld
<1> QED BY <1>6, <1>7, <1>8, <1>9 DEF RequestStep

\* What a request commits: checks it has made, and credit that a row supports.
LEMMA Committed ==
  ASSUME Inv, NEW q \in Requests, RequestStep(q)
  PROVE  /\ checks' \subseteq checks \cup req[q].made
         /\ \A r \in itc' : \/ r \in itc
                            \/ \E i \in Invoices : r = RecordOf(q, i)
<1>1. TypeOK /\ req[q].todo \subseteq Invoices /\ req[q].made \subseteq Check
  BY DEF Inv, TypeOK, Request
<1>2. CASE BeginCheck(q) \/ BeginAnalyze(q) \/ BeginITC(q) \/ BeginScan(q)
  <2>1. PICK op \in {"check", "analyze", "itc", "scan"}, S \in SUBSET Invoices : Begin(q, op, S)
    BY <1>1, <1>2, Beginnings
  <2> QED BY <2>1 DEF Begin
<1>3. CASE LoadItems(q) \/ CheckNext(q) \/ CommitChecks(q) \/ Fail(q)
  BY <1>3 DEF LoadItems, CheckNext, CommitChecks, Fail
<1>4. CASE CommitITC(q)
  BY <1>1, <1>4 DEF CommitITC
<1>5. CASE CommitAnalysis(q)
  <2>1. PICK c \in req[q].made : itc' = itc \cup {RecordOf(q, c.invoice)}
    BY <1>5 DEF CommitAnalysis
  <2>2. c.invoice \in Invoices
    BY <1>1, <2>1 DEF Check
  <2> QED BY <1>5, <2>1, <2>2 DEF CommitAnalysis
<1> QED BY <1>2, <1>3, <1>4, <1>5 DEF RequestStep

LEMMA RequestInv == ASSUME Inv, NEW q \in Requests, RequestStep(q) PROVE Inv'
<1>1. TypeOK /\ RowsOk /\ MadeOk(q) /\ ChecksOk /\ \A i \in Invoices : SeenOk(q, i)
  BY DEF Inv, RequestsOk
<1>2. TypeOK'
  BY <1>1, RequestTyped
<1>3. /\ row' = row /\ task' = task
      /\ checks \subseteq checks' /\ raced \subseteq raced'
      /\ \A p \in Requests \ {q} : req'[p] = req[p]
  BY <1>1, RequestFrame
<1>4. Kept
  BY <1>3 DEF Kept
<1>5. RowsOk'
  <2> SUFFICES ASSUME NEW i \in Invoices PROVE RowOk(i)' /\ TaskOk(i)'
    BY DEF RowsOk
  <2>1. RowOk(i) /\ TaskOk(i)
    BY <1>1 DEF RowsOk
  <2>2. RowOk(i)'
    BY <1>3, <2>1 DEF RowOk
  <2> QED BY <1>1, <1>3, <1>4, <2>1, <2>2, TaskKept
<1>6. RequestsOk'
  <2> SUFFICES ASSUME NEW p \in Requests
               PROVE  MadeOk(p)' /\ \A i \in Invoices : SeenOk(p, i)'
    BY DEF RequestsOk
  <2>1. CASE p = q
    BY <2>1, HeldIsTrue
  <2>2. CASE p # q
    <3>1. req'[p] = req[p] /\ MadeOk(p) /\ \A i \in Invoices : SeenOk(p, i)
      BY <1>3, <2>2 DEF Inv, RequestsOk
    <3>2. MadeOk(p)'
      BY <1>1, <1>4, <3>1, MadeKept DEF MadeOk
    <3> QED BY <1>4, <3>1, <3>2, SeenKept
  <2> QED BY <2>1, <2>2
<1>7. ChecksOk'
  <2>1. ASSUME NEW c \in checks' PROVE Sound(c)' /\ Shown(c)'
    <3>1. CASE c \in checks
      BY <1>1, <1>4, <3>1, ChecksKept
    <3>2. CASE c \in req[q].made
      BY <1>1, <1>4, <3>2, MadeKept
    <3> QED BY <2>1, <3>1, <3>2, Committed
  <2> QED BY <2>1 DEF ChecksOk
<1>8. PairsOk'
  <2>1. ASSUME NEW i \in Invoices, NEW n \in Numbers, Known(i, n)'
        PROVE  Known(i, n) /\ (Told(i) => Told(i)')
    BY <1>3, <2>1 DEF Known, Told
  <2> QED BY <1>3, <2>1, PairsKept DEF Inv
<1>9. ExtractedIsChecked'
  BY <1>3, ExtractedKept DEF Inv
<1>10. CreditNeedsEvidence'
  <2> SUFFICES ASSUME NEW r \in itc', r.status = "review_required"
               PROVE  /\ row'[r.invoice].status = "extracted"
                      /\ row'[r.invoice].fields.supplier = "valid"
                      /\ row'[r.invoice].fields.taxed
    BY DEF CreditNeedsEvidence
  <2>1. CASE r \in itc
    BY <1>1, <1>4, <2>1, CreditKept DEF Inv
  <2>2. CASE \E i \in Invoices : r = RecordOf(q, i)
    <3>1. PICK i \in Invoices : r = RecordOf(q, i)
      BY <2>2
    <3>2. r.invoice = i /\ ~ Disqualified(req[q].seen[i])
      BY <3>1 DEF RecordOf
    <3>3. req[q].seen[i].supplier = "valid" /\ req[q].seen[i].taxed
      BY <3>2 DEF Disqualified
    <3> QED BY <1>1, <1>3, <3>2, <3>3 DEF SeenOk
  <2> QED BY <2>1, <2>2, Committed
<1> QED BY <1>2, <1>5, <1>6, <1>7, <1>8, <1>9, <1>10 DEF Inv

-----------------------------------------------------------------------------
(* The inductive invariant, and what it says. *)

LEMMA InvInit == Init => Inv
<1> SUFFICES ASSUME Init PROVE Inv
  OBVIOUS
<1>1. TypeOK
  BY TypesInit
<1>2. \A i \in Invoices : /\ row[i].status = "none" /\ row[i].fields = Blank
                          /\ task[i].op = "none" /\ task[i].fields = Blank
                          /\ task[i].check = {}
  BY DEF Init, NoTask
<1>3. /\ checks = {} /\ itc = {}
      /\ \A q \in Requests : /\ req[q].made = {}
                             /\ \A i \in Invoices : req[q].seen[i] = Blank
  BY DEF Init, New
<1>4. RowsOk
  BY <1>2 DEF RowsOk, RowOk, TaskOk
<1>5. RequestsOk
  <2>1. Blank.number = NoNumber /\ Blank.supplier = "missing"
    BY DEF Blank
  <2> QED BY <1>3, <2>1 DEF RequestsOk, MadeOk, SeenOk
<1>6. PairsOk
  BY <1>2 DEF PairsOk, PairOk, Known
<1> QED BY <1>1, <1>2, <1>3, <1>4, <1>5, <1>6
        DEF Inv, ChecksOk, ExtractedIsChecked, CreditNeedsEvidence

LEMMA InvStep == Inv /\ [Next]_vars => Inv'
<1> SUFFICES ASSUME Inv, [Next]_vars PROVE Inv'
  OBVIOUS
<1>1. CASE \E i \in Invoices : UploadInvoice(i) \/ Work(i) \/ Abort(i)
  BY <1>1, QuietWork, RunCheckInv, CommitInv DEF Work
<1>2. CASE \E q \in Requests : RequestStep(q)
  BY <1>2, RequestInv
<1>3. CASE Crash
  BY <1>3, CrashInv
<1>4. CASE UNCHANGED vars
  BY <1>4 DEF vars, Inv, TypeOK, RowsOk, RowOk, TaskOk, RequestsOk, MadeOk, SeenOk,
              ChecksOk, Sound, Shown, Twin, PairsOk, PairOk, Known, Told,
              ExtractedIsChecked, ChecksOf, CreditNeedsEvidence
<1> QED BY <1>1, <1>2, <1>3, <1>4 DEF Next, RequestStep

LEMMA Invariance == Spec => []Inv
<1> QED BY InvInit, InvStep, PTL DEF Spec

\* Every EXTRACTED invoice has a check of the fields it shows.
THEOREM ExtractedChecked == Spec => []ExtractedIsChecked
<1>1. Inv => ExtractedIsChecked
  BY DEF Inv
<1> QED BY <1>1, Invariance, PTL

\* Of two invoices checked with one number, one is flagged, or their uploads raced.
THEOREM RacesOnly == Spec => []OnlyARaceHidesADuplicate
<1>1. Inv => OnlyARaceHidesADuplicate
  <2> SUFFICES ASSUME Inv, NEW c \in checks, NEW d \in checks,
                      c.invoice # d.invoice, c.number = d.number, c.number # NoNumber
               PROVE  \/ Flagged(c.invoice) \/ Flagged(d.invoice)
                      \/ {c.invoice, d.invoice} \in raced
    BY DEF OnlyARaceHidesADuplicate
  <2>1. /\ c.invoice \in Invoices /\ d.invoice \in Invoices /\ c.number \in Numbers
    BY DEF Inv, TypeOK, Check
  <2>2. Known(c.invoice, c.number) /\ Known(d.invoice, c.number)
    BY DEF Inv, ChecksOk, Shown, Known
  <2>3. Told(c.invoice) \/ Told(d.invoice) \/ {c.invoice, d.invoice} \in raced
    BY <2>1, <2>2 DEF Inv, PairsOk, PairOk
  <2>4. ASSUME NEW e \in checks, e.number # NoNumber, e.invoice \in Invoices, Told(e.invoice)
        PROVE  Flagged(e.invoice)
    <3>1. row[e.invoice].status = "extracted"
      BY <2>4 DEF Inv, ChecksOk, Shown
    <3>2. task[e.invoice].check = {}
      BY <2>4, <3>1 DEF Inv, RowsOk, RowOk, TaskOk
    <3> QED BY <2>4, <3>2 DEF Told, Flagged, ChecksOf, Dup
  <2> QED BY <2>1, <2>3, <2>4
<1> QED BY <1>1, Invariance, PTL

\* A flag names a number that another EXTRACTED invoice has.
THEOREM FlagsAreTrue == Spec => []FlagIsTrue
<1>1. Inv => FlagIsTrue
  <2> SUFFICES ASSUME Inv, NEW i \in Invoices, Flagged(i)
               PROVE  \E j \in Invoices \ {i} :
                         /\ row[j].status = "extracted"
                         /\ row[j].fields.number = row[i].fields.number
    BY DEF FlagIsTrue
  <2>1. PICK c \in checks : c.invoice = i /\ Dup \in c.issues
    BY DEF Flagged, ChecksOf, Dup
  <2>2. Sound(c) /\ Shown(c)
    BY DEF Inv, ChecksOk
  <2>3. Twin(i, c.number)
    BY <2>1, <2>2 DEF Sound
  <2>4. row[i].fields.number = c.number
    BY <2>1, <2>2, <2>3 DEF Shown, Twin
  <2> QED BY <2>3, <2>4 DEF Twin
<1> QED BY <1>1, Invariance, PTL

\* Credit is offered for review only on an EXTRACTED invoice that supports it.
THEOREM CreditHasEvidence == Spec => []CreditNeedsEvidence
<1>1. Inv => CreditNeedsEvidence
  BY DEF Inv
<1> QED BY <1>1, Invariance, PTL
=============================================================================
