------------------------- MODULE GstrReconciliation -------------------------
(***************************************************************************)
(* Matching of purchase invoices (the books) with the inward supplies that *)
(* suppliers reported (GSTR-2A/2B): rules/gstr_reconciliation.py.          *)
(*                                                                         *)
(* The books and the records are functions from identifiers to entries,    *)
(* with an order each: the lists of the code.  A key is a normalized       *)
(* (GSTIN, invoice number); NoKey stands for every blank invoice number.   *)
(* Amounts are integers in the unit of the tolerances.  The reasons and    *)
(* the columns copied for display are left out.                            *)
(***************************************************************************)
EXTENDS Integers, FiniteSets, FiniteSetsExt

CONSTANTS
    Keys, NoKey,
    NoBook, NoRecord,        \* None in the place of an identifier
    TaxableTolerance, TaxTolerance

ASSUME ReconciliationAssumption ==
    /\ NoKey \notin Keys
    /\ TaxableTolerance \in Nat
    /\ TaxTolerance \in Nat

Entry == [key: Keys \cup {NoKey}, taxable: Int, tax: Int]

Status == {"matched", "mismatch", "missing_in_return", "missing_in_books"}

\* The orders of a finite set: nothing sorts what the queries return.
Orders(S) == Injection(S, 1..Cardinality(S))

\* Position of x among the entries of its key.
Rank(list, order, x) ==
    Cardinality({y \in DOMAIN list : /\ list[y].key = list[x].key
                                     /\ order[y] <= order[x]})

\* A definition Op_Variant is Op with a mistake the properties detect.
Paired_IgnoresRank(books, bookOrder, records, recordOrder, i, j) ==
    books[i].key # NoKey /\ books[i].key = records[j].key
\* Entries of one key are paired by position, blank numbers never.
Paired(books, bookOrder, records, recordOrder, i, j) ==
    /\ books[i].key # NoKey
    /\ books[i].key = records[j].key
    /\ Rank(books, bookOrder, i) = Rank(records, recordOrder, j)

Differ(a, b) == IF a >= b THEN a - b ELSE b - a

Within(inv, rec) == /\ Differ(inv.taxable, rec.taxable) <= TaxableTolerance
                    /\ Differ(inv.tax, rec.tax) <= TaxTolerance

Pair(i, inv, j, rec) ==
    IF Within(inv, rec)
    THEN [status |-> "matched", book |-> i, record |-> j, risk |-> 0, unclaimed |-> 0]
    ELSE [status |-> "mismatch", book |-> i, record |-> j,
          risk |-> IF inv.tax > rec.tax THEN inv.tax - rec.tax ELSE 0,
          unclaimed |-> 0]

MissingInReturn_NotAtRisk(i, inv) ==
    [status |-> "missing_in_return", book |-> i, record |-> NoRecord,
     risk |-> 0, unclaimed |-> 0]
MissingInReturn(i, inv) ==
    [status |-> "missing_in_return", book |-> i, record |-> NoRecord,
     risk |-> inv.tax, unclaimed |-> 0]

MissingInBooks(j, rec) ==
    [status |-> "missing_in_books", book |-> NoBook, record |-> j,
     risk |-> 0, unclaimed |-> rec.tax]

Reconcile(books, bookOrder, records, recordOrder) ==
    LET paired(i, j) == Paired(books, bookOrder, records, recordOrder, i, j)
        B == DOMAIN books
        R == DOMAIN records IN
    {Pair(p[1], books[p[1]], p[2], records[p[2]]) :
        p \in {p \in B \X R : paired(p[1], p[2])}}
    \cup {MissingInReturn(i, books[i]) : i \in {i \in B : \A j \in R : ~ paired(i, j)}}
    \cup {MissingInBooks(j, records[j]) : j \in {j \in R : \A i \in B : ~ paired(i, j)}}

Count(results, status) == Cardinality({r \in results : r.status = status})

Summarize(results) ==
    [books     |-> Cardinality({r \in results : r.book # NoBook}),
     returns   |-> Cardinality({r \in results : r.record # NoRecord}),
     matched   |-> Count(results, "matched"),
     mismatch  |-> Count(results, "mismatch"),
     missing_in_return |-> Count(results, "missing_in_return"),
     missing_in_books  |-> Count(results, "missing_in_books"),
     itc_at_risk |-> MapThenSumSet(LAMBDA r : r.risk, results),
     unclaimed |-> MapThenSumSet(LAMBDA r : r.unclaimed, results)]
=============================================================================
