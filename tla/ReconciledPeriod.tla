-------------------------- MODULE ReconciledPeriod --------------------------
(***************************************************************************)
(* What ReconciliationService promises of a period                         *)
(* (services/reconciliation_service.py), as if uploads and runs came one   *)
(* by one: an upload replaces the file of its source as a whole and leaves *)
(* the other source alone, a run reconciles the whole file that its source *)
(* has at that moment and replaces the run before it.                      *)
(*                                                                         *)
(* An invoice that is extracted while a run works may be left out of it.   *)
(* Two runs that overlap keep the results of both: what is promised then   *)
(* is only that each is about the current file.                            *)
(***************************************************************************)
CONSTANTS
    Sources,
    Invoices,
    Results(_, _),   \* of some invoices and a file, a set of possible results
    Row(_, _),       \* the row of a run, of its source and its results
    NoRow

VARIABLES
    books,       \* the purchase invoices of the period
    file,        \* file[s]: the entries of the records of source s
    results,     \* the matches of the run
    row,         \* the row of the run
    overlapped   \* two runs were open at once

vars == <<books, file, results, row, overlapped>>

NoFile == [r \in {} |-> r]

Init == /\ books = {}
        /\ file = [s \in Sources |-> NoFile]
        /\ results = {}
        /\ row = NoRow
        /\ overlapped = FALSE

Extract(i) ==
    /\ books' = books \cup {i}
    /\ UNCHANGED <<file, results, row, overlapped>>

\* New records, none of which was there before.
Upload(s) ==
    /\ DOMAIN file'[s] # {}
    /\ \A t \in Sources : DOMAIN file'[s] \cap DOMAIN file[t] = {}
    /\ file' = [file EXCEPT ![s] = file'[s]]
    /\ UNCHANGED <<books, results, row, overlapped>>

Run(s) ==
    /\ DOMAIN file[s] # {}
    /\ \E B \in SUBSET books : \E new \in Results(B, file[s]) :
          /\ new \subseteq results'
          /\ results' \subseteq results \cup new
          /\ row' = [c \in DOMAIN row |-> row'[c]]
          /\ \A c \in DOMAIN row : row'[c] \in {Row(s, new)[c], row[c]}
          /\ ~ overlapped => results' = new /\ row' = Row(s, new)
    /\ UNCHANGED <<books, file, overlapped>>

Overlap ==
    /\ overlapped' = TRUE
    /\ UNCHANGED <<books, file, results, row>>

Next == \/ \E i \in Invoices : Extract(i)
        \/ \E s \in Sources : Upload(s) \/ Run(s)
        \/ Overlap

Spec == Init /\ [][Next]_vars
=============================================================================
