----------------------------- MODULE Statements -----------------------------
(***************************************************************************)
(* rules/accounting.py: the double-entry rules and the financial           *)
(* statements, as functions of the data they are given.                    *)
(*                                                                         *)
(* Amounts are in paise, except those of a voucher that is asked for,      *)
(* which are in thousandths of a rupee: a request may carry more places    *)
(* than a column stores.  A net amount is positive when it is a debit.     *)
(* Entries are a function to [ledger, side, amount], from any finite set.  *)
(* Lines are a function from a ledger to [nature, class, opening, debit,   *)
(* credit]; the order and the wording of the rows are left out.            *)
(***************************************************************************)
EXTENDS Integers, FiniteSets, Functions

Natures == {"asset", "liability", "income", "expense"}
Sides == {"dr", "cr"}
Direct == {"sales", "purchase", "direct_income", "direct_expense", "stock"}

Tolerance == 1              \* _TOLERANCE, in paise

Signed(side, amount) == IF side = "dr" THEN amount ELSE -amount

Net(entries) ==
    SumFunction([i \in DOMAIN entries |-> Signed(entries[i].side, entries[i].amount)])

\* validate_balanced, of amounts in thousandths.
Balanced_Loose(entries) ==
    /\ Cardinality(DOMAIN entries) >= 2
    /\ \A i \in DOMAIN entries : entries[i].amount > 0
Balanced(entries) ==
    /\ Cardinality(DOMAIN entries) >= 2
    /\ \A i \in DOMAIN entries : entries[i].amount > 0
    /\ Net(entries) \in -(10 * Tolerance)..(10 * Tolerance)

Positive(n) == IF n > 0 THEN n ELSE 0

ClosingNet(line) == line.opening + line.debit - line.credit
DebitBalance(line) == Positive(ClosingNet(line))
CreditBalance(line) == Positive(-ClosingNet(line))

\* A ledger with neither balance has no row.
TrialBalance(lines) ==
    LET rows == {l \in DOMAIN lines : ClosingNet(lines[l]) # 0}
        debits == [l \in rows |-> DebitBalance(lines[l])]
        credits == [l \in rows |-> CreditBalance(lines[l])] IN
    [debits |-> debits, credits |-> credits,
     totalDebit |-> SumFunction(debits), totalCredit |-> SumFunction(credits)]

\* The ledgers of one nature that are not zero and are direct or not (direct is a
\* set of Booleans), each with its balance on the side that is usual for the nature.
Section(lines, nature, direct) ==
    [l \in {k \in DOMAIN lines : /\ lines[k].nature = nature
                                 /\ (lines[k].class \in Direct) \in direct
                                 /\ ClosingNet(lines[k]) # 0} |->
        IF nature \in {"asset", "expense"} THEN ClosingNet(lines[l])
                                           ELSE -ClosingNet(lines[l])]

ProfitAndLoss(lines) ==
    LET di == Section(lines, "income", {TRUE})
        de == Section(lines, "expense", {TRUE})
        ii == Section(lines, "income", {FALSE})
        ie == Section(lines, "expense", {FALSE})
        gross == SumFunction(di) - SumFunction(de) IN
    [directIncome |-> di, directExpense |-> de,
     indirectIncome |-> ii, indirectExpense |-> ie,
     grossProfit |-> gross,
     netProfit |-> gross + SumFunction(ii) - SumFunction(ie)]

\* The profit it is given is added to what is owed.
BalanceSheet(lines, netProfit) ==
    LET assets == Section(lines, "asset", BOOLEAN)
        liabilities == Section(lines, "liability", BOOLEAN) IN
    [assets |-> assets, liabilities |-> liabilities, netProfit |-> netProfit,
     totalAssets |-> SumFunction(assets),
     totalLiabilities |-> SumFunction(liabilities) + netProfit]

\* The balance after each transaction, and the last one; upTo[p] are the
\* transactions that come no later than p.
LedgerStatement(opening, txns, upTo) ==
    [opening |-> opening,
     balances |-> [p \in DOMAIN txns |-> opening + Net(Restrict(txns, upTo[p]))],
     closing |-> opening + Net(txns)]
=============================================================================
