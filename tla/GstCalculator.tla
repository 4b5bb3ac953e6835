---------------------------- MODULE GstCalculator ----------------------------
(***************************************************************************)
(* rules/gst_calculator.py: the tax of a supply, and of an invoice line by *)
(* line.  A value that is asked for is in thousandths of a rupee, a rate   *)
(* in hundredths of a percent, a result in paise.                          *)
(***************************************************************************)
EXTENDS Integers, Sequences, Functions

\* ROUND_HALF_UP of a quotient that is not negative.
RoundHalfUp(n, d) == (2 * n + d) \div (2 * d)

Paise(thousandths) == RoundHalfUp(thousandths, 10)

ZeroTax == {"export", "sez_supply", "exempt", "nil_rated"}
TransactionTypes == {"intra_state", "inter_state"} \cup ZeroTax

Accepted(taxable, rate, cessRate) ==
    taxable >= 0 /\ rate \in 0..10000 /\ cessRate >= 0

Tax(taxable, rate) == RoundHalfUp(taxable * rate, 100000)

\* calculate, of accepted values.  The two halves are rounded one by one, and
\* only the taxes that have a value of their own are not zero.
Calculation(taxable, rate, type, cessRate) ==
    LET half == IF type = "intra_state" THEN RoundHalfUp(taxable * rate, 200000) ELSE 0 IN
    [taxable |-> Paise(taxable),
     rate |-> rate,
     cgst |-> half,
     sgst |-> half,
     igst |-> IF type = "inter_state" THEN Tax(taxable, rate) ELSE 0,
     cess |-> IF type \in ZeroTax THEN 0 ELSE Tax(taxable, cessRate)]

TotalTax(c) == c.cgst + c.sgst + c.igst + c.cess
GrandTotal(c) == c.taxable + TotalTax(c)

\* calculate_line_items: every line is rounded, the invoice is their sum.
LineItems(items, type) ==
    [i \in DOMAIN items |->
        Calculation(items[i].taxable, items[i].rate, type, items[i].cessRate)]

InvoiceTotal(calculations) ==
    [f \in {"taxable", "cgst", "sgst", "igst", "cess"} |->
        SumFunction([i \in DOMAIN calculations |-> calculations[i][f]])]
=============================================================================
