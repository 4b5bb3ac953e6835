------------------------------ MODULE MCReports ------------------------------
(* Instances of Reports for TLC: a sale of two rates, a refund to somebody    *)
(* without a GSTIN (its taxes are negative: it cannot be posted), a cash      *)
(* purchase without a date and a purchase dated in another format; a manual   *)
(* voucher of the second year, on a ledger that somebody has to create, and   *)
(* one of three entries that is out by the tolerance, and one that is out by  *)
(* more and refused.                                                          *)
EXTENDS Reports, GstCalculator

Supply(type, items) == LineItems(items, type)
Item(taxable, rate, cessRate) == [taxable |-> taxable, rate |-> rate, cessRate |-> cessRate]

Negated(lines) == [i \in DOMAIN lines |->
    [a \in DOMAIN lines[i] |-> IF a = "rate" THEN lines[i].rate ELSE -lines[i][a]]]

MCBill ==
    [sale |-> [direction |-> "sales", gstin |-> "27AAA", place |-> "27",
               party |-> "Acme", date |-> 1,
               lines |-> Supply("intra_state", <<Item(3330, 1800, 0), Item(1500, 500, 100)>>)],
     refund |-> [direction |-> "sales", gstin |-> NoValue, place |-> NoValue,
               party |-> "Acme", date |-> 1,
               lines |-> Negated(Supply("inter_state", <<Item(1000, 1800, 0)>>))],
     undated |-> [direction |-> "purchase", gstin |-> "29BBB", place |-> "29",
               party |-> "Cash", date |-> NoValue,
               lines |-> Supply("inter_state", <<Item(4440, 1200, 0)>>)],
     slashed |-> [direction |-> "purchase", gstin |-> "29BBB", place |-> "29",
               party |-> "Bolt", date |-> Early,
               lines |-> Supply("intra_state", <<Item(1000, 1800, 0)>>)]]

MCInvoices == {"sale", "refund", "undated", "slashed"}

Leg(l, side, amount) == [ledger |-> l, side |-> side, amount |-> amount]

MCDrafts ==
    {[date |-> 2, entries |-> <<Leg("Rent", "dr", 7000), Leg("Cash", "cr", 7000)>>],
     [date |-> 1, entries |-> <<Leg("Cash", "dr", 10015), Leg("Sales", "cr", 5004),
                                Leg("Round Off", "cr", 5004)>>],
     [date |-> 1, entries |-> <<Leg("Cash", "dr", 7000), Leg("Round Off", "cr", 6970)>>]}

MCNewLedgers == [Rent |-> Account("expense", "indirect_expense", 300)]

\* calculate: the two halves of a tax differ from the whole by a paisa at most, and
\* what is shown is never negative.
ASSUME HalvesMakeTheTax ==
    \A taxable \in 0..120, rate \in {0, 10, 25, 500, 1200, 1800, 2800, 10000} :
        LET c == Calculation(taxable, rate, "intra_state", 0) IN
        /\ Distance(c.cgst + c.sgst, Calculation(taxable, rate, "inter_state", 0).igst) <= 1
        /\ GrandTotal(c) >= c.taxable
=============================================================================
