-------------------------- MODULE ReturnAggregation --------------------------
(***************************************************************************)
(* rules/return_aggregation.py: the figures of GSTR-1 and GSTR-3B, made of *)
(* the invoices of a period.                                               *)
(*                                                                         *)
(* The invoices are a function from identifiers to [direction, gstin,      *)
(* place, lines]: the GSTIN of the other party or NoValue, the place of    *)
(* supply or NoValue, a sequence of lines.  A line has the rate and the    *)
(* amounts, in paise, that a return adds up.  Names and the order of the   *)
(* invoices, the lines and the groups are left out.                        *)
(***************************************************************************)
EXTENDS Integers, FiniteSets, Functions

CONSTANT NoValue   \* a column that is NULL

Heads == {"cgst", "sgst", "igst", "cess"}
Amounts == Heads \cup {"taxable"}

\* TaxTotals after add_line for each of the lines.
Totals(lines) ==
    [a \in Amounts |-> SumFunction([i \in DOMAIN lines |-> lines[i][a]])]

TaxOf(totals) == totals.cgst + totals.sgst + totals.igst + totals.cess

\* The lines of some of the invoices.
LinesOf(invoices, some) ==
    [p \in UNION {{b} \X DOMAIN invoices[b].lines : b \in some} |->
        invoices[p[1]].lines[p[2]]]

Rates(lines) == {lines[i].rate : i \in DOMAIN lines}

\* _bucket_by_rate
Buckets(lines) ==
    [r \in Rates(lines) |-> Totals(RestrictValues(lines, LAMBDA l : l.rate = r))]

\* _group_counterparties: by GSTIN, or by place of supply without one.
Key(invoice) ==
    IF invoice.gstin # NoValue THEN invoice.gstin
    ELSE IF invoice.place # NoValue THEN invoice.place ELSE "unregistered"

Group(invoices, mine) ==
    LET lines == LinesOf(invoices, mine) IN
    [count |-> Cardinality(mine), totals |-> Totals(lines), buckets |-> Buckets(lines)]

Groups_NeedsPlace(invoices, some, withGstin) ==
    LET mine == {b \in some : /\ (invoices[b].gstin # NoValue) = withGstin
                              /\ invoices[b].place # NoValue} IN
    [k \in {Key(invoices[b]) : b \in mine} |->
        Group(invoices, {b \in mine : Key(invoices[b]) = k})]
Groups(invoices, some, withGstin) ==
    LET mine == {b \in some : (invoices[b].gstin # NoValue) = withGstin} IN
    [k \in {Key(invoices[b]) : b \in mine} |->
        Group(invoices, {b \in mine : Key(invoices[b]) = k})]

Directed(invoices, direction) ==
    {b \in DOMAIN invoices : invoices[b].direction = direction}

\* build_gstr1
Gstr1(invoices) ==
    LET sales == Directed(invoices, "sales") IN
    [b2b |-> Groups(invoices, sales, TRUE),
     b2c |-> Groups(invoices, sales, FALSE),
     rateWise |-> Buckets(LinesOf(invoices, sales)),
     totals |-> Totals(LinesOf(invoices, sales))]

\* build_gstr3b: a credit is set off against the tax of its own head only.
Gstr3b(invoices) ==
    LET outward == Totals(LinesOf(invoices, Directed(invoices, "sales")))
        itc == Totals(LinesOf(invoices, Directed(invoices, "purchase"))) IN
    [outward |-> outward,
     itc |-> itc,
     net |-> [h \in Heads |->
                 IF outward[h] > itc[h] THEN outward[h] - itc[h] ELSE 0]]

\* gstr1_to_csv_rows: a row for every rate of every group of the two sections.
CsvRows(summary) ==
    LET SectionRows(section) ==
            UNION {{[section |-> section, key |-> k, rate |-> r,
                     totals |-> summary[section][k].buckets[r]] :
                       r \in DOMAIN summary[section][k].buckets} :
                          k \in DOMAIN summary[section]} IN
    SectionRows("b2b") \cup SectionRows("b2c")
=============================================================================
