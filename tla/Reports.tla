------------------------------- MODULE Reports -------------------------------
(***************************************************************************)
(* The amounts in the books and the reports made of them:                  *)
(* AccountingService (services/accounting_service.py), with the figures    *)
(* that ReturnService (services/return_service.py) takes from the same     *)
(* invoices.                                                               *)
(*                                                                         *)
(* Requests that write are one step each here; how they overlap is the     *)
(* subject of module Books.  A report reads the ledgers, the sums before   *)
(* its period and the sums of its period with three SELECTs at READ        *)
(* COMMITTED, a balance sheet does so twice, and other requests commit     *)
(* between any two of them.                                                *)
(*                                                                         *)
(* Dates are compared as strings.  ISO dates are the days 1..LastDay, each *)
(* of a tax period of its own, YearLength of them in a financial year.     *)
(* The invoice date is what the model read from the document: it can be    *)
(* missing, or in another format, which sorts before every ISO date or     *)
(* after every one (Early, Late).                                          *)
(***************************************************************************)
EXTENDS Integers, Sequences, FiniteSets, Statements, ReturnAggregation

CONSTANTS
    Invoices,       \* identifiers of invoices whose extraction succeeded
    Bill,           \* what was extracted: [direction, gstin, place, party, date, lines]
    Drafts,         \* manual vouchers [date, entries] that a request may ask for
    NewLedgers,     \* ledgers a request may create: name -> account
    Watched,        \* ledgers somebody wants a statement of
    LastDay,        \* bounds the calendar
    YearLength,     \* days in a financial year
    MaxVouchers     \* bounds the books

ASSUME CalendarIsNatural == LastDay \in Nat /\ YearLength \in Nat \ {0}

Days == 1..LastDay
Early == 0                  \* sorts before _EPOCH
Epoch == 1                  \* _EPOCH: no ISO date is before it
Late == LastDay + 1         \* sorts after every ISO date
FarFuture == Late           \* _FAR_FUTURE

ASSUME ReportsAssumption ==
    /\ NoValue \notin Invoices
    /\ NoValue \notin Early..Late
    /\ \A b \in Invoices :
          /\ Bill[b].direction \in {"sales", "purchase"}
          /\ Bill[b].date \in (Early..Late) \cup {NoValue}
          /\ IsFiniteSet(DOMAIN Bill[b].lines)
          /\ \A i \in DOMAIN Bill[b].lines, a \in Amounts : Bill[b].lines[i][a] \in Int
    /\ \A draft \in Drafts :
          /\ draft.date \in Days
          /\ IsFiniteSet(DOMAIN draft.entries)
          /\ \A k \in DOMAIN draft.entries : /\ draft.entries[k].side \in Sides
                                             /\ draft.entries[k].amount \in Int
    /\ \A l \in DOMAIN NewLedgers : /\ NewLedgers[l].nature \in Natures
                                    /\ NewLedgers[l].opening \in Int

VARIABLES
    today,      \* date.today()
    ledgers,    \* ledgers rows with their groups: name -> account
    arrived,    \* the invoices there are
    books,      \* vouchers rows with their entries, in the order of creation
    report      \* the report being made

vars == <<today, ledgers, arrived, books, report>>

-----------------------------------------------------------------------------
(* The chart of accounts and the calendar. *)

Account(nature, class, opening) ==
    [nature |-> nature, class |-> class, opening |-> opening]

TaxLedger ==
    [sales    |-> [cgst |-> "Output CGST", sgst |-> "Output SGST",
                   igst |-> "Output IGST", cess |-> "Output CESS"],
     purchase |-> [cgst |-> "Input CGST", sgst |-> "Input SGST",
                   igst |-> "Input IGST", cess |-> "Input CESS"]]

BaseLedger == [sales |-> "Sales", purchase |-> "Purchase"]

TaxLedgers == UNION {Range(TaxLedger[d]) : d \in {"sales", "purchase"}}

\* The accounts with one more, unless there is one of that name.
With(accounts, l, account) ==
    [x \in DOMAIN accounts \cup {l} |-> IF x \in DOMAIN accounts THEN accounts[x]
                                                              ELSE account]

\* ensure_chart_of_accounts
Chart ==
    LET rows == {<<l, "liability", "duties_taxes">> : l \in TaxLedgers}
                  \cup {<<"Cash", "asset", "cash">>, <<"Bank Account", "asset", "bank">>,
                        <<"Sales", "income", "sales">>,
                        <<"Purchase", "expense", "purchase">>,
                        <<"Round Off", "expense", "indirect_expense">>,
                        <<"Opening Balance Equity", "liability", "capital">>} IN
    [l \in {row[1] : row \in rows} |->
        LET row == CHOOSE row \in rows : row[1] = l IN Account(row[2], row[3], 0)]

\* current_fy_range
YearStart(day) == ((day - 1) \div YearLength) * YearLength + 1
YearEnd(day) == YearStart(day) + YearLength - 1

-----------------------------------------------------------------------------
(* Reports, as functions of what their SELECTs return. *)

\* Where the entries of some ledgers are, of vouchers with these dates.
Places(vouchers, accounts, dates) ==
    UNION {{i} \X {k \in DOMAIN vouchers[i].entries :
                      vouchers[i].entries[k].ledger \in accounts} :
              i \in {i \in DOMAIN vouchers : vouchers[i].date \in dates}}

EntriesOf(vouchers, accounts, dates) ==
    [p \in Places(vouchers, accounts, dates) |-> vouchers[p[1]].entries[p[2]]]

\* The sum of a ledger's entries of one side, of vouchers dated from..to.
Movement(vouchers, l, side, from, to) ==
    LET entries == RestrictValues(EntriesOf(vouchers, {l}, from..to),
                                  LAMBDA e : e.side = side) IN
    SumFunction([p \in DOMAIN entries |-> entries[p].amount])

\* opening_rows: the net of each ledger before the period.
Before(vouchers, accounts, from) ==
    [l \in DOMAIN accounts |-> Movement(vouchers, l, "dr", Early, from - 1)
                                 - Movement(vouchers, l, "cr", Early, from - 1)]

\* _ledger_lines, of the accounts, the openings and the vouchers it read.
LedgerLines(accounts, before, vouchers, from, to, includeOpening) ==
    [l \in DOMAIN accounts |->
        [nature  |-> accounts[l].nature,
         class   |-> accounts[l].class,
         opening |-> IF includeOpening THEN accounts[l].opening + before[l] ELSE 0,
         debit   |-> Movement(vouchers, l, "dr", from, to),
         credit  |-> Movement(vouchers, l, "cr", from, to)]]

\* The statement of one ledger: its rows by date and then by the creation of the
\* voucher.  Nothing orders the rows of one voucher.
Statement(opening, vouchers, l, from, to) ==
    LET txns == EntriesOf(vouchers, {l}, from..to)
        upTo == [p \in DOMAIN txns |->
                    {q \in DOMAIN txns :
                        \/ vouchers[q[1]].date < vouchers[p[1]].date
                        \/ /\ vouchers[q[1]].date = vouchers[p[1]].date
                           /\ q[1] <= p[1]}] IN
    LedgerStatement(opening, txns, upTo)

Outstanding(lines, kind) ==
    LET Balance(line) == IF kind = "receivable" THEN DebitBalance(line)
                                                ELSE CreditBalance(line)
        rows == {l \in DOMAIN lines : lines[l].class = kind /\ Balance(lines[l]) > 0} IN
    [l \in rows |-> Balance(lines[l])]

-----------------------------------------------------------------------------
(* A report in the making.  `of` is the ledger of a statement or the kind of *)
(* the outstanding balances; `first` is the pass over a balance sheet's      *)
(* profit.  What other requests commit meanwhile is kept for the properties: *)
(* whether a ledger was made, and the dates of the vouchers.                 *)

Asked(kind, of, from, to) ==
    [kind |-> kind, of |-> of, from |-> from, to |-> to,
     first |-> kind = "sheet", year |-> YearStart(today),
     step |-> "ledgers", listed |-> <<>>, before |-> <<>>, profit |-> 0,
     ledgerMade |-> FALSE, dates |-> {}]

NoReport == [step |-> "none"]

Running == report # NoReport

From(r) == IF r.first THEN r.year ELSE r.from
IncludesOpening(r) == ~r.first /\ r.kind # "profit"

\* The lines that the three SELECTs of the pass add up to.
LinesRead(r) ==
    LedgerLines(r.listed, r.before, books, From(r), r.to, IncludesOpening(r))

Figures(r, lines) ==
    CASE r.kind = "trial"       -> TrialBalance(lines)
      [] r.kind = "profit"      -> ProfitAndLoss(lines)
      [] r.kind = "sheet"       -> BalanceSheet(lines, r.profit)
      [] r.kind = "outstanding" -> Outstanding(lines, r.of)
      [] r.kind = "statement"   -> Statement(lines[r.of].opening, books,
                                             r.of, r.from, r.to)

\* A report is asked for: the dates default to today, to the financial year or
\* to everything.
Ask ==
    /\ ~Running
    /\ \/ \E kind \in {"trial", "sheet"}, asOn \in Days :
              report' = Asked(kind, NoValue, Epoch, asOn)
       \/ report' = Asked("profit", NoValue, YearStart(today), YearEnd(today))
       \/ \E kind \in {"receivable", "payable"} :
              report' = Asked("outstanding", kind, Epoch, FarFuture)
       \/ \E l \in Watched \cap DOMAIN ledgers, from \in Days :
              report' = Asked("statement", l, from, FarFuture)
    /\ UNCHANGED <<today, ledgers, arrived, books>>

\* list_ledgers (get_ledger for a statement)
ListLedgers ==
    /\ report.step = "ledgers"
    /\ report' = [report EXCEPT !.step = "before", !.listed = ledgers]
    /\ UNCHANGED <<today, ledgers, arrived, books>>

\* opening_rows (opening_delta for a statement)
SumBefore_UpToFrom ==
    /\ report.step = "before"
    /\ report' = [report EXCEPT
                     !.step = "sums",
                     !.before = Before(books, report.listed, From(report) + 1)]
    /\ UNCHANGED <<today, ledgers, arrived, books>>
SumBefore ==
    /\ report.step = "before"
    /\ report' = [report EXCEPT
                     !.step = "sums",
                     !.before = Before(books, report.listed, From(report))]
    /\ UNCHANGED <<today, ledgers, arrived, books>>

\* What the response will say if this is the moment of the last SELECT.
Answer == Figures(report, LinesRead(report))

\* period_rows (the rows of a statement), after which the answer is sent or, of a
\* balance sheet, the second pass begins.
SumPeriod ==
    /\ report.step = "sums"
    /\ report' =
          IF report.first
          THEN [report EXCEPT
                   !.first = FALSE, !.step = "ledgers",
                   !.listed = <<>>, !.before = <<>>,
                   !.profit = ProfitAndLoss(LinesRead(report)).netProfit]
          ELSE NoReport
    /\ UNCHANGED <<today, ledgers, arrived, books>>

-----------------------------------------------------------------------------
(* Requests that write. *)

\* After its first SELECT a report may miss what is committed.
Begun == Running /\ (report.step # "ledgers" \/ (report.kind = "sheet" /\ ~report.first))

Meanwhile(made, dates) ==
    report' = IF Begun THEN [report EXCEPT !.ledgerMade = @ \/ made,
                                           !.dates = @ \cup dates]
                       ELSE report

\* create_ledger; how its name is compared with the others is in Books.
CreateLedger(l) ==
    /\ l \notin DOMAIN ledgers
    /\ ledgers' = With(ledgers, l, NewLedgers[l])
    /\ Meanwhile(TRUE, {})
    /\ UNCHANGED <<today, arrived, books>>

\* The entry rows: the columns keep two places.
Stored(entries) ==
    [k \in DOMAIN entries |->
        [ledger |-> entries[k].ledger, side |-> entries[k].side,
         amount |-> (entries[k].amount + 5) \div 10]]

\* create_voucher, once the accounts it needs are there.
CreateVoucher(date, entries, source, accounts) ==
    /\ Balanced(entries)
    /\ \A k \in DOMAIN entries : entries[k].ledger \in DOMAIN accounts
    /\ Len(books) < MaxVouchers
    /\ books' = Append(books, [date |-> date, source |-> source,
                               entries |-> Stored(entries)])
    /\ ledgers' = accounts
    /\ Meanwhile(accounts # ledgers, {date})

Enter(draft) ==
    /\ CreateVoucher(draft.date, draft.entries, NoValue, ledgers)
    /\ UNCHANGED <<today, arrived>>

PartyAccount(direction) ==
    IF direction = "sales" THEN Account("asset", "receivable", 0)
                           ELSE Account("liability", "payable", 0)

\* A party that has the name of a ledger is that ledger, whatever its group.
WithParty(bill) == With(ledgers, bill.party, PartyAccount(bill.direction))

VoucherDate_Today(bill) == today
VoucherDate(bill) == IF bill.date = NoValue THEN today ELSE bill.date

\* The entries of an invoice, in thousandths: the party against the base
\* ledger and the tax ledgers.  A tax that is not positive has no entry, and
\* the total has it all the same.
InvoiceEntries(bill) ==
    LET t == Totals(bill.lines)
        LedgerOf(k) == CASE k = "party"   -> bill.party
                         [] k = "taxable" -> BaseLedger[bill.direction]
                         [] OTHER         -> TaxLedger[bill.direction][k]
        paise(k) == IF k = "party" THEN t.taxable + TaxOf(t) ELSE t[k] IN
    [k \in {"party", "taxable"} \cup {h \in Heads : t[h] > 0} |->
        [ledger |-> LedgerOf(k),
         side   |-> IF (k = "party") = (bill.direction = "sales") THEN "dr" ELSE "cr",
         amount |-> 10 * paise(k)]]

IsPosted(b) == \E i \in DOMAIN books : books[i].source = b

\* post_invoice
Post(b) ==
    /\ b \in arrived
    /\ ~IsPosted(b)
    /\ Totals(Bill[b].lines).taxable > 0
    /\ CreateVoucher(VoucherDate(Bill[b]), InvoiceEntries(Bill[b]), b,
                     WithParty(Bill[b]))
    /\ UNCHANGED <<today, arrived>>

\* An extraction commits, see Invoices.
Arrive(b) ==
    /\ b \notin arrived
    /\ arrived' = arrived \cup {b}
    /\ UNCHANGED <<today, ledgers, books, report>>

NextDay ==
    /\ today < LastDay
    /\ today' = today + 1
    /\ UNCHANGED <<ledgers, arrived, books, report>>

-----------------------------------------------------------------------------
Init == /\ today = 1
        /\ ledgers = Chart
        /\ arrived = {}
        /\ books = <<>>
        /\ report = NoReport

Next == \/ Ask \/ ListLedgers \/ SumBefore \/ SumPeriod
        \/ \E l \in DOMAIN NewLedgers : CreateLedger(l)
        \/ \E draft \in Drafts : Enter(draft)
        \/ \E b \in Invoices : Arrive(b) \/ Post(b)
        \/ NextDay

Spec == Init /\ [][Next]_vars

-----------------------------------------------------------------------------
(* What a report should say, from the vouchers one by one. *)

NetOf(accounts, dates) == Net(EntriesOf(books, accounts, dates))

BalanceOn(l, day) == ledgers[l].opening + NetOf({l}, Early..day)

Nominal == {l \in DOMAIN ledgers : ledgers[l].nature \in {"income", "expense"}}

Shown(f, l) == IF l \in DOMAIN f THEN f[l] ELSE 0

\* The next SELECT is the last one of the report.
Completing == report.step = "sums" /\ ~report.first

\* A report is disturbed by a ledger made after its list was read, and by a
\* voucher that comes too late for a sum that was read before it: one dated
\* before the period or, of a balance sheet, any.
Disturbed(r) ==
    \/ r.ledgerMade
    \/ r.kind = "sheet" /\ r.dates # {}
    \/ r.kind # "profit" /\ \E d \in r.dates : d < r.from

\* Whatever is committed between its SELECTs, a report that is not disturbed
\* tells the books as they are when it completes: each balance is the ledger's
\* opening and all its entries up to the date, dates in no known format included,
\* and each profit the entries of the period.
ReportsAreOfOneMoment ==
    Completing /\ ~Disturbed(report) =>
         LET r == report
             f == Answer IN
         CASE r.kind = "trial" ->
                 \A l \in DOMAIN ledgers :
                     Shown(f.debits, l) - Shown(f.credits, l) = BalanceOn(l, r.to)
           [] r.kind = "sheet" ->
                 /\ \A l \in DOMAIN ledgers \ Nominal :
                        Shown(f.assets, l) - Shown(f.liabilities, l) = BalanceOn(l, r.to)
                 /\ f.netProfit = -NetOf(Nominal, r.year..r.to)
           [] r.kind = "profit" ->
                 f.netProfit = -NetOf(Nominal, r.from..r.to)
           [] r.kind = "outstanding" ->
                 \A l \in DOMAIN ledgers : ledgers[l].class = r.of =>
                     Shown(f, l) = Positive(IF r.of = "receivable"
                                            THEN BalanceOn(l, r.to)
                                            ELSE -BalanceOn(l, r.to))
           [] r.kind = "statement" ->
                 /\ f.opening = BalanceOn(r.of, r.from - 1)
                 /\ f.closing = BalanceOn(r.of, r.to)

Distance(m, n) == IF m > n THEN m - n ELSE n - m

Openings == SumFunction([l \in DOMAIN ledgers |-> ledgers[l].opening])

\* Twice what the vouchers may be out of balance: the tolerance of each, and half
\* a paisa for the rounding of each entry.
Slack == SumFunction([i \in DOMAIN books |->
                         2 * Tolerance + Cardinality(DOMAIN books[i].entries)])

\* What the income and expense ledgers gained outside the year of a report.
OtherYears(r) ==
    -(SumFunction([l \in Nominal |-> ledgers[l].opening])
        + NetOf(Nominal, (Early..r.to) \ (r.year..r.to)))

\* "The trial balance ties, Assets = Liabilities + Equity" (rules/accounting.py)
\* as far as it does: a trial balance is out by the opening balances that were
\* entered and by what the vouchers may be, even if vouchers are committed while
\* it is made; a balance sheet is out by the profit of other years as well.
ReportsTie ==
    Completing /\ ~report.ledgerMade =>
         LET f == Answer IN
         /\ report.kind = "trial" =>
                2 * Distance(f.totalDebit - f.totalCredit, Openings) <= Slack
         /\ report.kind = "sheet" /\ report.dates = {} =>
                2 * Distance(f.totalAssets - f.totalLiabilities,
                             Openings + OtherYears(report)) <= Slack

\* "Assets = Liabilities + Equity" (README.md, rules/accounting.py) of books that
\* were opened in balance, whose vouchers balance to the paisa, and to which
\* nothing is written while the balance sheet is made.
AssetsAreClaims ==
    /\ Completing /\ report.kind = "sheet" /\ ~Disturbed(report)
    /\ Openings = 0
    /\ \A i \in DOMAIN books : Net(books[i].entries) = 0
    => Distance(Answer.totalAssets, Answer.totalLiabilities) <= Tolerance

-----------------------------------------------------------------------------
(* The books and the returns. *)

\* _load_period_invoices and _to_inputs
InPeriod(day) == Restrict(Bill, {b \in arrived : Bill[b].date = day})

\* The tax ledgers tell the tax of a period as the return does, head by head and
\* up to the tolerance of each voucher, once all its invoices are posted, unless
\* an invoice without a date was posted on that day, or a manual voucher or a party
\* used a tax ledger: an invoice whose taxes the voucher would leave out is not
\* posted at all.
BooksAgreeWithReturns ==
    \A day \in Days :
        LET mine == {i \in DOMAIN books : books[i].date = day}
            whole == /\ \A b \in arrived : Bill[b].date = day => IsPosted(b)
                     /\ \A i \in mine :
                           IF books[i].source = NoValue
                           THEN \A j \in DOMAIN books[i].entries :
                                    books[i].entries[j].ledger \notin TaxLedgers
                           ELSE /\ Bill[books[i].source].date = day
                                /\ Bill[books[i].source].party \notin TaxLedgers
            return == Gstr3b(InPeriod(day))
            slack == Tolerance * Cardinality(mine) IN
        whole => \A h \in Heads :
            /\ Distance(return.outward[h], -NetOf({TaxLedger.sales[h]}, {day})) <= slack
            /\ Distance(return.itc[h], NetOf({TaxLedger.purchase[h]}, {day})) <= slack

AddUp(parts, totals) ==
    \A a \in Amounts : SumFunction([k \in DOMAIN parts |-> parts[k][a]]) = totals[a]

\* The parts of a GSTR-1 are the whole: its groups, its rates and the rows of its
\* export each add up to its totals, no invoice is in two groups, and the totals
\* are the outward supplies of the GSTR-3B.
SectionsAddUp ==
    \A day \in Days :
        LET invoices == InPeriod(day)
            s == Gstr1(invoices)
            groups == [k \in {<<"b2b", g>> : g \in DOMAIN s.b2b}
                               \cup {<<"b2c", g>> : g \in DOMAIN s.b2c} |-> s[k[1]][k[2]]] IN
        /\ AddUp([k \in DOMAIN groups |-> groups[k].totals], s.totals)
        /\ SumFunction([k \in DOMAIN groups |-> groups[k].count])
             = Cardinality(Directed(invoices, "sales"))
        /\ AddUp(s.rateWise, s.totals)
        /\ AddUp([row \in CsvRows(s) |-> row.totals], s.totals)
        /\ s.totals = Gstr3b(invoices).outward
=============================================================================
