-------------------------------- MODULE Books --------------------------------
(***************************************************************************)
(* The double-entry books of one organization: AccountingService           *)
(* (services/accounting_service.py) over the tables of models/             *)
(* accounting.py, as overlapping HTTP requests run it against Postgres.    *)
(*                                                                         *)
(* A request is one transaction at READ COMMITTED: every SELECT sees what  *)
(* is committed at that moment and what the request itself has flushed.    *)
(* A flushed INSERT is invisible to the others until the commit, but it    *)
(* holds its key of a unique index: an INSERT of the same key waits for    *)
(* the first one to end, and fails if it committed.                        *)
(*                                                                         *)
(* Data: a ledger is its name, the chart of accounts (groups and system    *)
(* ledgers, which the code creates together) is a set of names, a voucher  *)
(* is its type, its running number and the invoice it was posted from.     *)
(* A definition Op_Variant is Op with a mistake the properties detect.     *)
(* Amounts, dates and narrations are left out; so is the audit row, which  *)
(* repeats the voucher.                                                    *)
(***************************************************************************)
EXTENDS Naturals, FiniteSets, WaitsFor

CONSTANTS
    Names,          \* ledger names
    SystemLedgers,  \* _DEFAULT_LEDGERS
    Lower,          \* [Names -> Names], one name for all that differ by case
    Strip,          \* [Names -> Names], without surrounding blanks
    Invoices,       \* invoices that carry a taxable value
    Party,          \* [Invoices -> Names], the buyer or supplier
    TypeOf,         \* [Invoices -> Types], sales or purchase
    Types,          \* voucher types
    Workers,        \* requests that can be in flight at once
    None,           \* no invoice, no name, no voucher type
    MaxVouchers     \* bound: no voucher is asked for beyond this many

ASSUME BooksAssumption ==
    /\ SystemLedgers \subseteq Names
    /\ Lower \in [Names -> Names]
    /\ Strip \in [Names -> Names]
    /\ Party \in [Invoices -> Names]
    /\ TypeOf \in [Invoices -> Types]
    /\ None \notin Names \cup Invoices \cup Types
    /\ MaxVouchers \in Nat

VARIABLES
    ledgers,    \* names of the committed ledgers
    vouchers,   \* committed vouchers
    tx,         \* the transaction each worker has open
    raced       \* history: invoices two open requests were posting at once

vars == <<ledgers, vouchers, tx, raced>>

-----------------------------------------------------------------------------
Voucher == [type: Types, number: Nat, source: Invoices \cup {None}]

\* What a request does next.
Ops == {"idle", "chart", "check", "lookup", "ledger", "count", "voucher",
        "commit"}

Tx == [op: Ops,
       source: Invoices \cup {None},  \* the invoice being posted
       name: Names \cup {None},       \* the ledger to find or to create
       new: SUBSET Names,             \* ledgers flushed, not committed
       type: Types \cup {None},       \* of the voucher to create
       number: Nat]                   \* of the voucher to create

Idle == [op |-> "idle", source |-> None, name |-> None, new |-> {},
         type |-> None, number |-> 0]

TypeOK == /\ ledgers \subseteq Names
          /\ vouchers \subseteq Voucher
          /\ IsFiniteSet(vouchers)
          /\ tx \in [Workers -> Tx]
          /\ raced \subseteq Invoices

VouchersOf(type) == {v \in vouchers : v.type = type}
PostsOf(invoice) == {v \in vouchers : v.source = invoice}

-----------------------------------------------------------------------------
(* The requests. *)

Begin(w, t) == /\ tx[w] = Idle
               /\ tx' = [tx EXCEPT ![w] = t]

BelowBound == Cardinality(vouchers) < MaxVouchers

Continue(w, t) == /\ tx' = [tx EXCEPT ![w] = t]
                  /\ UNCHANGED <<ledgers, vouchers, raced>>

\* An error response: the session rolls back.
Fail(w) == Continue(w, Idle)

\* Every request for the chart or for a posting first creates what is missing.
BeginChart(w) ==
    /\ Begin(w, [Idle EXCEPT !.op = "chart", !.new = SystemLedgers \ ledgers])
    /\ UNCHANGED <<ledgers, vouchers, raced>>

BeginPost(w) ==
    /\ BelowBound
    /\ \E i \in Invoices :
          /\ Begin(w, [Idle EXCEPT !.op = "chart", !.source = i,
                                   !.name = Strip[Party[i]],
                                   !.type = TypeOf[i],
                                   !.new = SystemLedgers \ ledgers])
          /\ raced' = IF \E v \in Workers : tx[v].source = i
                      THEN raced \cup {i} ELSE raced
    /\ UNCHANGED <<ledgers, vouchers>>

\* The chart must exist: a group must be given.
BeginLedger(w) ==
    /\ ledgers # {}
    /\ \E name \in Names :
          Begin(w, [Idle EXCEPT !.op = "lookup", !.name = name])
    /\ UNCHANGED <<ledgers, vouchers, raced>>

\* The entries are balanced and on ledgers of the organization.
BeginVoucher(w) ==
    /\ BelowBound
    /\ ledgers # {}
    /\ \E type \in Types :
          Begin(w, [Idle EXCEPT !.op = "count", !.type = type])
    /\ UNCHANGED <<ledgers, vouchers, raced>>

HoldsNames(v, names) == tx[v].op # "chart" /\ tx[v].new \cap names # {}

\* Nobody else holds a flushed ledger of these names.
NamesFree(w, names) == \A v \in Workers \ {w} : ~ HoldsNames(v, names)

FlushChart(w) ==
    LET t == tx[w] IN
    /\ t.op = "chart"
    /\ NamesFree(w, t.new)
    /\ IF t.new \cap ledgers # {} THEN Fail(w)       \* uq_ledger_org_name
       ELSE Continue(w, [t EXCEPT
                !.op = IF t.source = None THEN "commit" ELSE "check"])

CheckPosted_Missing(w) ==
    tx[w].op = "check" /\ Continue(w, [tx[w] EXCEPT !.op = "lookup"])
CheckPosted(w) ==
    LET t == tx[w] IN
    /\ t.op = "check"
    /\ IF PostsOf(t.source) # {} THEN Fail(w)
       ELSE Continue(w, [t EXCEPT !.op = "lookup"])

\* The lookup ignores case; scalar_one_or_none raises on two matches.
Matches(w, name) ==
    {l \in ledgers \cup tx[w].new : Lower[l] = Lower[name]}

Lookup(w) ==
    LET t == tx[w]
        found == Matches(w, t.name) IN
    /\ t.op = "lookup"
    /\ CASE found = {} -> Continue(w, [t EXCEPT !.op = "ledger"])
         [] Cardinality(found) = 1 /\ t.source # None ->
                Continue(w, [t EXCEPT !.op = "count"])
         [] OTHER -> Fail(w)

\* create_ledger strips the name only now, after its lookup.
NewName(t) == IF t.source = None THEN Strip[t.name] ELSE t.name

InsertLedger_DropsChart(w) ==
    LET t == tx[w] IN
    /\ t.op = "ledger"
    /\ NamesFree(w, {NewName(t)})
    /\ IF NewName(t) \in ledgers THEN Fail(w)
       ELSE Continue(w, [t EXCEPT
                !.op = IF t.source = None THEN "commit" ELSE "count",
                !.new = {NewName(t)}])
InsertLedger_Retries(w) ==
    LET t == tx[w] IN
    /\ t.op = "ledger"
    /\ NamesFree(w, {NewName(t)})
    /\ IF NewName(t) \in ledgers THEN Continue(w, [t EXCEPT !.op = "lookup"])
       ELSE Continue(w, [t EXCEPT
                !.op = IF t.source = None THEN "commit" ELSE "count",
                !.new = @ \cup {NewName(t)}])
InsertLedger(w) ==
    LET t == tx[w] IN
    /\ t.op = "ledger"
    /\ NamesFree(w, {NewName(t)})
    /\ IF NewName(t) \in ledgers THEN Fail(w)        \* uq_ledger_org_name
       ELSE Continue(w, [t EXCEPT
                !.op = IF t.source = None THEN "commit" ELSE "count",
                !.new = @ \cup {NewName(t)}])

\* _next_voucher_number counts the committed vouchers of the type.
NextNumber_FromZero(type) == Cardinality(VouchersOf(type))
NextNumber(type) == Cardinality(VouchersOf(type)) + 1

CountVouchers(w) ==
    LET t == tx[w] IN
    /\ t.op = "count"
    /\ Continue(w, [t EXCEPT !.op = "voucher", !.number = NextNumber(t.type)])

HoldsNumber_OnceCounted(v, t) ==
    tx[v].op \in {"voucher", "commit"} /\ tx[v].type = t.type /\ tx[v].number = t.number
HoldsNumber(v, t) ==
    tx[v].op = "commit" /\ tx[v].type = t.type /\ tx[v].number = t.number

\* Nobody else holds a flushed voucher of this number.
NumberFree(w, t) == \A v \in Workers \ {w} : ~ HoldsNumber(v, t)

InsertVoucher(w) ==
    LET t == tx[w] IN
    /\ t.op = "voucher"
    /\ NumberFree(w, t)
    /\ IF \E v \in VouchersOf(t.type) : v.number = t.number
       THEN Fail(w)                                  \* uq_voucher_org_type_number
       ELSE Continue(w, [t EXCEPT !.op = "commit"])

Commit(w) ==
    LET t == tx[w] IN
    /\ t.op = "commit"
    /\ ledgers' = ledgers \cup t.new
    /\ vouchers' = IF t.type = None THEN vouchers
                   ELSE vouchers \cup {[type |-> t.type, number |-> t.number,
                                        source |-> t.source]}
    /\ tx' = [tx EXCEPT ![w] = Idle]
    /\ UNCHANGED raced

\* The INSERT of w needs a key that v holds.
Waits(w, v) ==
    /\ v # w
    /\ CASE tx[w].op = "chart"   -> HoldsNames(v, tx[w].new)
         [] tx[w].op = "ledger"  -> HoldsNames(v, {NewName(tx[w])})
         [] tx[w].op = "voucher" -> HoldsNumber(v, tx[w])
         [] OTHER -> FALSE

Behind(w) ==
    WaitedFor({x \in Workers \X Workers : Waits(x[1], x[2])}, Workers, w)

\* An exception, a lost connection or a crash.
Rollback(w) == tx[w] # Idle /\ Fail(w)

-----------------------------------------------------------------------------
\* Registration creates the chart; an organization older than the accounting
\* module, or one inserted by a script, has none.
Init == /\ ledgers \in {{}, SystemLedgers}
        /\ vouchers = {}
        /\ tx = [w \in Workers |-> Idle]
        /\ raced = {}

Work(w) == \/ FlushChart(w) \/ CheckPosted(w) \/ Lookup(w) \/ InsertLedger(w)
           \/ CountVouchers(w) \/ InsertVoucher(w) \/ Commit(w)

Next == \E w \in Workers :
            \/ BeginChart(w) \/ BeginPost(w) \/ BeginLedger(w) \/ BeginVoucher(w)
            \/ Work(w)
            \/ Rollback(w)

Spec == Init /\ [][Next]_vars

\* The server keeps running the requests it has accepted, and Postgres wakes
\* the waiters of a key when its holder ends: one that waits is not passed
\* over for ever by requests that take the key and roll back.
FairSpec == Spec /\ \A w \in Workers : SF_vars(Work(w))

-----------------------------------------------------------------------------
\* The vouchers of each type are numbered 1, 2, 3, ... without a gap or a
\* repetition, although the number is a count read before others commit.
GaplessNumbers ==
    \A type \in Types :
        {v.number : v \in VouchersOf(type)} = 1..Cardinality(VouchersOf(type))

\* "This invoice has already been posted to the books."
\* (accounting_service.py): an invoice is posted at most once.
PostedOnce == \A i \in Invoices : Cardinality(PostsOf(i)) <= 1

\* An invoice can be posted twice only by requests that overlap: a retry after
\* a commit, a rollback or an error response never posts again.
PostedOnceUnlessRaced ==
    \A i \in Invoices \ raced : Cardinality(PostsOf(i)) <= 1

\* The chart of accounts is there whole or not at all, whichever requests
\* create it first, and a posting leaves a ledger for its party.
ChartWhole ==
    /\ ledgers = {} \/ SystemLedgers \subseteq ledgers
    /\ \A v \in vouchers : v.source # None =>
          \E l \in ledgers : Lower[l] = Lower[Strip[Party[v.source]]]

\* Requests hold the uncommitted ledgers of the chart, of a party and voucher
\* numbers while they wait for others, but always in this order: however many
\* there are, none waits for itself and Postgres never has to abort one.
NeverDeadlocks == \A w \in Workers : w \notin Behind(w)

\* Every accepted request ends, although requests wait for each other's
\* uncommitted ledgers and voucher numbers.
RequestEnds == \A w \in Workers : tx[w] # Idle ~> tx[w] = Idle
=============================================================================
