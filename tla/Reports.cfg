SPECIFICATION Spec
CONSTANTS
    NoValue = none
    Invoices <- MCInvoices
    Bill <- MCBill
    Drafts <- MCDrafts
    NewLedgers <- MCNewLedgers
    Watched = {"Cash"}
    LastDay = 2
    YearLength = 1
    MaxVouchers = 2
INVARIANTS ReportsAreOfOneMoment ReportsTie BooksAgreeWithReturns SectionsAddUp
