SPECIFICATION Spec
CONSTANTS
    Names <- MCNames
    SystemLedgers = {"sales"}
    Lower <- MCLower
    Strip <- MCStrip
    Invoices <- MCInvoices
    Party <- MCParty
    TypeOf <- MCTypeOf
    Types = {"sales", "journal"}
    Workers = {w1, w2}
    None = none
    MaxVouchers = 2
INVARIANTS PostedOnce
