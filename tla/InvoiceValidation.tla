------------------------- MODULE InvoiceValidation --------------------------
(***************************************************************************)
(* The ten validation rules of an invoice (rules/invoice_validation.py)    *)
(* and the disqualifiers of its input tax credit (services/itc_service.py).*)
(*                                                                         *)
(* An invoice is what the rules tell apart: its number, whether a GSTIN is *)
(* missing, malformed or valid, which fields are present, its lines, the   *)
(* lines without an HSN/SAC code and the lines whose tax is off by more    *)
(* than the tolerance (none unless the scope is known).  The declared      *)
(* taxable value is always the sum over the lines (_apply_extracted_fields)*)
(* so the rule that compares the two always passes.  Messages are left out.*)
(***************************************************************************)
EXTENDS Naturals, FiniteSets

CONSTANTS
    Numbers, NoNumber,
    Lines       \* line numbers

ASSUME ValidationAssumption ==
    /\ NoNumber \notin Numbers
    /\ IsFiniteSet(Lines)
    /\ Lines \subseteq Nat

Gstin == {"missing", "invalid", "valid"}

Fields == [number: Numbers \cup {NoNumber},
           supplier: Gstin, buyer: Gstin,
           dated: BOOLEAN, placed: BOOLEAN,
           lines: SUBSET Lines, noHsn: SUBSET Lines, taxOff: SUBSET Lines,
           taxed: BOOLEAN]

\* A row before its extraction.
Blank == [number |-> NoNumber, supplier |-> "missing", buyer |-> "missing",
          dated |-> FALSE, placed |-> FALSE,
          lines |-> {}, noHsn |-> {}, taxOff |-> {}, taxed |-> FALSE]

Severity == [GSTIN_MISSING |-> "critical", GSTIN_INVALID_FORMAT |-> "critical",
             NO_LINE_ITEMS |-> "critical",
             INVOICE_NUMBER_MISSING |-> "high", DUPLICATE_INVOICE_NUMBER |-> "high",
             TAX_ARITHMETIC_MISMATCH |-> "high",
             INVOICE_DATE_MISSING |-> "medium", PLACE_OF_SUPPLY_MISSING |-> "medium",
             HSN_SAC_MISSING |-> "medium"]

Fieldnames == {"supplier_gstin", "buyer_gstin", "invoice", "items"}

\* line is 0 except for an issue of one line.
Issue == [code: DOMAIN Severity, field: Fieldnames, line: Lines \cup {0}]

At(code, field) == [code |-> code, field |-> field, line |-> 0]

\* The issues that apply when their condition holds.
When(condition, issue) == IF condition THEN {issue} ELSE {}

GstinIssues(gstin, field) ==
    When(gstin = "missing", At("GSTIN_MISSING", field))
        \cup When(gstin = "invalid", At("GSTIN_INVALID_FORMAT", field))

Issues(inv, duplicate) ==
    UNION {GstinIssues(inv.supplier, "supplier_gstin"),
           GstinIssues(inv.buyer, "buyer_gstin"),
           When(inv.number = NoNumber, At("INVOICE_NUMBER_MISSING", "invoice")),
           When(duplicate, At("DUPLICATE_INVOICE_NUMBER", "invoice")),
           When(~ inv.dated, At("INVOICE_DATE_MISSING", "invoice")),
           When(~ inv.placed, At("PLACE_OF_SUPPLY_MISSING", "invoice")),
           When(inv.lines = {}, At("NO_LINE_ITEMS", "items")),
           When(inv.noHsn # {}, At("HSN_SAC_MISSING", "items")),
           {[code |-> "TAX_ARITHMETIC_MISMATCH", field |-> "items", line |-> n] :
                n \in inv.taxOff}}

Graver(issues, severity) == {i \in issues : Severity[i.code] = severity}

Penalty(issues) == 30 * Cardinality(Graver(issues, "critical"))
                   + 15 * Cardinality(Graver(issues, "high"))
                   + 8 * Cardinality(Graver(issues, "medium"))

\* A definition Op_Variant is Op with a mistake the properties detect.
Score_NotFloored(issues) == 100 - Penalty(issues)
Score(issues) == IF Penalty(issues) > 100 THEN 0 ELSE 100 - Penalty(issues)

ReportStatus(issues) ==
    CASE Graver(issues, "critical") # {} -> "FAILED"
      [] Graver(issues, "critical") = {} /\ issues # {} -> "WARNING"
      [] issues = {} -> "PASSED"

\* A rule fails for its field, whatever number of lines it names.
PassedChecks(issues) == 10 - Cardinality({<<i.code, i.field>> : i \in issues})

\* What sends an analysed invoice to review.
Blocking(issues) == Graver(issues, "critical") \cup Graver(issues, "high") # {}

Disqualified_AnySupplier(inv) ==
    ~ inv.taxed \/ inv.number = NoNumber \/ inv.lines = {}
Disqualified(inv) ==
    inv.supplier # "valid" \/ ~ inv.taxed \/ inv.number = NoNumber \/ inv.lines = {}
=============================================================================
