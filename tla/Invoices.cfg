SPECIFICATION FairSpec
CONSTANTS
    Invoices = {i1, i2}
    Requests = {1, 2}
    Upload = upload
    Numbers = {n}
    NoNumber = none
    Lines = {1, 2}
    Readings <- MCReadings
INVARIANTS TypeOK ExtractedIsChecked OnlyARaceHidesADuplicate FlagIsTrue
           CreditNeedsEvidence
PROPERTIES Settles
CHECK_DEADLOCK FALSE
