SPECIFICATION FairSpec
CONSTANTS
    Requests = {1, 2, 3}
    Docs = {1, 2}
    Contents = {1, 2}
    NoDoc = 0
    NoContent = 0
INVARIANTS OneActiveRow IndexedIsFound IndexedOnce LexicalAgrees
PROPERTIES Settles
CHECK_DEADLOCK FALSE
