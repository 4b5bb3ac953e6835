SPECIFICATION FairSpec
CONSTANTS
    Collections = {"acts", "rules"}
    Chunks = {"a", "b"}
    TopK = 2
    MaxContext = 3
    HistoryTurns = 1
    Messages = 3
    Streams = {1}
    Late = {1}
    MaxOpened = 2
    MaxTokens = 1
    MaxRestarts = 1
INVARIANTS KnowsLatestUnraced ShowsOwnOrRemembered CompletedIsGrounded
PROPERTIES KeepsPromises TurnEnds
CHECK_DEADLOCK FALSE
