SPECIFICATION Spec
CONSTANTS
    StartBoards <- Boards
    MaxMoves = 2
INVARIANTS
    BoardConsistent
    ListsEveryMove
    ActionsMatchGenerator
    EventsTellTheMove
    MirrorFair
    CheckIsExact
    ThreatsAreReal
    MobilityCountsMoves
    ReadsWhatItPrints
PROPERTIES
    PlaysByTheRules
CHECK_DEADLOCK FALSE
