SPECIFICATION FairSpec
CONSTANTS
    N = 2
    Updates = {1, 2, 3}
    Messages = {1}
    Presses = {2, 3}
    Failing = {2}
    MaxChunks = 2
    MaxQuestions = 2
    MaxAccepted = 12
    Tasks = {1, 2}
    MaxTimeouts = 1
    MaxRestarts = 1
INVARIANTS
    OneHandlerPerTurn
    RemembersLastN
    AckedMeansAnswered
    DeliveredOnce
    AnsweredStaysAnswered
PROPERTY
    Settles
CHECK_DEADLOCK FALSE
