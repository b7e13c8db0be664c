SPECIFICATION FairSpec
CONSTANTS
    Workers <- OneWorker
    Tags <- ThreeTags
    FidNumbers <- TwoFids
    Most <- AllTypes
    MaxMsgs = 4
CHECK_DEADLOCK FALSE
INVARIANTS RefsExact TagsAgree AnsweredLetGo
PROPERTIES Answered ImplementsTransactions
