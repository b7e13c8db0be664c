SPECIFICATION FairSpec
CONSTANTS
    Conns <- TwoConns
    CTags <- TwoTags
    CFids <- TwoCFids
    Most <- AllOrAttach
    MayHangup <- OneHangs
    MAXMSG = 3
    MaxReqs = 3
CHECK_DEADLOCK FALSE
INVARIANTS RefsExact ServerAgrees TablesAgree HangupClean
PROPERTIES Settles ImplementsTransactions
