SPECIFICATION FairSpec
CONSTANTS
    None = None
    main = main
    sub = sub
    Agents = {main, sub}
    Msgs = {m1, m2}
    Parent <- MCParent
    Adopted = {sub}
    Planning = {main}
    SyncOnly = TRUE
    MailboxCap = 1
    MaxCalls = 1
INVARIANTS
    IrcTypeOK
    EachMessageOnce
    WaitSeesMail
PROPERTIES
    DeliveredIsSeen
    AwaitAnswered
CHECK_DEADLOCK FALSE
