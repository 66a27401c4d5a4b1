SPECIFICATION FairSpec
CONSTANT MaxUnanswered = 4
INVARIANTS
    TypeOK
    OneReceive
    OneKeepalive
    IdleOnce
    ViewFollows
PROPERTIES
    SilentPhoneDropped
    KeepaliveEnds
    RunnerSession
