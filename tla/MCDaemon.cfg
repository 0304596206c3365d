SPECIFICATION FairSpec
CONSTANTS
    Pids = {p1, p2}
    None = none
INVARIANTS DaemonTypeOK WaitingDaemonIsNamed NothingUsesClosedStore StaleFileOnlyByKill
PROPERTIES StopCommandStops
CHECK_DEADLOCK FALSE
