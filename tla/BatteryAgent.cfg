SPECIFICATION Spec
CONSTANTS
    refresh = refresh
    diagnosis = diagnosis
    Refreshers = {refresh}
    Testers = {diagnosis}
INVARIANTS
    TypeOK
    BarRestored
    AgentCleared
    OthersKeepLocks
    NobodyLeft
PROPERTIES
    OthersKeepAlarms
    RefreshesExclude
    WakesExclude
    AgentEnds
