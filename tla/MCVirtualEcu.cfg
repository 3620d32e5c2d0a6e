SPECIFICATION Spec
CONSTANTS
    Session <- MCSession
    Level <- MCLevel
    Modulus = 3
    Declared <- MCDeclared
    SupportedSession <- MCSupportedSession
    SessionServices <- MCSessionServices
    LevelTables <- MCLevelTables
    Timings <- MCTimings
    Rules <- MCRules
INVARIANTS
    DefaultSessionIsLocked
    PendingMeansMine
PROPERTIES
    RefusalRollsBack
    UnlockTakesItsSeed
    PendingIsFollowedByAnAnswer
