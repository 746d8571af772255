CONSTANTS
    Default <- MCDefault
    Typed <- MCTyped
    LastName = 2
    Dmis <- MCDmis
    Sources <- MCSources
    Commands = {"run", "clean", "version"}
    LogTexts <- MCLogTexts
    KvpTexts <- MCKvpTexts
    Shows <- MCShows
    Sshds <- MCSshds
SPECIFICATION Spec
INVARIANTS SourcesTakePrecedence SameVmSameId OutcomeIsTold
CHECK_DEADLOCK FALSE
