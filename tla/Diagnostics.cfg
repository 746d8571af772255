CONSTANTS
    MaxChunkBytes = 2
    MaxChunks = 3
    MaxKeyBytes = 2
    Numeral <- MCNumeral
    Radices = {2}
    TimestampUnit = 1
    DurationUnit = 2
    Uuid <- MCUuid
    Unfit <- MCUnfit
    Wide <- MCWide
    Agent = "agent"
    VmId = "vm"
    Emissions <- MCEmissions
    Messages <- MCMessages
    Others <- MCOthers
    Reports <- MCReports
    MaxEmissions = 2
    MaxExtra = 2
    MaxClock = 1
SPECIFICATION Spec
INVARIANTS OnlyEmitted WrittenIsRead EntriesStandForPool
CHECK_DEADLOCK FALSE
