CONSTANTS
    Key <- MCKey
    ReportKey <- MCReportKey
    DiagKey <- MCDiagKey
    Chunks <- MCChunks
    LongKey <- MCLongKey
    Values <- MCValues
    Lines <- MCLines
    NoLine = NoLine
    Raws <- MCRaws
    Agents <- MCAgents
    VmIds <- MCVmIds
    Reasons <- MCReasons
    Urls <- MCUrls
    Optional <- MCOptional
    Errors <- MCErrors
    Detected <- MCDetected
    Limit <- MCLimit
    MaxUniqueKeys = 2
    InitialPools <- MCInitialPools
    MaxCommands = 1
    MaxOthers = 1
SPECIFICATION Spec
INVARIANTS AllOrRefused SupportingDataRead NewestReportStands ReportReadBack TruncationShows
CHECK_DEADLOCK FALSE
