CONSTANTS
    sr0 = sr0
    sr1 = sr1
    disk = disk
    Device = {sr0, sr1, disk}
    NoDevice = NoDevice
    Cdrom = {sr0, sr1}
    Ovf <- MCOvf
    InitialMtab <- MCInitialMtab
    RequestTimeout <- MCRequestTimeout
    Interval <- MCInterval
    Total <- MCTotal
SPECIFICATION FairSpec
INVARIANTS WithinBudget GivesUpLate RateLimited MountsReleased OutcomeIsTrue
PROPERTIES Exits
CHECK_DEADLOCK FALSE
