SPECIFICATION BackupSpec
CONSTANTS
    Minute = 2
    Lag = 1
    Making = 1
    Length <- MCLength
    Counts <- MCCounts
    Forms <- NoForm
    FirstSettings <- Daily
    Strong = {}
    DiskFails = FALSE
    MaxClock = 4
    MaxHands = 2
    MaxChanges = 1
INVARIANT RestoredListLasts
