SPECIFICATION BackupSpec
CONSTANTS
    Minute = 2
    Lag = 1
    Making = 1
    Length <- MCLength
    Counts <- MCCounts
    Forms <- NoForm
    FirstSettings <- Daily
    Strong = {}
    DiskFails = FALSE
    MaxClock = 20
    MaxHands = 0
    MaxChanges = 0
INVARIANT NoDayIsSkipped
