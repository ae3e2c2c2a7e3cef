SPECIFICATION KeepingSpec
CONSTANTS
    Scanner = scanner
    Login = login
    None = None
    Forever <- MCForever
    IPs = {1}
    KindsOf <- BothKinds
    Rules <- DefaultRules
    Steps <- FirstSteps
    Decay = 2
    Scale = 4
    MaxTracked = 2
    MaxOffenders = 1
    EvictTarget = 0
    Exempt = {}
    ManualLengths = {1}
    Configs <- SwitchTwo
    MaxTime = 3
    MaxRecords = 2
    MaxCount = 3
    MaxLag = 1
    Minute = 2
    Lag = 0
    Making = 1
    Length <- Spans
    Counts <- OneOfEach
    Forms <- Typed
    FirstSettings <- Daily
    Strong = {"strong"}
    DiskFails = TRUE
    MaxClock = 2
    MaxHands = 1
    MaxChanges = 2
INVARIANTS TypeOK  CountersNeverExaggerate CapsHold NothingIsRotatedAway
    NothingReadableLeaves
PROPERTIES BanNeedsOffences ActiveBanStands  NoBurst
