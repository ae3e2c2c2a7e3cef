SPECIFICATION Spec
CONSTANTS
    Scanner = scanner
    Login = login
    None = None
    Forever <- MCForever
    IPs = {1}
    KindsOf <- ScanOnly
    Rules <- OneRule
    Steps <- FirstSteps
    Decay = 3
    Scale = 4
    MaxTracked = 2
    MaxOffenders = 2
    EvictTarget = 1
    Exempt = {}
    ManualLengths = {}
    Configs <- Unchanging
    MaxTime = 3
    MaxRecords = 4
    MaxCount = 3
    MaxLag = 1
PROPERTIES NoBanOnOldEvents
