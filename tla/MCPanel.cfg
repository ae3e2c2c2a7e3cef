SPECIFICATION PanelSpec
CONSTANTS
    HttpNames <- ServicesAB
    SniNames <- RulesRS
    MapPorts = {443, 8443, 6038}
    HttpPort = 6038
    HttpChoices <- HttpServices
    SniChoices <- Rules
    MaxRenders = 2
    MaxShows = 2
    MaxStacked = 2
    Window = 2
    RowKeys = {1, 2, 3}
    Core = {1}
    Terms = {{1, 2, 3}, {2, 3}}
    Sizes = {1, 2}
    Others = {2}
    MaxLists = 1
    Numbers = {3}
    MaxRows = 3
    MaxLadderEdits = 2
    MaxLadderSaves = 1
    MaxSteps = 3
    MaxMinutes = 525600
    DefaultSteps <- HalfAnHourThenEver
    Durations <- QuarterOrHour
    StoredBan = 60
    Keys = {"cap", "log"}
    Risky = {"cap", "log"}
    Log = "log"
    GROUPS = {{"cap", "log"}}
    Values = {0, 1}
    MaxTunGets = 1
    MaxTunEdits = 1
    MaxTunSaves = 2
    Passwords = {"p", "q"}
    Answers = {"good", "bad"}
    Ports = {"good", "bad", "refused"}
    MaxRuns = 2
    Names = {"a", "b"}
    Clicked = {"a"}
    MaxRequests = 2
    Ranges = {"1h", "6h"}
    FirstRange = "1h"
    Dims = {"host", "path"}
    FirstDim = "host"
    Domains = {"a", "b"}
    CertDialogs = {"issue", "domain"}
    CertJobIds = {1, 2}
    MaxCertJobs = 2
    Sources = {"error", "stream"}
    Lines <- HandshakeOrServed
    Fetched = 2
    Levels = {"all", "error"}
    Limits = {1, 2}
    MaxLines = 2
    Ips = {"a"}
    BanJobIds = {1, 2}
    MaxOffences = 1
    MaxBanJobs = 2
    Passphrases = {"p"}
    Strong = {"p"}
    KeptArchives <- OneArchive
    TabJobIds = {1, 2}
    MaxClicks = 2
    MaxVisits = 2
    NoPass = "none"
CHECK_DEADLOCK FALSE
INVARIANTS PanelTypeOK   ListIsSound
    LogsShowWhatMatches  TuningOnlyByHand 
PROPERTIES  ActionsStayInTheirForm   
