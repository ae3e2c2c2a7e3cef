SPECIFICATION ServingSpec
CONSTANTS
    Callers = {a, b}
    Editor = c
    panel = panel
    Appliers = {panel}
    WritesFail = TRUE
    Down = Down
    MaxVersion = 2
    Keys = {1, 2, 3}
    LowerOf <- MCLowerOf
    First <- MCFirst
    Subs = {"", "app", "www"}
    Bare = ""
    Fqdn <- MCFqdn
    Names = {1, 2}
    PanelName = 2
    Paths = {"/", "x"}
    Ports = {80, 443, 8443}
    SNIRules = {rule}
    None = None
    Starts <- MCStarts
    BindingLists <- Lists
    RealityEdits = FALSE
    PanelEdits = FALSE
    MaxBindings = 2
    MaxEdits = 2
INVARIANTS TypeOK NoDanglingBinding NoTwoServicesShareALocation
    NeverLeftBroken TreeIsOneVersion
PROPERTIES NobodyIsStranded EditsStrandNobody  SoundIsAccepted Recovers
