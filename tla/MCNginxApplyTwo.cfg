SPECIFICATION NginxSpec
CONSTANTS
    panel = panel
    bans = bans
    Appliers = {panel, bans}
    WritesFail = FALSE
    Down = Down
    MaxVersion = 2
INVARIANT NeverLeftBroken
