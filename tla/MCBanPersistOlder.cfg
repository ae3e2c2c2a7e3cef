SPECIFICATION PersistSpec
CONSTANTS
    a = a
    b = b
    scanner = scanner
    login = login
    panel = panel
    background = background
    stopper = stopper
    IPs = {a, b}
    Evaluators = {scanner, login}
    Scanner = scanner
    Handlers = {panel}
    Background = background
    Stopper = stopper
    Nobody = Nobody
    TickSaves = TRUE
    DiskFails = FALSE
    MaxChanges = 4
PROPERTY OlderNeverLandsLast
