SPECIFICATION FilesSpec
CONSTANTS
    web = web
    scheduler = scheduler
    command = command
    panel = panel
    cli = cli
    lock = lock
    Procs = {web, scheduler, command}
    Hosts = {panel, cli}
    LockFiles = {lock}
    HostOf <- MCHostOf
    MainOf <- MCMainOf
    LockOf <- MCLockOf
    Edits = {e1}
    NoFile = NoFile
    NoProc = NoProc
    IPs = {"a"}
    Evaluators = {"scanner"}
    Scanner = "scanner"
    Handlers = {"request"}
    Background = "background"
    Stopper = "stopper"
    Nobody = "nobody"
    TickSaves = TRUE
    DiskFails = FALSE
    MaxChanges = 3
INVARIANTS TypeOK DiskIsWhole
PROPERTIES ImplementsAtomicStore ReadLosesNoEdit ConfigCallsReturn OneBackgroundSave DiskFollows
