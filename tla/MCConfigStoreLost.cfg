SPECIFICATION Spec
CONSTANTS
    web = web
    scheduler = scheduler
    command = command
    panel = panel
    cli = cli
    lock = lock
    Procs = {web, scheduler, command}
    Hosts = {panel, cli}
    LockFiles = {lock}
    HostOf <- MCHostOf
    MainOf <- MCMainOf
    LockOf <- MCLockOf
    Edits = {e1, e2}
    NoFile = NoFile
    NoProc = NoProc
INVARIANT MutateIsAtomic
