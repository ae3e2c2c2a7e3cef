---------------------------- MODULE MCConfigStore ----------------------------
(* Two goroutines of the panel service and one CLI command, which share one *)
(* lock file: the usual installation, where everything runs as root.        *)
EXTENDS ConfigStore, TLC

CONSTANTS web, scheduler, command, panel, cli, lock

MCHostOf == (web :> panel) @@ (scheduler :> panel) @@ (command :> cli)
MCMainOf == (panel :> web) @@ (cli :> command)
MCLockOf == (panel :> lock) @@ (cli :> lock)
==============================================================================
