----------------------------- MODULE MCServing -----------------------------
(***************************************************************************)
(* From the services to the server that serves them, as small instances    *)
(* side by side: two callers that edit the services from copies read       *)
(* earlier, one caller that makes every edit there is, Reality and panel   *)
(* settings included, and one panel that applies configurations to nginx.  *)
(* `part' says which one a behaviour is about; the variables of the others *)
(* stand still.                                                            *)
(***************************************************************************)
EXTENDS MCServiceConfig, NginxApply

CONSTANT Editor

VARIABLES part, allCfg, allHand, allEdits

All == INSTANCE ServiceConfig WITH
    Callers <- {Editor}, RealityEdits <- TRUE, PanelEdits <- TRUE, MaxEdits <- 3,
    cfg <- allCfg, hand <- allHand, edits <- allEdits

allVars == <<allCfg, allHand, allEdits>>

----------------------------------------------------------------------------
ServingInit ==
    /\ Init /\ All!Init /\ NginxInit
    /\ \/ part = "two" /\ allCfg = CHOOSE c \in Starts : TRUE
       \/ part = "all" /\ cfg = CHOOSE c \in Starts : TRUE
       \/ part = "nginx" /\ cfg = allCfg /\ cfg = CHOOSE c \in Starts : TRUE
    /\ part # "nginx" => ~module

ServingNext ==
    \/ part = "two" /\ Next /\ UNCHANGED <<part, allVars, nginxVars>>
    \/ part = "all" /\ All!Next /\ UNCHANGED <<part, vars, nginxVars>>
    \/ part = "nginx" /\ NginxNext /\ UNCHANGED <<part, vars, allVars>>

servingVars == <<part, vars, allVars, nginxVars>>

(* In the other parts nginx is up and no call is under way: nothing that    *)
(* the fairness speaks of is ever enabled there.                            *)
ServingSpec == ServingInit /\ [][ServingNext]_servingVars /\ Fairness

----------------------------------------------------------------------------
(* config.go:946, handlers_domains.go: with Reality and panel edits too, a  *)
(* repair settles at once and moves no service, and deleting a domain takes *)
(* no server block away that another service still needs.                   *)
EditsStrandNobody ==
    All!DeleteStrandsNobody /\ [](part = "all" => All!MigrationSettles)

============================================================================
