---------------------------- MODULE MCNginxApply ----------------------------
(* Small instances of NginxApply: one panel, or the panel and the ban       *)
(* engine's callback.                                                       *)
EXTENDS NginxApply


=============================================================================
