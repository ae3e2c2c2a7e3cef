---------------------------- MODULE MCBanPersist ----------------------------
(* Small instances of BanPersist: the scanner, a login handler, a panel     *)
(* request.                                                                 *)
EXTENDS BanPersist, TLC


==============================================================================
