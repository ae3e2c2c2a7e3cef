------------------------------ MODULE MCBackups ------------------------------
(* Small instances of Backups: a day of four minutes.                       *)
EXTENDS Backups

MCLength == [hour |-> 4, day |-> 8, week |-> 16, month |-> 12]
MCCounts == [hour |-> 1, day |-> 1, week |-> 1, month |-> 1]
Daily == [enabled |-> TRUE, every |-> 8, encrypt |-> FALSE, pass |-> "", offsite |-> FALSE]
NoForm == {}
Hourly == [Daily EXCEPT !.every = 4]
Typed == {[Daily EXCEPT !.encrypt = TRUE, !.pass = "weak"],
          [Daily EXCEPT !.encrypt = TRUE, !.pass = "strong", !.offsite = TRUE]}
==============================================================================
