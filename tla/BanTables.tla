------------------------------ MODULE BanTables ------------------------------
(***************************************************************************)
(* The tables of the automatic-ban page (static/js/pages/autoban.js) -- who *)
(* is banned, who has a history with the escalation ladder, and the record *)
(* of bans, taken to name everybody -- and the actions on their rows.  A   *)
(* bulk action is confirmed, its dialog closes, and one request after      *)
(* another goes out while bans lapse, offences add new ones and other      *)
(* actions run.                                                            *)
(***************************************************************************)
EXTENDS Naturals, FiniteSets

CONSTANTS
    Ips,            \* addresses
    JobIds,         \* actions under way at a time
    MaxOffences,    \* bound: bans the engine adds
    MaxJobs         \* bound: actions confirmed

VARIABLES
    bans,           \* each address: not banned, for a time, or for good
    ledger,         \* addresses with a history
    tables,         \* the tables on screen: a mark for each row they hold
    ask,            \* the confirmation on screen
    jobs,           \* actions under way
    offences, started

banVars == <<bans, ledger, tables, ask, jobs, offences, started>>

Tables == {"bans", "offenders"}
Marks == {"none", "temp", "perm", "listed"}
Nobody == "nobody"
NoAsk == [kind |-> "none", rows |-> {}]
NoJob == [kind |-> "none", rows |-> {}, freed |-> Nobody, ok |-> FALSE]

(* The actions on each table: on several rows, on one row, or on all.       *)
Bulk(table) == CASE table = "bans" -> {"perm", "unban_forget", "unban"}
                 [] table = "offenders" -> {"forgive"}
OneRow(table) == CASE table = "bans" -> {"row_unban"} [] table = "offenders" -> {"row_forgive"}
All == {"clear", "forgive_all"}
Kinds == (UNION {Bulk(t) \cup OneRow(t) : t \in Tables}) \cup All \cup {"reban", "add"}

TypeOK ==
    /\ bans \in [Ips -> {"none", "temp", "perm"}] /\ ledger \subseteq Ips
    /\ tables \in [Tables -> [Ips -> Marks]]
    /\ ask \in [kind : Kinds \cup {"none"}, rows : SUBSET Ips]
    /\ jobs \in [JobIds -> [kind : Kinds \cup {"none"}, rows : SUBSET Ips,
                            freed : Ips \cup {Nobody}, ok : BOOLEAN]]
    /\ offences \in 0..MaxOffences /\ started \in 0..MaxJobs

(***************************************************************************)
(* The server.                                                             *)
(***************************************************************************)
Listed(S) == [ip \in Ips |-> IF ip \in S THEN "listed" ELSE "none"]
(* What a table request returns.                                            *)
Reading(table) == IF table = "bans" THEN bans ELSE Listed(ledger)

(* Ban: adds or replaces; the ledger is the engine's own business.          *)
Ban(ip, how) == bans' = [bans EXCEPT ![ip] = how] /\ UNCHANGED ledger
(* Unban: only of an address that is banned; its history stays.             *)
CanUnban(ip) == bans[ip] # "none"
Unban(ip) == bans' = [bans EXCEPT ![ip] = "none"] /\ UNCHANGED ledger
(* UnbanAll leaves the ledger.                                              *)
UnbanAll == bans' = [ip \in Ips |-> "none"] /\ UNCHANGED ledger
(* ForgiveOffender, ForgiveAll: the ban, if there is one, stays.            *)
Forgive(S) == ledger' = ledger \ S /\ UNCHANGED bans

(* What one request of an action does to `ip`, and when it is accepted.     *)
Accepted(kind, ip) ==
    CASE kind \in {"unban", "unban_forget", "row_unban"} -> CanUnban(ip)
      [] kind \in {"forgive", "row_forgive"} -> ip \in ledger
      [] OTHER -> TRUE
Effect(kind, ip) ==
    CASE kind \in {"unban", "unban_forget", "row_unban"} -> Unban(ip)
      [] kind \in {"forgive", "row_forgive"} -> Forgive({ip})
      [] kind = "perm" -> Ban(ip, "perm")
      [] kind = "reban" -> Ban(ip, "temp")
      [] kind = "add" -> Ban(ip, "temp") \/ Ban(ip, "perm")
      [] kind = "clear" -> UnbanAll
      [] kind = "forgive_all" -> Forgive(Ips)

(* The engine and the clock.                                                *)
Offence(ip) ==
    /\ bans[ip] = "none" /\ offences < MaxOffences /\ offences' = offences + 1
    /\ \E how \in {"temp", "perm"} : bans' = [bans EXCEPT ![ip] = how]
    /\ ledger' = ledger \cup {ip}
    /\ UNCHANGED <<tables, ask, jobs, started>>
Lapse(ip) ==
    /\ bans[ip] = "temp" /\ bans' = [bans EXCEPT ![ip] = "none"]
    /\ UNCHANGED <<ledger, tables, ask, jobs, offences, started>>
Decay(ip) ==
    /\ ip \in ledger /\ Forgive({ip})
    /\ UNCHANGED <<tables, ask, jobs, offences, started>>

----------------------------------------------------------------------------
(***************************************************************************)
(* The page.                                                               *)
(***************************************************************************)
Init ==
    /\ bans = [ip \in Ips |-> "none"] /\ ledger = {}
    /\ tables = [t \in Tables |-> Reading(t)]
    /\ ask = NoAsk /\ jobs = [j \in JobIds |-> NoJob]
    /\ offences = 0 /\ started = 0

Idle(j) == jobs[j].kind = "none"

(* loadBans, loadOffenders: a table shows what held when it was read last,  *)
(* or the message of the request that failed.  Read and painted in one step. *)
Loaded(T) ==
    \/ tables' = [t \in Tables |-> IF t \in T THEN Reading(t) ELSE tables[t]]
    \/ tables' = [t \in Tables |-> IF t \in T THEN [ip \in Ips |-> "none"] ELSE tables[t]]
Refresh(t) ==
    /\ Loaded({t})
    /\ UNCHANGED <<bans, ledger, ask, jobs, offences, started>>

(* The rows of a table under its filter: permanent bans, the others, or all. *)
RowsOf(t, kind) ==
    {ip \in Ips : CASE kind = "perm" -> tables[t][ip] = "perm"
                    [] kind = "temp" -> tables[t][ip] \notin {"perm", "none"}
                    [] OTHER -> tables[t][ip] # "none"}

(* A bulk action, or clearing everything, asks first.  The reban is of      *)
(* addresses, each once however many lines the record has of it.            *)
AskFirst(kind, rows) ==
    /\ ask = NoAsk /\ started < MaxJobs
    /\ ask' = [kind |-> kind, rows |-> rows]
    /\ UNCHANGED <<bans, ledger, tables, jobs, offences, started>>
Cancel ==
    /\ ask # NoAsk /\ ask' = NoAsk
    /\ UNCHANGED <<bans, ledger, tables, jobs, offences, started>>

Start(j, kind, rows) ==
    /\ Idle(j) /\ started < MaxJobs /\ started' = started + 1
    /\ jobs' = [jobs EXCEPT ![j] = [NoJob EXCEPT !.kind = kind, !.rows = rows]]
    /\ UNCHANGED <<bans, ledger, tables, offences>>
Confirm(j) == ask # NoAsk /\ Start(j, ask.kind, ask.rows) /\ ask' = NoAsk
(* A row's own button, and the dialog that adds an address, ask nothing.    *)
OnRow(j, kind, ip) == ask = NoAsk /\ Start(j, kind, {ip}) /\ UNCHANGED ask

(* The rows an action still has to ask for after `ip`.                      *)
Without(job, ip) == IF job.kind \in All THEN {} ELSE job.rows \ {ip}

(* The next request of an action is served.  A release-and-forget goes on   *)
(* to the same address's history only when the release was accepted.        *)
Served(j, ip) ==
    /\ ip \in jobs[j].rows /\ jobs[j].freed = Nobody /\ Accepted(jobs[j].kind, ip)
    /\ Effect(jobs[j].kind, ip)
    /\ jobs' = [jobs EXCEPT ![j] =
           IF @.kind = "unban_forget" THEN [@ EXCEPT !.freed = ip, !.ok = TRUE]
           ELSE [@ EXCEPT !.rows = Without(jobs[j], ip), !.ok = TRUE]]
    /\ UNCHANGED <<tables, ask, offences, started>>

(* Refused, or lost on the way: the action keeps going.                     *)
NotServed(j, ip) ==
    /\ ip \in jobs[j].rows /\ jobs[j].freed = Nobody
    /\ jobs' = [jobs EXCEPT ![j].rows = Without(jobs[j], ip)]
    /\ UNCHANGED <<bans, ledger, tables, ask, offences, started>>

(* The second half of a release-and-forget; its refusal is no failure.      *)
Forgotten(j) ==
    /\ jobs[j].freed # Nobody
    /\ Forgive({jobs[j].freed}) \/ UNCHANGED <<bans, ledger>>
    /\ jobs' = [jobs EXCEPT ![j].rows = @ \ {jobs[j].freed}, ![j].freed = Nobody]
    /\ UNCHANGED <<tables, ask, offences, started>>

(* The tables an action reloads when it is through: a bulk action whatever  *)
(* came of it, another only when it was accepted.                           *)
Reloads(job) ==
    CASE job.kind \in {"perm", "unban", "reban"} -> {"bans"}
      [] job.kind = "unban_forget" -> {"bans", "offenders"}
      [] job.kind = "forgive" -> {"offenders"}
      [] job.kind \in {"row_unban", "clear", "add"} -> IF job.ok THEN {"bans"} ELSE {}
      [] job.kind \in {"row_forgive", "forgive_all"} -> IF job.ok THEN {"offenders"} ELSE {}
Through(j) ==
    /\ ~Idle(j) /\ jobs[j].rows = {} /\ jobs[j].freed = Nobody
    /\ jobs' = [jobs EXCEPT ![j] = NoJob] /\ Loaded(Reloads(jobs[j]))
    /\ UNCHANGED <<bans, ledger, ask, offences, started>>

Step(j) ==
    \/ \E ip \in Ips : Served(j, ip) \/ NotServed(j, ip)
    \/ Forgotten(j) \/ Through(j)

Next ==
    \/ (\E ip \in Ips : Offence(ip) \/ Lapse(ip) \/ Decay(ip))
    \/ (\E t \in Tables : Refresh(t))
    \/ (\E t \in Tables, filter \in {"all", "perm", "temp"} :
          \E kind \in Bulk(t), rows \in SUBSET RowsOf(t, filter) :
            rows # {} /\ AskFirst(kind, rows))
    \/ (\E rows \in (SUBSET Ips) \ {{}} : AskFirst("reban", rows))
    \/ (\E kind \in All : AskFirst(kind, Ips))
    \/ Cancel
    \/ (\E j \in JobIds :
          \/ Confirm(j)
          \/ Step(j)
          \/ \E t \in Tables : \E kind \in OneRow(t), ip \in RowsOf(t, "all") : OnRow(j, kind, ip)
          \/ \E ip \in Ips : OnRow(j, "add", ip))

Spec == Init /\ [][Next]_banVars

----------------------------------------------------------------------------
(***************************************************************************)
(* Properties.                                                             *)
(***************************************************************************)
(* A release-and-forget forgets nobody it did not release: when its release *)
(* is refused -- the ban lapsed while the confirmation stood, or another    *)
(* action was quicker -- the history stays, whatever else runs, and the     *)
(* release alone forgets nothing (autoban.js:566-577; "Forgetting is a      *)
(* separate, explicit button", banner.go:798-802).                          *)
ReleaseThenForget ==
    [][/\ \A ip \in ledger \ ledger' :
             \/ UNCHANGED jobs   \* it decayed
             \/ \E j \in JobIds :
                   \/ jobs[j].kind \in {"forgive", "row_forgive"} /\ ip \in jobs[j].rows
                   \/ jobs[j].kind = "forgive_all"
                   \/ jobs[j].freed = ip
       /\ \A j \in JobIds, ip \in Ips :
             jobs[j].freed # ip /\ jobs'[j].freed = ip => bans[ip] # "none" /\ bans'[ip] = "none"
      ]_banVars

=============================================================================
