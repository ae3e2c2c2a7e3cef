------------------------------- MODULE LogsPage -------------------------------
(***************************************************************************)
(* The logs page (static/js/pages/logs.js): the logs are fetched together, *)
(* their lines sorted into levels, some explained by a note, and one       *)
(* source, level and number of entries shown, newest first.                *)
(*                                                                         *)
(* A line is what the page can tell of it: its style, the mark its level   *)
(* is read from, and the phrases of its message that a note is known for.  *)
(***************************************************************************)
EXTENDS Sifting, Naturals, Sequences

CONSTANTS
    Sources,    \* the logs; the one called "stream" may be missing
    Lines,      \* lines nginx may write
    Kept,       \* lines fetched of a log: 200
    Levels,     \* the levels offered
    Limits,     \* the numbers of entries offered
    MaxLines    \* bound: lines in all logs together (no log is rotated)

VARIABLES
    files,      \* the logs on the server
    loaded,     \* the logs as last fetched
    source, level, limit,
    list,       \* the entries on screen
    copied,     \* what the button that copies everything carries
    fetch,      \* the fetch under way: for each log nothing yet, or what was read
    phase       \* the page: being loaded, shown, or failed

logsVars == <<files, loaded, source, level, limit, list, copied, fetch, phase>>

Unread == [read |-> FALSE, lines |-> <<>>]
Read(lines) == [read |-> TRUE, lines |-> lines]
NoFetch == [s \in {} |-> Unread]
AskAll == [s \in Sources |-> Unread]

TypeOK ==
    /\ files \in [Sources -> Seq(Lines)] /\ loaded \in [Sources -> Seq(Lines)]
    /\ source \in Sources /\ level \in Levels /\ limit \in Limits
    /\ list \in Seq(Lines) /\ copied \in Seq(Lines)
    /\ fetch = NoFetch \/ fetch \in [Sources -> [read : BOOLEAN, lines : Seq(Lines)]]
    /\ phase \in {"loading", "shown", "failed"}

(***************************************************************************)
(* parseLog, line by line.                                                 *)
(***************************************************************************)
NormalizeLevel(mark) ==
    IF mark \in {"emerg", "alert", "crit", "error"} THEN "error"
    ELSE IF mark \in {"warn", "notice"} THEN mark ELSE "info"

(* An error line names its level, an access line has a status, and any      *)
(* other line is information.                                              *)
LevelOf(l) ==
    CASE l.style = "error" -> NormalizeLevel(l.mark)
      [] l.style = "access" -> (CASE l.mark = "5xx" -> "error" [] l.mark = "4xx" -> "warn"
                                  [] OTHER -> "notice")
      [] OTHER -> "info"

(* tipFor: the first branch that knows a phrase of the message speaks.      *)
Branches == <<"down", "conflicting", "no_resolver", "port_taken", "reset",
              "tls_mismatch", "tls_cert", "worker_conns">>
TipFor(l) ==
    LET known == {i \in DOMAIN Branches : Branches[i] \in l.says}
    IN IF known = {} THEN "" ELSE Branches[CHOOSE i \in known : \A j \in known : i <= j]

Matches(l, lv) == IF lv = "all" THEN TRUE ELSE IF lv = "tip" THEN TipFor(l) # "" ELSE LevelOf(l) = lv

LastOf(s, n) == IF Len(s) <= n THEN s ELSE SubSeq(s, Len(s) - n + 1, Len(s))
Reversed(s) == [i \in DOMAIN s |-> s[Len(s) + 1 - i]]

(* The entries that pass the level.                                         *)
Sifted(s, lv) == Picked(s, {i \in DOMAIN s : Matches(s[i], lv)})

(* Mutant: the entries are counted before they are sifted.                  *)
ShownLimitedFirst(F, src, lv, n) == Reversed(Sifted(LastOf(F[src], n), lv))

(* What is shown of the fetched logs.                                       *)
Shown(F, src, lv, n) == Reversed(LastOf(Sifted(F[src], lv), n))

(* draw(): an empty list leaves the copy button as it is.                   *)
Draw(F, src, lv, n) ==
    /\ list' = Shown(F, src, lv, n)
    /\ copied' = IF Shown(F, src, lv, n) = <<>> THEN copied ELSE Shown(F, src, lv, n)

Init ==
    /\ files = [s \in Sources |-> <<>>] /\ loaded = files
    /\ source = "error" /\ level = "all" /\ limit \in Limits
    /\ list = <<>> /\ copied = <<>> /\ fetch = AskAll /\ phase = "loading"

(***************************************************************************)
(* nginx.                                                                  *)
(***************************************************************************)
Total == Cardinality({p \in Sources \X (1..MaxLines) : p[2] \in DOMAIN files[p[1]]})
Write(s, l) ==
    /\ Total < MaxLines /\ files' = [files EXCEPT ![s] = Append(@, l)]
    /\ UNCHANGED <<loaded, source, level, limit, list, copied, fetch, phase>>

(***************************************************************************)
(* The page.                                                               *)
(***************************************************************************)
(* load(): each log is read when its own request is served.                 *)
Serve(s) ==
    /\ s \in DOMAIN fetch /\ ~fetch[s].read
    /\ fetch' = [fetch EXCEPT ![s] = Read(LastOf(files[s], Kept))]
    /\ UNCHANGED <<files, loaded, source, level, limit, list, copied, phase>>

(* A log that cannot be fetched: the stream log is taken for empty, another *)
(* fails the page, or the refresh, whose button comes back.                 *)
ServeFails(s) ==
    /\ s \in DOMAIN fetch /\ ~fetch[s].read
    /\ IF s = "stream"
         THEN fetch' = [fetch EXCEPT ![s] = Read(<<>>)] /\ UNCHANGED phase
         ELSE fetch' = NoFetch /\ phase' = (IF phase = "loading" THEN "failed" ELSE phase)
    /\ UNCHANGED <<files, loaded, source, level, limit, list, copied>>

Loaded ==
    /\ fetch # NoFetch /\ \A s \in Sources : fetch[s].read
    /\ loaded' = [s \in Sources |-> fetch[s].lines] /\ fetch' = NoFetch /\ phase' = "shown"
    /\ Draw(loaded', source, level, limit)
    /\ UNCHANGED <<files, source, level, limit>>

Pick(src, lv, n) ==
    /\ phase = "shown"
    /\ source' = src /\ level' = lv /\ limit' = n
    /\ Draw(loaded, src, lv, n)
    /\ UNCHANGED <<files, loaded, fetch, phase>>

(* One at a time: the button is dead until the logs are there.              *)
Refresh ==
    /\ phase = "shown" /\ fetch = NoFetch /\ fetch' = AskAll
    /\ UNCHANGED <<files, loaded, source, level, limit, list, copied, phase>>

Next ==
    \/ (\E s \in Sources : Serve(s) \/ ServeFails(s) \/ (\E l \in Lines : Write(s, l)))
    \/ Loaded \/ Refresh
    \/ (\E src \in Sources : Pick(src, level, limit))
    \/ (\E lv \in Levels : Pick(source, lv, limit))
    \/ (\E n \in Limits : Pick(source, level, n))

Spec == Init /\ [][Next]_logsVars

(***************************************************************************)
(* Properties.                                                             *)
(***************************************************************************)
(* Looking at one level hides no entry of it: one is on screen exactly when *)
(* it was fetched and fewer than the chosen number of its level came after  *)
(* it, however many of the other levels did (logs.js:87).                   *)
NoEntryIsCrowdedOut ==
    phase = "shown" =>
        LET F == loaded[source]
            fit == {i \in DOMAIN F : Matches(F[i], level)}
            near == {i \in fit : Cardinality({j \in fit : j > i}) < limit}
        IN /\ Len(list) = Cardinality(near)
           /\ \A i \in near : list[Cardinality({j \in near : j >= i})] = F[i]

(* "The copy everything button carries exactly what is on screen"           *)
(* (logs.js:171), while something is: an empty list leaves it as it was.    *)
CopyCarriesTheScreen == list # <<>> => copied = list

(* A TLS parameter mismatch, which nginx reports as a failed handshake, is  *)
(* not blamed on the certificate (logs.js:352).                             *)
MismatchIsNotBlamedOnTheCertificate ==
    \A l \in Lines : "tls_mismatch" \in l.says => TipFor(l) # "tls_cert"

=============================================================================
