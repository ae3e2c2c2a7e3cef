----------------------------- MODULE StatsBreakdown -----------------------------
(***************************************************************************)
(* The traffic breakdown of the Stats tab (initBreakdown in                *)
(* static/js/pages/stats.js): dimensions as tabs over one held answer, and *)
(* a chart under a row that was opened.                                    *)
(***************************************************************************)
CONSTANTS
    Ranges,     \* the range buttons
    FirstRange,
    Dims,       \* the dimensions
    FirstDim

VARIABLES
    range,      \* the highlighted range button
    active,     \* the highlighted dimension
    cache,      \* the range of the answer that is held
    body,       \* what is under the tabs: the range and the dimension of its rows
    chart,      \* the chart under a row: its range and dimension
    dimLoads,   \* the ranges of the requests for all dimensions on the wire
    series      \* requests for one row's chart: range, dimension, and whether the
                \* row it was asked from is still there

breakdownVars == <<range, active, cache, body, chart, dimLoads, series>>

NoRange == "none"
ErrorText == "error"
NoChart == <<NoRange, FirstDim>>

TypeOK ==
    /\ range \in Ranges /\ active \in Dims /\ cache \in Ranges \cup {NoRange}
    /\ body \in (Ranges \cup {NoRange, ErrorText}) \X Dims
    /\ chart \in (Ranges \X Dims) \cup {NoChart}
    /\ dimLoads \subseteq Ranges
    /\ series \subseteq [range : Ranges, dim : Dims, here : BOOLEAN]

Init ==
    /\ range = FirstRange /\ active = FirstDim /\ cache = NoRange
    /\ body = <<NoRange, FirstDim>> /\ chart = NoChart
    /\ dimLoads = {FirstRange} /\ series = {}

(* paintRows: the rows are new, and so the charts under the old ones gone.  *)
Repaint(what, d) ==
    /\ body' = <<what, d>> /\ chart' = NoChart
    /\ series' = {[q EXCEPT !.here = FALSE] : q \in series}

PickDim(d) ==
    /\ active' = d
    /\ Repaint(cache, d)
    /\ UNCHANGED <<range, cache, dimLoads>>

PickRange(m) ==
    /\ range' = m /\ dimLoads' = dimLoads \cup {m}
    /\ UNCHANGED <<active, cache, body, chart, series>>

(* One request for all dimensions; its error takes the rows' place.         *)
DimLoaded(m) ==
    /\ m \in dimLoads /\ dimLoads' = dimLoads \ {m}
    /\ \/ cache' = m /\ Repaint(m, active)
       \/ Repaint(ErrorText, active) /\ UNCHANGED cache
    /\ UNCHANGED <<range, active>>

(* A row is opened: its chart is asked for with the highlighted dimension   *)
(* and the highlighted range; a second click only hides it.                 *)
Expand ==
    /\ body[1] \in Ranges /\ chart = NoChart
    /\ series' = series \cup {[range |-> range, dim |-> active, here |-> TRUE]}
    /\ UNCHANGED <<range, active, cache, body, chart, dimLoads>>

SeriesAnswered(q) ==
    /\ q \in series /\ series' = series \ {q}
    /\ \/ chart' = IF q.here THEN <<q.range, q.dim>> ELSE chart
       \/ UNCHANGED chart
    /\ UNCHANGED <<range, active, cache, body, dimLoads>>

Next ==
    \/ (\E d \in Dims : PickDim(d)) \/ (\E m \in Ranges : PickRange(m) \/ DimLoaded(m))
    \/ Expand \/ (\E q \in series : SeriesAnswered(q))

Spec == Init /\ [][Next]_breakdownVars

(* The rows are those of the highlighted dimension out of the answer that   *)
(* is held, or an error stands there; and a chart under a row is of that    *)
(* row's dimension, whatever was clicked while it was on its way.           *)
RowsAreOfTheActiveTab ==
    /\ body \in {<<cache, active>>, <<ErrorText, active>>}
    /\ chart # NoChart => chart[2] = active

=============================================================================
