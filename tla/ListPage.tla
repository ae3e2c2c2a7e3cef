------------------------------- MODULE ListPage -------------------------------
(***************************************************************************)
(* A page that is one table (static/js/listview.js, as pages/ports.js and  *)
(* pages/domains.js use it): search and filters, sorting, paging, the      *)
(* selection, and the bulk delete that goes row by row.                    *)
(*                                                                         *)
(* A row is its key; keys are numbers and sorting is by key.  What a       *)
(* search or a filter lets through is a set of keys.                       *)
(***************************************************************************)
EXTENDS Integers, FiniteSets

CONSTANTS
    RowKeys,    \* rows there may be
    Core,       \* rows the page never deletes: the ports 80 and 443
    Terms,      \* what the searches and filters may let through
    Sizes,      \* page sizes, 0 for all
    Others,     \* rows somebody else may add or delete meanwhile
    MaxLists    \* bound: list requests on the wire

(* No page offers to delete a core port, and the server itself refuses to   *)
(* delete 80 (config.go:1168); 443 is left to whoever calls it by hand.     *)
ListAssumption ==
    /\ RowKeys \subseteq Int /\ IsFiniteSet(RowKeys) /\ Core \subseteq RowKeys
    /\ Terms \subseteq SUBSET RowKeys /\ RowKeys \in Terms
    /\ Sizes \subseteq Nat /\ Others \subseteq RowKeys \ Core /\ MaxLists \in Nat \ {0}

VARIABLES
    stored,       \* the rows the server has
    rows,         \* opts.rows
    term,         \* st.term and st.filter: the keys they let through
    size, page,   \* st.size, st.page: these and the order survive a new render
    down,         \* st.dir < 0
    selected,
    drawn,        \* the table is on screen, not the spinner
    ask,          \* the rows the open confirmation is about
    job,          \* the running delete: rows to go, and whether its list is still there
    gets          \* list requests on the wire

listVars == <<stored, rows, term, size, page, down, selected, drawn, ask, job,
              gets>>

NoJob == [todo |-> {}, running |-> FALSE, bulk |-> FALSE, here |-> FALSE]

ListTypeOK ==
    /\ stored \subseteq RowKeys /\ rows \subseteq RowKeys
    /\ term \in Terms /\ size \in Sizes /\ page \in Nat \ {0} /\ down \in BOOLEAN
    /\ selected \subseteq RowKeys /\ drawn \in BOOLEAN
    /\ ask \in [rows : SUBSET RowKeys, bulk : BOOLEAN]
    /\ job \in [todo : SUBSET RowKeys, running : BOOLEAN, bulk : BOOLEAN, here : BOOLEAN]
    /\ gets \in 0..MaxLists

NoQuestion == [rows |-> {}, bulk |-> FALSE]

(***************************************************************************)
(* visible() and render().                                                 *)
(***************************************************************************)
Visible(R, T) == R \cap T

(* The number of a visible row, in the order on screen.                    *)
Place(V, d, k) == Cardinality({j \in V : IF d THEN j >= k ELSE j <= k})

(* Mutant: an empty list has no pages.                                      *)
PagesZero(n, s) == IF s = 0 THEN 1 ELSE (n + s - 1) \div s

Pages(n, s) == IF s = 0 \/ n = 0 THEN 1 ELSE (n + s - 1) \div s
Clamp(p, n, s) == IF p > Pages(n, s) THEN Pages(n, s) ELSE p

OnPage(V, s, p, d) ==
    IF s = 0 THEN V
    ELSE {k \in V : (p - 1) * s < Place(V, d, k) /\ Place(V, d, k) <= p * s}
ShownRows == OnPage(Visible(rows, term), size, page, down)

(* Mutant: the selection is kept whole.                                     *)
RenderKeeping(R, T, s, p, sel) ==
    /\ rows' = R /\ term' = T /\ size' = s
    /\ page' = Clamp(p, Cardinality(Visible(R, T)), s)
    /\ selected' = sel

(* render(): the page is brought back into range and the selection loses   *)
(* what is no longer visible.                                              *)
Render(R, T, s, p, sel) ==
    /\ rows' = R /\ term' = T /\ size' = s
    /\ page' = Clamp(p, Cardinality(Visible(R, T)), s)
    /\ selected' = sel \cap Visible(R, T)

ListInit ==
    /\ stored = RowKeys /\ rows = {} /\ term = RowKeys /\ size \in Sizes /\ page = 1
    /\ down = FALSE /\ selected = {} /\ drawn = FALSE /\ ask = NoQuestion /\ job = NoJob
    /\ gets = 1

(* The dialog lies over the page: the table answers while there is none.   *)
TableAtHand == drawn /\ ask = NoQuestion

ListRest == UNCHANGED <<stored, drawn, ask, job, gets>>

(***************************************************************************)
(* The controls.                                                           *)
(***************************************************************************)
Search(T) ==
    /\ TableAtHand /\ Render(rows, T, size, 1, selected)
    /\ UNCHANGED down /\ ListRest

SetSize(s) ==
    /\ TableAtHand /\ Render(rows, term, s, 1, selected)
    /\ UNCHANGED down /\ ListRest

GoTo(p) ==
    /\ TableAtHand /\ p \in 1..Pages(Cardinality(Visible(rows, term)), size)
    /\ Render(rows, term, size, p, selected)
    /\ UNCHANGED down /\ ListRest

Sort ==
    /\ TableAtHand /\ down' = ~down
    /\ Render(rows, term, size, page, selected)
    /\ ListRest

ToggleRow(k) ==
    /\ TableAtHand /\ k \in ShownRows
    /\ Render(rows, term, size, page,
              IF k \in selected THEN selected \ {k} ELSE selected \cup {k})
    /\ UNCHANGED down /\ ListRest

ToggleAll(on) ==
    /\ TableAtHand
    /\ Render(rows, term, size, page, IF on THEN selected \cup ShownRows ELSE selected \ ShownRows)
    /\ UNCHANGED down /\ ListRest

Clear ==
    /\ TableAtHand /\ Render(rows, term, size, page, {})
    /\ UNCHANGED down /\ ListRest

(***************************************************************************)
(* Deleting.                                                               *)
(***************************************************************************)
Still == UNCHANGED <<rows, term, size, page, down, selected>>

Question(r) ==
    /\ ask' = r
    /\ Still /\ UNCHANGED <<stored, drawn, job, gets>>

(* The bulk button: the selected rows of the list, without the core ones.  *)
Deletable(S) == S \ Core
AskBulk ==
    /\ TableAtHand /\ Deletable(rows \cap selected) # {}
    /\ Question([rows |-> Deletable(rows \cap selected), bulk |-> TRUE])

(* A row's own button, disabled on a core row.                              *)
AskRow(k) ==
    /\ TableAtHand /\ k \in Deletable(ShownRows)
    /\ Question([rows |-> {k}, bulk |-> FALSE])

Cancel == ask # NoQuestion /\ Question(NoQuestion)

Confirm ==
    /\ ask # NoQuestion /\ ~job.running
    /\ ask' = NoQuestion
    /\ job' = [todo |-> ask.rows, running |-> TRUE, bulk |-> ask.bulk, here |-> drawn]
    /\ Still /\ UNCHANGED <<stored, drawn, gets>>

(* The page is asked for again; more requests than the bound are not told apart. *)
OneMore == IF gets < MaxLists THEN gets + 1 ELSE gets

(* One request; a bulk delete keeps going when it is refused, a row's own   *)
(* says so and stops.                                                       *)
DeleteOne(k) ==
    /\ k \in job.todo
    /\ \/ /\ k \in stored /\ stored' = stored \ {k}
          /\ job' = [job EXCEPT !.todo = @ \ {k}]
       \/ /\ UNCHANGED stored
          /\ job' = IF job.bulk THEN [job EXCEPT !.todo = @ \ {k}] ELSE NoJob
    /\ Still /\ UNCHANGED <<drawn, ask, gets>>

(* All tried: done() clears the selection of the list it was started from,  *)
(* then the page is asked for again.                                        *)
DeleteDone ==
    /\ job.running /\ job.todo = {}
    /\ IF job.bulk /\ job.here
         THEN Render(rows, term, size, page, {}) /\ UNCHANGED down
         ELSE Still
    /\ job' = NoJob /\ drawn' = FALSE /\ gets' = OneMore
    /\ UNCHANGED <<stored, ask>>

(***************************************************************************)
(* The page itself.                                                        *)
(***************************************************************************)
Navigate ==
    /\ ask = NoQuestion
    /\ drawn' = FALSE /\ gets' = OneMore
    /\ Still /\ UNCHANGED <<stored, ask, job>>

(* A new list: nothing is searched for and nothing selected, but the page   *)
(* number, the size and the order are those of the last one.                *)
PaintList ==
    /\ gets > 0 /\ gets' = gets - 1
    /\ drawn' = TRUE
    /\ Render(stored, RowKeys, size, page, {})
    /\ job' = [job EXCEPT !.here = FALSE]
    /\ UNCHANGED <<stored, down, ask>>

(* Another browser, or the command line, adds or deletes a row.             *)
Elsewhere(k) ==
    /\ stored' = IF k \in stored THEN stored \ {k} ELSE stored \cup {k}
    /\ Still /\ UNCHANGED <<drawn, ask, job, gets>>

ListNext ==
    \/ (\E T \in Terms : Search(T)) \/ (\E s \in Sizes : SetSize(s))
    \/ (\E p \in 1..Cardinality(RowKeys) : GoTo(p)) \/ Sort
    \/ (\E k \in RowKeys : ToggleRow(k)) \/ (\E on \in BOOLEAN : ToggleAll(on)) \/ Clear
    \/ AskBulk \/ (\E k \in RowKeys : AskRow(k)) \/ Cancel \/ Confirm
    \/ (\E k \in RowKeys : DeleteOne(k)) \/ DeleteDone
    \/ Navigate \/ PaintList \/ (\E k \in Others : Elsewhere(k))

ListSpec == ListInit /\ [][ListNext]_listVars

(***************************************************************************)
(* Properties.                                                             *)
(***************************************************************************)
(* Nothing is selected that the search and the filters hide, so that a bulk *)
(* action can only hit rows the operator can page to (listview.js:108).     *)
SelectionIsVisible == selected \subseteq Visible(rows, term)

(* A page with no rows on it is shown only when nothing matches at all,     *)
(* although the page number outlives the list it was chosen in.             *)
NoBlankPage == drawn /\ Visible(rows, term) # {} => ShownRows # {}

(* 80 and 443 stay, whatever is selected and deleted (ports.js:14).         *)
CoreStays == Core \subseteq stored

(* listview.js, ports.js: a bulk action hits only rows the search lets      *)
(* through and never a core port, and there is no empty page while rows     *)
(* match.                                                                   *)
ListIsSound == SelectionIsVisible /\ CoreStays /\ NoBlankPage

(* Turning the page, sorting and changing the page size keep the selection, *)
(* so a bulk action can span pages (listview.js:108).                       *)
PagingKeepsSelection ==
    [][rows' = rows /\ term' = term /\ <<size, page, down>>' # <<size, page, down>>
         => selected' = selected]_listVars

=============================================================================
