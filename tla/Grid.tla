-------------------------------- MODULE Grid --------------------------------
(***************************************************************************)
(* The results grid of a tab and the inspector beside it: the selected     *)
(* cell, the sort, the search and the count of the cursor's column, while  *)
(* more rows are loaded, keys are pressed and time passes                  *)
(* (qry-core/grid.rs, inspect.rs; reducer/results.rs, reducer/inspector.rs;*)
(* ResultsState in app/state.rs).  A cell is NULL or a text, and a text a  *)
(* sequence of the codes of its characters.  Rows and columns count from   *)
(* zero, as they do there.                                                 *)
(***************************************************************************)
EXTENDS Integers, Sequences, SequencesExt, FiniteSets, FiniteSetsExt

CONSTANTS
  Null,            \* a cell without a value
  GridUsers,       \* bound: [columns, rows, batches, acts, types, left]; a column is
                   \* whether it is numeric, and types are characters and search keys
  SearchBudget, ProfileBudget, ProfileCap    \* rows looked at per event, and in all

VARIABLES
  batches, acts, types,   \* what may be loaded, pressed and typed
  grid,            \* the ResultsState; and `panicked`, and a ghost, `chosen`: the row
                   \* of the result the user selected last
  gridLeft         \* bound: keys and loads yet to come
gridVars == <<batches, acts, types, grid, gridLeft>>

NoSearch == [none |-> "search"]
NoProfile == [none |-> "profile"]

-----------------------------------------------------------------------------
(* The order of values *)

IsDigit(c) == c \in 48..57
LowerCase(c) == IF c \in 65..90 THEN c + 32 ELSE c
Lowered(text) == [i \in DOMAIN text |-> LowerCase(text[i])]
NaN == <<78, 97, 78>>

Compared(m, n) == IF m < n THEN -1 ELSE IF m = n THEN 0 ELSE 1
Then(first, second) == IF first # 0 THEN first ELSE second

DigitRun(text) == Min({i \in 0..Len(text) : i = Len(text) \/ ~IsDigit(text[i + 1])})
ValueOf(digits) == FoldLeft(LAMBDA n, c : 10 * n + (c - 48), 0, digits)
After(text, n) == SubSeq(text, n + 1, Len(text))

\* Runs of digits compare as numbers, everything else without regard to case first.
RECURSIVE NaturalCmp(_, _)
NaturalCmp(a, b) ==
  IF a = <<>> \/ b = <<>> THEN Compared(Len(a), Len(b))
  ELSE IF IsDigit(a[1]) /\ IsDigit(b[1])
  THEN Then(Compared(ValueOf(SubSeq(a, 1, DigitRun(a))), ValueOf(SubSeq(b, 1, DigitRun(b)))),
            NaturalCmp(After(a, DigitRun(a)), After(b, DigitRun(b))))
  ELSE Then(Then(Compared(LowerCase(a[1]), LowerCase(b[1])), Compared(a[1], b[1])),
            NaturalCmp(Tail(a), Tail(b)))

\* Whether a text of a numeric column is read as a number; NaN is not one.
IsNumber(text) == text # <<>> /\ DigitRun(text) = Len(text)

\* A mutant: NaN is a number, that no other is less or greater than.
ComparedWithNaN(numeric, a, b) ==
  IF numeric /\ \E x, y \in {a, b} : x = NaN /\ IsNumber(y) THEN 0
  ELSE IF numeric /\ IsNumber(a) /\ IsNumber(b) THEN Compared(ValueOf(a), ValueOf(b))
  ELSE NaturalCmp(a, b)

\* Numbers as numbers and before the texts that are none.
CompareValues(numeric, a, b) ==
  CASE ~numeric \/ (~IsNumber(a) /\ ~IsNumber(b)) -> NaturalCmp(a, b)
    [] IsNumber(a) /\ IsNumber(b) -> Compared(ValueOf(a), ValueOf(b))
    [] OTHER -> IF IsNumber(a) THEN -1 ELSE 1

CompareCells(numeric, a, b) ==
  IF a = Null \/ b = Null THEN Compared(IF a = Null THEN 1 ELSE 0, IF b = Null THEN 1 ELSE 0)
  ELSE CompareValues(numeric, a, b)

\* By the first key that tells the rows apart, turned round when it is descending.
CompareRows(columns, sort, r, s) ==
  FoldLeft(LAMBDA ord, key :
             LET cells == CompareCells(columns[key.col + 1], r[key.col + 1], s[key.col + 1])
             IN  Then(ord, IF key.dir = "desc" THEN 0 - cells ELSE cells),
           0, sort)

\* The rows' numbers in that order, equal rows in the order they came.
SortPermutation(columns, rows, sort) ==
  SortSeq([i \in DOMAIN rows |-> i - 1],
          LAMBDA i, j : Then(CompareRows(columns, sort, rows[i + 1], rows[j + 1]), Compared(i, j)) = -1)

-----------------------------------------------------------------------------
(* The selected row, in the result and on the screen *)

DataRow(g, r) == IF r < Len(g.order) THEN g.order[r + 1] ELSE r
GridRow(g, r) == IF r \in Range(g.order) THEN (CHOOSE i \in DOMAIN g.order : g.order[i] = r) - 1 ELSE r

\* The user selects another cell.
Select(g, r, c) == [g EXCEPT !.row = r, !.col = c, !.chosen = DataRow(g, r)]

Ordered(g) == [g EXCEPT !.order = IF g.sort = <<>> THEN <<>>
                                  ELSE SortPermutation(g.columns, g.rows, g.sort)]

\* The selection stays on its row of the result when the order changes.
Reordered(g) ==
  LET kept == DataRow(g, g.row)
      ordered == Ordered(g)
  IN  [ordered EXCEPT !.row = GridRow(ordered, kept)]

-----------------------------------------------------------------------------
(* The search: a few rows at a time *)

NewSearch(input) == [needle |-> Lowered(input), next |-> 0, matches |-> <<>>]

Shown(cell) == IF cell = Null THEN <<78, 85, 76, 76>> ELSE cell
IsMatch(cell, needle) ==
  LET text == Lowered(Shown(cell))
  IN  \E i \in 0..(Len(text) - Len(needle)) : SubSeq(text, i + 1, i + Len(needle)) = needle

\* The cells of rows `from` to `to` that match, row by row.
MatchesIn(rows, needle, from, to) ==
  LET cells(r) == [c \in DOMAIN rows[r] |-> <<r - 1, c - 1>>]
      found(r) == SelectSeq(cells(r), LAMBDA m : IsMatch(rows[r][m[2] + 1], needle))
  IN  FoldLeft(LAMBDA all, r : all \o found(r), <<>>, [i \in 1..(to - from) |-> from + i])

SearchDone(g) == g.search.next >= Len(g.rows)

Step(search, rows) ==
  LET end == Min({search.next + SearchBudget, Len(rows)})
  IN  IF search.needle = <<>> THEN [search EXCEPT !.next = Len(rows)]
      ELSE [search EXCEPT !.next = end,
                          !.matches = @ \o MatchesIn(rows, search.needle, search.next, end)]

With(search, found) ==
  [search EXCEPT !.needle = found.needle, !.next = found.next, !.matches = found.matches]

StepSearches(g) ==
  IF g.search = NoSearch \/ SearchDone(g) THEN g
  ELSE [g EXCEPT !.search = With(@, Step(@, g.rows))]

Before(m, n) == m[1] < n[1] \/ (m[1] = n[1] /\ m[2] < n[2])

\* Selects a match, if there is one: the first of those that pass, or else of all.
SelectMatch(g, matches, Passes(_)) ==
  LET passing == SelectSeq(matches, Passes)
      m == IF passing = <<>> THEN matches[1] ELSE passing[1]
  IN  IF matches = <<>> THEN g ELSE Select(g, GridRow(g, m[1]), m[2])

Jump(g, forward) ==
  LET at == <<DataRow(g, g.row), g.col>>
  IN  IF g.search = NoSearch THEN g
      ELSE IF forward THEN SelectMatch(g, g.search.matches, LAMBDA m : Before(at, m))
      ELSE SelectMatch(g, Reverse(g.search.matches), LAMBDA m : Before(m, at))

\* What is typed changed: from the top again, a first batch at once.
RestartSearch(g) ==
  LET at == <<DataRow(g, g.row), g.col>>
      searched == [g EXCEPT !.search = With(@, Step(NewSearch(@.input), g.rows))]
  IN  SelectMatch(searched, searched.search.matches, LAMBDA m : ~Before(m, at))

Backspace == 8
Enter == 13
Escape == 27
SearchKey(g, key) ==
  CASE key = Escape -> [g EXCEPT !.search = NoSearch]
    [] key = Enter -> [g EXCEPT !.search.typing = FALSE]
    [] key = Backspace -> RestartSearch([g EXCEPT !.search.input =
                              IF @ = <<>> THEN @ ELSE SubSeq(@, 1, Len(@) - 1)])
    [] OTHER -> RestartSearch([g EXCEPT !.search.input = Append(@, key)])

-----------------------------------------------------------------------------
(* The inspector's count of the cursor's column *)

NewProfile(c) == [col |-> c, next |-> 0, nulls |-> 0, counts |-> <<>>, complete |-> FALSE]

CountValue(profile, cell) ==
  IF cell = Null THEN [profile EXCEPT !.nulls = @ + 1]
  ELSE IF cell \in DOMAIN profile.counts THEN [profile EXCEPT !.counts[cell] = @ + 1]
  ELSE [profile EXCEPT !.counts = (cell :> 1) @@ @]

StepProfiler(profile, rows) ==
  LET last == Min({Len(rows), ProfileCap})
      end == Min({last, profile.next + Max({ProfileBudget, 1})})
      counted == FoldLeft(LAMBDA p, r : CountValue(p, r[profile.col + 1]), profile,
                          SubSeq(rows, profile.next + 1, end))
  IN  [counted EXCEPT !.next = Max({end, @}), !.complete = Max({end, profile.next}) >= last]

\* After every event: another batch while the inspector is shown, afresh when the
\* cursor is in another column.
StepProfile(g) ==
  LET fresh == g.profile = NoProfile \/ g.profile.col # g.col
  IN  IF ~g.inspector \/ g.columns = <<>> THEN g
      ELSE IF fresh THEN [g EXCEPT !.profile = StepProfiler(NewProfile(g.col), g.rows)]
      ELSE IF g.profile.complete THEN g
      ELSE [g EXCEPT !.profile = StepProfiler(@, g.rows)]

-----------------------------------------------------------------------------
(* Rows and keys *)

\* A result is shown from its first cell, unsorted.
Show(columns, rows) ==
  [columns |-> columns, rows |-> rows, row |-> 0, col |-> 0, sort |-> <<>>, order |-> <<>>,
   search |-> NoSearch, profile |-> NoProfile, inspector |-> FALSE,
   panicked |-> FALSE, chosen |-> 0]

\* A mutant: the selection stays where it is on the screen.
MoreInPlace(g, rows) ==
  LET sorted == Ordered([g EXCEPT !.rows = @ \o rows, !.profile = NoProfile])
  IN  IF g.search = NoSearch THEN sorted
      ELSE [sorted EXCEPT !.search = With(@, NewSearch(@.input))]

\* Rows are added to the end: the order, the search and the count are begun again.
More(g, rows) ==
  LET longer == [g EXCEPT !.rows = @ \o rows, !.profile = NoProfile]
      sorted == IF g.sort = <<>> THEN longer ELSE Reordered(longer)
  IN  IF g.search = NoSearch THEN sorted
      ELSE [sorted EXCEPT !.search = With(@, NewSearch(@.input))]

\* What the selected column is sorted by next: ascending, descending, not at all.
NextSort(sort, c, add) ==
  LET at == {i \in DOMAIN sort : sort[i].col = c}
      descending == \E i \in at : sort[i].dir = "desc"
      asc == [col |-> c, dir |-> "asc"]
      desc == [col |-> c, dir |-> "desc"]
  IN  IF ~add
      THEN IF at = {} \/ Len(sort) # 1 THEN <<asc>> ELSE IF descending THEN <<>> ELSE <<desc>>
      ELSE IF at = {} THEN Append(sort, asc)
      ELSE LET i == CHOOSE k \in at : TRUE
           IN  IF descending THEN RemoveAt(sort, i) ELSE [sort EXCEPT ![i] = desc]

\* The name of a key's column is looked up: a result of no columns has none for it.
SortBy(g, add) ==
  LET sort == NextSort(g.sort, g.col, add)
  IN  IF g.columns = <<>> /\ sort # <<>> THEN [g EXCEPT !.panicked = TRUE]
      ELSE Reordered([g EXCEPT !.sort = sort])

LastRow(g) == Max({Len(g.rows), 1}) - 1
LastCol(g) == Max({Len(g.columns), 1}) - 1
Less(n) == Max({n, 1}) - 1

Act(g, key) ==
  CASE key = "up" -> Select(g, Less(g.row), g.col)
    [] key = "down" -> Select(g, Min({g.row + 1, LastRow(g)}), g.col)
    [] key = "left" -> Select(g, g.row, Less(g.col))
    [] key = "right" -> Select(g, g.row, Min({g.col + 1, LastCol(g)}))
    [] key = "bottom" -> Select(g, LastRow(g), g.col)
    [] key = "goto" -> IF g.rows = <<>> THEN g ELSE Select(g, Min({2, Len(g.rows)}) - 1, g.col)
    [] key = "sort" -> SortBy(g, FALSE)
    [] key = "add sort" -> SortBy(g, TRUE)
    [] key = "search" -> [g EXCEPT !.search = NewSearch(<<>>) @@ [typing |-> TRUE, input |-> <<>>]]
    [] key = "next match" -> Jump(g, TRUE)
    [] key = "previous match" -> Jump(g, FALSE)
    [] key = "inspector" -> [g EXCEPT !.inspector = ~@]

Typing(g) == g.search # NoSearch /\ g.search.typing

\* Rows and columns of the result, in the order they go to the clipboard.
Selection(rows, cols) == [rows |-> rows, cols |-> cols]

\* What `y`, `Y` and the copy menu copy.
Copied(g, scope) ==
  LET row == DataRow(g, g.row)
      shown == [r \in DOMAIN g.rows |-> DataRow(g, r - 1)]
      all == [c \in DOMAIN g.columns |-> c - 1]
  IN  CASE scope = "cell" -> Selection(<<row>>, <<g.col>>)
        [] scope = "row" -> Selection(<<row>>, all)
        [] scope = "column" -> Selection(shown, <<g.col>>)
        [] scope = "whole" -> Selection(shown, all)

-----------------------------------------------------------------------------

GridInit ==
  \E u \in GridUsers :
    /\ batches = u.batches /\ acts = u.acts /\ types = u.types /\ gridLeft = u.left
    /\ grid = Show(u.columns, u.rows)

Limited == gridLeft > 0 /\ ~grid.panicked /\ gridLeft' = gridLeft - 1 /\ UNCHANGED <<batches, acts, types>>

LoadMore == Limited /\ \E rows \in batches : grid' = StepProfile(More(grid, rows))

\* While a search is typed its line takes the keys; the mouse moves in the grid all the same.
Press(key) ==
  /\ Limited
  /\ Typing(grid) => key \in {"up", "down"}
  /\ grid' = StepProfile(Act(grid, key))

TypeInSearch(key) == Limited /\ Typing(grid) /\ grid' = StepProfile(SearchKey(grid, key))

Tick ==
  /\ ~grid.panicked
  /\ grid' = StepProfile(StepSearches(grid))
  /\ UNCHANGED <<batches, acts, types, gridLeft>>

GridNext ==
  \/ LoadMore
  \/ \E key \in acts : Press(key)
  \/ \E key \in types : TypeInSearch(key)
  \/ Tick

GridSpec == GridInit /\ [][GridNext]_gridVars

-----------------------------------------------------------------------------
\* The rows in the order of the sort, each of them once and equal ones as they came.
RowsAreInOrder ==
  LET sorted(i, j) == CompareRows(grid.columns, grid.sort, grid.rows[grid.order[i] + 1],
                                  grid.rows[grid.order[j] + 1])
  IN  IF grid.sort = <<>> THEN grid.order = <<>>
      ELSE /\ Range(grid.order) = 0..(Len(grid.rows) - 1) /\ Len(grid.order) = Len(grid.rows)
           /\ \A i, j \in DOMAIN grid.order : i < j =>
                \/ sorted(i, j) = -1
                \/ sorted(i, j) = 0 /\ grid.order[i] < grid.order[j]

\* However rows were loaded, sorted, searched and counted in between: the grid shows
\* every row once in the order asked for, the selection is on the row the user
\* selected, the matches and the counts are those of the rows looked at so far, of
\* the rows and the column that are there now, and what is copied is the row that is
\* selected, or all of them as they are shown.
GridIsOfItsRows ==
  /\ RowsAreInOrder
  /\ DataRow(grid, grid.row) = grid.chosen
  /\ Copied(grid, "row").rows = <<grid.chosen>>
  /\ Copied(grid, "whole").rows =
       IF grid.sort = <<>> THEN [r \in DOMAIN grid.rows |-> r - 1] ELSE grid.order
  /\ grid.search # NoSearch =>
       /\ grid.search.needle = Lowered(grid.search.input)
       /\ grid.search.next <= Len(grid.rows)
       /\ grid.search.matches = IF grid.search.needle = <<>> THEN <<>>
            ELSE MatchesIn(grid.rows, grid.search.needle, 0, grid.search.next)
  /\ grid.profile # NoProfile =>
       LET seen == SubSeq(grid.rows, 1, grid.profile.next)
           times(x) == Cardinality({i \in DOMAIN seen : seen[i][grid.profile.col + 1] = x})
       IN  /\ grid.profile.nulls = times(Null)
           /\ \A x \in DOMAIN grid.profile.counts : grid.profile.counts[x] = times(x)
           /\ grid.profile.complete <=> grid.profile.next = Min({Len(grid.rows), ProfileCap})
=============================================================================
