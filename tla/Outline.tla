------------------------------ MODULE Outline -------------------------------
(***************************************************************************)
(* An editor's tokens and statements, kept up to date edit by edit: after  *)
(* a change only the text around it is lexed and split again               *)
(* (qry-core/sql/outline.rs; EditorState::sync in app/state.rs).           *)
(***************************************************************************)
EXTENDS SqlText

CONSTANT Editors   \* bound: [dialects, chars, most, recalls]: what is typed, and in which

VARIABLES
  editor,    \* who types
  outline    \* [dialect, text, tokens, statements, boundaries]
outlineVars == <<editor, outline>>

Begun(d, s) ==
  LET tokens == LexFrom(d, s, 0)
      split == SplitFrom(d, s, tokens, Start, <<>>, <<>>, {})
  IN  [dialect |-> d, text |-> s, tokens |-> tokens,
       statements |-> split.spans, boundaries |-> split.boundaries]

-----------------------------------------------------------------------------
(* Taking on a text *)

CommonPrefix(a, b) ==
  Max({n \in 0..Min({Len(a), Len(b)}) : \A i \in 1..n : a[i] = b[i]})
CommonSuffix(a, b, most) ==
  Max({n \in 0..most : \A i \in 0..(n - 1) : a[Len(a) - i] = b[Len(b) - i]})

Moved(span, by) == [span EXCEPT !.from = @ + by, !.to = @ + by]
From(spans, at) == SelectSeq(spans, LAMBDA x : x.from >= at)
Shifted(spans, at, by) == [i \in DOMAIN From(spans, at) |-> Moved(From(spans, at)[i], by)]

\* A mutant: the tokens up to the change are kept, what they looked ahead at or not.
KeptToChange(o, prefix) == Cardinality({i \in DOMAIN o.tokens : o.tokens[i].to <= prefix})

\* How many tokens stay: those before the line break ahead of the change, for no
\* token looks past one.
KeptTokens(o, prefix) ==
  LET breaks == {n \in 0..(prefix - 1) : At(o.text, n) = "nl"}
  IN  IF breaks = {} THEN 0
      ELSE Cardinality({i \in DOMAIN o.tokens : o.tokens[i].to <= Max(breaks)})

\* Lexes on from `at`, past the change up to where an old token starts.
RECURSIVE Relexed(_, _, _, _, _, _)
Relexed(o, s, at, changed, by, tokens) ==
  IF at >= Len(s) THEN [tokens |-> tokens, inStep |-> Len(s)]
  ELSE IF at >= changed /\ \E i \in DOMAIN o.tokens : o.tokens[i].from = at - by
  THEN [tokens |-> tokens \o Shifted(o.tokens, at - by, by), inStep |-> at]
  ELSE LET t == NextToken(o.dialect, s, at)
       IN  Relexed(o, s, t.to, changed, by, Append(tokens, t))

\* A mutant: the splitter stops at any old boundary, whatever ends a statement there.
AnyDelimiter(o, changed, inStep, by) ==
  {Boundary(b.at + by, x.delimiter) : x \in Range(o.boundaries),
     b \in {y \in Range(o.boundaries) : y.at + by > changed /\ y.at + by >= inStep}}

\* The old boundaries at which splitting again gives what it gave.
BackInStep(o, changed, inStep, by) ==
  {Boundary(b.at + by, b.delimiter) :
     b \in {x \in Range(o.boundaries) : x.at + by > changed /\ x.at + by >= inStep}}

\* The text around a change: what is the same before it, where it ends, and by how much
\* that moved.
Change(o, s, prefix) ==
  [prefix |-> prefix, by |-> Len(s) - Len(o.text),
   to |-> Len(s) - CommonSuffix(o.text, s, Min({Len(o.text), Len(s)}) - prefix)]

\* What was split again, and the rest of what was there, moved.
Joined(o, s, tokens, by, split) ==
  LET kept == split.found # NoBoundary
      rest == SelectSeq(o.boundaries, LAMBDA b : kept /\ b.at >= split.found.at - by)
  IN  [dialect |-> o.dialect, text |-> s, tokens |-> tokens,
       statements |-> split.spans \o
         (IF kept THEN Shifted(o.statements, split.found.at - by, by) ELSE <<>>),
       boundaries |-> split.boundaries \o
         [i \in DOMAIN rest |-> Boundary(rest[i].at + by, rest[i].delimiter)]]

\* Splits on from the last boundary before the tokens that were lexed again.
Resplit(o, s, change, restart, lexed) ==
  LET from == Cardinality({i \in DOMAIN o.boundaries : o.boundaries[i].at <= restart})
      start == o.boundaries[from]
  IN  Joined(o, s, lexed.tokens, change.by,
        SplitFrom(o.dialect, s, lexed.tokens, start,
                  SelectSeq(o.statements, LAMBDA x : x.from < start.at),
                  SubSeq(o.boundaries, 1, from - 1),
                  BackInStep(o, change.to, lexed.inStep, change.by)))

Relex(o, s, change, keep) ==
  LET restart == IF keep < Len(o.tokens) THEN o.tokens[keep + 1].from ELSE 0
  IN  Resplit(o, s, change, restart,
        Relexed(o, s, restart, change.to, change.by, SubSeq(o.tokens, 1, keep)))

Edited(o, s) ==
  LET prefix == CommonPrefix(o.text, s)
  IN  Relex(o, s, Change(o, s, prefix), KeptTokens(o, prefix))

Update(o, d, s) ==
  IF d # o.dialect THEN Begun(d, s) ELSE IF s = o.text THEN o ELSE Edited(o, s)

-----------------------------------------------------------------------------
(* What an event does to the text *)

OutlineInit == \E e \in Editors : \E d \in e.dialects : editor = e /\ outline = Begun(d, <<>>)

Sync(d, s) == outline' = Update(outline, d, s) /\ UNCHANGED editor

\* A character typed somewhere, or one erased.
Type(at, c) ==
  /\ Len(outline.text) < editor.most
  /\ Sync(outline.dialect, SubSeq(outline.text, 1, at) \o <<c>> \o Between(outline.text, at, Len(outline.text)))
Erase(at) == Sync(outline.dialect, SubSeq(outline.text, 1, at) \o Between(outline.text, at + 1, Len(outline.text)))

\* A text of the history or a snippet put in place of all of it, or an undo.
Recall(s) == Sync(outline.dialect, s)

\* The session's connection is of another kind from now on.
Redial(d) == d # outline.dialect /\ Sync(d, outline.text)

OutlineNext ==
  \/ \E at \in 0..Len(outline.text), c \in editor.chars : Type(at, c)
  \/ \E at \in 0..(Len(outline.text) - 1) : Erase(at)
  \/ \E s \in editor.recalls : Recall(s)
  \/ \E d \in editor.dialects : Redial(d)

OutlineSpec == OutlineInit /\ [][OutlineNext]_outlineVars

-----------------------------------------------------------------------------
\* Whatever was edited and in whatever order, the tokens and statements kept are
\* those of the text, their tokens tiling it and its statements in order: what
\* Outline::update promises, for what is highlighted and counted in the editor.
OutlineIsOfTheText ==
  /\ outline = Begun(outline.dialect, outline.text)
  /\ \A i \in DOMAIN outline.tokens :
       outline.tokens[i].from = IF i = 1 THEN 0 ELSE outline.tokens[i - 1].to
  /\ \A i, j \in DOMAIN outline.statements :
       i < j => outline.statements[i].to <= outline.statements[j].from
=============================================================================
