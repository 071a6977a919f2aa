------------------------------ MODULE SqlText -------------------------------
(***************************************************************************)
(* SQL text cut into tokens and the tokens into the statements a server    *)
(* runs one at a time (qry-core/sql/lex.rs, sql/split.rs).  A text is a    *)
(* sequence of characters, one standing for each that the lexer tells      *)
(* apart: "a" for any letter, "sp" for a blank, "nl" for a line break, "'" *)
(* for any quote that is closed by its like; "begin", "create",            *)
(* "procedure" and "delimiter" are letters that spell that word when they  *)
(* are all of a word.  Offsets count from zero and a span leaves out its   *)
(* end.                                                                    *)
(***************************************************************************)
EXTENDS Integers, SequencesExt, FiniteSetsExt, Functions

Blanks == {"sp", "nl"}
Digits == {"1"}
Letters == {"a", "q", "begin", "create", "procedure", "delimiter"}
Alphanumeric == Letters \cup Digits

At(s, i) == IF i < Len(s) THEN s[i + 1] ELSE "end"
Between(s, from, to) == SubSeq(s, from + 1, to)

\* The first place from `from` on where a character that passes stands, or the end.
Find(s, from, Passes(_)) == Min({i \in from..Len(s) : i = Len(s) \/ Passes(s[i + 1])})
EatWhile(s, from, chars) == Find(s, from, LAMBDA c : c \notin chars)

\* Just past the first `words` from `from` on; past the end and one when there is none.
PastFirst(s, from, words) ==
  LET ends == {i \in (from + Len(words))..Len(s) : Between(s, i - Len(words), i) = words}
  IN  IF ends = {} THEN Len(s) + 1 ELSE Min(ends)

Token(kind, from, to) == [kind |-> kind, from |-> from, to |-> to]

\* A token that closes at `to`, or runs to the end of the text.
Closing(s, kind, from, to) ==
  IF to > Len(s) THEN Token("unterminated", from, Len(s)) ELSE Token(kind, from, to)

-----------------------------------------------------------------------------
(* The lexer *)

\* Just past the quote that closes, a doubled one standing for itself.
RECURSIVE PastQuote(_, _, _, _)
PastQuote(s, at, quote, backslash) ==
  LET i == Find(s, at, LAMBDA c : c = quote \/ (backslash /\ c = "\\"))
  IN  CASE i = Len(s) -> Len(s) + 1
        [] At(s, i) = "\\" -> PastQuote(s, Min({i + 2, Len(s)}), quote, backslash)
        [] At(s, i + 1) = quote -> PastQuote(s, i + 2, quote, backslash)
        [] OTHER -> i + 1

RECURSIVE PastBlockComment(_, _, _, _)
PastBlockComment(s, at, depth, nests) ==
  LET i == Find(s, at, LAMBDA c : c \in {"*", "/"})
  IN  CASE i = Len(s) -> Len(s) + 1
        [] At(s, i) = "*" /\ At(s, i + 1) = "/" ->
             IF depth = 1 THEN i + 2 ELSE PastBlockComment(s, i + 2, depth - 1, nests)
        [] At(s, i) = "/" /\ nests /\ At(s, i + 1) = "*" ->
             PastBlockComment(s, i + 2, depth + 1, nests)
        [] OTHER -> PastBlockComment(s, i + 1, depth, nests)

\* `$tag$ ... $tag$`: where its tag ends, or the start when none starts here.
TagEnd(s, at) ==
  LET i == Find(s, at + 1, LAMBDA c : c \notin Alphanumeric)
  IN  IF At(s, i) = "$" /\ At(s, at + 1) \notin Digits THEN i + 1 ELSE at

Dollar(s, at) ==
  LET end == TagEnd(s, at)
  IN  IF end = at THEN Token("operator", at, EatWhile(s, at + 1, Digits))
      ELSE Closing(s, "string", at, PastFirst(s, end, Between(s, at, end)))

\* `q'[ ... ]'`, with any character but a blank for the bracket.
Close(open) == IF open = "[" THEN "]" ELSE open
QQuote(s, at) == Closing(s, "string", at, PastFirst(s, at + 3, <<Close(At(s, at + 2)), "'">>))
QQuoted(s, at) == At(s, at + 1) = "'" /\ At(s, at + 2) \notin Blanks \cup {"end"}

\* A point belongs to a number unless a letter follows it.
Number(s, at) ==
  LET whole == EatWhile(s, at, Digits)
  IN  IF At(s, whole) = "." /\ At(s, whole + 1) \notin Letters
      THEN Token("number", at, EatWhile(s, whole + 1, Digits))
      ELSE Token("number", at, whole)

Keywords == {<<"begin">>, <<"create">>, <<"procedure">>}
Word(s, at) ==
  LET to == EatWhile(s, at, Alphanumeric \cup {"$"})
  IN  Token(IF Between(s, at, to) \in Keywords THEN "keyword" ELSE "ident", at, to)

NextToken(d, s, at) ==
  LET c == At(s, at)
      next == At(s, at + 1)
  IN  CASE c \in Blanks -> Token("whitespace", at, EatWhile(s, at, Blanks))
        [] (c = "-" /\ next = "-") \/ (c = "#" /\ d = "mysql") ->
             Token("comment", at, Find(s, at, LAMBDA x : x = "nl"))
        [] c = "/" /\ next = "*" ->
             Closing(s, "comment", at, PastBlockComment(s, at + 2, 1, d = "postgres"))
        [] c = "'" -> Closing(s, "string", at, PastQuote(s, at + 1, "'", d = "mysql"))
        [] c = "q" /\ d = "oracle" /\ QQuoted(s, at) -> QQuote(s, at)
        [] c = "[" /\ d = "sqlite" -> Closing(s, "quoted", at, PastFirst(s, at + 1, <<"]">>))
        [] c = "$" /\ d = "postgres" -> Dollar(s, at)
        [] c \in Digits \/ (c = "." /\ next \in Digits) -> Number(s, at)
        [] c = ";" -> Token("delimiter", at, at + 1)
        [] c \in Letters -> Word(s, at)
        [] OTHER -> Token("punct", at, at + 1)

RECURSIVE LexFrom(_, _, _)
LexFrom(d, s, at) ==
  IF at >= Len(s) THEN <<>>
  ELSE LET t == NextToken(d, s, at) IN <<t>> \o LexFrom(d, s, t.to)

-----------------------------------------------------------------------------
(* The splitter *)

IsTrivia(t) == t.kind \in {"whitespace", "comment"}
IsCode(t) == t.kind \notin {"string", "quoted", "comment", "unterminated"}

\* The tokens that are not trivia from `from` to `to`, cut to that.
Within(tokens, from, to) ==
  LET clipped == [i \in DOMAIN tokens |->
                    Token(tokens[i].kind, Max({tokens[i].from, from}), Min({tokens[i].to, to}))]
  IN  SelectSeq(clipped, LAMBDA t : t.from < t.to /\ ~IsTrivia(t))

\* In such a statement a terminator does not end it, only a `/` line does.
PlsqlBlock(words) ==
  /\ words # <<>>
  /\ \/ words[1] = <<"begin">>
     \/ words[1] = <<"create">> /\ Len(words) > 1 /\ words[2] = <<"procedure">>

LeadingWords(s, tokens, from, to) ==
  LET inside == Within(tokens, from, to) IN [i \in DOMAIN inside |-> Between(s, inside[i].from, inside[i].to)]

\* The end of a text without the blanks at it.
TrimmedEnd(s, from, to) == Max({i \in from..to : i = from \/ s[i] \notin Blanks})
TrimmedStart(s, from, to) == Min({to, EatWhile(s, from, Blanks)})

\* The statement from `from` to `to`, if there is one: a sequence of at most one span.
Statement(s, tokens, from, to) ==
  LET inside == Within(tokens, from, to)
      last == inside[Len(inside)]
  IN  IF inside = <<>> THEN <<>>
      ELSE << [from |-> inside[1].from,
               to |-> IF last.kind = "unterminated" THEN TrimmedEnd(s, last.from, last.to)
                      ELSE last.to] >>

Boundary(at, delimiter) == [at |-> at, delimiter |-> delimiter]
NoBoundary == Boundary(-1, <<>>)
Start == Boundary(0, <<";">>)

\* Where the tokens take the splitter after `at`, when nothing ends there.
Onward(d, s, t, at, delimiter) ==
  IF delimiter # <<";">> THEN at + 1
  ELSE IF t.kind = "whitespace" /\ d \in {"mysql", "oracle"}
       THEN Min({t.to, Find(s, at, LAMBDA c : c = "nl") + 1})
       ELSE t.to

\* The line at `at`: where it ends and where, after blanks, it begins.
LineEnd(s, at) == Find(s, at, LAMBDA c : c = "nl")
LineAt(s, at) == [first |-> TrimmedStart(s, at, LineEnd(s, at)), end |-> LineEnd(s, at)]
StartsLine(s, at) == at = 0 \/ At(s, at - 1) = "nl"
StartsCode(tokens, first) ==
  \E i \in DOMAIN tokens : /\ tokens[i].to > first /\ IsCode(tokens[i])
                           /\ \A j \in 1..(i - 1) : tokens[j].to <= first

\* What follows the word on a `delimiter` line; nothing makes it `;` again.
NewDelimiter(word) == IF word = <<>> THEN <<";">> ELSE word
Argument(s, from, end) == Between(s, from, TrimmedEnd(s, from, end))

\* What a line of its own ends a statement with: the boundary after it, if it does.
LineRule(d, s, line, delimiter) ==
  LET next == Min({line.end + 1, Len(s)})
  IN  IF d = "mysql" /\ At(s, line.first) = "delimiter" /\ At(s, line.first + 1) = "sp"
      THEN Boundary(next, NewDelimiter(
             Argument(s, TrimmedStart(s, Min({line.first + 2, line.end}), line.end), line.end)))
      ELSE IF d = "oracle" /\ Argument(s, line.first, line.end) = <<"/">>
      THEN Boundary(next, delimiter)
      ELSE NoBoundary

\* A line's rule goes before the delimiter.
FirstOf(ruled, ended) == IF ruled # NoBoundary THEN ruled ELSE ended

\* What ends the statement begun at a boundary, at `at`: the boundary after it, if it ends.
Ends(d, s, tokens, begun, at) ==
  FirstOf(
    IF StartsLine(s, at) /\ StartsCode(tokens, TrimmedStart(s, at, LineEnd(s, at)))
    THEN LineRule(d, s, LineAt(s, at), begun.delimiter) ELSE NoBoundary,
    IF /\ Between(s, at, at + Len(begun.delimiter)) = begun.delimiter /\ at + Len(begun.delimiter) <= Len(s)
       /\ ~(d = "oracle" /\ PlsqlBlock(LeadingWords(s, tokens, begun.at, at)))
    THEN Boundary(at + Len(begun.delimiter), begun.delimiter) ELSE NoBoundary)

\* The statement that b ends, and where the splitter goes on, if it does.
AtEnd(s, tokens, stops, b, done) ==
  LET ended == [done EXCEPT !.spans = @ \o Statement(s, tokens, Last(done.boundaries).at, done.at),
                            !.at = b.at]
  IN  IF b \in stops THEN [ended EXCEPT !.found = b]
      ELSE [ended EXCEPT !.boundaries = Append(@, b)]

\* Past the token t: over it if it is not code, else past what ends there, if anything.
Past(d, s, tokens, stops, t, b, done) ==
  IF ~IsCode(t) THEN [done EXCEPT !.at = t.to]
  ELSE IF b = NoBoundary
  THEN [done EXCEPT !.at = Onward(d, s, t, done.at, Last(done.boundaries).delimiter)]
  ELSE AtEnd(s, tokens, stops, b, done)

\* On from the last boundary, one token or one place at a time, up to one of `stops`.
Scan(d, s, tokens, stops, start) ==
  FoldLeft(LAMBDA done, i :
             IF done.found # NoBoundary \/ done.at >= Len(s) THEN done
             ELSE Past(d, s, tokens, stops,
                       tokens[Min({j \in DOMAIN tokens : tokens[j].to > done.at})],
                       Ends(d, s, tokens, Last(done.boundaries), done.at), done),
           start, s)

\* What follows the last boundary is a statement too.
Ended(s, tokens, done) ==
  IF done.found # NoBoundary THEN done
  ELSE [done EXCEPT !.spans = @ \o Statement(s, tokens, Last(done.boundaries).at, Len(s))]

\* The splitter from a boundary on: the spans and boundaries after those given.
SplitFrom(d, s, tokens, from, spans, boundaries, stops) ==
  Ended(s, tokens, Scan(d, s, tokens, stops,
       [at |-> from.at, spans |-> spans, boundaries |-> Append(boundaries, from),
        found |-> NoBoundary]))
=============================================================================
