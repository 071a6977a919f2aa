----------------------------- MODULE SchemaTree -----------------------------
(***************************************************************************)
(* The rows of the schema browser (schematree.rs): which nodes of one      *)
(* connection show, in what order, and which row the selection is on.      *)
(*                                                                         *)
(* A row is a node by name, as RowKey has it: its kind and the names from  *)
(* the catalog down.                                                       *)
(***************************************************************************)
EXTENDS SchemaCache

CONSTANTS
  SystemCatalogs,  \* hidden unless asked for
  ViewNames,       \* the objects that are views
  Hits(_, _)       \* whether a filter's text is in a name

Key(kind, names) == [kind |-> kind, names |-> names]
ConnectionRow == Key("connection", <<>>)

Expandable == {"connection", "catalog", "tables", "views", "object", "columns", "indexes"}

\* The folder an object is in, and the section of a detail.
FolderOf(name) == IF name \in ViewNames THEN "views" ELSE "tables"

\* A key and those above it, itself first.  An object's folder is skipped: what
\* it goes up to is its catalog.
Line(key) ==
  LET in(n) == SubSeq(key.names, 1, n)
      upTo(kinds, row) == IF key.kind \in kinds THEN <<row>> ELSE <<>>
      below == {"columns", "indexes", "column", "index"}
  IN  <<key>> \o upTo({"column"}, Key("columns", in(2)))
              \o upTo({"index"}, Key("indexes", in(2)))
              \o (IF key.kind \in below \/ (key.kind = "error" /\ Len(key.names) = 2)
                  THEN <<Key("object", in(2))>> ELSE <<>>)
              \o (IF key.names # <<>> /\ key.kind # "catalog"
                  THEN <<Key("catalog", in(1))>> ELSE <<>>)
              \o <<ConnectionRow>>

\* A node's own name, which filters match; folders, errors and notes have none.
Title == "title"
Named(key) == key.kind \in {"connection", "catalog", "object", "column", "index"}
OwnName(key) == IF key = ConnectionRow THEN Title ELSE Last(key.names)

\* The load a row's node depends on.
PathOf(key) ==
  IF key.kind \in {"column", "index"} THEN SubSeq(key.names, 1, 2)
  ELSE IF key.kind = "note" THEN <<>>
  ELSE key.names

\* A node with what shows under it; a filter takes back a node that is not
\* hit and has nothing left.
Keep(row, hit, filtering, children) ==
  IF filtering /\ ~hit /\ children = <<>> THEN <<>> ELSE <<row>> \o children

\* The first n of `seqs`, one after the other.
Joined(n, seqs) ==
  LET upTo[i \in 0..n] == IF i = 0 THEN <<>> ELSE upTo[i - 1] \o seqs[i]
  IN  upTo[n]

\* A list's rows, each made by `rows`.
RowsOf(list, rows(_)) == Joined(Len(list), [i \in 1..Len(list) |-> rows(list[i])])

\* v is what the tree shows a connection by: its schema session's cache (if one
\* is open), what is open, the filter's text (empty without one), and whether
\* system catalogs show.
Filters(v) == v.text # ""
Hit(v, name) == Filters(v) /\ Hits(v.text, name)
Unfolds(v, row) == Filters(v) \/ row \in v.open

ErrorRows(v, path) ==
  IF ~Filters(v) /\ HasFailed(v.cache, path) THEN <<Key("error", path)>> ELSE <<>>

SectionRows(v, path, section) ==
  LET row == Key(section, path)
      kind == IF section = "columns" THEN "column" ELSE "index"
      detail(d) == IF d.section # section \/ (Filters(v) /\ ~Hit(v, d.name)) THEN <<>>
                   ELSE <<Key(kind, Append(path, d.name))>>
  IN  Keep(row, FALSE, Filters(v),
           IF Unfolds(v, row) THEN RowsOf(Items(v.cache, path), detail) ELSE <<>>)

ObjectRows(v, path) ==
  LET row == Key("object", path)
      sections == IF Loaded(v.cache, path)
                  THEN SectionRows(v, path, "columns") \o SectionRows(v, path, "indexes")
                  ELSE <<>>
  IN  Keep(row, Hit(v, Last(path)), Filters(v),
           IF Unfolds(v, row) THEN ErrorRows(v, path) \o sections ELSE <<>>)

FolderRows(v, path, folder) ==
  LET row == Key(folder, path)
      inside(o) == IF FolderOf(o) = folder THEN ObjectRows(v, Append(path, o)) ELSE <<>>
  IN  Keep(row, FALSE, Filters(v),
           IF Unfolds(v, row) THEN RowsOf(Items(v.cache, path), inside) ELSE <<>>)

CatalogRows(v, c) ==
  LET row == Key("catalog", <<c>>)
      folders == IF Loaded(v.cache, <<c>>)
                 THEN FolderRows(v, <<c>>, "tables") \o FolderRows(v, <<c>>, "views")
                 ELSE <<>>
  IN  Keep(row, Hit(v, c), Filters(v),
           IF Unfolds(v, row) THEN ErrorRows(v, <<c>>) \o folders ELSE <<>>)

\* What is under the connection: its catalogs, or a note that there is nothing.
Shows(v, c) == v.showSystem \/ c \notin SystemCatalogs
Note == <<Key("note", <<>>)>>
UnderConnection(v) ==
  LET listed == Items(v.cache, <<>>)
      catalog(c) == IF Shows(v, c) THEN CatalogRows(v, c) ELSE <<>>
  IN  IF ~v.connected THEN IF Filters(v) \/ v.connecting THEN <<>> ELSE Note
      ELSE ErrorRows(v, <<>>) \o
           IF ~Loaded(v.cache, <<>>) THEN <<>>
           ELSE IF /\ \A i \in DOMAIN listed : ~Shows(v, listed[i])
                   /\ ~Filters(v) /\ ~HasFailed(v.cache, <<>>)
           THEN Note
           ELSE RowsOf(listed, catalog)

\* The rows of a connection.
Flatten(v) ==
  Keep(ConnectionRow, Hit(v, Title), Filters(v),
       IF Unfolds(v, ConnectionRow) THEN UnderConnection(v) ELSE <<>>)

\* The row of `key`, or else of its nearest ancestor that shows; 0 if none does.
PlaceOf(rows, key) == CHOOSE i \in DOMAIN rows : rows[i] = key
Find(rows, key) ==
  LET line == Line(key)
      shown == {i \in DOMAIN line : Contains(rows, line[i])}
  IN  IF Contains(rows, key) THEN PlaceOf(rows, key)
      ELSE IF shown = {} THEN 0
      ELSE PlaceOf(rows, line[Min(shown)])

\* The first row the filter's text is in, or else the first.
FirstHit(rows, text) ==
  LET hits == {i \in DOMAIN rows :
                 Named(rows[i]) /\ (text = "" \/ Hits(text, OwnName(rows[i])))}
  IN  IF hits = {} THEN 1 ELSE CHOOSE i \in hits : \A j \in hits : i <= j
=============================================================================
