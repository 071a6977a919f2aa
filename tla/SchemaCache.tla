---------------------------- MODULE SchemaCache ----------------------------
(***************************************************************************)
(* What a session has loaded of its database's schema (schema.rs), and how *)
(* a load begins, ends, and is forgotten.                                  *)
(*                                                                         *)
(* A path names what can be loaded: <<>> the catalogs, <<c>> the objects   *)
(* of catalog c, <<c, o>> the columns and indexes of its object o.  A      *)
(* cache is the newest generation and an entry per path asked for.         *)
(***************************************************************************)
EXTENDS Naturals, Sequences, SequencesExt

NotLoading == 0

\* What a load gives: its items, in order, and when they were read (a ghost).
Nothing == [items |-> <<>>, read |-> 0]

NewEntry == [loaded |-> FALSE, value |-> Nothing, by |-> 0, loading |-> NotLoading,
             failed |-> FALSE]

EmptyCache == [generation |-> 0, entries |-> << >>]

\* Strictly within.
IsBelow(path, ancestor) == IsStrictPrefix(ancestor, path)

Known(cache, path) == path \in DOMAIN cache.entries
Loading(cache, path) ==
  Known(cache, path) /\ cache.entries[path].loading # NotLoading
AnyLoading(cache) == \E p \in DOMAIN cache.entries : Loading(cache, p)
Loaded(cache, path) == Known(cache, path) /\ cache.entries[path].loaded
HasFailed(cache, path) == Known(cache, path) /\ cache.entries[path].failed
Items(cache, path) == cache.entries[path].value.items

\* The loads of `paths` begin, each with a generation of its own.  What was
\* loaded stays until the answer; an earlier error goes.
BeginAll(cache, paths) ==
  LET begun == ToSet(paths)
      old(p) == IF Known(cache, p) THEN cache.entries[p] ELSE NewEntry
      new(i) == [old(paths[i]) EXCEPT !.loading = cache.generation + i, !.failed = FALSE]
  IN  [generation |-> cache.generation + Len(paths),
       entries |-> [p \in DOMAIN cache.entries \cup begun |->
                      IF p \in begun THEN new(CHOOSE i \in DOMAIN paths : paths[i] = p)
                      ELSE cache.entries[p]]]

\* Only the entries of `paths` stay.
KeepOnly(cache, paths) ==
  [cache EXCEPT !.entries = [p \in DOMAIN cache.entries \cap paths |-> cache.entries[p]]]

\* What lies strictly under `path` goes.
DropBelow(cache, path) ==
  KeepOnly(cache, {p \in DOMAIN cache.entries : ~IsBelow(p, path)})

\* A mutant: the generations begin again.
ClearAll(cache) == EmptyCache

\* Everything goes, as after reconnecting or DDL; the generation goes on.
Clear(cache) == [cache EXCEPT !.entries = << >>]

Awaited(cache, path, generation) ==
  Known(cache, path) /\ cache.entries[path].loading = generation

\* A mutant: what was loaded under the list that came stays.
FinishKeepingBelow(cache, path, generation, outcome) ==
  IF ~Awaited(cache, path, generation) THEN cache
  ELSE IF outcome.ok
  THEN [cache EXCEPT !.entries[path] =
          [loaded |-> TRUE, value |-> outcome.value, by |-> generation,
           loading |-> NotLoading, failed |-> FALSE]]
  ELSE [cache EXCEPT !.entries[path].loading = NotLoading, !.entries[path].failed = TRUE]

\* The answer to the load of `path` numbered `generation`.  One nobody waits
\* for changes nothing; a failure keeps what was loaded; a success replaces it
\* and drops what was loaded under it.
Finish(cache, path, generation, outcome) ==
  IF ~Awaited(cache, path, generation) THEN cache
  ELSE IF outcome.ok
  THEN LET done == [cache EXCEPT !.entries[path] =
                      [loaded |-> TRUE, value |-> outcome.value, by |-> generation,
                       loading |-> NotLoading, failed |-> FALSE]]
       IN  DropBelow(done, path)
  ELSE [cache EXCEPT !.entries[path].loading = NotLoading,
                     !.entries[path].failed = TRUE]

-----------------------------------------------------------------------------
(* What every cache the app can come to holds. *)

\* What is loaded under a node was asked for after the node's own list was, so
\* no child is older than the list that names it: `drop_below` on every answer.
ChildrenFollowParents(cache) ==
  \A p, q \in DOMAIN cache.entries :
    /\ IsBelow(q, p) /\ Loaded(cache, p) /\ Loaded(cache, q)
    => cache.entries[p].by < cache.entries[q].by

=============================================================================
