------------------------- MODULE SchemaBrowserProofs -------------------------
(***************************************************************************)
(* The schema browser never lies for long: whatever is opened, closed,     *)
(* expanded, filtered, refreshed, reconnected or answered, in any order    *)
(* and for any users and any catalogs, what shows as loading is answered   *)
(* for, what is below a list is newer than the list, what was read before  *)
(* the schema changed is read again, one spinner turns, and the selection  *)
(* stays on its node while that shows, and goes up from it when not.       *)
(*                                                                         *)
(* First sequences, then the cache (SchemaCache), the rows (SchemaTree),   *)
(* what `tree::after` does to the app, and then every event.               *)
(***************************************************************************)
EXTENDS SchemaBrowser, TLAPS, WellFoundedInduction, FiniteSetTheorems

-----------------------------------------------------------------------------
(* Sequences of anything. *)

\* A sequence, whatever is in it.
IsSequence(x) == Len(x) \in Nat /\ x = [i \in 1..Len(x) |-> x[i]]

\* A sequence has its domain and is one of whatever set holds its elements.
LEMMA SeqShape ==
  ASSUME NEW x
  PROVE  /\ IsSequence(x) => /\ DOMAIN x = 1..Len(x)
                         /\ \A S : (\A i \in 1..Len(x) : x[i] \in S) => x \in Seq(S)
         /\ \A S : x \in Seq(S) => IsSequence(x)
BY DEF IsSequence

\* Literal sequences are sequences.
LEMMA Shapes ==
  /\ IsSequence(<<>>)
  /\ \A e : IsSequence(<<e>>)
BY DEF IsSequence

\* One sequence after another.
LEMMA ConcatShape ==
  ASSUME NEW x, NEW y, IsSequence(x), IsSequence(y)
  PROVE  /\ IsSequence(x \o y)
         /\ Len(x \o y) = Len(x) + Len(y)
         /\ \A i \in 1..(Len(x) + Len(y)) : (x \o y)[i] = IF i <= Len(x) THEN x[i] ELSE y[i - Len(x)]
<1> DEFINE S == {x[i] : i \in 1..Len(x)} \cup {y[i] : i \in 1..Len(y)}
<1>1. x \in Seq(S) /\ y \in Seq(S)
  BY SeqShape
<1>2. /\ x \o y \in Seq(S)
      /\ Len(x \o y) = Len(x) + Len(y)
      /\ \A i \in 1..(Len(x) + Len(y)) : (x \o y)[i] = IF i <= Len(x) THEN x[i] ELSE y[i - Len(x)]
  <2> HIDE DEF S
  <2> QED
    BY <1>1
<1> QED
  BY <1>2, SeqShape

\* What is left when the first is taken.
LEMMA TailShape ==
  ASSUME NEW x, IsSequence(x), x # <<>>
  PROVE  /\ IsSequence(Tail(x)) /\ Len(Tail(x)) = Len(x) - 1 /\ Len(x) >= 1
         /\ Head(x) = x[1]
         /\ \A i \in 1..(Len(x) - 1) : Tail(x)[i] = x[i + 1]
<1> DEFINE S == {x[i] : i \in 1..Len(x)}
<1>1. x \in Seq(S)
  BY SeqShape
<1>2. /\ Tail(x) \in Seq(S) /\ Len(Tail(x)) = Len(x) - 1 /\ Len(x) >= 1
      /\ Head(x) = x[1]
      /\ \A i \in 1..(Len(x) - 1) : Tail(x)[i] = x[i + 1]
  <2> HIDE DEF S
  <2> QED
    BY <1>1
<1> QED
  BY <1>2, SeqShape

\* Of any numbers there is a least.
LEMMA Least ==
  ASSUME NEW T \in SUBSET Nat, T # {}
  PROVE  \E n \in T : \A m \in T : ~(m < n)
<1>1. \E x \in T : \A y \in T : ~(<<y, x>> \in OpToRel(<, Nat))
  BY NatLessThanWellFounded, WFMin
<1> QED
  BY <1>1 DEF OpToRel

\* Joining goes one sequence at a time: by least counterexample, since `Joined` is
\* a recursive function.
LEMMA JoinedIs ==
  ASSUME NEW n \in Nat, NEW seqs
  PROVE  \E upTo : /\ Joined(n, seqs) = upTo[n]
                  /\ \A i \in 0..n : upTo[i] = IF i = 0 THEN <<>> ELSE upTo[i - 1] \o seqs[i]
<1> DEFINE Step(f, m) == [i \in 0..m |-> IF i = 0 THEN <<>> ELSE f[i - 1] \o seqs[i]]
           Bad == {m \in Nat : ~ \E f : f = Step(f, m)}
<1> HIDE DEF Step
<1>1. Bad = {}
  <2> SUFFICES ASSUME Bad # {} PROVE FALSE
    OBVIOUS
  <2>1. PICK m \in Bad : \A k \in Bad : ~(k < m)
    BY Least
  <2>2. CASE m = 0
    <3>1. [i \in {0} |-> <<>>] = Step([i \in {0} |-> <<>>], 0)
      BY DEF Step
    <3> QED
      BY <2>1, <2>2, <3>1
  <2>3. CASE m # 0
    <3>1. m - 1 \in Nat /\ m - 1 \notin Bad
      BY <2>1, <2>3
    <3>2. PICK f : f = Step(f, m - 1)
      BY <3>1
    <3> DEFINE g == [i \in 0..m |-> IF i = m THEN f[m - 1] \o seqs[m] ELSE f[i]]
    <3>3. ASSUME NEW i \in 0..m
          PROVE  g[i] = IF i = 0 THEN <<>> ELSE g[i - 1] \o seqs[i]
      <4>1. CASE i = m
        <5>1. m \in 0..m /\ m - 1 \in 0..m /\ m - 1 # m
          BY <2>1, <2>3
        <5>2. g[m] = f[m - 1] \o seqs[m] /\ g[m - 1] = f[m - 1]
          BY <5>1
        <5> HIDE DEF g
        <5> QED
          BY <4>1, <2>3, <5>2
      <4>2. CASE i # m
        <5>1. i \in 0..(m - 1) /\ g[i] = f[i] /\ (i # 0 => g[i - 1] = f[i - 1])
          BY <4>2, <3>3, <2>1
        <5>2. f[i] = IF i = 0 THEN <<>> ELSE f[i - 1] \o seqs[i]
          BY <3>2, <5>1 DEF Step
        <5> QED
          BY <5>1, <5>2
      <4> QED
        BY <4>1, <4>2
    <3>4. g = Step(g, m)
      BY <3>3 DEF Step
    <3> QED
      BY <3>4, <2>1
  <2> QED
    BY <2>2, <2>3
<1> DEFINE upTo == CHOOSE f : f = Step(f, n)
<1>2. upTo = Step(upTo, n)
  <2>1. \E f : f = Step(f, n)
    BY <1>1
  <2> QED
    BY <2>1
<1>3. Joined(n, seqs) = upTo[n]
  BY DEF Joined, Step
<1> HIDE DEF upTo
<1>4. \A i \in 0..n : upTo[i] = IF i = 0 THEN <<>> ELSE upTo[i - 1] \o seqs[i]
  BY <1>2 DEF Step
<1> QED
  BY <1>3, <1>4

\* Sequences joined are a sequence.
LEMMA JoinedShape ==
  ASSUME NEW n \in Nat, NEW seqs, \A i \in 1..n : IsSequence(seqs[i])
  PROVE  IsSequence(Joined(n, seqs))
<1>1. PICK upTo : /\ Joined(n, seqs) = upTo[n]
                  /\ \A i \in 0..n : upTo[i] = IF i = 0 THEN <<>> ELSE upTo[i - 1] \o seqs[i]
  BY JoinedIs
<1> DEFINE Off == {i \in 0..n : ~IsSequence(upTo[i])}
<1>2. Off = {}
  <2> SUFFICES ASSUME Off # {} PROVE FALSE
    OBVIOUS
  <2>1. PICK m \in Off : \A k \in Off : ~(k < m)
    <3>1. Off \in SUBSET Nat
      OBVIOUS
    <3> QED
      BY <3>1, Least
  <2>2. m # 0
    BY <1>1, Shapes
  <2>3. m - 1 \in 0..n /\ m - 1 \notin Off /\ IsSequence(seqs[m])
    BY <2>1, <2>2
  <2>4. IsSequence(upTo[m - 1] \o seqs[m])
    BY <2>3, ConcatShape
  <2> QED
    BY <2>4, <2>2, <1>1
<1> QED
  BY <1>1, <1>2

-----------------------------------------------------------------------------
(* What one cache keeps to, whatever happens to it. *)

EntryOK(e, generation) ==
  /\ DOMAIN e = {"loaded", "value", "by", "loading", "failed"}
  /\ e.by \in 0..generation /\ e.loading \in 0..generation
  /\ IsSequence(e.value.items) /\ e.value.read \in Nat

CacheOK(c) ==
  /\ DOMAIN c = {"generation", "entries"}
  /\ c.generation \in Nat
  /\ \A p \in DOMAIN c.entries : EntryOK(c.entries[p], c.generation)

\* The loads among the messages of `way`, the one to be handled first at its
\* front, are numbered in turn, none above the newest; what the cache waits for is
\* there.
LoadsOn(way) == {i \in DOMAIN way : way[i].type = "load"}
Numbered(c, way) ==
  /\ \A i \in LoadsOn(way) : way[i].generation \in 1..c.generation
  /\ \A i, j \in LoadsOn(way) : i < j => way[i].generation < way[j].generation
Awaits(c, way) ==
  \A p \in DOMAIN c.entries : c.entries[p].loading # NotLoading =>
    \E i \in LoadsOn(way) : way[i].path = p /\ way[i].generation = c.entries[p].loading

\* What is loaded below a list, or will be, was asked for after that list was.
Newer(c) ==
  \A p, q \in DOMAIN c.entries : IsBelow(q, p) /\ c.entries[p].loaded =>
    /\ c.entries[q].loaded => c.entries[p].by < c.entries[q].by
    /\ c.entries[q].loading # NotLoading => c.entries[p].by < c.entries[q].loading

ReadSince(c, known) ==
  \A p \in DOMAIN c.entries : c.entries[p].loaded => known <= c.entries[p].value.read

Good(c, way, known) ==
  /\ CacheOK(c) /\ IsSequence(way) /\ known \in Nat
  /\ Numbered(c, way) /\ Awaits(c, way) /\ Newer(c) /\ ReadSince(c, known)

\* Loads begin: their commands go to the end.
LEMMA BeginKeeps ==
  ASSUME NEW c, NEW way, NEW known, Good(c, way, known), NEW paths, IsSequence(paths), NEW loads,
         loads = [i \in DOMAIN paths |-> [type |-> "load", path |-> paths[i],
                                          generation |-> c.generation + i]]
  PROVE  Good(BeginAll(c, paths), way \o loads, known)
<1> DEFINE b == BeginAll(c, paths)
           n == Len(paths)
<1>1. /\ n \in Nat /\ DOMAIN paths = 1..n
      /\ IsSequence(loads) /\ Len(loads) = n
  <2>1. n \in Nat /\ DOMAIN paths = 1..n
    BY SeqShape DEF IsSequence
  <2> QED
    BY <2>1 DEF IsSequence
<1>2. /\ IsSequence(way \o loads) /\ DOMAIN way = 1..Len(way) /\ Len(way) \in Nat
      /\ DOMAIN (way \o loads) = 1..(Len(way) + n)
      /\ \A i \in 1..Len(way) : (way \o loads)[i] = way[i]
      /\ \A i \in 1..n : (way \o loads)[Len(way) + i] = loads[i]
  <2>1. IsSequence(way) /\ DOMAIN way = 1..Len(way) /\ Len(way) \in Nat
    BY SeqShape DEF Good, IsSequence
  <2>2. IsSequence(way \o loads) /\ Len(way \o loads) = Len(way) + n
    BY <2>1, <1>1, ConcatShape
  <2>3. DOMAIN (way \o loads) = 1..(Len(way) + n)
    BY <2>2, SeqShape
  <2>4. \A i \in 1..(Len(way) + n) : (way \o loads)[i] = IF i <= Len(way) THEN way[i] ELSE loads[i - Len(way)]
    BY <2>1, <1>1, ConcatShape
  <2> HIDE DEF n
  <2>5. \A i \in 1..n : (way \o loads)[Len(way) + i] = loads[i]
    <3> SUFFICES ASSUME NEW i \in 1..n PROVE (way \o loads)[Len(way) + i] = loads[i]
      OBVIOUS
    <3> DEFINE k == Len(way) + i
    <3>1. k \in 1..(Len(way) + n) /\ ~(k <= Len(way)) /\ k - Len(way) = i
      BY <2>1, <1>1
    <3> HIDE DEF k
    <3>2. (way \o loads)[k] = loads[i]
      BY <2>4, <3>1
    <3> QED
      BY <3>2 DEF k
  <2> QED
    BY <2>1, <2>2, <2>3, <2>4, <2>5, <1>1
<1> DEFINE at(p) == CHOOSE i \in DOMAIN paths : paths[i] = p
           old(p) == IF Known(c, p) THEN c.entries[p] ELSE NewEntry
           begun == ToSet(paths)
<1>3. begun = {paths[i] : i \in 1..n}
  BY <1>1 DEF ToSet
<1>4. \A p \in begun : at(p) \in 1..n /\ paths[at(p)] = p
  BY <1>1, <1>3
<1>5. /\ DOMAIN b = {"generation", "entries"} /\ b.generation = c.generation + n
      /\ DOMAIN b.entries = DOMAIN c.entries \cup begun
      /\ \A p \in DOMAIN c.entries \ begun : b.entries[p] = c.entries[p]
      /\ \A p \in begun : b.entries[p] = [old(p) EXCEPT !.loading = c.generation + at(p), !.failed = FALSE]
  <2> DEFINE new(i) == [old(paths[i]) EXCEPT !.loading = c.generation + i, !.failed = FALSE]
  <2>1. \A p \in begun : new(at(p)) = [old(p) EXCEPT !.loading = c.generation + at(p), !.failed = FALSE]
    <3> HIDE DEF at, old, begun, n
    <3> QED
      BY <1>4
  <2>2. b = [generation |-> c.generation + n,
             entries |-> [p \in DOMAIN c.entries \cup begun |-> IF p \in begun THEN new(at(p)) ELSE c.entries[p]]]
    BY DEF BeginAll
  <2> HIDE DEF new, b, n, at, begun
  <2>3. /\ DOMAIN b = {"generation", "entries"} /\ b.generation = c.generation + n
        /\ b.entries = [p \in DOMAIN c.entries \cup begun |-> IF p \in begun THEN new(at(p)) ELSE c.entries[p]]
    BY <2>2
  <2> QED
    BY <2>1, <2>3
<1>7. PICK G \in Nat : c.generation = G
  BY DEF Good, CacheOK
<1>6. \A p : EntryOK(old(p), c.generation)
  <2> SUFFICES ASSUME NEW p PROVE EntryOK(old(p), c.generation)
    OBVIOUS
  <2>1. CASE p \in DOMAIN c.entries
    BY <2>1 DEF Good, CacheOK, Known
  <2>2. CASE p \notin DOMAIN c.entries
    BY <2>2, <1>7, Shapes DEF EntryOK, Known, NewEntry, Nothing, NotLoading
  <2> QED
    BY <2>1, <2>2
<1> HIDE DEF at, old, begun, b, n
<1>8. ASSUME NEW p \in begun
      PROVE  /\ DOMAIN b.entries[p] = {"loaded", "value", "by", "loading", "failed"}
             /\ b.entries[p].loading = G + at(p)
             /\ b.entries[p].by = old(p).by /\ b.entries[p].loaded = old(p).loaded
             /\ b.entries[p].value = old(p).value
  <2>1. DOMAIN old(p) = {"loaded", "value", "by", "loading", "failed"}
    BY <1>6 DEF EntryOK
  <2>2. b.entries[p] = [old(p) EXCEPT !.loading = G + at(p), !.failed = FALSE]
    BY <1>5, <1>7
  <2> QED
    BY <2>1, <2>2
<1>17. b.generation = G + n /\ n \in Nat /\ \A p \in begun : at(p) \in 1..n
  BY <1>1, <1>4, <1>5, <1>7
<1>9. \A p \in DOMAIN b.entries :
        /\ b.entries[p].loaded => /\ p \in DOMAIN c.entries /\ c.entries[p].loaded
                                  /\ b.entries[p].by = c.entries[p].by
                                  /\ b.entries[p].value = c.entries[p].value
        /\ \/ p \in DOMAIN c.entries \ begun /\ b.entries[p].loading = c.entries[p].loading
           \/ p \in begun /\ b.entries[p].loading = G + at(p)
  BY <1>5, <1>8 DEF old, Known, NewEntry
<1>10. CacheOK(b)
  <2>1. \A p \in DOMAIN b.entries : EntryOK(b.entries[p], b.generation)
    <3> SUFFICES ASSUME NEW p \in DOMAIN b.entries PROVE EntryOK(b.entries[p], b.generation)
      OBVIOUS
    <3>1. CASE p \in begun
      <4>1. EntryOK(old(p), G)
        BY <1>6, <1>7
      <4> QED
        BY <3>1, <4>1, <1>17, <1>8 DEF EntryOK
    <3>2. CASE p \notin begun
      <4>1. EntryOK(c.entries[p], G) /\ b.entries[p] = c.entries[p]
        BY <3>2, <1>5, <1>7 DEF Good, CacheOK
      <4> QED
        BY <4>1, <1>17 DEF EntryOK
    <3> QED
      BY <3>1, <3>2
  <2>2. b.generation \in Nat
    BY <1>17
  <2> QED
    BY <2>1, <2>2, <1>5 DEF CacheOK
<1>11. \A i \in 1..n : loads[i].type = "load" /\ loads[i].path = paths[i] /\ loads[i].generation = G + i
  BY <1>1, <1>7
<1>12. /\ LoadsOn(way) \subseteq LoadsOn(way \o loads)
       /\ \A i \in LoadsOn(way \o loads) :
            \/ i \in LoadsOn(way) /\ (way \o loads)[i] = way[i]
            \/ \E j \in 1..n : i = Len(way) + j /\ (way \o loads)[i] = loads[j]
  <2> SUFFICES ASSUME NEW i \in DOMAIN (way \o loads)
               PROVE  i \in DOMAIN way \/ \E j \in 1..n : i = Len(way) + j
    BY <1>1, <1>2 DEF LoadsOn
  <2>1. CASE i > Len(way)
    <3>1. i - Len(way) \in 1..n /\ i = Len(way) + (i - Len(way))
      BY <2>1, <1>1, <1>2
    <3> QED
      BY <3>1
  <2> QED
    BY <2>1, <1>1, <1>2
<1>13. Numbered(b, way \o loads)
  <2>1. ASSUME NEW i \in LoadsOn(way \o loads)
        PROVE  (way \o loads)[i].generation \in 1..b.generation
    <3>1. CASE i \in LoadsOn(way) /\ (way \o loads)[i] = way[i]
      <4>1. way[i].generation \in 1..G
        BY <3>1, <1>7 DEF Good, Numbered
      <4>2. \A g \in 1..G : g \in 1..(G + n)
        BY <1>17
      <4> QED
        BY <4>1, <4>2, <3>1, <1>17
    <3>2. CASE \E j \in 1..n : i = Len(way) + j /\ (way \o loads)[i] = loads[j]
      <4>1. \A j \in 1..n : G + j \in 1..(G + n)
        BY <1>17
      <4> QED
        BY <4>1, <3>2, <1>11, <1>17
    <3> QED
      BY <3>1, <3>2, <1>12
  <2>2. ASSUME NEW i \in LoadsOn(way \o loads), NEW j \in LoadsOn(way \o loads), i < j
        PROVE  (way \o loads)[i].generation < (way \o loads)[j].generation
    <3>1. CASE j \in LoadsOn(way) /\ (way \o loads)[j] = way[j]
      <4>1. i \in LoadsOn(way) /\ (way \o loads)[i] = way[i]
        BY <2>2, <3>1, <1>12, <1>2, <1>1 DEF LoadsOn
      <4> QED
        BY <4>1, <3>1, <2>2 DEF Good, Numbered
    <3>2. CASE \E k \in 1..n : j = Len(way) + k /\ (way \o loads)[j] = loads[k]
      <4>1. PICK k \in 1..n : j = Len(way) + k /\ (way \o loads)[j] = loads[k]
        BY <3>2
      <4>2. CASE i \in LoadsOn(way) /\ (way \o loads)[i] = way[i]
        <5>1. way[i].generation \in 1..G
          BY <4>2, <1>7 DEF Good, Numbered
        <5>2. \A g \in 1..G : g < G + k
          OBVIOUS
        <5> QED
          BY <5>1, <5>2, <4>1, <4>2, <1>11
      <4>3. CASE \E h \in 1..n : i = Len(way) + h /\ (way \o loads)[i] = loads[h]
        BY <4>1, <4>3, <1>11, <1>1, <1>2, <1>7, <2>2
      <4> QED
        BY <4>2, <4>3, <1>12
    <3> QED
      BY <3>1, <3>2, <1>12
  <2> QED
    BY <2>1, <2>2 DEF Numbered
<1>14. Awaits(b, way \o loads)
  <2> SUFFICES ASSUME NEW p \in DOMAIN b.entries, b.entries[p].loading # NotLoading
               PROVE  \E i \in LoadsOn(way \o loads) :
                        (way \o loads)[i].path = p /\ (way \o loads)[i].generation = b.entries[p].loading
    BY DEF Awaits
  <2>1. CASE p \in begun /\ b.entries[p].loading = G + at(p)
    <3>1. /\ Len(way) + at(p) \in DOMAIN (way \o loads)
          /\ (way \o loads)[Len(way) + at(p)] = loads[at(p)]
      BY <2>1, <1>4, <1>2, <1>1
    <3> QED
      <4> DEFINE k == Len(way) + at(p)
      <4>1. loads[at(p)].type = "load" /\ loads[at(p)].path = p /\ loads[at(p)].generation = G + at(p)
        BY <2>1, <1>4, <1>11
      <4>2. k \in DOMAIN (way \o loads) /\ (way \o loads)[k] = loads[at(p)]
        BY <3>1
      <4> HIDE DEF k
      <4> QED
        BY <4>1, <4>2, <2>1 DEF LoadsOn
  <2>2. CASE p \in DOMAIN c.entries \ begun /\ b.entries[p].loading = c.entries[p].loading
    <3>1. PICK i \in LoadsOn(way) : way[i].path = p /\ way[i].generation = c.entries[p].loading
      BY <2>2 DEF Good, Awaits
    <3>2. i \in LoadsOn(way \o loads) /\ (way \o loads)[i] = way[i]
      BY <1>12, <1>2 DEF LoadsOn
    <3> QED
      BY <3>1, <3>2, <2>2
  <2> QED
    BY <2>1, <2>2, <1>9
<1>15. Newer(b)
  <2> SUFFICES ASSUME NEW p \in DOMAIN b.entries, NEW q \in DOMAIN b.entries, IsBelow(q, p),
                      b.entries[p].loaded
               PROVE  /\ b.entries[q].loaded => b.entries[p].by < b.entries[q].by
                      /\ b.entries[q].loading # NotLoading => b.entries[p].by < b.entries[q].loading
    BY DEF Newer
  <2>1. p \in DOMAIN c.entries /\ c.entries[p].loaded /\ b.entries[p].by = c.entries[p].by
    BY <1>9
  <2>2. c.entries[p].by \in 0..c.generation
    BY <2>1 DEF Good, CacheOK, EntryOK
  <2>3. b.entries[q].loaded => b.entries[p].by < b.entries[q].by
    BY <2>1, <1>9 DEF Good, Newer
  <2>4. CASE q \in begun /\ b.entries[q].loading = G + at(q)
    BY <2>1, <2>2, <2>3, <2>4, <1>4, <1>1, <1>7
  <2>5. CASE q \in DOMAIN c.entries \ begun /\ b.entries[q].loading = c.entries[q].loading
    BY <2>1, <2>3, <2>5 DEF Good, Newer
  <2> QED
    BY <2>4, <2>5, <1>9
<1>16. ReadSince(b, known)
  BY <1>9 DEF Good, ReadSince
<1> QED
  BY <1>2, <1>10, <1>13, <1>14, <1>15, <1>16 DEF Good, b

\* Everything of the cache goes, at whatever the schema is known to be then.
LEMMA ClearKeeps ==
  ASSUME NEW c, NEW way, NEW known, Good(c, way, known), NEW later \in Nat
  PROVE  Good(Clear(c), way, later)
<1>1. /\ DOMAIN Clear(c) = {"generation", "entries"} /\ Clear(c).generation = c.generation
      /\ DOMAIN Clear(c).entries = {}
  BY DEF Clear, Good, CacheOK
<1> QED
  BY <1>1 DEF Good, CacheOK, Numbered, Awaits, Newer, ReadSince

\* A message that is no load joins, or leaves.
LEMMA OthersCome ==
  ASSUME NEW c, NEW way, NEW known, Good(c, way, known), NEW m, m.type # "load"
  PROVE  Good(c, way \o <<m>>, known)
<1>1. /\ IsSequence(way \o <<m>>) /\ DOMAIN way = 1..Len(way) /\ Len(way) \in Nat
      /\ DOMAIN (way \o <<m>>) = 1..(Len(way) + 1)
      /\ \A i \in 1..(Len(way) + 1) : (way \o <<m>>)[i] = IF i <= Len(way) THEN way[i] ELSE m
  <2>1. IsSequence(way) /\ DOMAIN way = 1..Len(way) /\ Len(way) \in Nat
    BY SeqShape DEF Good, IsSequence
  <2>2. IsSequence(<<m>>) /\ Len(<<m>>) = 1 /\ <<m>>[1] = m
    BY Shapes
  <2>3. IsSequence(way \o <<m>>) /\ Len(way \o <<m>>) = Len(way) + 1
    BY <2>1, <2>2, ConcatShape
  <2>4. \A i \in 1..(Len(way) + 1) : (way \o <<m>>)[i] = IF i <= Len(way) THEN way[i] ELSE <<m>>[i - Len(way)]
    BY <2>1, <2>2, ConcatShape
  <2>5. \A i \in 1..(Len(way) + 1) : i <= Len(way) \/ i - Len(way) = 1
    BY <2>1
  <2> QED
    BY <2>1, <2>2, <2>3, <2>4, <2>5, SeqShape
<1>2. LoadsOn(way \o <<m>>) = LoadsOn(way) /\ \A i \in LoadsOn(way) : (way \o <<m>>)[i] = way[i]
  BY <1>1 DEF LoadsOn
<1> QED
  BY <1>1, <1>2 DEF Good, Numbered, Awaits

\* What is behind the first message moves up by one.
LEMMA Behind1 ==
  ASSUME NEW way, IsSequence(way), way # <<>>
  PROVE  /\ 1 \in DOMAIN way /\ Head(way) = way[1]
         /\ \A i \in LoadsOn(Tail(way)) : i + 1 \in LoadsOn(way) /\ Tail(way)[i] = way[i + 1]
         /\ \A i \in LoadsOn(way) \ {1} : i - 1 \in LoadsOn(Tail(way)) /\ Tail(way)[i - 1] = way[i]
         /\ \A i \in LoadsOn(way) : i \in Nat \ {0}
         /\ \A i \in LoadsOn(Tail(way)) : i \in Nat \ {0}
<1>1. /\ IsSequence(Tail(way)) /\ Len(Tail(way)) = Len(way) - 1 /\ Len(way) >= 1 /\ Head(way) = way[1]
      /\ \A i \in 1..(Len(way) - 1) : Tail(way)[i] = way[i + 1]
      /\ Len(way) \in Nat
  BY TailShape DEF IsSequence
<1>2. DOMAIN way = 1..Len(way) /\ DOMAIN Tail(way) = 1..(Len(way) - 1)
  BY <1>1, SeqShape
<1>3. ASSUME NEW i \in LoadsOn(way) \ {1}
      PROVE  i - 1 \in LoadsOn(Tail(way)) /\ Tail(way)[i - 1] = way[i]
  <2>1. i - 1 \in 1..(Len(way) - 1) /\ (i - 1) + 1 = i
    BY <1>1, <1>2 DEF LoadsOn
  <2> DEFINE k == i - 1
  <2> HIDE DEF k
  <2>2. Tail(way)[k] = way[k + 1]
    BY <2>1, <1>1 DEF k
  <2>3. way[k + 1] = way[i]
    BY <2>1 DEF k
  <2> QED
    BY <2>1, <2>2, <2>3, <1>2 DEF LoadsOn, k
<1>4. ASSUME NEW i \in LoadsOn(Tail(way))
      PROVE  i + 1 \in LoadsOn(way) /\ Tail(way)[i] = way[i + 1]
  BY <1>1, <1>2 DEF LoadsOn
<1> QED
  BY <1>1, <1>2, <1>3, <1>4 DEF LoadsOn

\* A message that is no load leaves the way sound when it is taken.
LEMMA OthersGo ==
  ASSUME NEW c, NEW way, NEW known, Good(c, way, known), way # <<>>, Head(way).type # "load"
  PROVE  Good(c, Tail(way), known)
<1>1. IsSequence(way) /\ IsSequence(Tail(way))
  BY TailShape DEF Good
<1>2. 1 \notin LoadsOn(way)
  BY <1>1, Behind1 DEF LoadsOn
<1>3. Numbered(c, Tail(way))
  <2>1. Numbered(c, way)
    BY DEF Good
  <2>2. \A i \in LoadsOn(Tail(way)) : i \in Nat /\ i + 1 \in LoadsOn(way) /\ Tail(way)[i] = way[i + 1]
    BY <1>1, Behind1
  <2>3. \A i \in LoadsOn(Tail(way)) : Tail(way)[i].generation \in 1..c.generation
    BY <2>1, <2>2 DEF Numbered
  <2>4. ASSUME NEW i \in LoadsOn(Tail(way)), NEW j \in LoadsOn(Tail(way)), i < j
        PROVE  Tail(way)[i].generation < Tail(way)[j].generation
    <3>1. i + 1 < j + 1
      BY <2>2, <2>4
    <3> QED
      BY <2>1, <2>2, <3>1 DEF Numbered
  <2> QED
    BY <2>3, <2>4 DEF Numbered
<1>4. Awaits(c, Tail(way))
  <2> SUFFICES ASSUME NEW p \in DOMAIN c.entries, c.entries[p].loading # NotLoading
               PROVE  \E i \in LoadsOn(Tail(way)) :
                        Tail(way)[i].path = p /\ Tail(way)[i].generation = c.entries[p].loading
    BY DEF Awaits
  <2>1. PICK i \in LoadsOn(way) : way[i].path = p /\ way[i].generation = c.entries[p].loading
    BY DEF Good, Awaits
  <2>2. i - 1 \in LoadsOn(Tail(way)) /\ Tail(way)[i - 1] = way[i]
    BY <1>1, <1>2, Behind1
  <2> QED
    BY <2>1, <2>2
<1> QED
  BY <1>1, <1>3, <1>4 DEF Good

\* The answer to a load, of a schema no older than what is known.
LEMMA FinishKeeps ==
  ASSUME NEW c, NEW way, NEW known, Good(c, way, known), way # <<>>, Head(way).type = "load",
         NEW outcome, IsSequence(outcome.value.items), outcome.value.read \in Nat,
         known <= outcome.value.read
  PROVE  Good(Finish(c, Head(way).path, Head(way).generation, outcome), Tail(way), known)
<1> DEFINE path == Head(way).path
           g == Head(way).generation
           t == Tail(way)
           f == Finish(c, path, g, outcome)
<1>1. IsSequence(way) /\ IsSequence(t) /\ Head(way) = way[1]
  BY TailShape, Behind1 DEF Good
<1>2. PICK G \in Nat : c.generation = G
  BY DEF Good, CacheOK
<1>3. Numbered(c, t)
  <2>1. Numbered(c, way)
    BY DEF Good
  <2>2. \A i \in LoadsOn(t) : i \in Nat /\ i + 1 \in LoadsOn(way) /\ t[i] = way[i + 1]
    BY <1>1, Behind1
  <2>3. \A i \in LoadsOn(t) : t[i].generation \in 1..c.generation
    BY <2>1, <2>2 DEF Numbered
  <2>4. ASSUME NEW i \in LoadsOn(t), NEW j \in LoadsOn(t), i < j
        PROVE  t[i].generation < t[j].generation
    <3>1. i + 1 < j + 1
      BY <2>2, <2>4
    <3> QED
      BY <2>1, <2>2, <3>1 DEF Numbered
  <2> QED
    BY <2>3, <2>4 DEF Numbered

\* Whatever else is waited for is behind the front.
<1>4. ASSUME NEW p \in DOMAIN c.entries, c.entries[p].loading # NotLoading,
             p # path \/ c.entries[p].loading # g
      PROVE  \E i \in LoadsOn(t) : t[i].path = p /\ t[i].generation = c.entries[p].loading
  <2>1. PICK i \in LoadsOn(way) : way[i].path = p /\ way[i].generation = c.entries[p].loading
    BY <1>4 DEF Good, Awaits
  <2>2. i # 1
    BY <2>1, <1>1, <1>4
  <2>3. i - 1 \in LoadsOn(t) /\ t[i - 1] = way[i]
    BY <1>1, <2>2, Behind1
  <2> QED
    BY <2>1, <2>3
<1> HIDE DEF path, g, t
<1>5. CASE ~Awaited(c, path, g)
  <2>1. f = c
    BY <1>5 DEF Finish
  <2>2. Awaits(c, t)
    BY <1>4, <1>5 DEF Awaits, Awaited, Known
  <2> QED
    BY <2>1, <2>2, <1>1, <1>3 DEF Good, path, g, t
<1>6. CASE Awaited(c, path, g)
  <2>1. /\ path \in DOMAIN c.entries /\ c.entries[path].loading = g
        /\ DOMAIN c = {"generation", "entries"}
        /\ \A p \in DOMAIN c.entries : EntryOK(c.entries[p], G)
    BY <1>6, <1>2 DEF Awaited, Known, Good, CacheOK
  <2>2. g \in 0..G
    BY <2>1 DEF EntryOK
  <2>3. CASE outcome.ok
    <3> DEFINE got == [loaded |-> TRUE, value |-> outcome.value, by |-> g,
                       loading |-> NotLoading, failed |-> FALSE]
    <3>1. ~IsBelow(path, path)
      BY DEF IsBelow, IsStrictPrefix
    <3>2. /\ DOMAIN f = {"generation", "entries"} /\ f.generation = G
          /\ f.entries = [p \in {p \in DOMAIN c.entries : ~IsBelow(p, path)} |->
                            IF p = path THEN got ELSE c.entries[p]]
      <4> DEFINE done == [c EXCEPT !.entries[path] = got]
                 left == {p \in DOMAIN done.entries : ~IsBelow(p, path)}
      <4>1. f = [done EXCEPT !.entries = [p \in DOMAIN done.entries \cap left |-> done.entries[p]]]
        BY <1>6, <2>3 DEF Finish, DropBelow, KeepOnly
      <4>2. /\ DOMAIN done = {"generation", "entries"} /\ done.generation = G
            /\ DOMAIN done.entries = DOMAIN c.entries
            /\ \A p \in DOMAIN c.entries : done.entries[p] = IF p = path THEN got ELSE c.entries[p]
        <5> HIDE DEF got
        <5> QED
          BY <2>1, <1>2
      <4> HIDE DEF done, got, f
      <4>3. DOMAIN done.entries \cap left = {p \in DOMAIN c.entries : ~IsBelow(p, path)}
        BY <4>2
      <4> HIDE DEF left
      <4> QED
        BY <4>1, <4>2, <4>3
    <3> HIDE DEF f
    <3>3. /\ DOMAIN f.entries = {p \in DOMAIN c.entries : ~IsBelow(p, path)}
          /\ f.entries[path] = got /\ path \in DOMAIN f.entries
          /\ \A p \in DOMAIN f.entries \ {path} : f.entries[p] = c.entries[p]
      <4> HIDE DEF got
      <4> QED
        BY <3>2, <3>1, <2>1
    <3>4. CacheOK(f)
      <4>1. EntryOK(got, G)
        BY <2>2 DEF EntryOK, NotLoading
      <4> HIDE DEF got
      <4> QED
        BY <4>1, <3>2, <3>3, <2>1 DEF CacheOK
    <3>5. Numbered(f, t)
      BY <1>3, <1>2, <3>2 DEF Numbered
    <3>6. Awaits(f, t)
      BY <1>4, <3>3 DEF Awaits
    <3>7. Newer(f)
      <4> SUFFICES ASSUME NEW p \in DOMAIN f.entries, NEW q \in DOMAIN f.entries, IsBelow(q, p),
                          f.entries[p].loaded
                   PROVE  /\ f.entries[q].loaded => f.entries[p].by < f.entries[q].by
                          /\ f.entries[q].loading # NotLoading => f.entries[p].by < f.entries[q].loading
        BY DEF Newer
      <4>1. p # path /\ p \in DOMAIN c.entries /\ q \in DOMAIN c.entries /\ f.entries[p] = c.entries[p]
        BY <3>3
      <4>2. CASE q = path
        <5>1. g # NotLoading
          <6>1. 1 \in LoadsOn(way)
            BY <1>1, Behind1 DEF LoadsOn
          <6> QED
            BY <6>1, <1>1, <1>2 DEF Good, Numbered, NotLoading, g
        <5>2. c.entries[p].by < g
          BY <5>1, <4>1, <4>2, <2>1 DEF Good, Newer
        <5> QED
          BY <5>2, <4>1, <4>2, <3>3
      <4>3. CASE q # path
        BY <4>1, <4>3, <3>3 DEF Good, Newer
      <4> QED
        BY <4>2, <4>3
    <3>8. ReadSince(f, known)
      BY <3>3 DEF Good, ReadSince
    <3> QED
      BY <3>4, <3>5, <3>6, <3>7, <3>8, <1>1 DEF Good, f, path, g, t
  <2>4. CASE ~outcome.ok
    <3> DEFINE got == [c.entries[path] EXCEPT !.loading = NotLoading, !.failed = TRUE]
    <3>1. /\ DOMAIN f = {"generation", "entries"} /\ f.generation = G
          /\ DOMAIN f.entries = DOMAIN c.entries
          /\ f.entries[path] = got
          /\ \A p \in DOMAIN c.entries \ {path} : f.entries[p] = c.entries[p]
      <4>1. f = [c EXCEPT !.entries[path].loading = NotLoading, !.entries[path].failed = TRUE]
        BY <1>6, <2>4 DEF Finish
      <4> HIDE DEF f
      <4> QED
        BY <4>1, <2>1, <1>2
    <3> HIDE DEF f
    <3>2. /\ DOMAIN got = {"loaded", "value", "by", "loading", "failed"}
          /\ got.loading = NotLoading /\ got.by = c.entries[path].by
          /\ got.loaded = c.entries[path].loaded /\ got.value = c.entries[path].value
      BY <2>1 DEF EntryOK
    <3> HIDE DEF got
    <3>4. CacheOK(f)
      <4>1. EntryOK(got, G)
        BY <3>2, <2>1 DEF EntryOK, NotLoading
      <4> QED
        BY <4>1, <3>1, <2>1 DEF CacheOK
    <3>5. Numbered(f, t)
      BY <1>3, <1>2, <3>1 DEF Numbered
    <3>6. Awaits(f, t)
      BY <1>4, <3>1, <3>2 DEF Awaits
    <3>7. \A p \in DOMAIN f.entries :
            /\ f.entries[p].loaded = c.entries[p].loaded /\ f.entries[p].by = c.entries[p].by
            /\ f.entries[p].value = c.entries[p].value
            /\ f.entries[p].loading \in {NotLoading, c.entries[p].loading}
      BY <3>1, <3>2
    <3>8. Newer(f)
      BY <3>7, <3>1 DEF Good, Newer
    <3>9. ReadSince(f, known)
      BY <3>7, <3>1 DEF Good, ReadSince
    <3> QED
      BY <3>4, <3>5, <3>6, <3>8, <3>9, <1>1 DEF Good, f, path, g, t
  <2> QED
    BY <2>3, <2>4
<1> QED
  BY <1>5, <1>6

\* A command that became its answer is still what it was.
LEMMA AnsweredAlike ==
  ASSUME NEW c, NEW way, NEW known, Good(c, way, known), NEW w, IsSequence(w), Len(w) = Len(way),
         \A i \in DOMAIN way : /\ w[i].type = way[i].type /\ w[i].path = way[i].path
                              /\ w[i].generation = way[i].generation
  PROVE  Good(c, w, known)
<1>1. DOMAIN w = DOMAIN way
  BY SeqShape DEF Good
<1>2. LoadsOn(w) = LoadsOn(way)
  BY <1>1 DEF LoadsOn
<1>3. Numbered(c, w)
  BY <1>1, <1>2 DEF Good, Numbered, LoadsOn
<1>4. Awaits(c, w)
  <2> SUFFICES ASSUME NEW p \in DOMAIN c.entries, c.entries[p].loading # NotLoading
               PROVE  \E i \in LoadsOn(w) : w[i].path = p /\ w[i].generation = c.entries[p].loading
    BY DEF Awaits
  <2>1. PICK i \in LoadsOn(way) : way[i].path = p /\ way[i].generation = c.entries[p].loading
    BY DEF Good, Awaits
  <2> QED
    BY <2>1, <1>2 DEF LoadsOn
<1> QED
  BY <1>3, <1>4 DEF Good

-----------------------------------------------------------------------------
(* What the app keeps to: its sessions are on its tabs. *)

AppFields == {"sessions", "order", "active", "closed", "open", "opened", "selected", "key",
  "showSystem", "filtering", "editing", "text", "before", "jump", "spinning"}
SessionFields == {"status", "expand", "cache", "describe", "running", "cancelled", "known"}

AppOK(a) ==
  /\ DOMAIN a = AppFields
  /\ DOMAIN a.sessions \subseteq BrowseSessions /\ a.closed \cap DOMAIN a.sessions = {}
  /\ \A s \in DOMAIN a.sessions : DOMAIN a.sessions[s] = SessionFields
  /\ IsSequence(a.order)
  /\ \A s \in DOMAIN a.sessions : \E i \in DOMAIN a.order : a.order[i] = s

CachesOK(a) == \A s \in DOMAIN a.sessions : CacheOK(a.sessions[s].cache)

\* `Min` of numbers is the least of them.
LEMMA MinIsLeast ==
  ASSUME NEW T \in SUBSET Nat, T # {}
  PROVE  Min(T) \in T /\ \A n \in T : Min(T) <= n
<1>1. PICK n \in T : \A m \in T : ~(m < n)
  BY Least
<1>2. \A m \in T : n <= m
  BY <1>1
<1> QED
  BY <1>1, <1>2 DEF Min

\* The schema session is one of the sessions, or none.
LEMMA SchemaSessionIs ==
  ASSUME NEW a, AppOK(a)
  PROVE  /\ Scratch \notin DOMAIN a.sessions
         /\ SchemaSession(a) # Scratch => SchemaSession(a) \in DOMAIN a.sessions
<1>1. Scratch \notin DOMAIN a.sessions
  BY BrowseSessionsAssumption DEF AppOK, Scratch
<1>2. ASSUME Opened(a) # {} PROVE First(a.order, Opened(a)) \in DOMAIN a.sessions
  <2> DEFINE T == {i \in DOMAIN a.order : a.order[i] \in Opened(a)}
  <2>1. T \in SUBSET Nat
    BY SeqShape DEF AppOK, IsSequence
  <2>2. T # {}
    BY <1>2 DEF AppOK, Opened
  <2>3. Min(T) \in T
    BY <2>1, <2>2, MinIsLeast
  <2> QED
    BY <2>3 DEF First, Opened
<1>3. Opened(a) \subseteq DOMAIN a.sessions
  BY DEF Opened
<1> QED
  BY <1>1, <1>2, <1>3 DEF SchemaSession

\* The rows of a list, each a sequence, are one.
LEMMA ListShape ==
  ASSUME NEW list, IsSequence(list), NEW rows, \A i \in 1..Len(list) : IsSequence(rows[i])
  PROVE  IsSequence(Joined(Len(list), rows))
BY JoinedShape DEF IsSequence

\* What is loaded at a path is a list.
LEMMA ItemsShape ==
  ASSUME NEW c, CacheOK(c), NEW path, Loaded(c, path)
  PROVE  IsSequence(Items(c, path))
BY DEF Loaded, Known, Items, CacheOK, EntryOK

\* The loads that open nodes want are a list.
LEMMA WantedShape ==
  ASSUME NEW a, AppOK(a), CachesOK(a)
  PROVE  IsSequence(Wanted(a))
<1> DEFINE c == a.sessions[SchemaSession(a)].cache
<1>1. ASSUME NEW x, NEW path PROVE IsSequence(Unasked(x, path))
  BY Shapes DEF Unasked
<1>2. ASSUME NEW x, NEW cat, NEW o PROVE IsSequence(WantedObject(a, x, cat, o))
  BY <1>1, Shapes DEF WantedObject
<1>3. ASSUME NEW x, CacheOK(x), NEW cat PROVE IsSequence(WantedCatalog(a, x, cat))
  <2>1. CASE Loaded(x, <<cat>>)
    <3> DEFINE list == Items(x, <<cat>>)
               rows == [i \in 1..Len(list) |-> WantedObject(a, x, cat, list[i])]
    <3>1. IsSequence(list)
      BY <1>3, <2>1, ItemsShape
    <3>2. \A i \in 1..Len(list) : IsSequence(rows[i])
      BY <1>2
    <3> HIDE DEF list
    <3>3. IsSequence(Joined(Len(list), rows))
      <4> HIDE DEF rows
      <4> QED
        BY <3>1, <3>2, ListShape
    <3> QED
      BY <2>1, <1>1, <3>3, Shapes DEF WantedCatalog, RowsOf, list
  <2> QED
    BY <2>1, <1>1, Shapes DEF WantedCatalog
<1>4. CASE ConnectionRow \notin a.open \/ SchemaSession(a) = Scratch
  BY <1>4, Shapes DEF Wanted
<1>5. CASE ~(ConnectionRow \notin a.open \/ SchemaSession(a) = Scratch)
  <2>1. CacheOK(c)
    BY <1>5, SchemaSessionIs DEF CachesOK
  <2>2. CASE ~Loaded(c, <<>>)
    BY <1>5, <2>2, <1>1 DEF Wanted
  <2>3. CASE Loaded(c, <<>>)
    <3> DEFINE list == Items(c, <<>>)
               rows == [i \in 1..Len(list) |-> WantedCatalog(a, c, list[i])]
    <3>1. IsSequence(list)
      BY <2>1, <2>3, ItemsShape
    <3>2. \A i \in 1..Len(list) : IsSequence(rows[i])
      <4> HIDE DEF list, c
      <4> QED
        BY <1>3, <2>1
    <3>3. IsSequence(Joined(Len(list), rows))
      <4> HIDE DEF rows, list
      <4> QED
        BY <3>1, <3>2, ListShape
    <3> QED
      BY <1>5, <2>3, <3>3 DEF Wanted, RowsOf
  <2> QED
    BY <2>2, <2>3
<1> QED
  BY <1>4, <1>5

\* The load that an inspector wants is a list of one or none.
LEMMA DescribedShape ==
  ASSUME NEW ses
  PROVE  IsSequence(Described(ses))
BY Shapes DEF Described

\* Joining does not depend on the order it is done in.
LEMMA ConcatAgain ==
  ASSUME NEW x, NEW y, NEW z, IsSequence(x), IsSequence(y), IsSequence(z)
  PROVE  x \o (y \o z) = (x \o y) \o z
<1> DEFINE S == {x[i] : i \in 1..Len(x)} \cup {y[i] : i \in 1..Len(y)} \cup {z[i] : i \in 1..Len(z)}
<1>1. x \in Seq(S) /\ y \in Seq(S) /\ z \in Seq(S)
  BY SeqShape
<1> HIDE DEF S
<1> QED
  BY <1>1

\* Joining nothing changes nothing.
LEMMA ConcatNothing ==
  ASSUME NEW x, IsSequence(x)
  PROVE  x \o <<>> = x /\ <<>> \o x = x
<1> DEFINE S == {x[i] : i \in 1..Len(x)}
<1>1. x \in Seq(S)
  BY SeqShape
<1> HIDE DEF S
<1> QED
  BY <1>1

-----------------------------------------------------------------------------
(* `tree::after`: what it asks for, and what it leaves. *)

\* The loads of `paths` are commands of that kind, and their cache waits for them.
LEMMA LoadsBegin ==
  ASSUME NEW a, AppOK(a), NEW s \in DOMAIN a.sessions, NEW paths, IsSequence(paths)
  PROVE  /\ IsSequence(LoadsOf(a, s, paths))
         /\ \A i \in DOMAIN LoadsOf(a, s, paths) : LoadsOf(a, s, paths)[i].type = "load"
         /\ \A way, known : Good(a.sessions[s].cache, way, known) =>
              Good(BeginAll(a.sessions[s].cache, paths), way \o LoadsOf(a, s, paths), known)
<1>1. DOMAIN paths = 1..Len(paths) /\ Len(paths) \in Nat
  BY SeqShape DEF IsSequence
<1>2. IsSequence(LoadsOf(a, s, paths))
  BY <1>1 DEF LoadsOf, IsSequence
<1>3. \A i \in DOMAIN LoadsOf(a, s, paths) : LoadsOf(a, s, paths)[i].type = "load"
  BY DEF LoadsOf
<1>4. ASSUME NEW way, NEW known, Good(a.sessions[s].cache, way, known)
      PROVE  Good(BeginAll(a.sessions[s].cache, paths), way \o LoadsOf(a, s, paths), known)
  <2> DEFINE c == a.sessions[s].cache
             loads == LoadsOf(a, s, paths)
  <2>1. loads = [i \in DOMAIN paths |-> [type |-> "load", path |-> paths[i],
                                          generation |-> c.generation + i]]
    BY DEF LoadsOf
  <2>2. Good(c, way, known)
    BY <1>4
  <2> HIDE DEF c, loads
  <2>3. Good(BeginAll(c, paths), way \o loads, known)
    BY <2>1, <2>2, BeginKeeps
  <2> QED
    BY <2>3 DEF c, loads
<1> QED
  BY <1>2, <1>3, <1>4

\* The tree's loads.
LEMMA TreeLoads ==
  ASSUME NEW a, AppOK(a), CachesOK(a)
  PROVE  /\ DOMAIN TreeLoaded(a) = AppFields
         /\ \A f \in AppFields \ {"sessions"} : TreeLoaded(a)[f] = a[f]
         /\ DOMAIN TreeLoaded(a).sessions = DOMAIN a.sessions
         /\ \A s \in DOMAIN a.sessions :
              /\ DOMAIN TreeLoaded(a).sessions[s] = SessionFields
              /\ \A f \in SessionFields \ {"cache"} :
                   TreeLoaded(a).sessions[s][f] = a.sessions[s][f]
              /\ TreeLoaded(a).sessions[s].cache =
                   IF Wanted(a) # <<>> /\ s = SchemaSession(a)
                   THEN BeginAll(a.sessions[s].cache, Wanted(a)) ELSE a.sessions[s].cache
<1>1. CASE Wanted(a) = <<>>
  BY <1>1 DEF TreeLoaded, AppOK
<1>2. CASE Wanted(a) # <<>>
  <2> DEFINE S == SchemaSession(a)
  <2>1. S \in DOMAIN a.sessions
    <3>1. SchemaSession(a) # Scratch
      BY <1>2 DEF Wanted
    <3> QED
      BY <3>1, SchemaSessionIs
  <2>2. TreeLoaded(a) = [a EXCEPT !.sessions[S].cache = BeginAll(@, Wanted(a))]
    BY <1>2 DEF TreeLoaded, WithLoads
  <2> HIDE DEF S
  <2>3. /\ DOMAIN a = AppFields /\ "sessions" \in AppFields
        /\ \A s \in DOMAIN a.sessions : DOMAIN a.sessions[s] = SessionFields /\ "cache" \in SessionFields
    BY DEF AppOK, AppFields, SessionFields
  <2> DEFINE b == TreeLoaded(a)
  <2>4. /\ DOMAIN b = AppFields /\ \A f \in AppFields \ {"sessions"} : b[f] = a[f]
        /\ b.sessions = [a.sessions EXCEPT ![S].cache = BeginAll(@, Wanted(a))]
    BY <2>2, <2>3
  <2> HIDE DEF b
  <2>5. /\ DOMAIN b.sessions = DOMAIN a.sessions
        /\ \A s \in DOMAIN a.sessions \ {S} : b.sessions[s] = a.sessions[s]
        /\ b.sessions[S] = [a.sessions[S] EXCEPT !.cache = BeginAll(@, Wanted(a))]
    BY <2>4, <2>1
  <2>6. /\ DOMAIN b.sessions[S] = SessionFields
        /\ \A f \in SessionFields \ {"cache"} : b.sessions[S][f] = a.sessions[S][f]
        /\ b.sessions[S].cache = BeginAll(a.sessions[S].cache, Wanted(a))
    BY <2>5, <2>3, <2>1
  <2>7. ASSUME NEW s \in DOMAIN a.sessions
        PROVE  /\ DOMAIN b.sessions[s] = SessionFields
               /\ \A f \in SessionFields \ {"cache"} : b.sessions[s][f] = a.sessions[s][f]
               /\ b.sessions[s].cache = IF s = S THEN BeginAll(a.sessions[s].cache, Wanted(a))
                                        ELSE a.sessions[s].cache
    BY <2>3, <2>5, <2>6
  <2> QED
    BY <2>4, <2>5, <2>7, <1>2 DEF b, S
<1> QED
  BY <1>1, <1>2

\* Every session's loads: those of the tree, and those of its inspector.
OnlyLoads(a, b) ==
  /\ DOMAIN b = AppFields
  /\ \A f \in AppFields \ {"sessions"} : b[f] = a[f]
  /\ DOMAIN b.sessions = DOMAIN a.sessions
  /\ \A s \in DOMAIN a.sessions :
       /\ DOMAIN b.sessions[s] = SessionFields
       /\ \A f \in SessionFields \ {"cache"} : b.sessions[s][f] = a.sessions[s][f]
       /\ IsSequence(Loads(a, s))
       /\ \A i \in DOMAIN Loads(a, s) : Loads(a, s)[i].type = "load"
       /\ \A way, known : Good(a.sessions[s].cache, way, known) =>
            Good(b.sessions[s].cache, way \o Loads(a, s), known)

\* `ensure_loaded` does nothing else than begin the loads it sends.
LEMMA AllLoads ==
  ASSUME NEW a, AppOK(a), CachesOK(a)
  PROVE  OnlyLoads(a, AllLoaded(a))
<1> DEFINE t == TreeLoaded(a)
           b == AllLoaded(a)
<1>1. /\ DOMAIN t = AppFields
      /\ \A f \in AppFields \ {"sessions"} : t[f] = a[f]
      /\ DOMAIN t.sessions = DOMAIN a.sessions
      /\ \A s \in DOMAIN a.sessions :
           /\ DOMAIN t.sessions[s] = SessionFields
           /\ \A f \in SessionFields \ {"cache"} : t.sessions[s][f] = a.sessions[s][f]
           /\ t.sessions[s].cache = IF Wanted(a) # <<>> /\ s = SchemaSession(a)
                                    THEN BeginAll(a.sessions[s].cache, Wanted(a))
                                    ELSE a.sessions[s].cache
  BY TreeLoads
<1> DEFINE new == [s \in DOMAIN t.sessions |-> Inspected(t.sessions[s])]
<1>2. /\ b = [t EXCEPT !.sessions = new]
      /\ \A s : Loads(a, s) =
           (IF Wanted(a) # <<>> /\ s = SchemaSession(a) THEN LoadsOf(a, s, Wanted(a)) ELSE <<>>)
           \o LoadsOf(t, s, Described(t.sessions[s]))
  BY DEF AllLoaded, Loads
<1> HIDE DEF t, b
<1>3. /\ DOMAIN b = AppFields /\ \A f \in AppFields \ {"sessions"} : b[f] = a[f]
      /\ b.sessions = [s \in DOMAIN t.sessions |-> Inspected(t.sessions[s])]
  <2>1. "sessions" \in AppFields
    BY DEF AppFields
  <2>2. b = [t EXCEPT !.sessions = new]
    BY <1>2
  <2> HIDE DEF new
  <2>3. /\ DOMAIN b = AppFields /\ \A f \in AppFields \ {"sessions"} : b[f] = a[f]
        /\ b.sessions = new
    BY <2>1, <2>2, <1>1
  <2> QED
    BY <2>3 DEF new
<1>4. AppOK(t)
  <2>1. /\ {"closed", "order"} \subseteq AppFields \ {"sessions"}
        /\ t.closed = a.closed /\ t.order = a.order
    <3>1. {"closed", "order"} \subseteq AppFields \ {"sessions"}
      BY DEF AppFields
    <3> QED
      BY <3>1, <1>1
  <2> QED
    BY <1>1, <2>1 DEF AppOK
<1>5. ASSUME NEW s \in DOMAIN a.sessions
      PROVE  /\ DOMAIN b.sessions[s] = SessionFields
             /\ \A f \in SessionFields \ {"cache"} : b.sessions[s][f] = a.sessions[s][f]
             /\ b.sessions[s].cache = BeginAll(t.sessions[s].cache, Described(t.sessions[s]))
  <2>1. b.sessions[s] = [t.sessions[s] EXCEPT !.cache = BeginAll(@, Described(t.sessions[s]))]
    BY <1>1, <1>3 DEF Inspected
  <2>2. "cache" \in SessionFields /\ DOMAIN t.sessions[s] = SessionFields
    BY <1>1 DEF SessionFields
  <2> QED
    BY <1>1, <2>1, <2>2
<1>6. ASSUME NEW s \in DOMAIN a.sessions
      PROVE  /\ IsSequence(Loads(a, s))
             /\ \A i \in DOMAIN Loads(a, s) : Loads(a, s)[i].type = "load"
             /\ \A way, known : Good(a.sessions[s].cache, way, known) =>
                  Good(b.sessions[s].cache, way \o Loads(a, s), known)
  <2> DEFINE first == IF Wanted(a) # <<>> /\ s = SchemaSession(a)
                      THEN LoadsOf(a, s, Wanted(a)) ELSE <<>>
             then == LoadsOf(t, s, Described(t.sessions[s]))
             c == a.sessions[s].cache
             d == t.sessions[s].cache
             e == b.sessions[s].cache
  <2>1. /\ IsSequence(first)
        /\ \A i \in DOMAIN first : first[i].type = "load"
        /\ \A way, known : Good(c, way, known) => Good(d, way \o first, known)
    <3>1. CASE Wanted(a) # <<>> /\ s = SchemaSession(a)
      <4>1. IsSequence(Wanted(a))
        BY WantedShape
      <4>2. first = LoadsOf(a, s, Wanted(a)) /\ d = BeginAll(c, Wanted(a))
        BY <3>1, <1>1
      <4> HIDE DEF d
      <4> QED
        BY <4>1, <4>2, LoadsBegin
    <3>2. CASE ~(Wanted(a) # <<>> /\ s = SchemaSession(a))
      <4>1. first = <<>> /\ d = c
        BY <3>2, <1>1
      <4>2. \A way : IsSequence(way) => way \o <<>> = way
        BY ConcatNothing
      <4> HIDE DEF c, d, first
      <4> QED
        BY <4>1, <4>2, Shapes DEF Good
    <3> QED
      BY <3>1, <3>2
  <2>2. /\ IsSequence(then)
        /\ \A i \in DOMAIN then : then[i].type = "load"
        /\ \A way, known : Good(d, way, known) => Good(e, way \o then, known)
    <3>1. IsSequence(Described(t.sessions[s])) /\ s \in DOMAIN t.sessions
      BY DescribedShape, <1>1
    <3>2. e = BeginAll(d, Described(t.sessions[s]))
      BY <1>5
    <3> HIDE DEF e
    <3> QED
      BY <3>1, <3>2, <1>4, LoadsBegin
  <2>3. Loads(a, s) = first \o then
    BY <1>2
  <2> HIDE DEF first, then, c, d, e
  <2>4. IsSequence(first \o then) /\ \A i \in DOMAIN (first \o then) : (first \o then)[i].type = "load"
    <3>1. /\ IsSequence(first \o then) /\ Len(first \o then) = Len(first) + Len(then)
          /\ \A i \in 1..(Len(first) + Len(then)) :
               (first \o then)[i] = IF i <= Len(first) THEN first[i] ELSE then[i - Len(first)]
      BY <2>1, <2>2, ConcatShape
    <3>2. /\ DOMAIN first = 1..Len(first) /\ DOMAIN then = 1..Len(then)
          /\ DOMAIN (first \o then) = 1..(Len(first) + Len(then))
          /\ Len(first) \in Nat /\ Len(then) \in Nat
      BY <2>1, <2>2, <3>1, SeqShape DEF IsSequence
    <3>3. ASSUME NEW i \in DOMAIN (first \o then)
          PROVE  (first \o then)[i].type = "load"
      <4>1. i \in 1..Len(first) \/ (~(i <= Len(first)) /\ i - Len(first) \in 1..Len(then))
        BY <3>2
      <4> QED
        BY <4>1, <3>1, <3>2, <2>1, <2>2
    <3> QED
      BY <3>1, <3>3
  <2>5. ASSUME NEW way, NEW known, Good(c, way, known)
        PROVE  Good(e, way \o (first \o then), known)
    <3>1. Good(e, (way \o first) \o then, known)
      BY <2>5, <2>1, <2>2
    <3>2. way \o (first \o then) = (way \o first) \o then
      <4>1. IsSequence(way)
        BY <2>5 DEF Good
      <4> QED
        BY <4>1, <2>1, <2>2, ConcatAgain
    <3> QED
      BY <3>1, <3>2
  <2> QED
    BY <2>3, <2>4, <2>5 DEF c, e
<1>7. DOMAIN b.sessions = DOMAIN a.sessions
  BY <1>1, <1>3
<1> QED
  BY <1>3, <1>5, <1>6, <1>7 DEF b, OnlyLoads

-----------------------------------------------------------------------------
(* The invariant. *)

MessageTypes == {"load", "connect", "ddl"}
CommandsOK(q) == IsSequence(q) /\ \A i \in DOMAIN q : q[i].type \in MessageTypes

\* The answers on their way back are of the schema as it went on, in order.
AnswersOK(q, version) ==
  /\ CommandsOK(q)
  /\ \A i \in DOMAIN q : /\ q[i].ok \in BOOLEAN /\ IsSequence(q[i].value.items)
                         /\ q[i].value.read \in Nat /\ q[i].value.read <= version
  /\ \A i, j \in DOMAIN q : i < j => q[i].value.read <= q[j].value.read

QueuesOK ==
  /\ DOMAIN inbox = BrowseSessions /\ DOMAIN outbox = BrowseSessions
  /\ server.version \in Nat
  /\ \A s \in BrowseSessions : CommandsOK(inbox[s]) /\ AnswersOK(outbox[s], server.version)

\* A session is sound on its way to the worker and back: what its cache waits for
\* is there, and no answer is older than what it knows of.
SessionOK(ses, sent, answers, version) ==
  /\ Good(ses.cache, answers \o sent, ses.known)
  /\ ses.known <= version
  /\ \A i \in DOMAIN answers : ses.known <= answers[i].value.read

SessionsOK(a) == \A s \in DOMAIN a.sessions : SessionOK(a.sessions[s], inbox[s], outbox[s], server.version)

\* What was never opened was told nothing.
UnopenedIsQuiet ==
  \A s \in BrowseSessions \ (DOMAIN app.sessions \cup app.closed) :
    inbox[s] = <<>> /\ outbox[s] = <<>>

SpinnerOK ==
  /\ DOMAIN frames = {"live", "stale"} /\ frames.stale = 0
  /\ app.spinning \in BOOLEAN /\ app.spinning = frames.live
  /\ Waiting(app) => app.spinning

OpsOK == DOMAIN ops = {"may", "left"} /\ ops.left \in Nat

BrowseInv ==
  /\ AppOK(app) /\ ~app.jump
  /\ QueuesOK /\ SessionsOK(app) /\ UnopenedIsQuiet /\ SpinnerOK /\ OpsOK

-----------------------------------------------------------------------------
(* After every handler. *)

\* What `tree::after` leaves alone, and the key it comes to.
Settles(a, out) ==
  /\ DOMAIN app' = AppFields
  /\ \A f \in AppFields \ {"sessions", "selected", "key", "jump", "spinning"} : app'[f] = a[f]
  /\ app'.sessions = AllLoaded(a).sessions
  /\ ~app'.jump
  /\ app'.spinning = (a.spinning \/ Waiting(app'))
  /\ frames' = IF ~a.spinning /\ Waiting(app') THEN Scheduled(frames) ELSE frames
  /\ inbox' = [s \in BrowseSessions |->
       inbox[s] \o (out[s] \o IF s \in DOMAIN a.sessions THEN Loads(a, s) ELSE <<>>)]

\* What `tree::after` does, whatever handler came before.
LEMMA AfterIs ==
  ASSUME NEW a, NEW out, AppOK(a), CachesOK(a), AndAfter(a, out)
  PROVE  Settles(a, out)
<1> DEFINE b == AllLoaded(a)
           rows == Rows(b)
           c == Reselected(b, rows)
<1>1. /\ DOMAIN b = AppFields /\ \A f \in AppFields \ {"sessions"} : b[f] = a[f]
  BY AllLoads DEF OnlyLoads
<1>2. /\ app' = [c EXCEPT !.spinning = @ \/ Waiting(c)]
      /\ frames' = IF StartsSpinner(c) THEN Scheduled(frames) ELSE frames
      /\ inbox' = [s \in BrowseSessions |->
           inbox[s] \o (out[s] \o IF s \in DOMAIN a.sessions THEN Loads(a, s) ELSE <<>>)]
  BY DEF AndAfter
<1> HIDE DEF b, rows
<1>3. /\ DOMAIN c = AppFields /\ c.jump = FALSE
      /\ \A f \in AppFields \ {"selected", "key", "jump"} : c[f] = b[f]
  BY <1>1 DEF Reselected, AppFields
<1> HIDE DEF c
<1>4. /\ DOMAIN app' = AppFields /\ app'.spinning = (c.spinning \/ Waiting(c))
      /\ \A f \in AppFields \ {"spinning"} : app'[f] = c[f]
  BY <1>2, <1>3 DEF AppFields
<1>5. app'.sessions = b.sessions /\ app'.sessions = c.sessions /\ ~app'.jump /\ c.spinning = a.spinning
  BY <1>1, <1>3, <1>4 DEF AppFields
<1>6. Waiting(app') = Waiting(c)
  BY <1>5 DEF Waiting, Connecting, Opened
<1> QED
  BY <1>1, <1>2, <1>3, <1>4, <1>5, <1>6 DEF b, StartsSpinner, Settles

\* A sound cache has its parts.
LEMMA GoodIsOK ==
  ASSUME NEW c, NEW way, NEW known, Good(c, way, known)
  PROVE  CacheOK(c) /\ IsSequence(way) /\ known \in Nat
BY DEF Good

\* A handler that leaves its sessions sound, with what it sends, keeps everything.
LEMMA AfterKeeps ==
  ASSUME BrowseInv, NEW a, NEW out, AndAfter(a, out), AppOK(a), a.spinning = app.spinning,
         OpsOK', DOMAIN outbox' = BrowseSessions, server'.version \in Nat,
         \A s \in BrowseSessions : CommandsOK(out[s]) /\ AnswersOK(outbox'[s], server'.version),
         \A s \in DOMAIN a.sessions :
           SessionOK(a.sessions[s], inbox[s] \o out[s], outbox'[s], server'.version),
         \A s \in BrowseSessions \ (DOMAIN a.sessions \cup a.closed) :
           inbox[s] = <<>> /\ out[s] = <<>> /\ outbox'[s] = <<>>
  PROVE  BrowseInv'
<1>1. CachesOK(a)
  BY GoodIsOK DEF SessionOK, CachesOK
<1>2. Settles(a, out)
  BY <1>1, AfterIs
<1>3. app'.order = a.order /\ app'.closed = a.closed
  BY <1>2 DEF AppFields, Settles
<1>4. /\ DOMAIN app'.sessions = DOMAIN a.sessions
      /\ \A s \in DOMAIN a.sessions :
           /\ DOMAIN app'.sessions[s] = SessionFields
           /\ app'.sessions[s].known = a.sessions[s].known
           /\ IsSequence(Loads(a, s))
           /\ \A i \in DOMAIN Loads(a, s) : Loads(a, s)[i].type = "load"
           /\ \A way, known : Good(a.sessions[s].cache, way, known) =>
                Good(app'.sessions[s].cache, way \o Loads(a, s), known)
  <2>1. OnlyLoads(a, AllLoaded(a)) /\ app'.sessions = AllLoaded(a).sessions
    BY <1>1, <1>2, AllLoads DEF Settles
  <2>2. "known" \in SessionFields \ {"cache"}
    BY DEF SessionFields
  <2> DEFINE b == AllLoaded(a)
  <2> HIDE DEF b
  <2>3. OnlyLoads(a, b) /\ app'.sessions = b.sessions
    BY <2>1 DEF b
  <2> QED
    BY <2>2, <2>3 DEF OnlyLoads
<1>5. AppOK(app')
  BY <1>2, <1>3, <1>4 DEF AppOK, Settles
<1>6. \A s \in BrowseSessions : IsSequence(inbox[s]) /\ IsSequence(out[s]) /\ IsSequence(outbox'[s])
  BY DEF BrowseInv, QueuesOK, CommandsOK, AnswersOK
<1>7. ASSUME NEW s \in BrowseSessions PROVE CommandsOK(inbox'[s])
  <2> DEFINE loads == IF s \in DOMAIN a.sessions THEN Loads(a, s) ELSE <<>>
  <2>1. CommandsOK(loads)
    <3>1. CommandsOK(<<>>)
      BY Shapes DEF CommandsOK
    <3> QED
      BY <3>1, <1>4 DEF CommandsOK, MessageTypes
  <2>2. ASSUME NEW x, NEW y, CommandsOK(x), CommandsOK(y) PROVE CommandsOK(x \o y)
    <3>1. /\ IsSequence(x \o y) /\ Len(x \o y) = Len(x) + Len(y)
          /\ \A i \in 1..(Len(x) + Len(y)) : (x \o y)[i] = IF i <= Len(x) THEN x[i] ELSE y[i - Len(x)]
      BY <2>2, ConcatShape DEF CommandsOK
    <3>2. /\ DOMAIN x = 1..Len(x) /\ DOMAIN y = 1..Len(y) /\ DOMAIN (x \o y) = 1..(Len(x) + Len(y))
          /\ Len(x) \in Nat /\ Len(y) \in Nat
      BY <2>2, <3>1, SeqShape DEF IsSequence, CommandsOK
    <3>3. ASSUME NEW i \in DOMAIN (x \o y) PROVE (x \o y)[i].type \in MessageTypes
      <4>1. i \in 1..Len(x) \/ (~(i <= Len(x)) /\ i - Len(x) \in 1..Len(y))
        BY <3>2
      <4> QED
        BY <4>1, <3>1, <3>2, <2>2 DEF CommandsOK
    <3> QED
      BY <3>1, <3>3 DEF CommandsOK
  <2>3. CommandsOK(inbox[s]) /\ CommandsOK(out[s])
    BY DEF BrowseInv, QueuesOK
  <2>4. inbox'[s] = inbox[s] \o (out[s] \o loads)
    BY <1>2 DEF Settles
  <2> HIDE DEF loads
  <2> QED
    BY <2>1, <2>2, <2>3, <2>4
<1>8. QueuesOK'
  BY <1>2, <1>7 DEF QueuesOK, Settles
<1>9. SessionsOK(app)'
  <2> SUFFICES ASSUME NEW s \in DOMAIN a.sessions
               PROVE  SessionOK(app'.sessions[s], inbox'[s], outbox'[s], server'.version)
    BY <1>4 DEF SessionsOK
  <2>1. s \in BrowseSessions
    BY DEF AppOK
  <2>3. outbox'[s] \o inbox'[s] = (outbox'[s] \o (inbox[s] \o out[s])) \o Loads(a, s)
    <3> DEFINE w == outbox'[s]
               x == inbox[s]
               y == out[s]
               z == Loads(a, s)
    <3>1. inbox'[s] = x \o (y \o z)
      BY <1>2, <2>1 DEF Settles
    <3>2. IsSequence(w) /\ IsSequence(x) /\ IsSequence(y) /\ IsSequence(z)
      BY <2>1, <1>4, <1>6
    <3> HIDE DEF w, x, y, z
    <3>3. IsSequence(x \o y)
      BY <3>2, ConcatShape
    <3>4. x \o (y \o z) = (x \o y) \o z
      BY <3>2, ConcatAgain
    <3> DEFINE v == x \o y
    <3> HIDE DEF v
    <3>5. w \o (v \o z) = (w \o v) \o z
      BY <3>2, <3>3, ConcatAgain DEF v
    <3> QED
      BY <3>1, <3>4, <3>5 DEF v, w, x, y, z
  <2>4. Good(a.sessions[s].cache, outbox'[s] \o (inbox[s] \o out[s]), a.sessions[s].known)
    BY DEF SessionOK
  <2>5. Good(app'.sessions[s].cache, outbox'[s] \o inbox'[s], a.sessions[s].known)
    BY <2>3, <2>4, <1>4
  <2> QED
    BY <2>5, <1>4 DEF SessionOK
<1>10. UnopenedIsQuiet'
  <2> SUFFICES ASSUME NEW s \in BrowseSessions \ (DOMAIN a.sessions \cup a.closed)
               PROVE  inbox'[s] = <<>> /\ outbox'[s] = <<>>
    BY <1>3, <1>4 DEF UnopenedIsQuiet
  <2>1. inbox'[s] = <<>> \o (<<>> \o <<>>)
    BY <1>2 DEF Settles
  <2> QED
    BY <2>1, Shapes, ConcatNothing
<1>11. SpinnerOK'
  <2>1. /\ app'.spinning = (a.spinning \/ Waiting(app'))
        /\ frames' = IF ~a.spinning /\ Waiting(app') THEN Scheduled(frames) ELSE frames
    BY <1>2 DEF Settles
  <2>2. /\ DOMAIN frames = {"live", "stale"} /\ frames.stale = 0
        /\ a.spinning \in BOOLEAN /\ a.spinning = frames.live
    BY DEF BrowseInv, SpinnerOK
  <2>3. CASE a.spinning
    <3>1. frames' = frames /\ app'.spinning = TRUE /\ frames.live = TRUE
      BY <2>1, <2>2, <2>3
    <3> QED
      BY <2>2, <3>1 DEF SpinnerOK
  <2>4. CASE ~a.spinning /\ ~Waiting(app')
    <3>1. frames' = frames /\ app'.spinning = FALSE /\ frames.live = FALSE /\ ~Waiting(app)'
      BY <2>1, <2>2, <2>4
    <3> QED
      BY <2>2, <3>1 DEF SpinnerOK
  <2>5. CASE ~a.spinning /\ Waiting(app')
    <3>1. frames' = Scheduled(frames) /\ app'.spinning = TRUE /\ frames.live = FALSE
      BY <2>1, <2>2, <2>5
    <3>2. Scheduled(frames) = [live |-> TRUE, stale |-> 0]
      BY <2>2, <3>1 DEF Scheduled
    <3>3. DOMAIN frames' = {"live", "stale"} /\ frames'.stale = 0 /\ frames'.live = TRUE
      BY <3>1, <3>2
    <3> QED
      BY <3>1, <3>3 DEF SpinnerOK
  <2> QED
    BY <2>2, <2>3, <2>4, <2>5
<1>12. ~app'.jump
  BY <1>2 DEF Settles
<1> QED
  BY <1>12, <1>5, <1>8, <1>9, <1>10, <1>11 DEF BrowseInv
-----------------------------------------------------------------------------
(* What the user does. *)

\* A command that is no load is sent.
LEMMA SentKeeps ==
  ASSUME NEW ses, NEW sent, NEW answers, NEW version, SessionOK(ses, sent, answers, version),
         IsSequence(sent), IsSequence(answers)
  PROVE  /\ SessionOK(ses, sent \o <<>>, answers, version)
         /\ \A m : m.type # "load" => SessionOK(ses, sent \o <<m>>, answers, version)
<1>1. SessionOK(ses, sent \o <<>>, answers, version)
  BY ConcatNothing
<1>2. ASSUME NEW m, m.type # "load"
      PROVE  SessionOK(ses, sent \o <<m>>, answers, version)
  <2>1. Good(ses.cache, (answers \o sent) \o <<m>>, ses.known)
    <3> DEFINE way == answers \o sent
    <3>1. Good(ses.cache, way, ses.known)
      BY DEF SessionOK
    <3> HIDE DEF way
    <3>2. Good(ses.cache, way \o <<m>>, ses.known)
      BY <3>1, <1>2, OthersCome
    <3> QED
      BY <3>2 DEF way
  <2>2. answers \o (sent \o <<m>>) = (answers \o sent) \o <<m>>
    <3> DEFINE z == <<m>>
    <3>1. IsSequence(z)
      BY Shapes
    <3> HIDE DEF z
    <3>2. answers \o (sent \o z) = (answers \o sent) \o z
      BY <3>1, ConcatAgain
    <3> QED
      BY <3>2 DEF z
  <2> QED
    BY <2>1, <2>2 DEF SessionOK
<1> QED
  BY <1>1, <1>2

\* A handler of the user's: the answers and the database stay.
LEMMA UserKeeps ==
  ASSUME BrowseInv, NEW op, UserDoes(op), NEW a, NEW out, AndAfter(a, out), AppOK(a),
         a.spinning = app.spinning,
         \A s \in BrowseSessions : CommandsOK(out[s]),
         \A s \in DOMAIN a.sessions :
           SessionOK(a.sessions[s], inbox[s] \o out[s], outbox[s], server.version),
         \A s \in BrowseSessions \ (DOMAIN a.sessions \cup a.closed) :
           s \notin DOMAIN app.sessions \cup app.closed /\ out[s] = <<>>
  PROVE  BrowseInv'
<1>1. outbox' = outbox /\ server' = server /\ OpsOK'
  <2>1. ops' = [ops EXCEPT !.left = @ - 1] /\ ops.left > 0 /\ outbox' = outbox /\ server' = server
    BY DEF UserDoes
  <2>2. DOMAIN ops = {"may", "left"} /\ ops.left \in Nat
    BY DEF BrowseInv, OpsOK
  <2>3. DOMAIN ops' = {"may", "left"} /\ ops'.left = ops.left - 1
    BY <2>1, <2>2
  <2>4. \A n \in Nat : n > 0 => n - 1 \in Nat
    OBVIOUS
  <2> QED
    BY <2>1, <2>2, <2>3, <2>4 DEF OpsOK
<1>2. /\ DOMAIN outbox' = BrowseSessions /\ server'.version \in Nat
      /\ \A s \in BrowseSessions : AnswersOK(outbox'[s], server'.version)
  BY <1>1 DEF BrowseInv, QueuesOK
<1>3. \A s \in DOMAIN a.sessions :
        SessionOK(a.sessions[s], inbox[s] \o out[s], outbox'[s], server'.version)
  BY <1>1
<1>4. \A s \in BrowseSessions \ (DOMAIN a.sessions \cup a.closed) :
        inbox[s] = <<>> /\ out[s] = <<>> /\ outbox'[s] = <<>>
  BY <1>1 DEF BrowseInv, UnopenedIsQuiet
<1> QED
  BY <1>1, <1>2, <1>3, <1>4, AfterKeeps

\* What a handler tells at most one worker.
Told(out, sessions) ==
  out = NoCommands \/ \E s \in sessions, m \in {Connect, Ddl} : out = Only(s, m)

\* What a handler told the workers, session by session.
LEMMA ToldIs ==
  ASSUME NEW out, NEW sessions, sessions \subseteq BrowseSessions, Told(out, sessions)
  PROVE  /\ \A s \in BrowseSessions : CommandsOK(out[s])
         /\ \A s \in BrowseSessions :
              out[s] = <<>> \/ \E m : m.type # "load" /\ out[s] = <<m>>
         /\ \A s \in BrowseSessions \ sessions : out[s] = <<>>
<1>1. CommandsOK(<<>>)
  BY Shapes DEF CommandsOK
<1>2. \A m \in {Connect, Ddl} : CommandsOK(<<m>>) /\ m.type # "load"
  <2>1. \A m \in {Connect, Ddl} : m.type \in MessageTypes /\ m.type # "load"
    BY DEF Connect, Ddl, MessageTypes
  <2>2. ASSUME NEW m, m.type \in MessageTypes PROVE CommandsOK(<<m>>)
    <3>1. IsSequence(<<m>>) /\ \A i \in DOMAIN <<m>> : <<m>>[i] = m
      BY Shapes
    <3> QED
      BY <2>2, <3>1 DEF CommandsOK
  <2> QED
    BY <2>1, <2>2
<1>3. CASE out = NoCommands
  BY <1>1, <1>3 DEF NoCommands
<1>4. CASE \E s \in sessions, m \in {Connect, Ddl} : out = Only(s, m)
  <2>1. PICK s \in sessions, m \in {Connect, Ddl} : out = Only(s, m)
    BY <1>4
  <2>2. out[s] = <<m>> /\ \A t \in BrowseSessions \ {s} : out[t] = <<>>
    BY <2>1 DEF Only, NoCommands
  <2> QED
    BY <1>1, <1>2, <2>2
<1> QED
  BY <1>3, <1>4 DEF Told

\* The same sessions, with the same caches.
Alike(a) ==
  /\ AppOK(a) /\ a.spinning = app.spinning /\ a.closed = app.closed
  /\ DOMAIN a.sessions = DOMAIN app.sessions
  /\ \A s \in DOMAIN app.sessions : /\ a.sessions[s].cache = app.sessions[s].cache
                                    /\ a.sessions[s].known = app.sessions[s].known

\* A handler that leaves the sessions' caches alone keeps the browser sound.
LEMMA AlikeKeeps ==
  ASSUME BrowseInv, NEW op, UserDoes(op), NEW a, NEW out, AndAfter(a, out), Alike(a),
         Told(out, DOMAIN app.sessions)
  PROVE  BrowseInv'
<1>1. /\ AppOK(a) /\ a.spinning = app.spinning /\ a.closed = app.closed
      /\ DOMAIN a.sessions = DOMAIN app.sessions
      /\ DOMAIN app.sessions \subseteq BrowseSessions
  BY DEF Alike, AppOK
<1>2. /\ \A s \in BrowseSessions : CommandsOK(out[s])
      /\ \A s \in BrowseSessions :
           out[s] = <<>> \/ \E m : m.type # "load" /\ out[s] = <<m>>
      /\ \A s \in BrowseSessions \ DOMAIN app.sessions : out[s] = <<>>
  BY <1>1, ToldIs
<1>3. ASSUME NEW s \in DOMAIN a.sessions
      PROVE  SessionOK(a.sessions[s], inbox[s] \o out[s], outbox[s], server.version)
  <2>1. SessionOK(app.sessions[s], inbox[s], outbox[s], server.version)
    BY <1>1 DEF BrowseInv, SessionsOK
  <2>2. SessionOK(a.sessions[s], inbox[s], outbox[s], server.version)
    BY <1>1, <2>1 DEF Alike, SessionOK
  <2>3. IsSequence(inbox[s]) /\ IsSequence(outbox[s])
    BY <1>1 DEF BrowseInv, QueuesOK, CommandsOK, AnswersOK
  <2>4. CASE out[s] = <<>>
    BY <2>2, <2>3, <2>4, SentKeeps
  <2>5. CASE \E m : m.type # "load" /\ out[s] = <<m>>
    <3>1. PICK m : m.type # "load" /\ out[s] = <<m>>
      BY <2>5
    <3>2. SessionOK(a.sessions[s], inbox[s] \o <<m>>, outbox[s], server.version)
      BY <2>2, <2>3, <3>1, SentKeeps
    <3> QED
      BY <3>1, <3>2
  <2> QED
    BY <1>1, <1>2, <2>4, <2>5
<1> QED
  BY <1>1, <1>2, <1>3, UserKeeps

\* A handler that leaves the sessions alone, or one session's cache.
LEMMA UntouchedIsAlike ==
  ASSUME BrowseInv, NEW a, DOMAIN a = AppFields, a.sessions = app.sessions, a.order = app.order,
         a.closed = app.closed, a.spinning = app.spinning
  PROVE  Alike(a)
BY DEF BrowseInv, AppOK, Alike

\* Changing one session beside its cache leaves the caches alone.
LEMMA TouchedIsAlike ==
  ASSUME BrowseInv, NEW a, NEW s \in DOMAIN app.sessions, NEW ses,
         DOMAIN a = AppFields, a.sessions = [app.sessions EXCEPT ![s] = ses], a.order = app.order,
         a.closed = app.closed, a.spinning = app.spinning,
         DOMAIN ses = SessionFields, ses.cache = app.sessions[s].cache,
         ses.known = app.sessions[s].known
  PROVE  Alike(a)
BY DEF BrowseInv, AppOK, Alike

\* The session a connection comes to is one of the sessions.
LEMMA ForConnectionIs ==
  ASSUME NEW a, AppOK(a), DOMAIN a.sessions # {}
  PROVE  ForConnection(a) \in DOMAIN a.sessions
<1> DEFINE T == {i \in DOMAIN a.order : a.order[i] \in DOMAIN a.sessions}
<1>1. T \in SUBSET Nat
  BY SeqShape DEF AppOK, IsSequence
<1>2. T # {}
  BY DEF AppOK
<1>3. Min(T) \in T
  BY <1>1, <1>2, MinIsLeast
<1> QED
  BY <1>3 DEF ForConnection, First

\* A session that opens is told to connect.
LEMMA OpeningKeeps ==
  ASSUME BrowseInv, NEW op, UserDoes(op), NEW s \in Fresh(app), NEW a, Alike(a),
         NEW ses, DOMAIN ses = SessionFields, ses.cache = EmptyCache, ses.known = 0,
         NEW b, DOMAIN b = AppFields,
         b.sessions = [t \in DOMAIN a.sessions \cup {s} |-> IF t = s THEN ses ELSE a.sessions[t]],
         b.order = Append(a.order, s), b.closed = a.closed, b.spinning = a.spinning,
         AndAfter(b, Only(s, Connect))
  PROVE  BrowseInv'
<1> DEFINE out == Only(s, Connect)
<1>1. /\ s \in BrowseSessions /\ s \notin DOMAIN app.sessions /\ s \notin app.closed
      /\ inbox[s] = <<>> /\ outbox[s] = <<>>
  BY DEF Fresh, BrowseInv, UnopenedIsQuiet
<1>2. /\ AppOK(a) /\ a.spinning = app.spinning /\ a.closed = app.closed
      /\ DOMAIN a.sessions = DOMAIN app.sessions /\ DOMAIN app.sessions \subseteq BrowseSessions
  BY DEF Alike, AppOK
<1>3. AppOK(b)
  <2>1. IsSequence(a.order) /\ DOMAIN a.order = 1..Len(a.order) /\ Len(a.order) \in Nat
    BY <1>2, SeqShape DEF AppOK, IsSequence
  <2>2. IsSequence(<<s>>) /\ Len(<<s>>) = 1 /\ <<s>>[1] = s
    BY Shapes
  <2>3. b.order = a.order \o <<s>>
    <3> DEFINE S == {a.order[i] : i \in 1..Len(a.order)} \cup {s}
               o == a.order
    <3>1. o \in Seq(S) /\ s \in S
      BY <2>1, SeqShape
    <3> HIDE DEF S, o
    <3>2. Append(o, s) = o \o <<s>>
      BY <3>1
    <3> QED
      BY <3>2 DEF o
  <2>4. /\ IsSequence(b.order) /\ Len(b.order) = Len(a.order) + 1
        /\ \A i \in 1..(Len(a.order) + 1) :
             b.order[i] = IF i <= Len(a.order) THEN a.order[i] ELSE <<s>>[i - Len(a.order)]
    BY <2>1, <2>2, <2>3, ConcatShape
  <2>5. DOMAIN b.order = 1..(Len(a.order) + 1)
    BY <2>4, SeqShape
  <2>6. b.order[Len(a.order) + 1] = s /\ \A i \in DOMAIN a.order : i \in DOMAIN b.order /\ b.order[i] = a.order[i]
    <3>1. Len(a.order) + 1 \in 1..(Len(a.order) + 1) /\ ~(Len(a.order) + 1 <= Len(a.order))
          /\ (Len(a.order) + 1) - Len(a.order) = 1
      BY <2>1
    <3> QED
      BY <2>1, <2>2, <2>4, <2>5, <3>1
  <2>7. Len(a.order) + 1 \in DOMAIN b.order
    BY <2>1, <2>5
  <2> QED
    BY <2>4, <2>6, <2>7, <1>1, <1>2 DEF AppOK
<1>4. /\ out[s] = <<Connect>> /\ \A t \in BrowseSessions \ {s} : out[t] = <<>>
      /\ \A t \in BrowseSessions : CommandsOK(out[t])
  <2>1. Told(out, {s}) /\ {s} \subseteq BrowseSessions
    BY <1>1 DEF Told
  <2>2. \A t \in BrowseSessions : CommandsOK(out[t])
    BY <2>1, ToldIs
  <2> QED
    BY <1>1, <2>2 DEF Only, NoCommands
<1>5. ASSUME NEW t \in DOMAIN b.sessions
      PROVE  SessionOK(b.sessions[t], inbox[t] \o out[t], outbox[t], server.version)
  <2>1. CASE t = s
    <3>1. DOMAIN EmptyCache.entries = {} /\ DOMAIN EmptyCache = {"generation", "entries"} /\ EmptyCache.generation = 0
      BY DEF EmptyCache
    <3>2. Good(EmptyCache, <<>>, 0)
      <4>1. LoadsOn(<<>>) = {}
        BY DEF LoadsOn
      <4> QED
        BY <3>1, <4>1, Shapes DEF Good, CacheOK, Numbered, Awaits, Newer, ReadSince
    <3>3. <<>> \o <<>> = <<>>
      BY Shapes, ConcatNothing
    <3>4. server.version \in Nat
      BY DEF BrowseInv, QueuesOK
    <3>5. SessionOK(ses, <<>>, <<>>, server.version)
      BY <3>2, <3>3, <3>4 DEF SessionOK
    <3>6. SessionOK(ses, <<>> \o <<Connect>>, <<>>, server.version)
      BY <3>5, SentKeeps, Shapes DEF Connect
    <3> QED
      BY <3>6, <2>1, <1>1, <1>4
  <2>2. CASE t # s
    <3>1. t \in DOMAIN app.sessions /\ t \in BrowseSessions /\ b.sessions[t] = a.sessions[t]
      BY <2>2, <1>2
    <3>2. SessionOK(app.sessions[t], inbox[t], outbox[t], server.version)
      BY <3>1 DEF BrowseInv, SessionsOK
    <3>3. SessionOK(b.sessions[t], inbox[t], outbox[t], server.version)
      BY <3>1, <3>2 DEF Alike, SessionOK
    <3>4. IsSequence(inbox[t]) /\ IsSequence(outbox[t])
      BY <3>1 DEF BrowseInv, QueuesOK, CommandsOK, AnswersOK
    <3>5. SessionOK(b.sessions[t], inbox[t] \o <<>>, outbox[t], server.version)
      BY <3>3, <3>4, SentKeeps
    <3> QED
      BY <3>1, <3>5, <2>2, <1>4
  <2> QED
    BY <2>1, <2>2
<1>6. \A t \in BrowseSessions \ (DOMAIN b.sessions \cup b.closed) :
        t \notin DOMAIN app.sessions \cup app.closed /\ out[t] = <<>>
  BY <1>2, <1>4
<1>7. b.spinning = app.spinning
  BY <1>2
<1> HIDE DEF out
<1> QED
  BY <1>3, <1>4, <1>5, <1>6, <1>7, UserKeeps DEF out

\* Enter on the connection, or on a tab of it: what the session is told.
LEMMA OpenKeeps ==
  ASSUME BrowseInv, NEW s \in Fresh(app)
  PROVE  /\ DOMAIN WithSession(app, s) = AppFields
         /\ WithSession(app, s).sessions =
              [t \in DOMAIN app.sessions \cup {s} |-> IF t = s THEN OnConnection ELSE app.sessions[t]]
         /\ WithSession(app, s).order = Append(app.order, s)
         /\ WithSession(app, s).closed = app.closed
         /\ WithSession(app, s).spinning = app.spinning
         /\ DOMAIN OnConnection = SessionFields
         /\ OnConnection.cache = EmptyCache /\ OnConnection.known = 0
<1>1. DOMAIN app = AppFields
  BY DEF BrowseInv, AppOK
<1>2. /\ DOMAIN OnConnection = SessionFields
      /\ OnConnection.cache = EmptyCache /\ OnConnection.known = 0
  BY DEF OnConnection, SessionFields
<1> QED
  BY <1>1, <1>2 DEF WithSession, AppFields

\* Doing nothing leaves the caches alone.
LEMMA AppIsAlike ==
  ASSUME BrowseInv
  PROVE  Alike(app)
BY DEF BrowseInv, AppOK, Alike

\* A session that connects again keeps its cache until it is connected.
LEMMA ReconnectingIsAlike ==
  ASSUME BrowseInv, NEW s \in DOMAIN app.sessions
  PROVE  Alike(Reconnecting(app, s))
<1> DEFINE ses == [app.sessions[s] EXCEPT !.status = "connecting"]
           b == Reconnecting(app, s)
<1>1. DOMAIN app = AppFields /\ DOMAIN app.sessions[s] = SessionFields
  BY DEF BrowseInv, AppOK
<1>2. DOMAIN ses = SessionFields /\ ses.cache = app.sessions[s].cache /\ ses.known = app.sessions[s].known
  BY <1>1 DEF SessionFields
<1>3. /\ DOMAIN b = AppFields /\ b.sessions = [app.sessions EXCEPT ![s] = ses]
      /\ b.order = app.order /\ b.closed = app.closed /\ b.spinning = app.spinning
  BY <1>1 DEF Reconnecting, AppFields
<1> HIDE DEF ses, b
<1>4. Alike(b)
  BY <1>2, <1>3, TouchedIsAlike
<1> QED
  BY <1>4 DEF b

\* Only the view changes: the tabs, the rows, what is open, the filter.
LEMMA ViewKeeps ==
  ASSUME BrowseInv, Switch \/ MoveTo \/ Collapse \/ ToggleSystemObjects \/ Filter \/ TypeFilter \/ ClearFilter
  PROVE  BrowseInv'
<1> DEFINE Viewed(a) == /\ DOMAIN a = AppFields /\ a.sessions = app.sessions /\ a.order = app.order
                        /\ a.closed = app.closed /\ a.spinning = app.spinning
<1>1. DOMAIN app = AppFields
  BY DEF BrowseInv, AppOK
<1>2. ASSUME NEW op, UserDoes(op), NEW a, Viewed(a), AndAfter(a, NoCommands)
      PROVE  BrowseInv'
  <2>1. Alike(a)
    BY <1>2, UntouchedIsAlike
  <2>2. Told(NoCommands, DOMAIN app.sessions)
    BY DEF Told
  <2> QED
    BY <1>2, <2>1, <2>2, AlikeKeeps
<1>3. \A s : Viewed([app EXCEPT !.active = s])
  BY <1>1 DEF AppFields
<1>4. \A i, k : Viewed([app EXCEPT !.selected = i, !.key = k])
  BY <1>1 DEF AppFields
<1>5. \A o : Viewed([app EXCEPT !.open = o])
  BY <1>1 DEF AppFields
<1>6. \A o : Viewed([app EXCEPT !.showSystem = o])
  BY <1>1 DEF AppFields
<1>7. \A k, t : Viewed([app EXCEPT !.filtering = TRUE, !.editing = TRUE, !.jump = FALSE,
                                   !.before = k, !.text = t])
  BY <1>1 DEF AppFields
<1>8. \A t, e : Viewed([app EXCEPT !.text = t, !.editing = e, !.jump = TRUE])
  BY <1>1 DEF AppFields
<1>9. \A k : Viewed([app EXCEPT !.filtering = FALSE, !.editing = FALSE, !.jump = FALSE, !.key = k])
  BY <1>1 DEF AppFields
<1> HIDE DEF Viewed
<1>10. CASE Switch
  BY <1>2, <1>3, <1>10 DEF Switch
<1>11. CASE MoveTo
  BY <1>2, <1>4, <1>11 DEF MoveTo
<1>12. CASE Collapse
  BY <1>2, <1>5, <1>12 DEF Collapse
<1>13. CASE ToggleSystemObjects
  BY <1>2, <1>6, <1>13 DEF ToggleSystemObjects
<1>14. CASE Filter
  BY <1>2, <1>7, <1>14 DEF Filter
<1>15. CASE TypeFilter
  BY <1>2, <1>8, <1>15 DEF TypeFilter
<1>16. CASE ClearFilter
  BY <1>2, <1>9, <1>16 DEF ClearFilter
<1> QED
  BY <1>10, <1>11, <1>12, <1>13, <1>14, <1>15, <1>16

\* One session is shown, described, run or connected otherwise.
LEMMA SessionTouched ==
  ASSUME BrowseInv, NEW s \in DOMAIN app.sessions, NEW f \in SessionFields \ {"cache", "known"}, NEW v,
         NEW a, DOMAIN a = AppFields, a.sessions = [app.sessions EXCEPT ![s] = [@ EXCEPT ![f] = v]],
         a.order = app.order, a.closed = app.closed, a.spinning = app.spinning
  PROVE  Alike(a)
<1> DEFINE ses == [app.sessions[s] EXCEPT ![f] = v]
<1>1. DOMAIN app.sessions[s] = SessionFields
  BY DEF BrowseInv, AppOK
<1>2. DOMAIN ses = SessionFields /\ ses.cache = app.sessions[s].cache /\ ses.known = app.sessions[s].known
  BY <1>1 DEF SessionFields
<1>3. a.sessions = [app.sessions EXCEPT ![s] = ses]
  OBVIOUS
<1> HIDE DEF ses
<1> QED
  BY <1>2, <1>3, TouchedIsAlike

\* Events that change one session beside its cache.
LEMMA ShownKeeps ==
  ASSUME BrowseInv, Reconnect \/ LeaveDescribe \/ RunDdl \/ CancelDdl
  PROVE  BrowseInv'
<1>1. DOMAIN app = AppFields /\ \A s \in DOMAIN app.sessions : DOMAIN app.sessions[s] = SessionFields
  BY DEF BrowseInv, AppOK
<1>2. CASE Reconnect
  <2> DEFINE s == ForConnection(app)
  <2>1. UserDoes("Reconnect") /\ AndAfter(Reconnecting(app, s), Only(s, Connect))
    BY <1>2 DEF Reconnect
  <2>2. s \in DOMAIN app.sessions
    BY <1>2, ForConnectionIs DEF Reconnect, BrowseInv
  <2> HIDE DEF s
  <2>3. Alike(Reconnecting(app, s)) /\ Told(Only(s, Connect), DOMAIN app.sessions)
    BY <2>2, ReconnectingIsAlike DEF Told
  <2> QED
    BY <2>1, <2>3, AlikeKeeps
<1>3. CASE LeaveDescribe
  <2> DEFINE s == app.active
             a == [app EXCEPT !.sessions[s].describe = NoPath]
  <2>1. UserDoes("Describe") /\ s \in DOMAIN app.sessions /\ AndAfter(a, NoCommands)
    BY <1>3 DEF LeaveDescribe
  <2>2. /\ DOMAIN a = AppFields
        /\ a.sessions = [app.sessions EXCEPT ![s] = [@ EXCEPT !["describe"] = NoPath]]
        /\ a.order = app.order /\ a.closed = app.closed /\ a.spinning = app.spinning
    BY <1>1 DEF AppFields
  <2>3. "describe" \in SessionFields \ {"cache", "known"}
    BY DEF SessionFields
  <2> HIDE DEF a, s
  <2>4. Alike(a)
    BY <2>1, <2>2, <2>3, SessionTouched
  <2>5. Told(NoCommands, DOMAIN app.sessions)
    BY DEF Told
  <2> QED
    BY <2>1, <2>4, <2>5, AlikeKeeps
<1>4. CASE CancelDdl
  <2> DEFINE s == app.active
             a == [app EXCEPT !.sessions[s].cancelled = TRUE]
  <2>1. UserDoes("Cancel") /\ s \in DOMAIN app.sessions /\ AndAfter(a, NoCommands)
    BY <1>4 DEF CancelDdl
  <2>2. /\ DOMAIN a = AppFields
        /\ a.sessions = [app.sessions EXCEPT ![s] = [@ EXCEPT !["cancelled"] = TRUE]]
        /\ a.order = app.order /\ a.closed = app.closed /\ a.spinning = app.spinning
    BY <1>1 DEF AppFields
  <2>3. "cancelled" \in SessionFields \ {"cache", "known"}
    BY DEF SessionFields
  <2> HIDE DEF a, s
  <2>4. Alike(a)
    BY <2>1, <2>2, <2>3, SessionTouched
  <2>5. Told(NoCommands, DOMAIN app.sessions)
    BY DEF Told
  <2> QED
    BY <2>1, <2>4, <2>5, AlikeKeeps
<1>5. CASE RunDdl
  <2> DEFINE s == app.active
             a == [app EXCEPT !.sessions[s].running = TRUE, !.sessions[s].cancelled = FALSE]
             ses == [app.sessions[s] EXCEPT !.running = TRUE, !.cancelled = FALSE]
  <2>1. UserDoes("Ddl") /\ s \in DOMAIN app.sessions /\ AndAfter(a, Only(s, Ddl))
    BY <1>5 DEF RunDdl, Opened
  <2>2. DOMAIN ses = SessionFields /\ ses.cache = app.sessions[s].cache /\ ses.known = app.sessions[s].known
    BY <1>1, <2>1 DEF SessionFields
  <2>3. /\ DOMAIN a = AppFields /\ a.sessions = [app.sessions EXCEPT ![s] = ses]
        /\ a.order = app.order /\ a.closed = app.closed /\ a.spinning = app.spinning
    BY <1>1, <2>1 DEF AppFields
  <2> HIDE DEF a, ses, s
  <2>4. Alike(a)
    BY <2>1, <2>2, <2>3, TouchedIsAlike
  <2>5. Told(Only(s, Ddl), DOMAIN app.sessions)
    BY <2>1 DEF Told
  <2> QED
    BY <2>1, <2>4, <2>5, AlikeKeeps
<1> QED
  BY <1>2, <1>3, <1>4, <1>5

\* A new session, or the one that is there.
LEMMA OpensKeep ==
  ASSUME BrowseInv, OpenConnection \/ OpenNewSession
  PROVE  BrowseInv'
<1>1. ASSUME NEW op, UserDoes(op), NEW s \in Fresh(app), AndAfter(WithSession(app, s), Only(s, Connect))
      PROVE  BrowseInv'
  <2> DEFINE b == WithSession(app, s)
             ses == OnConnection
  <2>1. /\ DOMAIN b = AppFields
        /\ b.sessions = [t \in DOMAIN app.sessions \cup {s} |-> IF t = s THEN ses ELSE app.sessions[t]]
        /\ b.order = Append(app.order, s) /\ b.closed = app.closed /\ b.spinning = app.spinning
        /\ DOMAIN ses = SessionFields /\ ses.cache = EmptyCache /\ ses.known = 0
    BY <1>1, OpenKeeps
  <2>2. AndAfter(b, Only(s, Connect))
    BY <1>1
  <2> HIDE DEF b, ses
  <2> QED
    BY <1>1, <2>1, <2>2, OpeningKeeps, AppIsAlike
<1>2. CASE OpenNewSession
  BY <1>1, <1>2 DEF OpenNewSession
<1>3. CASE OpenConnection
  <2>1. UserDoes("Open")
    BY <1>3 DEF OpenConnection
  <2>2. CASE DOMAIN app.sessions = {}
    <3>1. \E s \in Fresh(app) : AndAfter(WithSession(app, s), Only(s, Connect))
      BY <1>3, <2>2 DEF OpenConnection, OpenOrSwitch
    <3> QED
      BY <3>1, <2>1, <1>1
  <2>3. CASE DOMAIN app.sessions # {}
    <3> DEFINE s == ForConnection(app)
               a == [app EXCEPT !.active = s]
    <3>1. AndAfter(Reconnecting(app, s), Only(s, Connect)) \/ AndAfter(a, NoCommands)
      BY <1>3, <2>3 DEF OpenConnection, OpenOrSwitch
    <3>2. s \in DOMAIN app.sessions
      BY <2>3, ForConnectionIs DEF BrowseInv
    <3>3. Alike(Reconnecting(app, s)) /\ Told(Only(s, Connect), DOMAIN app.sessions)
      BY <3>2, ReconnectingIsAlike DEF Told
    <3>4. Alike(a) /\ Told(NoCommands, DOMAIN app.sessions)
      <4>1. DOMAIN app = AppFields
        BY DEF BrowseInv, AppOK
      <4>2. /\ DOMAIN a = AppFields /\ a.sessions = app.sessions /\ a.order = app.order
            /\ a.closed = app.closed /\ a.spinning = app.spinning
        BY <4>1 DEF AppFields
      <4> HIDE DEF a
      <4> QED
        BY <4>2, UntouchedIsAlike DEF Told
    <3> HIDE DEF a, s
    <3> QED
      BY <2>1, <3>1, <3>3, <3>4, AlikeKeeps
  <2> QED
    BY <2>2, <2>3
<1> QED
  BY <1>2, <1>3

\* A node opens; or the connection is connected, to open once it is.
LEMMA ExpandKeeps ==
  ASSUME BrowseInv, Expand
  PROVE  BrowseInv'
<1> DEFINE waits(a, s) == [a EXCEPT !.sessions[s].expand = TRUE]
<1>1. UserDoes("Expand")
  BY DEF Expand
<1>2. /\ DOMAIN app = AppFields /\ IsSequence(app.order)
      /\ \A s \in DOMAIN app.sessions : DOMAIN app.sessions[s] = SessionFields
  BY DEF BrowseInv, AppOK
<1>3. Told(NoCommands, DOMAIN app.sessions)
  BY DEF Told

\* A session that also opens its node once it is connected.
<1>4. ASSUME NEW a, Alike(a), NEW s \in DOMAIN app.sessions PROVE Alike(waits(a, s))
  <2> DEFINE b == waits(a, s)
  <2>1. /\ DOMAIN a = AppFields /\ DOMAIN a.sessions = DOMAIN app.sessions
        /\ \A t \in DOMAIN app.sessions : DOMAIN a.sessions[t] = SessionFields
    BY <1>4 DEF Alike, AppOK
  <2>2. /\ DOMAIN b = AppFields /\ b.order = a.order /\ b.closed = a.closed /\ b.spinning = a.spinning
        /\ b.sessions = [a.sessions EXCEPT ![s] = [@ EXCEPT !.expand = TRUE]]
    BY <2>1 DEF AppFields
  <2>3. /\ DOMAIN b.sessions = DOMAIN app.sessions
        /\ \A t \in DOMAIN app.sessions : /\ DOMAIN b.sessions[t] = SessionFields
                                          /\ b.sessions[t].cache = a.sessions[t].cache
                                          /\ b.sessions[t].known = a.sessions[t].known
    BY <2>1, <2>2, <1>4 DEF SessionFields
  <2> HIDE DEF b
  <2> QED
    BY <1>4, <2>2, <2>3 DEF Alike, AppOK, b
<1>5. CASE ~(app.key = ConnectionRow /\ Opened(app) = {})
  <2> DEFINE a == [app EXCEPT !.open = @ \cup {app.key}]
  <2>1. AndAfter(a, NoCommands)
    BY <1>5 DEF Expand
  <2>2. /\ DOMAIN a = AppFields /\ a.sessions = app.sessions /\ a.order = app.order
        /\ a.closed = app.closed /\ a.spinning = app.spinning
    BY <1>2 DEF AppFields
  <2> HIDE DEF a
  <2>3. Alike(a)
    BY <2>2, UntouchedIsAlike
  <2> QED
    BY <1>1, <1>3, <2>1, <2>3, AlikeKeeps
<1>6. CASE /\ app.key = ConnectionRow /\ Opened(app) = {} /\ DOMAIN app.sessions # {}
  <2> DEFINE s == ForConnection(app)
             b == [app EXCEPT !.active = s]
  <2>1. s \in DOMAIN app.sessions
    BY <1>6, ForConnectionIs DEF BrowseInv
  <2>2. \/ AndAfter(waits(app, s), NoCommands)
        \/ AndAfter(waits(Reconnecting(app, s), s), Only(s, Connect))
        \/ AndAfter(waits(b, s), NoCommands)
    BY <1>6 DEF Expand, OpenOrSwitch
  <2>3. Alike(app)
    BY AppIsAlike
  <2>4. Alike(b)
    <3>1. /\ DOMAIN b = AppFields /\ b.sessions = app.sessions /\ b.order = app.order
          /\ b.closed = app.closed /\ b.spinning = app.spinning
      BY <1>2 DEF AppFields
    <3> HIDE DEF b
    <3> QED
      BY <3>1, UntouchedIsAlike
  <2>5. Alike(Reconnecting(app, s)) /\ Told(Only(s, Connect), DOMAIN app.sessions)
    BY <2>1, ReconnectingIsAlike DEF Told
  <2>6. Alike(waits(app, s)) /\ Alike(waits(b, s)) /\ Alike(waits(Reconnecting(app, s), s))
    <3> HIDE DEF waits, s, b
    <3> QED
      BY <1>4, <2>1, <2>3, <2>4, <2>5
  <2> HIDE DEF waits, s, b
  <2> QED
    BY <1>1, <1>3, <2>2, <2>5, <2>6, AlikeKeeps
<1>7. CASE /\ app.key = ConnectionRow /\ Opened(app) = {} /\ DOMAIN app.sessions = {}
  <2>1. PICK s \in Fresh(app) : AndAfter(waits(WithSession(app, s), s), Only(s, Connect))
    BY <1>7 DEF Expand, OpenOrSwitch
  <2> DEFINE a == WithSession(app, s)
             b == waits(a, s)
             ses == [OnConnection EXCEPT !.expand = TRUE]
  <2>2. /\ DOMAIN a = AppFields
        /\ a.sessions = [t \in DOMAIN app.sessions \cup {s} |-> IF t = s THEN OnConnection ELSE app.sessions[t]]
        /\ a.order = Append(app.order, s) /\ a.closed = app.closed /\ a.spinning = app.spinning
    BY OpenKeeps
  <2>3. DOMAIN ses = SessionFields /\ ses.cache = EmptyCache /\ ses.known = 0
    BY DEF OnConnection, SessionFields
  <2> HIDE DEF a
  <2>4. /\ DOMAIN b = AppFields /\ b.order = a.order /\ b.closed = a.closed /\ b.spinning = a.spinning
        /\ b.sessions = [a.sessions EXCEPT ![s] = [@ EXCEPT !.expand = TRUE]]
    BY <2>2 DEF AppFields
  <2>5. b.sessions = [t \in DOMAIN app.sessions \cup {s} |-> IF t = s THEN ses ELSE app.sessions[t]]
    <3> HIDE DEF b
    <3>1. s \in DOMAIN app.sessions \cup {s} /\ a.sessions[s] = OnConnection
      BY <2>2
    <3>2. b.sessions = [a.sessions EXCEPT ![s] = ses]
      BY <2>4, <3>1
    <3> HIDE DEF ses
    <3> QED
      BY <2>2, <3>2
  <2>6. AndAfter(b, Only(s, Connect))
    BY <2>1 DEF a
  <2>7. /\ DOMAIN b = AppFields
        /\ b.order = Append(app.order, s) /\ b.closed = app.closed /\ b.spinning = app.spinning
    BY <2>2, <2>4
  <2> HIDE DEF b, ses, waits
  <2> QED
    BY <1>1, <2>3, <2>5, <2>6, <2>7, OpeningKeeps, AppIsAlike
<1> QED
  BY <1>5, <1>6, <1>7

\* A session closes: what it was told goes on to the end, heard by nobody.
LEMMA CloseKeeps ==
  ASSUME BrowseInv, Close
  PROVE  BrowseInv'
<1>1. PICK s \in DOMAIN app.sessions :
        AndAfter([app EXCEPT !.sessions = [t \in DOMAIN @ \ {s} |-> @[t]],
                             !.order = RemoveAt(@, Place(@, s)),
                             !.active = IF @ = s THEN Neighbour(app.order, s) ELSE @,
                             !.closed = @ \cup {s}],
                 NoCommands)
  BY DEF Close
<1> DEFINE a == [app EXCEPT !.sessions = [t \in DOMAIN @ \ {s} |-> @[t]],
                            !.order = RemoveAt(@, Place(@, s)),
                            !.active = IF @ = s THEN Neighbour(app.order, s) ELSE @,
                            !.closed = @ \cup {s}]
           o == app.order
           k == Place(o, s)
<1>2. UserDoes("Close") /\ AndAfter(a, NoCommands)
  BY <1>1 DEF Close
<1>3. AppOK(app) /\ DOMAIN app = AppFields
  BY DEF BrowseInv, AppOK
<1>4. /\ DOMAIN a = AppFields
      /\ a.sessions = [t \in DOMAIN app.sessions \ {s} |-> app.sessions[t]]
      /\ a.order = RemoveAt(o, k) /\ a.closed = app.closed \cup {s} /\ a.spinning = app.spinning
  BY <1>3 DEF AppFields
<1> HIDE DEF a
<1>5. /\ IsSequence(o) /\ DOMAIN o = 1..Len(o) /\ Len(o) \in Nat
      /\ k \in DOMAIN o /\ o[k] = s
  <2>1. \E i \in DOMAIN o : o[i] = s
    BY <1>3 DEF AppOK
  <2>2. k \in DOMAIN o /\ o[k] = s
    BY <2>1 DEF Place
  <2> QED
    BY <2>2, <1>3, SeqShape DEF AppOK, IsSequence
<1> HIDE DEF o, k

\* The other tabs stay.
<1>6. IsSequence(a.order) /\ \A i \in DOMAIN o : o[i] # s => \E j \in DOMAIN a.order : a.order[j] = o[i]
  <2> DEFINE x == SubSeq(o, 1, k - 1)
             y == SubSeq(o, k + 1, Len(o))
  <2>1. /\ IsSequence(x) /\ Len(x) = k - 1 /\ \A i \in 1..(k - 1) : x[i] = o[i]
        /\ IsSequence(y) /\ Len(y) = Len(o) - k /\ \A i \in 1..(Len(o) - k) : y[i] = o[k + i]
    <3> DEFINE S == {o[i] : i \in 1..Len(o)}
    <3>1. o \in Seq(S) /\ k \in 1..Len(o)
      BY <1>5, SeqShape
    <3> HIDE DEF S
    <3>2. x \in Seq(S) /\ Len(x) = k - 1 /\ \A i \in 1..(k - 1) : x[i] = o[i]
      BY <3>1
    <3>3. y \in Seq(S) /\ Len(y) = Len(o) - k /\ \A i \in 1..(Len(o) - k) : y[i] = o[k + i]
      BY <3>1
    <3> QED
      BY <3>2, <3>3, SeqShape
  <2>2. a.order = x \o y
    BY <1>4 DEF RemoveAt
  <2> HIDE DEF x, y
  <2>3. /\ IsSequence(a.order) /\ Len(a.order) = Len(o) - 1
        /\ DOMAIN a.order = 1..(Len(o) - 1)
        /\ \A i \in 1..(Len(o) - 1) : a.order[i] = IF i <= k - 1 THEN x[i] ELSE y[i - (k - 1)]
    <3>1. /\ IsSequence(x \o y) /\ Len(x \o y) = Len(x) + Len(y)
          /\ \A i \in 1..(Len(x) + Len(y)) : (x \o y)[i] = IF i <= Len(x) THEN x[i] ELSE y[i - Len(x)]
      BY <2>1, ConcatShape
    <3>2. Len(x) + Len(y) = Len(o) - 1
      BY <2>1, <1>5
    <3> QED
      BY <2>1, <2>2, <3>1, <3>2, SeqShape
  <2>4. ASSUME NEW i \in DOMAIN o, o[i] # s PROVE \E j \in DOMAIN a.order : a.order[j] = o[i]
    <3>1. i \in 1..Len(o) /\ k \in 1..Len(o) /\ i # k
      BY <2>4, <1>5
    <3>2. CASE i < k
      <4>1. i \in 1..(Len(o) - 1) /\ i <= k - 1 /\ i \in 1..(k - 1)
        BY <3>1, <3>2, <1>5
      <4> QED
        BY <4>1, <2>1, <2>3
    <3>3. CASE i > k
      <4>1. i - 1 \in 1..(Len(o) - 1) /\ ~(i - 1 <= k - 1) /\ (i - 1) - (k - 1) \in 1..(Len(o) - k)
            /\ k + ((i - 1) - (k - 1)) = i
        BY <3>1, <3>3, <1>5
      <4> DEFINE j == i - 1
                 h == j - (k - 1)
      <4> HIDE DEF j
      <4>2. a.order[j] = y[h]
        BY <4>1, <2>3 DEF j
      <4>3. h \in 1..(Len(o) - k) /\ k + h = i
        BY <4>1 DEF j
      <4> HIDE DEF h
      <4>4. y[h] = o[k + h]
        BY <4>3, <2>1
      <4>5. j \in DOMAIN a.order
        BY <4>1, <2>3 DEF j
      <4> QED
        BY <4>2, <4>3, <4>4, <4>5
    <3> QED
      BY <3>1, <3>2, <3>3
  <2> QED
    BY <2>3, <2>4
<1>7. AppOK(a)
  <2>1. \A t \in DOMAIN a.sessions : \E i \in DOMAIN a.order : a.order[i] = t
    <3> SUFFICES ASSUME NEW t \in DOMAIN a.sessions PROVE \E i \in DOMAIN a.order : a.order[i] = t
      OBVIOUS
    <3>1. t \in DOMAIN app.sessions /\ t # s
      BY <1>4
    <3>2. PICK i \in DOMAIN o : o[i] = t
      BY <3>1, <1>3 DEF AppOK, o
    <3> QED
      BY <3>1, <3>2, <1>6
  <2> QED
    BY <2>1, <1>3, <1>4, <1>6 DEF AppOK
<1>8. ASSUME NEW t \in DOMAIN a.sessions
      PROVE  SessionOK(a.sessions[t], inbox[t] \o NoCommands[t], outbox[t], server.version)
  <2>1. t \in DOMAIN app.sessions /\ t \in BrowseSessions /\ a.sessions[t] = app.sessions[t]
    BY <1>3, <1>4 DEF AppOK
  <2>2. SessionOK(a.sessions[t], inbox[t], outbox[t], server.version)
    BY <2>1 DEF BrowseInv, SessionsOK
  <2>3. IsSequence(inbox[t]) /\ IsSequence(outbox[t]) /\ NoCommands[t] = <<>>
    BY <2>1 DEF BrowseInv, QueuesOK, CommandsOK, AnswersOK, NoCommands
  <2> QED
    BY <2>2, <2>3, SentKeeps
<1>9. Told(NoCommands, {}) /\ \A t \in BrowseSessions : CommandsOK(NoCommands[t]) /\ NoCommands[t] = <<>>
  BY ToldIs DEF Told, NoCommands
<1>10. \A t \in BrowseSessions \ (DOMAIN a.sessions \cup a.closed) :
         t \notin DOMAIN app.sessions \cup app.closed /\ NoCommands[t] = <<>>
  BY <1>4, <1>9
<1> QED
  BY <1>2, <1>4, <1>7, <1>8, <1>9, <1>10, UserKeeps

\* A load that is asked for, unless it is in flight.
LEMMA LoadKeeps ==
  ASSUME BrowseInv, NEW op, UserDoes(op), NEW a, Alike(a), NEW s \in DOMAIN app.sessions, NEW path,
         Load(a, s, path)
  PROVE  BrowseInv'
<1>1. CASE Loading(a.sessions[s].cache, path)
  <2>1. AndAfter(a, NoCommands) /\ Told(NoCommands, DOMAIN app.sessions)
    BY <1>1 DEF Load, Told
  <2> QED
    BY <2>1, AlikeKeeps
<1>2. CASE ~Loading(a.sessions[s].cache, path)
  <2> DEFINE b == WithLoads(a, s, <<path>>)
             loads == LoadsOf(a, s, <<path>>)
             out == Only(s, loads[1])
             ses == [a.sessions[s] EXCEPT !.cache = BeginAll(@, <<path>>)]
  <2>1. AndAfter(b, out)
    BY <1>2 DEF Load
  <2>2. /\ AppOK(a) /\ a.spinning = app.spinning /\ a.closed = app.closed
        /\ DOMAIN a.sessions = DOMAIN app.sessions /\ DOMAIN app.sessions \subseteq BrowseSessions
        /\ DOMAIN a = AppFields /\ DOMAIN a.sessions[s] = SessionFields
    BY DEF Alike, AppOK
  <2>3. /\ DOMAIN ses = SessionFields /\ ses.cache = BeginAll(a.sessions[s].cache, <<path>>)
        /\ ses.known = a.sessions[s].known
    BY <2>2 DEF SessionFields
  <2>4. /\ DOMAIN b = AppFields /\ b.order = a.order /\ b.closed = a.closed /\ b.spinning = a.spinning
        /\ b.sessions = [a.sessions EXCEPT ![s] = ses]
    BY <2>2 DEF WithLoads, AppFields
  <2> HIDE DEF b, ses
  <2>5. AppOK(b)
    BY <2>2, <2>3, <2>4 DEF AppOK
  <2>6. /\ IsSequence(loads) /\ \A i \in DOMAIN loads : loads[i].type = "load"
        /\ \A way, known : Good(a.sessions[s].cache, way, known) =>
             Good(BeginAll(a.sessions[s].cache, <<path>>), way \o loads, known)
    BY <2>2, Shapes, LoadsBegin
  <2>7. DOMAIN loads = {1} /\ loads = <<loads[1]>>
    <3>1. DOMAIN <<path>> = {1}
      OBVIOUS
    <3>2. DOMAIN loads = {1}
      BY <3>1 DEF LoadsOf
    <3>3. DOMAIN loads = 1..Len(loads) /\ Len(loads) \in Nat
      BY <2>6, SeqShape DEF IsSequence
    <3>4. Len(loads) = 1
      BY <3>2, <3>3
    <3> HIDE DEF loads
    <3>5. loads = [i \in 1..1 |-> loads[i]]
      BY <2>6, <3>4 DEF IsSequence
    <3>6. <<loads[1]>> = [i \in 1..1 |-> loads[i]]
      OBVIOUS
    <3> QED
      BY <3>2, <3>5, <3>6
  <2>8. /\ out[s] = loads /\ \A t \in BrowseSessions \ {s} : out[t] = <<>>
        /\ \A t \in BrowseSessions : CommandsOK(out[t])
    <3>1. s \in BrowseSessions
      BY <2>2
    <3>2. out[s] = <<loads[1]>> /\ \A t \in BrowseSessions \ {s} : out[t] = <<>>
      BY <3>1 DEF Only, NoCommands
    <3>3. CommandsOK(<<>>) /\ CommandsOK(loads)
      BY <2>6, Shapes DEF CommandsOK, MessageTypes
    <3> HIDE DEF out
    <3>4. out[s] = loads
      BY <3>2, <2>7
    <3> QED
      BY <3>2, <3>3, <3>4
  <2> HIDE DEF loads, out
  <2>9. ASSUME NEW t \in DOMAIN b.sessions
        PROVE  SessionOK(b.sessions[t], inbox[t] \o out[t], outbox[t], server.version)
    <3>1. t \in DOMAIN app.sessions /\ t \in BrowseSessions
      BY <2>2, <2>4
    <3>2. SessionOK(app.sessions[t], inbox[t], outbox[t], server.version)
      BY <3>1 DEF BrowseInv, SessionsOK
    <3>3. IsSequence(inbox[t]) /\ IsSequence(outbox[t])
      BY <3>1 DEF BrowseInv, QueuesOK, CommandsOK, AnswersOK
    <3>4. SessionOK(a.sessions[t], inbox[t], outbox[t], server.version)
      BY <3>1, <3>2 DEF Alike, SessionOK
    <3>5. CASE t # s
      <4>1. b.sessions[t] = a.sessions[t] /\ out[t] = <<>>
        BY <3>1, <3>5, <2>2, <2>4, <2>8
      <4>2. SessionOK(a.sessions[t], inbox[t] \o <<>>, outbox[t], server.version)
        BY <3>3, <3>4, SentKeeps
      <4> QED
        BY <4>1, <4>2
    <3>6. CASE t = s
      <4>1. b.sessions[t] = ses /\ out[t] = loads
        BY <3>1, <3>6, <2>2, <2>4, <2>8
      <4> DEFINE x == outbox[t]
                 y == inbox[t]
      <4>2. Good(a.sessions[s].cache, x \o y, a.sessions[s].known)
        BY <3>4, <3>6 DEF SessionOK
      <4>3. IsSequence(x) /\ IsSequence(y)
        BY <3>3
      <4> HIDE DEF x, y
      <4>4. Good(ses.cache, (x \o y) \o loads, ses.known)
        BY <4>2, <2>3, <2>6
      <4>5. x \o (y \o loads) = (x \o y) \o loads
        BY <4>3, <2>6, ConcatAgain
      <4>6. Good(ses.cache, outbox[t] \o (inbox[t] \o loads), ses.known)
        BY <4>4, <4>5 DEF x, y
      <4> QED
        BY <4>1, <4>6, <3>4, <3>6, <2>3 DEF SessionOK
    <3> QED
      BY <3>5, <3>6
  <2>10. \A t \in BrowseSessions \ (DOMAIN b.sessions \cup b.closed) :
           t \notin DOMAIN app.sessions \cup app.closed /\ out[t] = <<>>
    BY <2>2, <2>4, <2>8
  <2>11. b.spinning = app.spinning
    BY <2>2, <2>4
  <2> QED
    BY <2>1, <2>5, <2>8, <2>9, <2>10, <2>11, UserKeeps
<1> QED
  BY <1>1, <1>2

\* Events that ask for loads of their own.
LEMMA AskingKeeps ==
  ASSUME BrowseInv, Refresh \/ Describe
  PROVE  BrowseInv'
<1>1. CASE Refresh
  <2> DEFINE s == SchemaSession(app)
  <2>1. UserDoes("Refresh") /\ s # Scratch /\ Load(app, s, PathOf(app.key))
    BY <1>1 DEF Refresh
  <2>2. s \in DOMAIN app.sessions
    BY <2>1, SchemaSessionIs DEF BrowseInv
  <2> HIDE DEF s
  <2> QED
    BY <2>1, <2>2, AppIsAlike, LoadKeeps
<1>2. CASE Describe
  <2> DEFINE s == SchemaSession(app)
             path == PathOf(app.key)
             a == [app EXCEPT !.active = s, !.sessions[s].describe = path]
  <2>1. UserDoes("Describe") /\ s # Scratch /\ (Load(a, s, path) \/ AndAfter(a, NoCommands))
    BY <1>2 DEF Describe
  <2>2. s \in DOMAIN app.sessions
    BY <2>1, SchemaSessionIs DEF BrowseInv
  <2>3. DOMAIN app = AppFields
    BY DEF BrowseInv, AppOK
  <2>4. /\ DOMAIN a = AppFields
        /\ a.sessions = [app.sessions EXCEPT ![s] = [@ EXCEPT !["describe"] = path]]
        /\ a.order = app.order /\ a.closed = app.closed /\ a.spinning = app.spinning
    BY <2>3 DEF AppFields
  <2>5. "describe" \in SessionFields \ {"cache", "known"}
    BY DEF SessionFields
  <2> HIDE DEF a, s, path
  <2>6. Alike(a) /\ Told(NoCommands, DOMAIN app.sessions)
    BY <2>2, <2>4, <2>5, SessionTouched DEF Told
  <2> QED
    BY <2>1, <2>2, <2>6, AlikeKeeps, LoadKeeps
<1> QED
  BY <1>1, <1>2

\* `R`: the schema session's cache goes.
LEMMA RefreshAllKeeps ==
  ASSUME BrowseInv, RefreshAll
  PROVE  BrowseInv'
<1> DEFINE s == SchemaSession(app)
           a == [app EXCEPT !.sessions[s].cache = Clear(@)]
           ses == [app.sessions[s] EXCEPT !.cache = Clear(@)]
<1>1. UserDoes("RefreshAll") /\ s # Scratch /\ AndAfter(a, NoCommands)
  BY DEF RefreshAll
<1>2. s \in DOMAIN app.sessions
  BY <1>1, SchemaSessionIs DEF BrowseInv
<1>3. DOMAIN app = AppFields /\ AppOK(app) /\ DOMAIN app.sessions[s] = SessionFields
  BY <1>2 DEF BrowseInv, AppOK
<1>4. DOMAIN ses = SessionFields /\ ses.cache = Clear(app.sessions[s].cache) /\ ses.known = app.sessions[s].known
  BY <1>3 DEF SessionFields
<1>5. /\ DOMAIN a = AppFields /\ a.sessions = [app.sessions EXCEPT ![s] = ses]
      /\ a.order = app.order /\ a.closed = app.closed /\ a.spinning = app.spinning
  BY <1>3 DEF AppFields
<1> HIDE DEF s, a, ses
<1>6. AppOK(a)
  BY <1>2, <1>3, <1>4, <1>5 DEF AppOK
<1>7. ASSUME NEW t \in DOMAIN a.sessions
      PROVE  SessionOK(a.sessions[t], inbox[t] \o NoCommands[t], outbox[t], server.version)
  <2>1. t \in DOMAIN app.sessions /\ t \in BrowseSessions
    BY <1>3, <1>5 DEF AppOK
  <2>2. SessionOK(app.sessions[t], inbox[t], outbox[t], server.version)
    BY <2>1 DEF BrowseInv, SessionsOK
  <2>3. IsSequence(inbox[t]) /\ IsSequence(outbox[t]) /\ NoCommands[t] = <<>>
    BY <2>1 DEF BrowseInv, QueuesOK, CommandsOK, AnswersOK, NoCommands
  <2>4. SessionOK(a.sessions[t], inbox[t], outbox[t], server.version)
    <3>1. CASE t # s
      BY <3>1, <2>1, <2>2, <1>5
    <3>2. CASE t = s
      <4>1. a.sessions[t] = ses
        BY <3>2, <1>2, <1>5
      <4>2. Good(app.sessions[t].cache, outbox[t] \o inbox[t], app.sessions[t].known)
        BY <2>2 DEF SessionOK
      <4>3. app.sessions[t].known \in Nat
        BY <4>2 DEF Good
      <4>4. Good(ses.cache, outbox[t] \o inbox[t], ses.known)
        BY <4>2, <4>3, <3>2, <1>4, ClearKeeps
      <4> QED
        BY <4>1, <4>4, <2>2, <3>2, <1>4 DEF SessionOK
    <3> QED
      BY <3>1, <3>2
  <2> QED
    BY <2>3, <2>4, SentKeeps
<1>8. Told(NoCommands, {}) /\ \A t \in BrowseSessions : CommandsOK(NoCommands[t]) /\ NoCommands[t] = <<>>
  BY ToldIs DEF Told, NoCommands
<1>9. \A t \in BrowseSessions \ (DOMAIN a.sessions \cup a.closed) :
        t \notin DOMAIN app.sessions \cup app.closed /\ NoCommands[t] = <<>>
  BY <1>5, <1>8
<1> QED
  BY <1>1, <1>5, <1>6, <1>7, <1>8, <1>9, UserKeeps
-----------------------------------------------------------------------------
(* The workers, their answers, and the spinner. *)

\* What a server has at a path is a list.
LEMMA ContentsShape ==
  ASSUME NEW path
  PROVE  IsSequence(Contents(path))
<1>1. \A x, y : IsSequence(<<x, y>>)
  BY DEF IsSequence
<1>2. IsSequence((IF server.extra THEN <<"a">> ELSE <<>>) \o <<"t", "v">>)
  <2>1. IsSequence(IF server.extra THEN <<"a">> ELSE <<>>)
    BY Shapes
  <2> QED
    BY <2>1, <1>1, ConcatShape
<1> QED
  BY <1>1, <1>2, Shapes DEF Contents

\* One command becomes its answer, which is of the schema as it then is.
LEMMA WorkKeeps ==
  ASSUME BrowseInv, NEW s \in BrowseSessions, Work(s)
  PROVE  BrowseInv'
<1> DEFINE x == outbox[s]
           y == inbox[s]
           command == Head(y)
<1>1. /\ y # <<>> /\ inbox' = [inbox EXCEPT ![s] = Tail(y)]
      /\ app' = app /\ frames' = frames /\ ops' = ops
  BY DEF Work
<1>2. PICK ok \in BOOLEAN : \E items :
        /\ IsSequence(items)
        /\ outbox' = [outbox EXCEPT ![s] = Append(x, Answer(command, ok, items, server'.version))]
        /\ server' = server \/ (server'.version = server.version + 1)
  <2>1. PICK ok \in BOOLEAN :
          /\ server' = IF command.type = "ddl" /\ ok
                       THEN [extra |-> ~server.extra, version |-> server.version + 1]
                       ELSE server
          /\ outbox' = [outbox EXCEPT ![s] = Append(@,
               Answer(command, ok,
                      IF command.type = "load" /\ ok /\ ~Gone(command.path)
                      THEN Contents(command.path) ELSE <<>>,
                      server'.version))]
    BY DEF Work
  <2>2. IsSequence(IF command.type = "load" /\ ok /\ ~Gone(command.path)
                   THEN Contents(command.path) ELSE <<>>)
    BY ContentsShape, Shapes
  <2>3. server' = server \/ (server'.version = server.version + 1)
    BY <2>1
  <2> QED
    BY <2>1, <2>2, <2>3
<1>2a. PICK items :
        /\ IsSequence(items)
        /\ outbox' = [outbox EXCEPT ![s] = Append(x, Answer(command, ok, items, server'.version))]
        /\ server' = server \/ (server'.version = server.version + 1)
  BY <1>2
<1> DEFINE m == Answer(command, ok, items, server'.version)
<1>3. /\ m.type = command.type /\ m.path = command.path /\ m.generation = command.generation
      /\ m.ok = ok /\ m.value.items = items /\ m.value.read = server'.version
  BY DEF Answer
<1>4. /\ DOMAIN inbox = BrowseSessions /\ DOMAIN outbox = BrowseSessions
      /\ CommandsOK(y) /\ AnswersOK(x, server.version) /\ server.version \in Nat
  BY DEF BrowseInv, QueuesOK
<1>5. server'.version \in Nat /\ server.version <= server'.version
  <2>1. \A v \in Nat : v + 1 \in Nat /\ v <= v + 1 /\ v <= v
    OBVIOUS
  <2> QED
    BY <2>1, <1>2a, <1>4
<1> HIDE DEF x, y, command, m
<1>6. /\ IsSequence(y) /\ IsSequence(Tail(y)) /\ command = y[1] /\ Len(y) >= 1
      /\ Len(Tail(y)) = Len(y) - 1 /\ \A i \in 1..(Len(y) - 1) : Tail(y)[i] = y[i + 1]
      /\ DOMAIN y = 1..Len(y) /\ DOMAIN Tail(y) = 1..(Len(y) - 1) /\ Len(y) \in Nat
  <2>1. IsSequence(y)
    BY <1>4 DEF CommandsOK
  <2> QED
    BY <2>1, <1>1, TailShape, SeqShape DEF IsSequence, command
<1>7. /\ IsSequence(x) /\ DOMAIN x = 1..Len(x) /\ Len(x) \in Nat
      /\ IsSequence(Append(x, m)) /\ Len(Append(x, m)) = Len(x) + 1
      /\ DOMAIN Append(x, m) = 1..(Len(x) + 1)
      /\ \A i \in 1..Len(x) : Append(x, m)[i] = x[i]
      /\ Append(x, m)[Len(x) + 1] = m
  <2>1. IsSequence(x) /\ DOMAIN x = 1..Len(x) /\ Len(x) \in Nat
    BY <1>4, SeqShape DEF AnswersOK, CommandsOK, IsSequence
  <2> DEFINE S == {x[i] : i \in 1..Len(x)} \cup {m}
  <2>2. x \in Seq(S) /\ m \in S
    BY <2>1, SeqShape
  <2> HIDE DEF S
  <2>3. /\ Append(x, m) \in Seq(S) /\ Len(Append(x, m)) = Len(x) + 1
        /\ DOMAIN Append(x, m) = 1..(Len(x) + 1)
        /\ \A i \in 1..Len(x) : Append(x, m)[i] = x[i]
        /\ Append(x, m)[Len(x) + 1] = m
    BY <2>2
  <2> QED
    BY <2>1, <2>3, SeqShape
<1>8. /\ inbox'[s] = Tail(y) /\ outbox'[s] = Append(x, m)
      /\ \A t \in BrowseSessions \ {s} : inbox'[t] = inbox[t] /\ outbox'[t] = outbox[t]
      /\ DOMAIN inbox' = BrowseSessions /\ DOMAIN outbox' = BrowseSessions
  BY <1>1, <1>2a, <1>4 DEF x, y, m
<1>9. CommandsOK(Tail(y))
  BY <1>4, <1>6 DEF CommandsOK

\* Older answers are of an older schema.
<1>10. ASSUME NEW q, AnswersOK(q, server.version) PROVE AnswersOK(q, server'.version)
  <2>1. \A n \in Nat : n <= server.version => n <= server'.version
    BY <1>4, <1>5
  <2> QED
    BY <2>1, <1>10 DEF AnswersOK
<1>11. AnswersOK(Append(x, m), server'.version)
  <2> DEFINE q == Append(x, m)
  <2>1. AnswersOK(x, server'.version)
    BY <1>4, <1>10
  <2>2. m.type \in MessageTypes
    BY <1>3, <1>4, <1>6 DEF CommandsOK
  <2>3. \A i \in 1..(Len(x) + 1) : i \in 1..Len(x) \/ i = Len(x) + 1
    BY <1>7
  <2>4. \A i \in DOMAIN q : q[i] = m \/ (i \in DOMAIN x /\ q[i] = x[i])
    BY <2>3, <1>7
  <2>5. \A i, j \in DOMAIN q : i < j => i \in DOMAIN x /\ q[i] = x[i] /\ (q[j] = m \/ (j \in DOMAIN x /\ q[j] = x[j]))
    BY <2>3, <1>7
  <2>6. /\ m.ok \in BOOLEAN /\ IsSequence(m.value.items)
        /\ m.value.read \in Nat /\ m.value.read <= server'.version
    BY <1>2a, <1>3, <1>5
  <2>7. \A i \in DOMAIN x : x[i].value.read <= m.value.read
    BY <2>1, <1>3 DEF AnswersOK
  <2> HIDE DEF q
  <2>8. CommandsOK(q)
    BY <2>1, <2>2, <2>4, <1>7 DEF AnswersOK, CommandsOK, q
  <2>9. \A i \in DOMAIN q : /\ q[i].ok \in BOOLEAN /\ IsSequence(q[i].value.items)
                            /\ q[i].value.read \in Nat /\ q[i].value.read <= server'.version
    BY <2>1, <2>4, <2>6 DEF AnswersOK
  <2>10. \A i, j \in DOMAIN q : i < j => q[i].value.read <= q[j].value.read
    BY <2>1, <2>5, <2>7 DEF AnswersOK
  <2> QED
    BY <2>8, <2>9, <2>10 DEF AnswersOK, q
<1>12. QueuesOK'
  <2>1. ASSUME NEW t \in BrowseSessions
        PROVE  CommandsOK(inbox'[t]) /\ AnswersOK(outbox'[t], server'.version)
    <3>1. CASE t = s
      BY <3>1, <1>8, <1>9, <1>11
    <3>2. CASE t # s
      BY <3>2, <1>8, <1>10 DEF BrowseInv, QueuesOK
    <3> QED
      BY <3>1, <3>2
  <2> QED
    BY <2>1, <1>5, <1>8 DEF QueuesOK
<1>13. SessionsOK(app)'
  <2> SUFFICES ASSUME NEW t \in DOMAIN app.sessions
               PROVE  SessionOK(app.sessions[t], inbox'[t], outbox'[t], server'.version)
    BY <1>1 DEF SessionsOK
  <2> DEFINE ses == app.sessions[t]
  <2>1. SessionOK(ses, inbox[t], outbox[t], server.version) /\ t \in BrowseSessions
    BY DEF BrowseInv, SessionsOK, AppOK
  <2>2. ses.known <= server'.version /\ ses.known \in Nat
    <3>1. ses.known \in Nat /\ ses.known <= server.version
      BY <2>1 DEF SessionOK, Good
    <3> HIDE DEF ses
    <3> QED
      BY <3>1, <1>4, <1>5
  <2>3. CASE t # s
    BY <2>1, <2>2, <2>3, <1>8 DEF SessionOK
  <2>4. CASE t = s
    <3> DEFINE old == x \o y
               new == Append(x, m) \o Tail(y)
    <3>1. Good(ses.cache, old, ses.known)
      BY <2>1, <2>4 DEF SessionOK, x, y
    <3>2. /\ IsSequence(old) /\ Len(old) = Len(x) + Len(y) /\ DOMAIN old = 1..(Len(x) + Len(y))
          /\ \A i \in 1..(Len(x) + Len(y)) : old[i] = IF i <= Len(x) THEN x[i] ELSE y[i - Len(x)]
      BY <1>6, <1>7, ConcatShape, SeqShape
    <3>3. /\ IsSequence(new) /\ Len(new) = Len(x) + Len(y)
          /\ \A i \in 1..(Len(x) + Len(y)) :
               new[i] = IF i <= Len(x) + 1 THEN Append(x, m)[i] ELSE Tail(y)[i - (Len(x) + 1)]
      <4> DEFINE u == Append(x, m)
                 v == Tail(y)
      <4>1. IsSequence(u) /\ IsSequence(v) /\ Len(u) = Len(x) + 1 /\ Len(v) = Len(y) - 1
        BY <1>6, <1>7
      <4> HIDE DEF u, v
      <4>2. Len(u) + Len(v) = Len(x) + Len(y)
        BY <4>1, <1>6, <1>7
      <4>3. /\ IsSequence(u \o v) /\ Len(u \o v) = Len(x) + Len(y)
            /\ \A i \in 1..(Len(x) + Len(y)) : (u \o v)[i] = IF i <= Len(x) + 1 THEN u[i] ELSE v[i - (Len(x) + 1)]
        BY <4>1, <4>2, ConcatShape
      <4> QED
        BY <4>3 DEF u, v
    <3> HIDE DEF old, new
    <3>4. ASSUME NEW i \in DOMAIN old
          PROVE  /\ new[i].type = old[i].type /\ new[i].path = old[i].path
                 /\ new[i].generation = old[i].generation
      <4>1. CASE i <= Len(x)
        <5>1. i \in 1..Len(x) /\ i <= Len(x) + 1
          BY <4>1, <3>2, <1>7
        <5>2. new[i] = old[i]
          BY <5>1, <4>1, <3>2, <3>3, <1>7
        <5> QED
          BY <5>2
      <4>2. CASE i = Len(x) + 1
        <5>1. i <= Len(x) + 1 /\ ~(i <= Len(x)) /\ i - Len(x) = 1
          BY <4>2, <1>7
        <5>2. new[i] = m /\ old[i] = y[1]
          BY <5>1, <4>2, <3>2, <3>3, <1>7
        <5> QED
          BY <5>2, <1>3, <1>6
      <4>3. CASE i > Len(x) + 1
        <5> DEFINE k == i - (Len(x) + 1)
        <5>1. /\ ~(i <= Len(x) + 1) /\ ~(i <= Len(x)) /\ k \in 1..(Len(y) - 1) /\ k + 1 = i - Len(x)
          BY <4>3, <3>2, <1>6, <1>7
        <5>2. new[i] = Tail(y)[k] /\ old[i] = y[i - Len(x)]
          BY <5>1, <3>2, <3>3
        <5> HIDE DEF k
        <5>3. Tail(y)[k] = y[k + 1]
          BY <5>1, <1>6
        <5> QED
          BY <5>1, <5>2, <5>3
      <4> QED
        BY <4>1, <4>2, <4>3, <3>2, <1>7
    <3>5. Good(ses.cache, new, ses.known)
      BY <3>1, <3>2, <3>3, <3>4, AnsweredAlike
    <3>6. \A i \in DOMAIN Append(x, m) : ses.known <= Append(x, m)[i].value.read
      <4>1. \A i \in 1..(Len(x) + 1) : i \in 1..Len(x) \/ i = Len(x) + 1
        BY <1>7
      <4>2. \A i \in DOMAIN x : ses.known <= x[i].value.read
        BY <2>1, <2>4 DEF SessionOK, x
      <4>3. ses.known <= m.value.read
        BY <2>2, <1>3
      <4> HIDE DEF ses
      <4> QED
        BY <4>1, <4>2, <4>3, <1>7
    <3> QED
      BY <3>5, <3>6, <2>2, <2>4, <1>8 DEF SessionOK, new
  <2> QED
    BY <2>3, <2>4
<1>14. UnopenedIsQuiet'
  <2> SUFFICES ASSUME NEW t \in BrowseSessions \ (DOMAIN app.sessions \cup app.closed)
               PROVE  inbox'[t] = <<>> /\ outbox'[t] = <<>>
    BY <1>1 DEF UnopenedIsQuiet
  <2>1. inbox[t] = <<>> /\ outbox[t] = <<>>
    BY DEF BrowseInv, UnopenedIsQuiet
  <2>2. t # s
    BY <2>1, <1>1 DEF y
  <2> QED
    BY <2>1, <2>2, <1>8
<1>15. (AppOK(app) /\ ~app.jump /\ SpinnerOK /\ OpsOK)'
  BY <1>1 DEF BrowseInv, SpinnerOK, OpsOK
<1> QED
  BY <1>12, <1>13, <1>14, <1>15 DEF BrowseInv

\* An answer that leaves the others' sessions alone, and its own sound.
LEMMA HeardKeeps ==
  ASSUME BrowseInv, NEW s \in BrowseSessions, outbox[s] # <<>>,
         outbox' = [outbox EXCEPT ![s] = Tail(@)], UNCHANGED <<server, ops>>,
         NEW a, AndAfter(a, NoCommands), AppOK(a), a.closed = app.closed, a.spinning = app.spinning,
         DOMAIN a.sessions = DOMAIN app.sessions,
         \A t \in DOMAIN app.sessions \ {s} : a.sessions[t] = app.sessions[t],
         s \in DOMAIN app.sessions =>
           SessionOK(a.sessions[s], inbox[s], Tail(outbox[s]), server.version)
  PROVE  BrowseInv'
<1>1. /\ DOMAIN inbox = BrowseSessions /\ DOMAIN outbox = BrowseSessions /\ server.version \in Nat
      /\ \A t \in BrowseSessions : CommandsOK(inbox[t]) /\ AnswersOK(outbox[t], server.version)
  BY DEF BrowseInv, QueuesOK
<1>2. /\ DOMAIN outbox' = BrowseSessions /\ outbox'[s] = Tail(outbox[s])
      /\ \A t \in BrowseSessions \ {s} : outbox'[t] = outbox[t]
  BY <1>1
<1>3. AnswersOK(Tail(outbox[s]), server.version)
  <2> DEFINE q == outbox[s]
  <2>1. AnswersOK(q, server.version) /\ q # <<>>
    BY <1>1
  <2> HIDE DEF q
  <2>2. /\ IsSequence(Tail(q)) /\ Len(Tail(q)) = Len(q) - 1 /\ IsSequence(q) /\ Len(q) \in Nat
        /\ \A i \in 1..(Len(q) - 1) : Tail(q)[i] = q[i + 1]
    BY <2>1, TailShape DEF AnswersOK, CommandsOK, IsSequence
  <2>3. DOMAIN q = 1..Len(q) /\ DOMAIN Tail(q) = 1..(Len(q) - 1)
    BY <2>2, SeqShape
  <2>4. \A i \in DOMAIN Tail(q) : i + 1 \in DOMAIN q /\ Tail(q)[i] = q[i + 1]
    BY <2>2, <2>3
  <2>5. CommandsOK(Tail(q))
    BY <2>1, <2>2, <2>4 DEF AnswersOK, CommandsOK
  <2>6. ASSUME NEW i \in DOMAIN Tail(q), NEW j \in DOMAIN Tail(q), i < j
        PROVE  Tail(q)[i].value.read <= Tail(q)[j].value.read
    <3>1. i + 1 < j + 1
      BY <2>3, <2>6
    <3> QED
      BY <3>1, <2>1, <2>4 DEF AnswersOK
  <2>7. AnswersOK(Tail(q), server.version)
    BY <2>1, <2>4, <2>5, <2>6 DEF AnswersOK
  <2> QED
    BY <2>7 DEF q
<1>4. \A t \in BrowseSessions : AnswersOK(outbox'[t], server'.version)
  <2>1. server' = server
    OBVIOUS
  <2>2. ASSUME NEW t \in BrowseSessions PROVE AnswersOK(outbox'[t], server.version)
    BY <1>1, <1>2, <1>3
  <2> QED
    BY <2>1, <2>2
<1>5. Told(NoCommands, {}) /\ \A t \in BrowseSessions : CommandsOK(NoCommands[t]) /\ NoCommands[t] = <<>>
  BY ToldIs DEF Told, NoCommands
<1>6. ASSUME NEW t \in DOMAIN a.sessions
      PROVE  SessionOK(a.sessions[t], inbox[t] \o NoCommands[t], outbox'[t], server'.version)
  <2>1. t \in BrowseSessions /\ server' = server
    BY <1>6 DEF AppOK
  <2>2. SessionOK(a.sessions[t], inbox[t], outbox'[t], server.version)
    <3>1. CASE t = s
      BY <3>1, <1>2
    <3>2. CASE t # s
      BY <3>2, <2>1, <1>2 DEF BrowseInv, SessionsOK
    <3> QED
      BY <3>1, <3>2
  <2>3. IsSequence(inbox[t]) /\ IsSequence(outbox'[t])
    BY <2>1, <1>1, <1>4 DEF CommandsOK, AnswersOK
  <2>4. SessionOK(a.sessions[t], inbox[t] \o <<>>, outbox'[t], server.version)
    BY <2>2, <2>3, SentKeeps
  <2> QED
    BY <2>1, <2>4, <1>5
<1>7. \A t \in BrowseSessions \ (DOMAIN a.sessions \cup a.closed) :
        inbox[t] = <<>> /\ NoCommands[t] = <<>> /\ outbox'[t] = <<>>
  <2> SUFFICES ASSUME NEW t \in BrowseSessions \ (DOMAIN a.sessions \cup a.closed)
               PROVE  inbox[t] = <<>> /\ NoCommands[t] = <<>> /\ outbox'[t] = <<>>
    OBVIOUS
  <2>1. inbox[t] = <<>> /\ outbox[t] = <<>>
    BY DEF BrowseInv, UnopenedIsQuiet
  <2> QED
    BY <2>1, <1>2, <1>5
<1>8. OpsOK' /\ server'.version \in Nat
  BY <1>1 DEF BrowseInv, OpsOK
<1> QED
  BY <1>2, <1>4, <1>5, <1>6, <1>7, <1>8, AfterKeeps

\* What an answer leaves of its session: what a load brought, or nothing, or all
\* that was.
LEMMA AnswerKeeps ==
  ASSUME BrowseInv, NEW s \in DOMAIN app.sessions, outbox[s] # <<>>, NEW c,
         NEW answer, answer = Head(outbox[s]), NEW known,
         \/ /\ answer.type = "load" /\ known = app.sessions[s].known
            /\ c = Finish(app.sessions[s].cache, answer.path, answer.generation,
                          [ok |-> answer.ok, value |-> answer.value])
         \/ /\ answer.type # "load"
            /\ \/ c = app.sessions[s].cache /\ known = app.sessions[s].known
               \/ c = Clear(app.sessions[s].cache) /\ known = answer.value.read
  PROVE  \A ses : ses.cache = c /\ ses.known = known =>
           SessionOK(ses, inbox[s], Tail(outbox[s]), server.version)
<1> DEFINE x == outbox[s]
           y == inbox[s]
           t == Tail(x)
           old == app.sessions[s].cache
           n == app.sessions[s].known
           way == x \o y
<1>1. /\ s \in BrowseSessions /\ SessionOK(app.sessions[s], y, x, server.version)
      /\ AnswersOK(x, server.version) /\ CommandsOK(y) /\ server.version \in Nat
  BY DEF BrowseInv, SessionsOK, QueuesOK, AppOK
<1>2. /\ Good(old, way, n) /\ n <= server.version /\ n \in Nat
      /\ \A i \in DOMAIN x : n <= x[i].value.read
  BY <1>1 DEF SessionOK, Good
<1> HIDE DEF x, y, old, n, way
<1>3. /\ IsSequence(x) /\ IsSequence(t) /\ answer = x[1] /\ 1 \in DOMAIN x
      /\ \A i \in DOMAIN t : i + 1 \in DOMAIN x /\ t[i] = x[i + 1] /\ 1 < i + 1
      /\ IsSequence(y) /\ Len(x) >= 1 /\ Len(t) = Len(x) - 1 /\ Len(x) \in Nat
      /\ \A i \in 1..(Len(x) - 1) : t[i] = x[i + 1]
  <2>1. IsSequence(x) /\ IsSequence(y) /\ x # <<>>
    BY <1>1 DEF AnswersOK, CommandsOK, x
  <2>2. /\ IsSequence(t) /\ Len(t) = Len(x) - 1 /\ Len(x) >= 1 /\ Head(x) = x[1]
        /\ \A i \in 1..(Len(x) - 1) : t[i] = x[i + 1]
        /\ Len(x) \in Nat
    BY <2>1, TailShape DEF IsSequence
  <2> HIDE DEF t
  <2>3. DOMAIN t = 1..(Len(x) - 1) /\ DOMAIN x = 1..Len(x)
    BY <2>1, <2>2, SeqShape
  <2>4. \A i \in 1..(Len(x) - 1) : i + 1 \in 1..Len(x) /\ 1 < i + 1
    BY <2>2
  <2> QED
    BY <2>1, <2>2, <2>3, <2>4 DEF x
<1>4. way # <<>> /\ Head(way) = answer /\ Tail(way) = t \o y
  <2> DEFINE S == {x[i] : i \in 1..Len(x)} \cup {y[i] : i \in 1..Len(y)}
  <2>1. x \in Seq(S) /\ y \in Seq(S) /\ x # <<>>
    BY <1>3, SeqShape DEF x
  <2> HIDE DEF S
  <2>2. x \o y # <<>> /\ Head(x \o y) = Head(x) /\ Tail(x \o y) = Tail(x) \o y
    BY <2>1
  <2> QED
    BY <2>2 DEF way, x
<1>5. /\ answer.ok \in BOOLEAN /\ IsSequence(answer.value.items) /\ answer.value.read \in Nat
      /\ answer.value.read <= server.version /\ n <= answer.value.read
      /\ \A i \in DOMAIN t : answer.value.read <= t[i].value.read /\ n <= t[i].value.read
  BY <1>1, <1>2, <1>3 DEF AnswersOK
<1>6. Good(c, t \o y, known) /\ known <= server.version /\ \A i \in DOMAIN t : known <= t[i].value.read
  <2>1. CASE /\ answer.type = "load" /\ known = n
             /\ c = Finish(old, answer.path, answer.generation,
                           [ok |-> answer.ok, value |-> answer.value])
    <3> DEFINE outcome == [ok |-> answer.ok, value |-> answer.value]
    <3>1. /\ IsSequence(outcome.value.items) /\ outcome.value.read \in Nat
          /\ n <= outcome.value.read
      BY <1>5
    <3> HIDE DEF outcome, t
    <3>2. Good(Finish(old, answer.path, answer.generation, outcome), Tail(way), n)
      BY <2>1, <3>1, <1>2, <1>4, FinishKeeps
    <3> QED
      BY <3>2, <2>1, <1>2, <1>4, <1>5 DEF outcome
  <2>2. CASE answer.type # "load"
    <3>1. Good(old, Tail(way), n)
      BY <2>2, <1>2, <1>4, OthersGo
    <3>2. CASE c = old /\ known = n
      BY <3>1, <3>2, <1>2, <1>4, <1>5
    <3>3. CASE c = Clear(old) /\ known = answer.value.read
      <4>1. Good(Clear(old), Tail(way), answer.value.read)
        BY <3>1, <1>5, ClearKeeps
      <4> QED
        BY <4>1, <3>3, <1>4, <1>5
    <3> QED
      BY <2>2, <3>2, <3>3 DEF old, n
  <2> QED
    BY <2>1, <2>2 DEF old, n
<1> QED
  BY <1>6 DEF SessionOK, x, y

\* What every answer does to the app: its own session, and what is open.
LEMMA AnswerTouches ==
  ASSUME BrowseInv, NEW s \in DOMAIN app.sessions, NEW ses, DOMAIN ses = SessionFields,
         NEW a, DOMAIN a = AppFields, a.sessions = [app.sessions EXCEPT ![s] = ses],
         a.order = app.order, a.closed = app.closed, a.spinning = app.spinning
  PROVE  /\ AppOK(a) /\ DOMAIN a.sessions = DOMAIN app.sessions /\ a.sessions[s] = ses
         /\ \A t \in DOMAIN app.sessions \ {s} : a.sessions[t] = app.sessions[t]
BY DEF BrowseInv, AppOK

\* The app after an answer, however it comes to it.
Heard(answer, s) ==
  IF s \notin DOMAIN app.sessions THEN app
  ELSE CASE answer.type = "load" -> SchemaLoaded(app, s, answer)
         [] answer.type = "connect" /\ answer.ok -> Connected(app, s, answer)
         [] answer.type = "connect" /\ ~answer.ok -> ConnectFailed(app, s)
         [] answer.type = "ddl" /\ answer.ok -> DdlDone(app, s, answer)
         [] answer.type = "ddl" /\ ~answer.ok -> DdlFailed(app, s)

HeardOf(a, s, c, known) ==
  /\ DOMAIN a = AppFields /\ a.order = app.order /\ a.closed = app.closed
  /\ a.spinning = app.spinning /\ a.key = app.key /\ a.jump = app.jump
  /\ a.selected = app.selected
  /\ \E ses : /\ DOMAIN ses = SessionFields /\ ses.cache = c /\ ses.known = known
              /\ a.sessions = [app.sessions EXCEPT ![s] = ses]

\* What an answer does to the cache of its session: a load finishes, any other
\* leaves the cache or clears it.
LEMMA HeardIs ==
  ASSUME BrowseInv, NEW s \in DOMAIN app.sessions, NEW answer, answer.type \in MessageTypes,
         answer.ok \in BOOLEAN
  PROVE  \E c, known :
           /\ HeardOf(Heard(answer, s), s, c, known)
           /\ \/ /\ answer.type = "load" /\ known = app.sessions[s].known
                 /\ c = Finish(app.sessions[s].cache, answer.path, answer.generation,
                               [ok |-> answer.ok, value |-> answer.value])
              \/ /\ answer.type # "load"
                 /\ \/ c = app.sessions[s].cache /\ known = app.sessions[s].known
                    \/ c = Clear(app.sessions[s].cache) /\ known = answer.value.read
<1> DEFINE old == app.sessions[s]
<1>1. DOMAIN app = AppFields /\ DOMAIN old = SessionFields
  BY DEF BrowseInv, AppOK
<1>2. CASE answer.type = "load"
  <2> DEFINE c == Finish(old.cache, answer.path, answer.generation,
                         [ok |-> answer.ok, value |-> answer.value])
             b == [app EXCEPT !.sessions[s].cache = c]
             ses == [old EXCEPT !.cache = c]
             a == Heard(answer, s)
  <2>1. a = SchemaLoaded(app, s, answer)
    BY <1>2 DEF Heard
  <2>2. a = b \/ a = OpensItself(b, s)
    BY <2>1 DEF SchemaLoaded
  <2> HIDE DEF c, a
  <2>3. DOMAIN ses = SessionFields /\ ses.cache = c /\ ses.known = old.known
    BY <1>1 DEF SessionFields
  <2>4. /\ DOMAIN b = AppFields /\ b.order = app.order /\ b.closed = app.closed
        /\ b.spinning = app.spinning /\ b.key = app.key /\ b.jump = app.jump
        /\ b.selected = app.selected
        /\ b.sessions = [app.sessions EXCEPT ![s] = ses]
    BY <1>1 DEF AppFields
  <2> HIDE DEF b, ses
  <2>5. /\ DOMAIN a = AppFields /\ a.order = b.order /\ a.closed = b.closed
        /\ a.spinning = b.spinning /\ a.key = b.key /\ a.jump = b.jump /\ a.sessions = b.sessions
        /\ a.selected = b.selected
    <3>1. CASE a = b
      BY <3>1, <2>4
    <3>2. CASE a = OpensItself(b, s)
      BY <3>2, <2>4 DEF OpensItself, AppFields
    <3> QED
      BY <2>2, <3>1, <3>2
  <2>6. HeardOf(a, s, c, old.known)
    BY <2>3, <2>4, <2>5 DEF HeardOf
  <2> QED
    BY <2>6, <1>2 DEF a, c
<1>3. CASE answer.type = "connect" /\ answer.ok
  <2> DEFINE ses == [old EXCEPT !.status = "open", !.expand = FALSE, !.cache = Clear(@),
                                !.known = answer.value.read]
             a == Heard(answer, s)
  <2>1. a = Connected(app, s, answer)
    BY <1>3 DEF Heard
  <2>2. DOMAIN ses = SessionFields /\ ses.cache = Clear(old.cache) /\ ses.known = answer.value.read
    BY <1>1 DEF SessionFields
  <2> HIDE DEF a
  <2>3. /\ DOMAIN a = AppFields /\ a.order = app.order /\ a.closed = app.closed
        /\ a.spinning = app.spinning /\ a.key = app.key /\ a.jump = app.jump
        /\ a.selected = app.selected
        /\ a.sessions = [app.sessions EXCEPT ![s] = ses]
    BY <2>1, <1>1 DEF Connected, AppFields, SessionFields
  <2> HIDE DEF ses
  <2>4. HeardOf(a, s, Clear(old.cache), answer.value.read)
    BY <2>2, <2>3 DEF HeardOf
  <2> QED
    BY <2>4, <1>3 DEF a
<1>4. CASE answer.type = "connect" /\ ~answer.ok
  <2> DEFINE ses == [old EXCEPT !.status = "failed", !.expand = FALSE]
             a == Heard(answer, s)
  <2>1. a = ConnectFailed(app, s)
    BY <1>4 DEF Heard
  <2>2. DOMAIN ses = SessionFields /\ ses.cache = old.cache /\ ses.known = old.known
    BY <1>1 DEF SessionFields
  <2> HIDE DEF a
  <2>3. /\ DOMAIN a = AppFields /\ a.order = app.order /\ a.closed = app.closed
        /\ a.spinning = app.spinning /\ a.key = app.key /\ a.jump = app.jump
        /\ a.selected = app.selected
        /\ a.sessions = [app.sessions EXCEPT ![s] = ses]
    BY <2>1, <1>1 DEF ConnectFailed, AppFields, SessionFields
  <2> HIDE DEF ses
  <2>4. HeardOf(a, s, old.cache, old.known)
    BY <2>2, <2>3 DEF HeardOf
  <2> QED
    BY <2>4, <1>4 DEF a
<1>5. CASE answer.type = "ddl" /\ answer.ok
  <2> DEFINE kept == [old EXCEPT !.running = FALSE]
             read == [old EXCEPT !.running = FALSE, !.cache = Clear(@), !.known = answer.value.read]
             a == Heard(answer, s)
  <2>1. a = DdlDone(app, s, answer)
    BY <1>5 DEF Heard
  <2>2. /\ DOMAIN kept = SessionFields /\ kept.cache = old.cache /\ kept.known = old.known
        /\ DOMAIN read = SessionFields /\ read.cache = Clear(old.cache) /\ read.known = answer.value.read
    BY <1>1 DEF SessionFields
  <2> HIDE DEF a
  <2>3. /\ DOMAIN a = AppFields /\ a.order = app.order /\ a.closed = app.closed
        /\ a.spinning = app.spinning /\ a.key = app.key /\ a.jump = app.jump
        /\ a.selected = app.selected
        /\ a.sessions = [app.sessions EXCEPT ![s] = IF old.cancelled THEN kept ELSE read]
    <3>1. CASE old.cancelled
      BY <2>1, <3>1, <1>1 DEF DdlDone, AppFields, SessionFields
    <3>2. CASE ~old.cancelled
      BY <2>1, <3>2, <1>1 DEF DdlDone, AppFields, SessionFields
    <3> QED
      BY <3>1, <3>2
  <2> HIDE DEF kept, read
  <2>4. CASE old.cancelled
    <3>1. HeardOf(a, s, old.cache, old.known)
      BY <2>2, <2>3, <2>4 DEF HeardOf
    <3> QED
      BY <3>1, <1>5 DEF a
  <2>5. CASE ~old.cancelled
    <3>1. HeardOf(a, s, Clear(old.cache), answer.value.read)
      BY <2>2, <2>3, <2>5 DEF HeardOf
    <3> QED
      BY <3>1, <1>5 DEF a
  <2> QED
    BY <2>4, <2>5
<1>6. CASE answer.type = "ddl" /\ ~answer.ok
  <2> DEFINE ses == [old EXCEPT !.running = FALSE]
             a == Heard(answer, s)
  <2>1. a = DdlFailed(app, s)
    BY <1>6 DEF Heard
  <2>2. DOMAIN ses = SessionFields /\ ses.cache = old.cache /\ ses.known = old.known
    BY <1>1 DEF SessionFields
  <2> HIDE DEF a
  <2>3. /\ DOMAIN a = AppFields /\ a.order = app.order /\ a.closed = app.closed
        /\ a.spinning = app.spinning /\ a.key = app.key /\ a.jump = app.jump
        /\ a.selected = app.selected
        /\ a.sessions = [app.sessions EXCEPT ![s] = ses]
    BY <2>1, <1>1 DEF DdlFailed, AppFields, SessionFields
  <2> HIDE DEF ses
  <2>4. HeardOf(a, s, old.cache, old.known)
    BY <2>2, <2>3 DEF HeardOf
  <2> QED
    BY <2>4, <1>6 DEF a
<1> QED
  BY <1>2, <1>3, <1>4, <1>5, <1>6 DEF MessageTypes

\* The app as the answer's handler leaves it, before `tree::after`.
LEMMA HeardIsSound ==
  ASSUME BrowseInv, NEW s \in BrowseSessions, Hear(s), NEW a, a = Heard(Head(outbox[s]), s)
  PROVE  /\ outbox[s] # <<>> /\ outbox' = [outbox EXCEPT ![s] = Tail(@)]
         /\ UNCHANGED <<server, ops>> /\ AndAfter(a, NoCommands)
         /\ AppOK(a) /\ a.closed = app.closed /\ a.spinning = app.spinning
         /\ a.key = app.key /\ a.jump = app.jump /\ a.selected = app.selected
         /\ DOMAIN a.sessions = DOMAIN app.sessions
         /\ \A t \in DOMAIN app.sessions \ {s} : a.sessions[t] = app.sessions[t]
         /\ s \in DOMAIN app.sessions =>
              SessionOK(a.sessions[s], inbox[s], Tail(outbox[s]), server.version)
<1> DEFINE answer == Head(outbox[s])
<1>1. /\ outbox[s] # <<>> /\ outbox' = [outbox EXCEPT ![s] = Tail(@)] /\ UNCHANGED <<server, ops>>
      /\ AndAfter(Heard(answer, s), NoCommands)
  BY DEF Hear, Heard
<1>2. CASE s \notin DOMAIN app.sessions
  <2>1. a = app /\ AppOK(app)
    BY <1>2 DEF Heard, BrowseInv
  <2> QED
    BY <1>1, <1>2, <2>1
<1>3. CASE s \in DOMAIN app.sessions
  <2>1. answer.type \in MessageTypes /\ answer.ok \in BOOLEAN
    <3> DEFINE q == outbox[s]
    <3>1. AnswersOK(q, server.version) /\ IsSequence(q) /\ q # <<>>
      BY <1>1 DEF BrowseInv, QueuesOK, AnswersOK, CommandsOK
    <3> HIDE DEF q
    <3>2. 1 \in DOMAIN q /\ Head(q) = q[1]
      BY <3>1, Behind1
    <3>3. Head(q).type \in MessageTypes /\ Head(q).ok \in BOOLEAN
      BY <3>1, <3>2 DEF AnswersOK, CommandsOK
    <3> QED
      BY <3>3 DEF q
  <2> DEFINE old == app.sessions[s]
  <2>2. PICK c, known :
           /\ HeardOf(a, s, c, known)
           /\ \/ /\ answer.type = "load" /\ known = old.known
                 /\ c = Finish(old.cache, answer.path, answer.generation,
                               [ok |-> answer.ok, value |-> answer.value])
              \/ /\ answer.type # "load"
                 /\ \/ c = old.cache /\ known = old.known
                    \/ c = Clear(old.cache) /\ known = answer.value.read
    <3>1. a = Heard(answer, s)
      OBVIOUS
    <3> HIDE DEF answer
    <3> QED
      BY <1>3, <2>1, <3>1, HeardIs
  <2>3. PICK ses : /\ DOMAIN ses = SessionFields /\ ses.cache = c /\ ses.known = known
                   /\ a.sessions = [app.sessions EXCEPT ![s] = ses]
    BY <2>2 DEF HeardOf
  <2>4. /\ DOMAIN a = AppFields /\ a.order = app.order /\ a.closed = app.closed
        /\ a.spinning = app.spinning /\ a.key = app.key /\ a.jump = app.jump
        /\ a.selected = app.selected
    BY <2>2 DEF HeardOf
  <2>5. /\ AppOK(a) /\ DOMAIN a.sessions = DOMAIN app.sessions /\ a.sessions[s] = ses
        /\ \A t \in DOMAIN app.sessions \ {s} : a.sessions[t] = app.sessions[t]
    BY <1>3, <2>3, <2>4, AnswerTouches
  <2>6. SessionOK(ses, inbox[s], Tail(outbox[s]), server.version)
    BY <1>1, <1>3, <2>2, <2>3, AnswerKeeps
  <2> QED
    BY <1>1, <2>4, <2>5, <2>6
<1> QED
  BY <1>2, <1>3

\* Every answer keeps the browser sound.
LEMMA HearKeeps ==
  ASSUME BrowseInv, NEW s \in BrowseSessions, Hear(s)
  PROVE  BrowseInv'
BY HeardIsSound, HeardKeeps

\* So does a frame of the spinner.
LEMMA SpinKeeps ==
  ASSUME BrowseInv, Spin
  PROVE  BrowseInv'
<1>1. UNCHANGED <<inbox, outbox, server, ops>> /\ frames.live
  BY DEF Spin
<1>2. CASE app' = app /\ frames' = frames
  BY <1>1, <1>2 DEF BrowseInv, QueuesOK, SessionsOK, UnopenedIsQuiet, SpinnerOK, OpsOK
<1>3. CASE ~(app' = app /\ frames' = frames)
  <2>1. /\ ~(app.spinning /\ Waiting(app)) /\ app' = [app EXCEPT !.spinning = FALSE]
        /\ frames' = [frames EXCEPT !.live = FALSE]
    BY <1>3 DEF Spin
  <2>2. AppOK(app) /\ ~app.jump /\ DOMAIN app = AppFields
    BY DEF BrowseInv, AppOK
  <2>3. /\ DOMAIN app' = AppFields /\ app'.spinning = FALSE /\ app'.jump = app.jump
        /\ app'.sessions = app.sessions /\ app'.order = app.order /\ app'.closed = app.closed
    BY <2>1, <2>2 DEF AppFields
  <2>4. AppOK(app') /\ ~app'.jump
    BY <2>2, <2>3 DEF AppOK
  <2>5. QueuesOK' /\ SessionsOK(app)' /\ UnopenedIsQuiet' /\ OpsOK'
    BY <1>1, <2>3 DEF BrowseInv, QueuesOK, SessionsOK, UnopenedIsQuiet, OpsOK
  <2>6. SpinnerOK'
    <3>1. DOMAIN frames' = {"live", "stale"} /\ frames'.stale = 0 /\ frames'.live = FALSE
      BY <2>1 DEF BrowseInv, SpinnerOK
    <3>2. ~Waiting(app)
      BY <2>1, <1>1 DEF BrowseInv, SpinnerOK
    <3>3. ~Waiting(app')
      BY <2>3, <3>2 DEF Waiting, Connecting, Opened
    <3> QED
      BY <2>3, <3>1, <3>3 DEF SpinnerOK
  <2> QED
    BY <2>4, <2>5, <2>6 DEF BrowseInv
<1> QED
  BY <1>2, <1>3

\* It is sound at the start.
LEMMA StartIsSound == BrowseInit => BrowseInv
<1> SUFFICES ASSUME BrowseInit PROVE BrowseInv
  OBVIOUS
<1>1. /\ app.sessions = << >> /\ app.order = <<Scratch>> /\ app.closed = {} /\ app.spinning = FALSE
      /\ app.jump = FALSE /\ DOMAIN app = AppFields
  BY DEF BrowseInit, AppFields
<1>2. DOMAIN app.sessions = {}
  BY <1>1
<1>3. AppOK(app) /\ ~app.jump
  BY <1>1, <1>2, Shapes DEF AppOK
<1>4. CommandsOK(<<>>) /\ AnswersOK(<<>>, 0)
  BY Shapes DEF CommandsOK, AnswersOK
<1>5. QueuesOK
  BY <1>4 DEF BrowseInit, QueuesOK, NoCommands
<1>6. SessionsOK(app)
  BY <1>2 DEF SessionsOK
<1>7. UnopenedIsQuiet
  BY DEF BrowseInit, UnopenedIsQuiet, NoCommands
<1>8. SpinnerOK
  <2>1. ~Waiting(app)
    BY <1>2 DEF Waiting, Connecting, Opened
  <2>2. DOMAIN frames = {"live", "stale"} /\ frames.stale = 0 /\ frames.live = FALSE
    BY DEF BrowseInit
  <2> QED
    BY <1>1, <2>1, <2>2 DEF SpinnerOK
<1>9. OpsOK
  BY UsersAssumption DEF BrowseInit, OpsOK
<1> QED
  BY <1>3, <1>5, <1>6, <1>7, <1>8, <1>9 DEF BrowseInv

\* Whatever happens, in whatever order.
THEOREM BrowserIsSound == BrowseSpec => []BrowseInv
<1>1. BrowseInit => BrowseInv
  BY StartIsSound
<1>2. BrowseInv /\ [BrowseNext]_browseVars => BrowseInv'
  <2> SUFFICES ASSUME BrowseInv, [BrowseNext]_browseVars PROVE BrowseInv'
    OBVIOUS
  <2>1. CASE UserBrowses
    BY <2>1, ViewKeeps, ShownKeeps, OpensKeep, ExpandKeeps, CloseKeeps, AskingKeeps, RefreshAllKeeps
       DEF UserBrowses
  <2>2. CASE \E s \in BrowseSessions : Work(s) \/ Hear(s)
    BY <2>2, WorkKeeps, HearKeeps
  <2>3. CASE Spin
    BY <2>3, SpinKeeps
  <2>4. CASE UNCHANGED browseVars
    BY <2>4 DEF browseVars, BrowseInv, QueuesOK, SessionsOK, UnopenedIsQuiet, SpinnerOK, OpsOK
  <2> QED
    BY <2>1, <2>2, <2>3, <2>4 DEF BrowseNext
<1> QED
  BY <1>1, <1>2, PTL DEF BrowseSpec
-----------------------------------------------------------------------------
(* What the browser keeps to. *)

\* No list of children is older than that of their parents.
THEOREM ChildrenStayNewer == BrowseSpec => []ChildrenAreNewer
<1>1. BrowseInv => ChildrenAreNewer
  BY DEF BrowseInv, SessionsOK, SessionOK, Good, Newer, ChildrenAreNewer, ChildrenFollowParents,
         Loaded, Known
<1> QED
  BY <1>1, BrowserIsSound, PTL

\* What shows was read after the last statement that changed the schema.
THEOREM TreeStaysFresh == BrowseSpec => []TreeIsFresh
<1>1. BrowseInv => TreeIsFresh
  <2> SUFFICES ASSUME BrowseInv, NEW s \in DOMAIN app.sessions,
                      NEW p \in DOMAIN app.sessions[s].cache.entries,
                      Loaded(app.sessions[s].cache, p)
               PROVE  app.sessions[s].cache.entries[p].value.read >= app.sessions[s].known
    BY DEF TreeIsFresh
  <2> DEFINE c == app.sessions[s].cache
             read == c.entries[p].value.read
             known == app.sessions[s].known
  <2>1. known <= read /\ known \in Nat /\ read \in Nat
    BY DEF BrowseInv, SessionsOK, SessionOK, Good, ReadSince, Loaded, Known, CacheOK, EntryOK
  <2> HIDE DEF read, known
  <2>2. read >= known
    BY <2>1
  <2> QED
    BY <2>2 DEF read, known
<1> QED
  BY <1>1, BrowserIsSound, PTL

\* One frame is scheduled at a time.
THEOREM SpinnerStaysOne == BrowseSpec => []OneSpinner
<1>1. BrowseInv => OneSpinner
  BY DEF BrowseInv, SpinnerOK, OneSpinner
<1> QED
  BY <1>1, BrowserIsSound, PTL

\* Among numbered loads there is one of a number.
LEMMA OneOnTheWay ==
  ASSUME NEW c, NEW x, NEW y, NEW known, Good(c, x \o y, known), IsSequence(x), IsSequence(y),
         NEW p \in DOMAIN c.entries, c.entries[p].loading # NotLoading,
         NEW X, X = {i \in DOMAIN x : x[i].type = "load" /\ x[i].path = p
                                      /\ x[i].generation = c.entries[p].loading},
         NEW Y, Y = {i \in DOMAIN y : y[i].type = "load" /\ y[i].path = p
                                      /\ y[i].generation = c.entries[p].loading}
  PROVE  Cardinality(Y) + Cardinality(X) = 1
<1> DEFINE way == x \o y
           g == c.entries[p].loading
           W == {i \in LoadsOn(way) : way[i].path = p /\ way[i].generation = g}
<1>1. /\ DOMAIN x = 1..Len(x) /\ DOMAIN y = 1..Len(y) /\ Len(x) \in Nat /\ Len(y) \in Nat
      /\ DOMAIN way = 1..(Len(x) + Len(y))
      /\ \A i \in 1..(Len(x) + Len(y)) : way[i] = IF i <= Len(x) THEN x[i] ELSE y[i - Len(x)]
  BY ConcatShape, SeqShape DEF IsSequence
<1>2. PICK k \in W : \A i \in W : i = k
  <2>1. PICK k \in LoadsOn(way) : way[k].path = p /\ way[k].generation = g
    BY DEF Good, Awaits
  <2>2. \A i \in LoadsOn(way) : way[i].generation \in Nat /\ i \in Nat
    <3>1. c.generation \in Nat /\ \A i \in LoadsOn(way) : way[i].generation \in 1..c.generation
      BY DEF Good, Numbered, CacheOK
    <3> QED
      BY <3>1, <1>1 DEF LoadsOn
  <2>4. \A i, j \in LoadsOn(way) : i < j => way[i].generation < way[j].generation
    BY DEF Good, Numbered
  <2>5. \A i \in W : i \in LoadsOn(way) /\ way[i].generation = g
    OBVIOUS
  <2> HIDE DEF way, g, W
  <2>3. ASSUME NEW i \in W PROVE i = k
    <3>1. i \in Nat /\ k \in Nat /\ g \in Nat /\ way[i].generation = g
      BY <2>1, <2>2, <2>5
    <3>2. ~(i < k)
      BY <3>1, <2>1, <2>4, <2>5
    <3>3. ~(k < i)
      BY <3>1, <2>1, <2>4, <2>5
    <3> QED
      BY <3>1, <3>2, <3>3
  <2> QED
    BY <2>1, <2>3 DEF W
<1> HIDE DEF way, g
<1>3. \A i \in X : i \in W /\ i <= Len(x) /\ i \in Nat
  BY <1>1 DEF LoadsOn, g
<1>4. ASSUME NEW i \in Y PROVE Len(x) + i \in W /\ i \in Nat \ {0}
  <2> DEFINE j == Len(x) + i
  <2>1. j \in 1..(Len(x) + Len(y)) /\ ~(j <= Len(x)) /\ j - Len(x) = i /\ i \in Nat \ {0}
    BY <1>1, <1>4
  <2> HIDE DEF j
  <2>2. way[j] = y[i]
    BY <2>1, <1>1
  <2>3. j \in W
    BY <2>1, <2>2, <1>1, <1>4 DEF LoadsOn, g
  <2> QED
    BY <2>1, <2>3 DEF j
<1>5. k \in X \/ \E i \in Y : k = Len(x) + i
  <2>1. k \in 1..(Len(x) + Len(y)) /\ way[k].type = "load" /\ way[k].path = p /\ way[k].generation = g
    BY <1>1, <1>2 DEF LoadsOn
  <2>2. CASE k <= Len(x)
    BY <2>1, <2>2, <1>1 DEF g
  <2>3. CASE ~(k <= Len(x))
    <3> DEFINE i == k - Len(x)
    <3>1. i \in 1..Len(y) /\ k = Len(x) + i
      BY <2>1, <2>3, <1>1
    <3>2. way[k] = y[i]
      BY <2>1, <2>3, <1>1
    <3> HIDE DEF i
    <3> QED
      BY <2>1, <3>1, <3>2, <1>1 DEF g
  <2> QED
    BY <2>2, <2>3
<1> HIDE DEF W
<1>6. CASE k \in X
  <2>1. \A i \in X : i = k
    BY <1>2, <1>3
  <2>2. Y = {}
    <3> SUFFICES ASSUME NEW i \in Y PROVE FALSE
      OBVIOUS
    <3>1. Len(x) + i = k /\ k <= Len(x) /\ i \in Nat \ {0} /\ k \in Nat
      BY <1>2, <1>3, <1>4, <1>6
    <3> QED
      BY <3>1, <1>1
  <2>3. X = {k}
    BY <2>1, <1>6
  <2>4. Cardinality(X) = 1 /\ Cardinality(Y) = 0
    BY <2>2, <2>3, FS_EmptySet, FS_Singleton
  <2> QED
    BY <2>4
<1>7. CASE \E i \in Y : k = Len(x) + i
  <2>1. PICK i \in Y : k = Len(x) + i
    BY <1>7
  <2>2. \A j \in Y : j = i
    <3> SUFFICES ASSUME NEW j \in Y PROVE j = i
      OBVIOUS
    <3>1. Len(x) + j = Len(x) + i /\ j \in Nat /\ i \in Nat
      BY <2>1, <1>2, <1>4
    <3> QED
      BY <3>1, <1>1
  <2>3. X = {}
    <3> SUFFICES ASSUME NEW j \in X PROVE FALSE
      OBVIOUS
    <3>1. j = Len(x) + i /\ j <= Len(x) /\ i \in Nat \ {0}
      BY <2>1, <1>2, <1>3, <1>4
    <3> QED
      BY <3>1, <1>1
  <2>4. Y = {i}
    BY <2>1, <2>2
  <2>5. Cardinality(Y) = 1 /\ Cardinality(X) = 0
    BY <2>3, <2>4, FS_EmptySet, FS_Singleton
  <2> QED
    BY <2>5
<1> QED
  BY <1>5, <1>6, <1>7

\* No node waits for an answer that will not come, or for two.
THEOREM LoadsStayAwaited == BrowseSpec => []LoadsAreAwaited
<1>1. BrowseInv => LoadsAreAwaited
  <2> SUFFICES ASSUME BrowseInv, NEW s \in DOMAIN app.sessions,
                      NEW p \in DOMAIN app.sessions[s].cache.entries,
                      Loading(app.sessions[s].cache, p)
               PROVE  OnItsWay(s, p, app.sessions[s].cache.entries[p].loading) = 1
    BY DEF LoadsAreAwaited
  <2> DEFINE c == app.sessions[s].cache
             x == outbox[s]
             y == inbox[s]
             X == {i \in DOMAIN x : x[i].type = "load" /\ x[i].path = p
                                    /\ x[i].generation = c.entries[p].loading}
             Y == {i \in DOMAIN y : y[i].type = "load" /\ y[i].path = p
                                    /\ y[i].generation = c.entries[p].loading}
  <2>1. /\ Good(c, x \o y, app.sessions[s].known) /\ s \in BrowseSessions
        /\ c.entries[p].loading # NotLoading
    BY DEF BrowseInv, SessionsOK, SessionOK, AppOK, Loading
  <2>2. IsSequence(x) /\ IsSequence(y)
    BY <2>1 DEF BrowseInv, QueuesOK, CommandsOK, AnswersOK
  <2>3. OnItsWay(s, p, c.entries[p].loading) = Cardinality(Y) + Cardinality(X)
    BY DEF OnItsWay
  <2>4. Cardinality(Y) + Cardinality(X) = 1
    <3> HIDE DEF c, x, y
    <3> QED
      BY <2>1, <2>2, OneOnTheWay DEF c
  <2> QED
    BY <2>3, <2>4
<1> QED
  BY <1>1, BrowserIsSound, PTL
-----------------------------------------------------------------------------
(* The rows, and the row the selection is on. *)

\* Rows: a sequence of nodes.
IsRows(x) == IsSequence(x) /\ \A i \in 1..Len(x) : x[i].kind # "none"

\* None and one are rows,
LEMMA RowShapes == IsRows(<<>>) /\ \A e : e.kind # "none" => IsRows(<<e>>)
BY Shapes DEF IsRows

\* so are rows after others,
LEMMA RowsConcat ==
  ASSUME NEW x, NEW y, IsRows(x), IsRows(y)
  PROVE  IsRows(x \o y)
<1>1. /\ IsSequence(x \o y) /\ Len(x \o y) = Len(x) + Len(y)
      /\ \A i \in 1..(Len(x) + Len(y)) : (x \o y)[i] = IF i <= Len(x) THEN x[i] ELSE y[i - Len(x)]
  BY ConcatShape DEF IsRows
<1>2. ASSUME NEW i \in 1..Len(x \o y) PROVE (x \o y)[i].kind # "none"
  <2>1. i \in 1..Len(x) \/ (~(i <= Len(x)) /\ i - Len(x) \in 1..Len(y))
    BY <1>1, <1>2 DEF IsRows, IsSequence
  <2> QED
    BY <2>1, <1>1, <1>2 DEF IsRows
<1> QED
  BY <1>1, <1>2 DEF IsRows

\* and those of a list.
LEMMA RowsListed ==
  ASSUME NEW list, IsSequence(list), NEW rows, \A i \in 1..Len(list) : IsRows(rows[i])
  PROVE  IsRows(Joined(Len(list), rows))
<1> DEFINE n == Len(list)
<1>1. n \in Nat
  BY DEF IsSequence
<1> HIDE DEF n
<1>2. PICK upTo : /\ Joined(n, rows) = upTo[n]
                  /\ \A i \in 0..n : upTo[i] = IF i = 0 THEN <<>> ELSE upTo[i - 1] \o rows[i]
  BY <1>1, JoinedIs
<1> DEFINE Off == {i \in 0..n : ~IsRows(upTo[i])}
<1>3. Off = {}
  <2> SUFFICES ASSUME Off # {} PROVE FALSE
    OBVIOUS
  <2>1. PICK m \in Off : \A k \in Off : ~(k < m)
    <3>1. Off \in SUBSET Nat
      OBVIOUS
    <3> QED
      BY <3>1, Least
  <2>2. m # 0
    BY <1>2, RowShapes
  <2>3. m - 1 \in 0..n /\ m - 1 \notin Off /\ IsRows(rows[m])
    BY <1>1, <2>1, <2>2 DEF n
  <2>4. IsRows(upTo[m - 1] \o rows[m])
    BY <2>3, RowsConcat
  <2> QED
    BY <2>4, <2>2, <1>2
<1> QED
  BY <1>1, <1>2, <1>3 DEF n

\* A node with what is under it is rows.
LEMMA KeepShape ==
  ASSUME NEW row, row.kind # "none", NEW hit, NEW filtering, NEW children, IsRows(children)
  PROVE  IsRows(Keep(row, hit, filtering, children))
BY RowShapes, RowsConcat DEF Keep

\* So is the error under a node,
LEMMA ErrorShape ==
  ASSUME NEW v, NEW path
  PROVE  IsRows(ErrorRows(v, path))
BY RowShapes DEF ErrorRows, Key

\* a section with its columns or indexes,
LEMMA SectionShape ==
  ASSUME NEW v, CacheOK(v.cache), NEW path, Loaded(v.cache, path),
         NEW section, section # "none"
  PROVE  IsRows(SectionRows(v, path, section))
<1> DEFINE row == Key(section, path)
           kind == IF section = "columns" THEN "column" ELSE "index"
           detail(d) == IF d.section # section \/ (Filters(v) /\ ~Hit(v, d.name)) THEN <<>>
                        ELSE <<Key(kind, Append(path, d.name))>>
           list == Items(v.cache, path)
           rows == [i \in 1..Len(list) |-> detail(list[i])]
<1>1. IsSequence(list)
  BY ItemsShape
<1>2. \A d : IsRows(detail(d))
  <2>1. kind # "none" /\ \A names : Key(kind, names).kind = kind
    BY DEF Key
  <2> HIDE DEF kind
  <2> QED
    BY <2>1, RowShapes
<1>3. \A i \in 1..Len(list) : IsRows(rows[i])
  <2> HIDE DEF list, detail
  <2> QED
    BY <1>2
<1>4. IsRows(Joined(Len(list), rows))
  <2> HIDE DEF list, rows
  <2> QED
    BY <1>1, <1>3, RowsListed
<1>5. IsRows(RowsOf(list, detail))
  BY <1>4 DEF RowsOf
<1>6. IsRows(IF Unfolds(v, row) THEN RowsOf(list, detail) ELSE <<>>)
  BY <1>5, RowShapes
<1> QED
  BY <1>6, KeepShape DEF SectionRows, Key

\* an object with its sections,
LEMMA ObjectShape ==
  ASSUME NEW v, CacheOK(v.cache), NEW path
  PROVE  IsRows(ObjectRows(v, path))
<1> DEFINE row == Key("object", path)
           sections == IF Loaded(v.cache, path)
                       THEN SectionRows(v, path, "columns") \o SectionRows(v, path, "indexes")
                       ELSE <<>>
<1>1. IsRows(sections)
  BY SectionShape, RowsConcat, RowShapes
<1>2. IsRows(IF Unfolds(v, row) THEN ErrorRows(v, path) \o sections ELSE <<>>)
  <2> HIDE DEF sections
  <2> QED
    BY <1>1, ErrorShape, RowsConcat, RowShapes
<1> QED
  BY <1>2, KeepShape DEF ObjectRows, Key

\* a folder with its objects,
LEMMA FolderShape ==
  ASSUME NEW v, CacheOK(v.cache), NEW path, Loaded(v.cache, path),
         NEW folder, folder # "none"
  PROVE  IsRows(FolderRows(v, path, folder))
<1> DEFINE row == Key(folder, path)
           inside(o) == IF FolderOf(o) = folder THEN ObjectRows(v, Append(path, o)) ELSE <<>>
           list == Items(v.cache, path)
           rows == [i \in 1..Len(list) |-> inside(list[i])]
<1>1. IsSequence(list)
  BY ItemsShape
<1>2. \A o : IsRows(inside(o))
  BY ObjectShape, RowShapes
<1>3. \A i \in 1..Len(list) : IsRows(rows[i])
  <2> HIDE DEF list, inside
  <2> QED
    BY <1>2
<1>4. IsRows(Joined(Len(list), rows))
  <2> HIDE DEF list, rows
  <2> QED
    BY <1>1, <1>3, RowsListed
<1>5. IsRows(RowsOf(list, inside))
  BY <1>4 DEF RowsOf
<1>6. IsRows(IF Unfolds(v, row) THEN RowsOf(list, inside) ELSE <<>>)
  BY <1>5, RowShapes
<1> QED
  BY <1>6, KeepShape DEF FolderRows, Key

\* a catalog with its folders,
LEMMA CatalogShape ==
  ASSUME NEW v, CacheOK(v.cache), NEW c
  PROVE  IsRows(CatalogRows(v, c))
<1> DEFINE row == Key("catalog", <<c>>)
           folders == IF Loaded(v.cache, <<c>>)
                      THEN FolderRows(v, <<c>>, "tables") \o FolderRows(v, <<c>>, "views")
                      ELSE <<>>
<1>1. IsRows(folders)
  BY FolderShape, RowsConcat, RowShapes
<1>2. IsRows(IF Unfolds(v, row) THEN ErrorRows(v, <<c>>) \o folders ELSE <<>>)
  <2> HIDE DEF folders
  <2> QED
    BY <1>1, ErrorShape, RowsConcat, RowShapes
<1> QED
  BY <1>2, KeepShape DEF CatalogRows, Key

\* and a connection, which comes first, and always shows without a filter.
LEMMA FlattenShape ==
  ASSUME NEW v, CacheOK(v.cache)
  PROVE  /\ IsRows(Flatten(v))
         /\ Flatten(v) # <<>> => Flatten(v)[1] = ConnectionRow
         /\ ~Filters(v) => Flatten(v) # <<>>
<1> DEFINE listed == Items(v.cache, <<>>)
           catalog(c) == IF Shows(v, c) THEN CatalogRows(v, c) ELSE <<>>
           rows == [i \in 1..Len(listed) |-> catalog(listed[i])]
<1>1. \A c : IsRows(catalog(c))
  BY CatalogShape, RowShapes
<1>2. ASSUME Loaded(v.cache, <<>>) PROVE IsRows(RowsOf(listed, catalog))
  <2>1. IsSequence(listed)
    BY <1>2, ItemsShape
  <2>2. \A i \in 1..Len(listed) : IsRows(rows[i])
    <3> HIDE DEF listed, catalog
    <3> QED
      BY <1>1
  <2>3. IsRows(Joined(Len(listed), rows))
    <3> HIDE DEF listed, rows
    <3> QED
      BY <2>1, <2>2, RowsListed
  <2> QED
    BY <2>3 DEF RowsOf
<1>3. IsRows(UnderConnection(v))
  <2> DEFINE nothing == /\ \A i \in DOMAIN listed : ~Shows(v, listed[i])
                        /\ ~Filters(v) /\ ~HasFailed(v.cache, <<>>)
             shown == IF ~Loaded(v.cache, <<>>) THEN <<>>
                      ELSE IF nothing THEN Note ELSE RowsOf(listed, catalog)
  <2>1. IsRows(Note)
    BY RowShapes DEF Note, Key
  <2>2. IsRows(shown)
    <3> HIDE DEF nothing, listed, catalog
    <3> QED
      BY <2>1, <1>2, RowShapes
  <2>3. UnderConnection(v) = IF ~v.connected THEN IF Filters(v) \/ v.connecting THEN <<>> ELSE Note
                             ELSE ErrorRows(v, <<>>) \o shown
    BY DEF UnderConnection
  <2> HIDE DEF shown
  <2>4. IsRows(ErrorRows(v, <<>>) \o shown)
    BY <2>2, ErrorShape, RowsConcat
  <2> QED
    BY <2>1, <2>3, <2>4, RowShapes
<1> DEFINE under == IF Unfolds(v, ConnectionRow) THEN UnderConnection(v) ELSE <<>>
<1>4. IsRows(under)
  BY <1>3, RowShapes
<1>5. Flatten(v) = Keep(ConnectionRow, Hit(v, Title), Filters(v), under)
  BY DEF Flatten
<1> HIDE DEF under
<1>6. ASSUME Flatten(v) = <<ConnectionRow>> \o under
      PROVE  Flatten(v) # <<>> /\ Flatten(v)[1] = ConnectionRow
  <2> DEFINE x == <<ConnectionRow>>
  <2>1. IsSequence(x) /\ Len(x) = 1 /\ x[1] = ConnectionRow /\ IsSequence(under)
    BY <1>4, Shapes DEF IsRows
  <2> HIDE DEF x
  <2>2. /\ Len(under) \in Nat /\ 1 \in 1..(Len(x) + Len(under)) /\ 1 <= Len(x)
        /\ Len(x) + Len(under) # 0
    BY <2>1 DEF IsSequence
  <2>3. /\ Len(x \o under) = Len(x) + Len(under)
        /\ \A i \in 1..(Len(x) + Len(under)) :
             (x \o under)[i] = IF i <= Len(x) THEN x[i] ELSE under[i - Len(x)]
    BY <2>1, ConcatShape
  <2>4. (x \o under)[1] = x[1] /\ Len(x \o under) # 0
    BY <2>2, <2>3
  <2>5. Flatten(v) = x \o under /\ Len(<<>>) = 0
    BY <1>6 DEF x
  <2> QED
    BY <2>1, <2>4, <2>5
<1>7. /\ Flatten(v) = <<>> \/ Flatten(v) = <<ConnectionRow>> \o under
      /\ ~Filters(v) => Flatten(v) = <<ConnectionRow>> \o under
  BY <1>5 DEF Keep
<1>8. IsRows(Flatten(v))
  <2>1. ConnectionRow.kind # "none"
    BY DEF ConnectionRow, Key
  <2> QED
    BY <2>1, <1>4, <1>5, KeepShape
<1> QED
  BY <1>6, <1>7, <1>8

\* A key's line goes from itself to the connection.
LEMMA LineShape ==
  ASSUME NEW key
  PROVE  IsSequence(Line(key)) /\ Contains(Line(key), key) /\ Contains(Line(key), ConnectionRow)
<1>1. ASSUME NEW x, NEW y, IsSequence(x), IsSequence(y), Len(x) >= 1
      PROVE  IsSequence(x \o y) /\ Len(x \o y) >= 1 /\ (x \o y)[1] = x[1]
  <2>1. Len(x) \in Nat /\ Len(y) \in Nat /\ 1 \in 1..(Len(x) + Len(y)) /\ 1 <= Len(x)
        /\ Len(x) + Len(y) >= 1
    BY <1>1 DEF IsSequence
  <2> QED
    BY <1>1, <2>1, ConcatShape
<1> DEFINE in(n) == SubSeq(key.names, 1, n)
           below == {"columns", "indexes", "column", "index"}
           p == IF key.kind \in {"column"} THEN <<Key("columns", in(2))>> ELSE <<>>
           q == IF key.kind \in {"index"} THEN <<Key("indexes", in(2))>> ELSE <<>>
           r == IF key.kind \in below \/ (key.kind = "error" /\ Len(key.names) = 2)
                THEN <<Key("object", in(2))>> ELSE <<>>
           t == IF key.names # <<>> /\ key.kind # "catalog"
                THEN <<Key("catalog", in(1))>> ELSE <<>>
           e == <<ConnectionRow>>
           k == <<key>>
<1>2. /\ IsSequence(p) /\ IsSequence(q) /\ IsSequence(r) /\ IsSequence(t)
      /\ IsSequence(e) /\ Len(e) = 1 /\ e[1] = ConnectionRow
      /\ IsSequence(k) /\ Len(k) >= 1 /\ k[1] = key
  BY Shapes
<1>3. Line(key) = ((((k \o p) \o q) \o r) \o t) \o e
  BY DEF Line
<1> HIDE DEF p, q, r, t, e, k
<1>4. IsSequence(k \o p) /\ Len(k \o p) >= 1 /\ (k \o p)[1] = key
  BY <1>1, <1>2
<1>5. IsSequence((k \o p) \o q) /\ Len((k \o p) \o q) >= 1 /\ ((k \o p) \o q)[1] = key
  BY <1>1, <1>2, <1>4
<1>6. /\ IsSequence(((k \o p) \o q) \o r) /\ Len(((k \o p) \o q) \o r) >= 1
      /\ (((k \o p) \o q) \o r)[1] = key
  BY <1>1, <1>2, <1>5
<1> DEFINE all == (((k \o p) \o q) \o r) \o t
<1>7. IsSequence(all) /\ Len(all) >= 1 /\ all[1] = key
  BY <1>1, <1>2, <1>6
<1>8. Line(key) = all \o e
  BY <1>3
<1> HIDE DEF all
<1>9. /\ IsSequence(all \o e) /\ Len(all \o e) = Len(all) + 1 /\ (all \o e)[1] = key
      /\ (all \o e)[Len(all) + 1] = ConnectionRow /\ Len(all) \in Nat
  <2>1. Len(all) \in Nat /\ Len(all) + 1 \in 1..(Len(all) + Len(e)) /\ ~(Len(all) + 1 <= Len(all))
        /\ (Len(all) + 1) - Len(all) = 1 /\ Len(all) + Len(e) = Len(all) + 1
    BY <1>2, <1>7 DEF IsSequence
  <2>2. /\ IsSequence(all \o e) /\ Len(all \o e) = Len(all) + Len(e)
        /\ \A i \in 1..(Len(all) + Len(e)) :
             (all \o e)[i] = IF i <= Len(all) THEN all[i] ELSE e[i - Len(all)]
    BY <1>2, <1>7, ConcatShape
  <2>3. (all \o e)[Len(all) + 1] = ConnectionRow
    BY <2>1, <2>2, <1>2
  <2> QED
    BY <2>1, <2>2, <2>3, <1>1, <1>2, <1>7
<1>10. 1 \in 1..Len(all \o e) /\ Len(all) + 1 \in 1..Len(all \o e)
  BY <1>9
<1> QED
  BY <1>8, <1>9, <1>10 DEF Contains

\* The place of a row is where it is.
LEMMA PlaceIs ==
  ASSUME NEW rows, IsSequence(rows), NEW key, Contains(rows, key)
  PROVE  PlaceOf(rows, key) \in 1..Len(rows) /\ rows[PlaceOf(rows, key)] = key
<1>1. DOMAIN rows = 1..Len(rows)
  BY SeqShape
<1>2. \E i \in DOMAIN rows : rows[i] = key
  BY <1>1 DEF Contains
<1> QED
  BY <1>1, <1>2 DEF PlaceOf

\* What shows of a sound app: rows, the connection first, and none only under a
\* filter.
LEMMA RowsShape ==
  ASSUME NEW a, AppOK(a), CachesOK(a)
  PROVE  /\ IsRows(Rows(a))
         /\ Rows(a) # <<>> => Rows(a)[1] = ConnectionRow
         /\ ~a.filtering => Rows(a) # <<>>
<1>1. CacheOK(View(a).cache)
  <2>1. CacheOK(EmptyCache)
    <3>1. /\ DOMAIN EmptyCache.entries = {} /\ DOMAIN EmptyCache = {"generation", "entries"}
          /\ EmptyCache.generation = 0
      BY DEF EmptyCache
    <3> QED
      BY <3>1 DEF CacheOK
  <2> DEFINE s == SchemaSession(a)
  <2>2. s # Scratch => s \in DOMAIN a.sessions
    BY SchemaSessionIs
  <2>3. View(a).cache = IF s = Scratch THEN EmptyCache ELSE a.sessions[s].cache
    BY DEF View
  <2> HIDE DEF s
  <2> QED
    BY <2>1, <2>2, <2>3 DEF CachesOK
<1>2. ~a.filtering => ~Filters(View(a))
  BY DEF View, Filters
<1> QED
  BY <1>1, <1>2, FlattenShape DEF Rows

\* The app's caches are sound, as it is.
LEMMA CachesAre ==
  ASSUME BrowseInv
  PROVE  AppOK(app) /\ CachesOK(app)
BY GoodIsOK DEF BrowseInv, SessionsOK, SessionOK, CachesOK

\* The selection is on a row; only under a filter that leaves none is it nowhere.
SelectionOK(a) ==
  IF Rows(a) = <<>> THEN a.filtering /\ a.key = NoKey /\ a.selected = 1
  ELSE Contains(Rows(a), a.key)

\* A selection that is nowhere is found again at the top.
Placed(a) == DOMAIN a = AppFields /\ (a.key = NoKey => a.selected = 1)

\* No row is the key of nothing.
LEMMA RowsAreNodes ==
  ASSUME NEW rows, IsRows(rows), NEW key, Contains(rows, key)
  PROVE  key # NoKey
<1>1. PICK i \in 1..Len(rows) : rows[i] = key
  BY SeqShape DEF IsRows, Contains
<1> QED
  BY <1>1 DEF IsRows, NoKey, Key

\* A sound selection is in its place.
LEMMA SelectionIsPlaced ==
  ASSUME BrowseInv, SelectionOK(app)
  PROVE  Placed(app)
<1>1. IsRows(Rows(app)) /\ DOMAIN app = AppFields
  BY CachesAre, RowsShape DEF AppOK
<1> QED
  BY <1>1, RowsAreNodes DEF SelectionOK, Placed

\* `tree::after` loads, lists and selects.
LEMMA AfterSelects ==
  ASSUME NEW a, NEW out, DOMAIN a = AppFields, AndAfter(a, out)
  PROVE  \E b, c : /\ DOMAIN b = AppFields /\ \A f \in AppFields \ {"sessions"} : b[f] = a[f]
                   /\ c = Reselected(b, Rows(app'))
                   /\ app'.key = c.key /\ app'.selected = c.selected
                   /\ app'.filtering = a.filtering
<1> DEFINE t == TreeLoaded(a)
           b == AllLoaded(a)
           rows == Rows(b)
           c == Reselected(b, rows)
<1>1. DOMAIN b = AppFields /\ \A f \in AppFields \ {"sessions"} : b[f] = a[f]
  <2>1. DOMAIN t = AppFields /\ \A f \in AppFields \ {"sessions"} : t[f] = a[f]
    BY DEF TreeLoaded, WithLoads, AppFields
  <2> DEFINE new == [s \in DOMAIN t.sessions |-> Inspected(t.sessions[s])]
  <2>2. b = [t EXCEPT !.sessions = new]
    BY DEF AllLoaded
  <2> HIDE DEF t, b, new
  <2> QED
    BY <2>1, <2>2 DEF AppFields
<1>2. app' = [c EXCEPT !.spinning = @ \/ Waiting(c)]
  BY DEF AndAfter
<1> HIDE DEF b
<1>3. Rows(app') = rows /\ app'.key = c.key /\ app'.selected = c.selected /\ app'.filtering = b.filtering
  <2> HIDE DEF rows
  <2>1. /\ DOMAIN c = AppFields
        /\ \A f \in AppFields \ {"selected", "key", "jump"} : c[f] = b[f]
    BY <1>1 DEF Reselected, AppFields
  <2> HIDE DEF c
  <2>2. /\ app'.key = c.key /\ app'.selected = c.selected
        /\ \A f \in AppFields \ {"selected", "key", "jump", "spinning"} : app'[f] = b[f]
    BY <1>2, <2>1 DEF AppFields
  <2>3. /\ app'.sessions = b.sessions /\ app'.active = b.active /\ app'.order = b.order
        /\ app'.open = b.open /\ app'.filtering = b.filtering /\ app'.text = b.text
        /\ app'.showSystem = b.showSystem
    BY <2>2 DEF AppFields
  <2>4. SchemaSession(app') = SchemaSession(b) /\ Connecting(app') = Connecting(b)
    BY <2>3 DEF SchemaSession, Connecting, ForConnection, Opened
  <2>5. View(app') = View(b)
    BY <2>3, <2>4 DEF View
  <2> QED
    BY <2>2, <2>3, <2>5 DEF Rows, rows
<1>4. c = Reselected(b, Rows(app')) /\ app'.filtering = a.filtering
  BY <1>1, <1>3 DEF AppFields
<1> QED
  BY <1>1, <1>3, <1>4

\* After a handler that left the selection in its place, it is sound; and if the
\* handler did not jump to a match, it follows its node.
LEMMA AfterFollows ==
  ASSUME BrowseInv', NEW a, NEW out, Placed(a), AndAfter(a, out)
  PROVE  SelectionOK(app') /\ (~a.jump => SelectionFollows(a, app'))
<1> DEFINE rows == Rows(app')
           key == a.key
           line == Line(key)
<1>1. PICK b, c : /\ DOMAIN b = AppFields /\ \A f \in AppFields \ {"sessions"} : b[f] = a[f]
                  /\ c = Reselected(b, rows)
                  /\ app'.key = c.key /\ app'.selected = c.selected
                  /\ app'.filtering = a.filtering
  BY AfterSelects DEF Placed
<1>2. /\ b.key = key /\ b.jump = a.jump /\ b.filtering = a.filtering /\ b.text = a.text
      /\ b.selected = a.selected
  BY <1>1 DEF AppFields
<1>3. /\ IsRows(rows) /\ (rows # <<>> => rows[1] = ConnectionRow)
      /\ (~app'.filtering => rows # <<>>)
  <2>1. AppOK(app') /\ CachesOK(app')
    <3>1. AppOK(app') /\ \A s \in DOMAIN app'.sessions : \E way, known : Good(app'.sessions[s].cache, way, known)
      BY DEF BrowseInv, SessionsOK, SessionOK
    <3> QED
      BY <3>1, GoodIsOK DEF CachesOK
  <2> QED
    BY <2>1, RowsShape
<1> HIDE DEF rows
<1>4. IsSequence(rows) /\ DOMAIN rows = 1..Len(rows) /\ Len(rows) \in Nat
  BY <1>3, SeqShape DEF IsRows, IsSequence
<1>5. CASE rows = <<>>
  <2>1. c.key = NoKey /\ c.selected = 1
    BY <1>1, <1>5 DEF Reselected, AppFields
  <2> QED
    BY <2>1, <1>1, <1>3, <1>5 DEF SelectionOK, SelectionFollows, rows
<1>6. CASE rows # <<>>
  <2> DEFINE found == IF key = NoKey THEN 0 ELSE Find(rows, key)
             shown == {i \in DOMAIN line : Contains(rows, line[i])}
             at == IF found # 0 THEN found
                   ELSE IF b.selected <= Len(rows) THEN b.selected ELSE Len(rows)
             to == IF b.filtering /\ b.jump THEN FirstHit(rows, b.text) ELSE at
  <2>1. c.key = rows[to]
    <3>1. c = [b EXCEPT !.selected = to, !.key = rows[to], !.jump = FALSE]
      BY <1>1, <1>2, <1>6 DEF Reselected
    <3> HIDE DEF to
    <3> QED
      BY <3>1, <1>1 DEF AppFields
  <2>2. 1 \in DOMAIN rows /\ 1 <= Len(rows)
    <3>1. Len(rows) # 0
      BY <1>4, <1>6 DEF IsSequence
    <3> QED
      BY <3>1, <1>4
  <2>3. IsSequence(line) /\ Contains(line, key) /\ Contains(line, ConnectionRow)
    BY LineShape
  <2> HIDE DEF at, to

\* On the row of its node,
  <2>4. ASSUME key # NoKey, Contains(rows, key) PROVE at \in DOMAIN rows /\ rows[at] = key
    <3>1. found \in 1..Len(rows) /\ rows[found] = key
      BY <2>4, <1>4, PlaceIs DEF Find
    <3> HIDE DEF found
    <3>2. at = found
      BY <3>1, <1>4 DEF at
    <3> QED
      BY <3>1, <3>2, <1>4

\* on the nearest above it that shows, as the connection does,
  <2>5. ASSUME key # NoKey, ~Contains(rows, key)
        PROVE  at \in DOMAIN rows /\ Contains(line, rows[at])
    <3> DEFINE m == Min(shown)
    <3>1. DOMAIN line = 1..Len(line) /\ Len(line) \in Nat
      BY <2>3, SeqShape DEF IsSequence
    <3>2. shown # {}
      <4>1. PICK i \in 1..Len(line) : line[i] = ConnectionRow
        BY <2>3 DEF Contains
      <4>2. Contains(rows, ConnectionRow)
        BY <1>3, <1>4, <1>6, <2>2 DEF Contains
      <4> HIDE DEF line
      <4> QED
        BY <4>1, <4>2, <3>1
    <3>3. m \in shown /\ m \in 1..Len(line)
      <4>1. shown \in SUBSET Nat
        BY <3>1
      <4> HIDE DEF shown
      <4>2. m \in shown
        BY <4>1, <3>2, MinIsLeast
      <4> QED
        BY <3>1, <4>2 DEF shown
    <3>4. found = PlaceOf(rows, line[m])
      BY <2>5, <3>2 DEF Find
    <3> HIDE DEF m, line
    <3>5. found \in 1..Len(rows) /\ rows[found] = line[m]
      BY <3>3, <3>4, <1>4, PlaceIs
    <3> HIDE DEF found
    <3>6. at = found
      <4>1. found # 0
        BY <3>5, <1>4
      <4> QED
        BY <4>1 DEF at
    <3>7. Contains(line, line[m])
      BY <3>3 DEF Contains
    <3> QED
      BY <3>5, <3>6, <3>7, <1>4

\* or, if it was nowhere, on the first.
  <2>6. ASSUME key = NoKey PROVE at \in DOMAIN rows /\ rows[at] = ConnectionRow
    <3>1. b.selected = 1
      BY <2>6, <1>2 DEF Placed
    <3>2. at = 1
      BY <2>2, <2>6, <3>1 DEF at
    <3> QED
      BY <2>2, <3>2, <1>3, <1>6
  <2>7. to \in DOMAIN rows
    <3>1. at \in DOMAIN rows
      BY <2>4, <2>5, <2>6
    <3> DEFINE hits == {i \in DOMAIN rows :
                          Named(rows[i]) /\ (b.text = "" \/ Hits(b.text, OwnName(rows[i])))}
    <3>2. hits # {} => \E i \in hits : \A j \in hits : i <= j
      <4>1. DOMAIN rows \subseteq Nat
        BY <1>4
      <4>2. hits \in SUBSET Nat
        BY <4>1
      <4> HIDE DEF hits
      <4> QED
        BY <4>2, MinIsLeast
    <3>3. FirstHit(rows, b.text) \in DOMAIN rows
      <4>1. FirstHit(rows, b.text) = IF hits = {} THEN 1 ELSE CHOOSE i \in hits : \A j \in hits : i <= j
        BY DEF FirstHit
      <4>2. hits \subseteq DOMAIN rows
        OBVIOUS
      <4> HIDE DEF hits
      <4> QED
        BY <4>1, <4>2, <3>2, <2>2
    <3> QED
      BY <3>1, <3>3 DEF to
  <2>8. SelectionOK(app')
    <3>1. Contains(rows, c.key)
      BY <2>1, <2>7, <1>4 DEF Contains
    <3> QED
      BY <3>1, <1>1, <1>6 DEF SelectionOK, rows
  <2>9. ASSUME ~a.jump PROVE SelectionFollows(a, app')
    <3>1. app'.key = rows[at]
      BY <2>1, <2>9, <1>1, <1>2 DEF to
    <3> QED
      BY <3>1, <2>4, <2>5, <2>6, <1>6 DEF SelectionFollows, rows
  <2> QED
    BY <2>8, <2>9
<1> QED
  BY <1>5, <1>6

\* What a handler leaves of the selection: as it was, or on another node.
Leaves(a) ==
  /\ DOMAIN a = AppFields
  /\ a.key # NoKey \/ (a.key = app.key /\ a.selected = app.selected)

\* Every event of the user ends in `tree::after`, the selection in its place.
LEMMA UserSelects ==
  ASSUME BrowseInv, UserBrowses
  PROVE  \E a, out : Leaves(a) /\ AndAfter(a, out)
<1>1. DOMAIN app = AppFields /\ Leaves(app)
  BY DEF BrowseInv, AppOK, Leaves
<1> DEFINE waits(a, s) == [a EXCEPT !.sessions[s].expand = TRUE]
<1>2. ASSUME NEW a, Leaves(a), NEW s PROVE Leaves(waits(a, s))
  BY <1>2 DEF Leaves, AppFields
<1>3. \A s : /\ Leaves([app EXCEPT !.active = s])
             /\ Leaves(Reconnecting(app, s))
             /\ Leaves(WithSession(app, s))
  BY <1>1 DEF Leaves, AppFields, Reconnecting, WithSession
<1>4. ASSUME NEW a, Leaves(a), NEW s, NEW path, Load(a, s, path)
      PROVE  \E b, out : Leaves(b) /\ AndAfter(b, out)
  <2>1. Leaves(WithLoads(a, s, <<path>>))
    BY <1>4 DEF Leaves, AppFields, WithLoads
  <2> QED
    BY <1>4, <2>1 DEF Load
<1>5. CASE OpenConnection
  BY <1>3, <1>5 DEF OpenConnection, OpenOrSwitch
<1>6. CASE Reconnect
  BY <1>3, <1>6 DEF Reconnect
<1>7. CASE OpenNewSession
  BY <1>3, <1>7 DEF OpenNewSession
<1>8. CASE Switch
  BY <1>3, <1>8 DEF Switch
<1>9. CASE Close
  <2>1. \A ss, o, t, d : Leaves([app EXCEPT !.sessions = ss, !.order = o, !.active = t, !.closed = d])
    BY <1>1 DEF Leaves, AppFields
  <2> QED
    BY <1>9, <2>1 DEF Close
<1>10. CASE MoveTo
  <2>1. ASSUME NEW i \in DOMAIN Rows(app)
        PROVE  Leaves([app EXCEPT !.selected = i, !.key = Rows(app)[i]])
    <3>1. Rows(app)[i].kind # "none"
      BY <2>1, CachesAre, RowsShape, SeqShape DEF IsRows
    <3>2. Rows(app)[i] # NoKey
      BY <3>1 DEF NoKey, Key
    <3> QED
      BY <1>1, <3>2 DEF Leaves, AppFields
  <2> QED
    BY <1>10, <2>1 DEF MoveTo
<1>11. CASE Expand
  <2>1. \A o : Leaves([app EXCEPT !.open = o])
    BY <1>1 DEF Leaves, AppFields
  <2>2. \A s : Leaves(waits(app, s)) /\ Leaves(waits(WithSession(app, s), s))
               /\ Leaves(waits(Reconnecting(app, s), s))
               /\ Leaves(waits([app EXCEPT !.active = s], s))
    <3> HIDE DEF waits
    <3> QED
      BY <1>1, <1>2, <1>3
  <2>3. \/ \E o : AndAfter([app EXCEPT !.open = o], NoCommands)
        \/ \E s, out : \/ AndAfter(waits(app, s), out)
                       \/ AndAfter(waits(WithSession(app, s), s), out)
                       \/ AndAfter(waits(Reconnecting(app, s), s), out)
                       \/ AndAfter(waits([app EXCEPT !.active = s], s), out)
    BY <1>11 DEF Expand, OpenOrSwitch
  <2> HIDE DEF waits
  <2> QED
    BY <2>1, <2>2, <2>3
<1>12. CASE Collapse
  <2>1. \A o : Leaves([app EXCEPT !.open = o])
    BY <1>1 DEF Leaves, AppFields
  <2> QED
    BY <1>12, <2>1 DEF Collapse
<1>13. CASE Refresh
  BY <1>1, <1>4, <1>13 DEF Refresh
<1>14. CASE RefreshAll
  <2>1. \A s : Leaves([app EXCEPT !.sessions[s].cache = Clear(@)])
    BY <1>1 DEF Leaves, AppFields
  <2> QED
    BY <1>14, <2>1 DEF RefreshAll
<1>15. CASE ToggleSystemObjects
  <2>1. \A o : Leaves([app EXCEPT !.showSystem = o])
    BY <1>1 DEF Leaves, AppFields
  <2> QED
    BY <1>15, <2>1 DEF ToggleSystemObjects
<1>16. CASE Filter
  <2>1. \A k, t : Leaves([app EXCEPT !.filtering = TRUE, !.editing = TRUE, !.jump = FALSE,
                                     !.before = k, !.text = t])
    BY <1>1 DEF Leaves, AppFields
  <2> QED
    BY <1>16, <2>1 DEF Filter
<1>17. CASE TypeFilter
  <2>1. \A t, e : Leaves([app EXCEPT !.text = t, !.editing = e, !.jump = TRUE])
    BY <1>1 DEF Leaves, AppFields
  <2> QED
    BY <1>17, <2>1 DEF TypeFilter
<1>18. CASE ClearFilter
  <2>1. Leaves([app EXCEPT !.filtering = FALSE, !.editing = FALSE, !.jump = FALSE,
                           !.key = IF app.before = NoKey THEN @ ELSE app.before])
    BY <1>1 DEF Leaves, AppFields
  <2> QED
    BY <1>18, <2>1 DEF ClearFilter
<1>19. CASE Describe
  <2> DEFINE a(s, path) == [app EXCEPT !.active = s, !.sessions[s].describe = path]
  <2>1. \A s, path : Leaves(a(s, path))
    BY <1>1 DEF Leaves, AppFields
  <2>2. \E s, path : Load(a(s, path), s, path) \/ AndAfter(a(s, path), NoCommands)
    BY <1>19 DEF Describe
  <2> HIDE DEF a
  <2> QED
    BY <1>4, <2>1, <2>2
<1>20. CASE LeaveDescribe
  <2>1. \A s : Leaves([app EXCEPT !.sessions[s].describe = NoPath])
    BY <1>1 DEF Leaves, AppFields
  <2> QED
    BY <1>20, <2>1 DEF LeaveDescribe
<1>21. CASE RunDdl
  <2>1. \A s : Leaves([app EXCEPT !.sessions[s].running = TRUE, !.sessions[s].cancelled = FALSE])
    BY <1>1 DEF Leaves, AppFields
  <2> QED
    BY <1>21, <2>1 DEF RunDdl
<1>22. CASE CancelDdl
  <2>1. \A s : Leaves([app EXCEPT !.sessions[s].cancelled = TRUE])
    BY <1>1 DEF Leaves, AppFields
  <2> QED
    BY <1>22, <2>1 DEF CancelDdl
<1> QED
  BY <1>5, <1>6, <1>7, <1>8, <1>9, <1>10, <1>11, <1>12, <1>13, <1>14, <1>15, <1>16, <1>17, <1>18,
     <1>19, <1>20, <1>21, <1>22 DEF UserBrowses

\* An answer leaves the selection to `tree::after`.
LEMMA AnswersSelect ==
  ASSUME BrowseInv, BrowseInv', SelectionOK(app), NEW s \in BrowseSessions, Hear(s)
  PROVE  SelectionOK(app') /\ SelectionFollows(app, app')
<1> DEFINE a == Heard(Head(outbox[s]), s)
<1>1. /\ AndAfter(a, NoCommands) /\ AppOK(a) /\ a.key = app.key /\ a.jump = app.jump
      /\ a.selected = app.selected
  BY HeardIsSound
<1> HIDE DEF a
<1>2. Placed(a) /\ ~a.jump
  BY <1>1, SelectionIsPlaced DEF Placed, AppOK, BrowseInv
<1>3. SelectionOK(app') /\ SelectionFollows(a, app')
  BY <1>1, <1>2, AfterFollows
<1> QED
  BY <1>1, <1>3 DEF SelectionFollows

\* A step that changes the app at most in its spinner leaves the selection alone.
LEMMA IdleSelects ==
  ASSUME BrowseInv, SelectionOK(app), app' = app \/ app' = [app EXCEPT !.spinning = FALSE]
  PROVE  SelectionOK(app') /\ SelectionFollows(app, app')
<1>1. DOMAIN app = AppFields
  BY DEF BrowseInv, AppOK
<1>2. /\ app'.sessions = app.sessions /\ app'.active = app.active /\ app'.order = app.order
      /\ app'.open = app.open /\ app'.filtering = app.filtering /\ app'.text = app.text
      /\ app'.showSystem = app.showSystem /\ app'.key = app.key /\ app'.selected = app.selected
  BY <1>1 DEF AppFields
<1>3. SchemaSession(app') = SchemaSession(app) /\ Connecting(app') = Connecting(app)
  BY <1>2 DEF SchemaSession, Connecting, ForConnection, Opened
<1>4. Rows(app') = Rows(app)
  BY <1>2, <1>3 DEF View, Rows
<1>5. IsRows(Rows(app))
  BY CachesAre, RowsShape
<1> QED
  BY <1>2, <1>4, <1>5, RowsAreNodes DEF SelectionOK, SelectionFollows

\* The steps of the workers and of the spinner.
LEMMA IdleIs ==
  ASSUME \/ \E s \in BrowseSessions : Work(s)
         \/ Spin
         \/ UNCHANGED browseVars
  PROVE  app' = app \/ app' = [app EXCEPT !.spinning = FALSE]
BY DEF Work, Spin, browseVars

\* At the start the connection shows, and it is selected.
LEMMA StartSelects == BrowseInit => SelectionOK(app)
<1> SUFFICES ASSUME BrowseInit PROVE SelectionOK(app)
  OBVIOUS
<1>1. app.key = ConnectionRow /\ ~app.filtering
  BY DEF BrowseInit
<1>2. Rows(app) # <<>> /\ Rows(app)[1] = ConnectionRow /\ IsRows(Rows(app))
  BY <1>1, StartIsSound, CachesAre, RowsShape
<1> DEFINE rows == Rows(app)
<1> HIDE DEF rows
<1>3. 1 \in 1..Len(rows)
  <2>1. Len(rows) \in Nat /\ Len(rows) # 0
    BY <1>2 DEF rows, IsRows, IsSequence
  <2> QED
    BY <2>1
<1>4. Contains(rows, ConnectionRow)
  BY <1>2, <1>3 DEF rows, Contains
<1> QED
  BY <1>1, <1>2, <1>4 DEF SelectionOK, rows

\* The selection is always on a row, or nothing shows under a filter.
LEMMA SelectionIsSound == BrowseSpec => [](BrowseInv /\ SelectionOK(app))
<1>1. BrowseInit => SelectionOK(app)
  BY StartSelects
<1>2. BrowseInv /\ BrowseInv' /\ SelectionOK(app) /\ [BrowseNext]_browseVars => SelectionOK(app)'
  <2> SUFFICES ASSUME BrowseInv, BrowseInv', SelectionOK(app), [BrowseNext]_browseVars
               PROVE  SelectionOK(app')
    BY DEF SelectionOK, Rows
  <2>1. CASE UserBrowses
    <3>1. PICK a, out : Leaves(a) /\ AndAfter(a, out)
      BY <2>1, UserSelects
    <3>2. Placed(a)
      BY <3>1, SelectionIsPlaced DEF Placed, Leaves
    <3> QED
      BY <3>1, <3>2, AfterFollows
  <2>2. CASE \E s \in BrowseSessions : Hear(s)
    BY <2>2, AnswersSelect
  <2>3. CASE \/ \E s \in BrowseSessions : Work(s)
             \/ Spin
             \/ UNCHANGED browseVars
    BY <2>3, IdleIs, IdleSelects
  <2> QED
    BY <2>1, <2>2, <2>3 DEF BrowseNext
<1> QED
  BY <1>1, <1>2, BrowserIsSound, PTL DEF BrowseSpec

\* What the user did not do leaves the selection on its node while that shows, and
\* else takes it up to an ancestor; while nothing shows at all, which is only under a
\* filter, it is nowhere, and it comes back on the connection.
THEOREM SelectionAlwaysStays == BrowseSpec => SelectionStays
<1>1. ASSUME BrowseInv, BrowseInv', SelectionOK(app), [BrowseNext]_browseVars, ops' = ops
      PROVE  SelectionFollows(app, app')
  <2>1. ASSUME UserBrowses PROVE FALSE
    <3>1. \E op : UserDoes(op)
      BY <2>1 DEF UserBrowses, OpenConnection, Reconnect, OpenNewSession, Switch, Close, MoveTo,
         Expand, Collapse, Refresh, RefreshAll, ToggleSystemObjects, Filter, TypeFilter,
         ClearFilter, Describe, LeaveDescribe, RunDdl, CancelDdl
    <3>2. ops' = [ops EXCEPT !.left = @ - 1]
      BY <3>1 DEF UserDoes
    <3>3. ops.left \in Nat /\ ops'.left = ops.left - 1 /\ ops'.left = ops.left
      BY <1>1, <3>2 DEF BrowseInv, OpsOK
    <3>4. \A n \in Nat : n # n - 1
      OBVIOUS
    <3> QED
      BY <3>3, <3>4
  <2>2. CASE \E s \in BrowseSessions : Hear(s)
    BY <1>1, <2>2, AnswersSelect
  <2>3. CASE \/ \E s \in BrowseSessions : Work(s)
             \/ Spin
             \/ UNCHANGED browseVars
    BY <1>1, <2>3, IdleIs, IdleSelects
  <2> QED
    BY <1>1, <2>1, <2>2, <2>3 DEF BrowseNext
<1>2. BrowseInv /\ BrowseInv' /\ SelectionOK(app) /\ [BrowseNext]_browseVars =>
        [ops' = ops => SelectionFollows(app, app')]_browseVars
  BY <1>1
<1> QED
  BY <1>2, SelectionIsSound, PTL DEF BrowseSpec, SelectionStays
=============================================================================
