------------------------ MODULE StatementLineProofs ------------------------
(***************************************************************************)
(* Every behaviour of StatementLine shows results in the order their       *)
(* statements were run, each at most once.  The order of the tabs alone    *)
(* is not inductive: a result is shown from the line, so the line must     *)
(* stand in order behind the tabs, and below the next id to be given out.  *)
(***************************************************************************)
EXTENDS StatementLine, TLAPS

Below(a, b) == \A i \in DOMAIN a, j \in DOMAIN b : a[i] < b[j]

LineTypeOK ==
  /\ asked \in Nat
  /\ line \in [Sessions -> Seq(1..asked)]
  /\ tabs \in [Sessions -> Seq(1..asked)]

InOrder(t, l) == Rising(t) /\ Rising(l) /\ Below(t, l)
LineInv == LineTypeOK /\ \A s \in Sessions : InOrder(tabs[s], line[s])

-----------------------------------------------------------------------------
(* Sequences *)

\* Two rising sequences, one below the other, rise together.
LEMMA RisingTogether ==
  ASSUME NEW a \in Seq(Nat), NEW b \in Seq(Nat), InOrder(a, b)
  PROVE  Rising(a \o b)
<1> SUFFICES ASSUME NEW i \in DOMAIN (a \o b), NEW j \in DOMAIN (a \o b), i < j
             PROVE  (a \o b)[i] < (a \o b)[j]
  BY DEF Rising
<1>1. /\ i \in 1..(Len(a) + Len(b)) /\ j \in 1..(Len(a) + Len(b))
      /\ DOMAIN a = 1..Len(a) /\ DOMAIN b = 1..Len(b)
      /\ Len(a) \in Nat /\ Len(b) \in Nat
  OBVIOUS
<1>2. /\ (a \o b)[i] = IF i <= Len(a) THEN a[i] ELSE b[i - Len(a)]
      /\ (a \o b)[j] = IF j <= Len(a) THEN a[j] ELSE b[j - Len(a)]
  BY <1>1
<1>3. CASE j <= Len(a)
  BY <1>1, <1>2, <1>3 DEF InOrder, Rising
<1>4. CASE i <= Len(a) /\ j > Len(a)
  <2>1. j - Len(a) \in DOMAIN b /\ i \in DOMAIN a
    BY <1>1, <1>4
  <2> QED  BY <2>1, <1>1, <1>2, <1>4 DEF InOrder, Below
<1>5. CASE i > Len(a)
  <2>1. i - Len(a) \in DOMAIN b /\ j - Len(a) \in DOMAIN b /\ i - Len(a) < j - Len(a)
    BY <1>1, <1>5
  <2>2. b[i - Len(a)] < b[j - Len(a)]
    BY <2>1 DEF InOrder, Rising
  <2> QED  BY <2>2, <1>1, <1>2, <1>5
<1> QED  BY <1>1, <1>3, <1>4, <1>5

\* The elements of a sequence over S are in S.
LEMMA ElementsOf ==
  ASSUME NEW S, NEW q \in Seq(S)
  PROVE  \A i \in DOMAIN q : q[i] \in S
  OBVIOUS

\* What is left of a sequence without its first element.
LEMMA WithoutFirst ==
  ASSUME NEW S, NEW q \in Seq(S), q # <<>>
  PROVE  /\ Head(q) \in S /\ Head(q) = q[1] /\ 1 \in DOMAIN q
         /\ Tail(q) \in Seq(S)
         /\ DOMAIN Tail(q) = 1..(Len(q) - 1)
         /\ \A i \in DOMAIN Tail(q) : i + 1 \in DOMAIN q /\ Tail(q)[i] = q[i + 1]
  OBVIOUS

\* A sequence with one element more.
LEMMA OneMore ==
  ASSUME NEW S, NEW q \in Seq(S), NEW e \in S
  PROVE  /\ Append(q, e) \in Seq(S) /\ Append(q, e) # <<>>
         /\ DOMAIN Append(q, e) = 1..(Len(q) + 1) /\ DOMAIN q = 1..Len(q) /\ Len(q) \in Nat
         /\ \A i \in DOMAIN q : Append(q, e)[i] = q[i]
         /\ Append(q, e)[Len(q) + 1] = e
  OBVIOUS

\* Losing the first element of either side keeps the order.
LEMMA TailInOrder ==
  ASSUME NEW a \in Seq(Nat), NEW b \in Seq(Nat), InOrder(a, b)
  PROVE  /\ a # <<>> => InOrder(Tail(a), b)
         /\ b # <<>> => InOrder(a, Tail(b))
         /\ InOrder(a, <<>>)
<1>1. ASSUME a # <<>> PROVE InOrder(Tail(a), b)
  <2>1. /\ DOMAIN Tail(a) = 1..(Len(a) - 1)
        /\ \A i \in DOMAIN Tail(a) : i + 1 \in DOMAIN a /\ Tail(a)[i] = a[i + 1]
    BY <1>1, WithoutFirst
  <2>2. Rising(Tail(a))
    BY <2>1 DEF Rising, InOrder
  <2> QED  BY <2>1, <2>2 DEF Below, InOrder
<1>2. ASSUME b # <<>> PROVE InOrder(a, Tail(b))
  <2>1. /\ DOMAIN Tail(b) = 1..(Len(b) - 1)
        /\ \A i \in DOMAIN Tail(b) : i + 1 \in DOMAIN b /\ Tail(b)[i] = b[i + 1]
    BY <1>2, WithoutFirst
  <2>2. Rising(Tail(b))
    BY <2>1 DEF Rising, InOrder
  <2> QED  BY <2>1, <2>2 DEF Below, InOrder
<1>3. InOrder(a, <<>>)
  BY DEF InOrder, Rising, Below
<1> QED  BY <1>1, <1>2, <1>3

\* The first of the line may be shown after all the tabs, and the line goes on
\* behind it.
LEMMA ShowFirst ==
  ASSUME NEW a \in Seq(Nat), NEW b \in Seq(Nat), InOrder(a, b), b # <<>>
  PROVE  InOrder(Append(a, Head(b)), Tail(b))
<1> DEFINE e == Head(b)
           c == Append(a, e)
<1>1. /\ e \in Nat /\ e = b[1] /\ 1 \in DOMAIN b
      /\ DOMAIN Tail(b) = 1..(Len(b) - 1)
      /\ \A i \in DOMAIN Tail(b) : i + 1 \in DOMAIN b /\ Tail(b)[i] = b[i + 1]
  BY WithoutFirst
<1>2. /\ DOMAIN c = 1..(Len(a) + 1) /\ DOMAIN a = 1..Len(a) /\ Len(a) \in Nat
      /\ \A i \in DOMAIN a : c[i] = a[i]
      /\ c[Len(a) + 1] = e
  BY <1>1, OneMore
<1>3. \A i \in DOMAIN a : c[i] < e
  BY <1>1, <1>2 DEF InOrder, Below
<1>4. Rising(c)
  <2> SUFFICES ASSUME NEW i \in DOMAIN c, NEW j \in DOMAIN c, i < j
               PROVE  c[i] < c[j]
    BY DEF Rising
  <2>1. i \in DOMAIN a
    BY <1>2
  <2>2. CASE j \in DOMAIN a
    BY <1>2, <2>1, <2>2 DEF InOrder, Rising
  <2>3. CASE j = Len(a) + 1
    BY <1>2, <1>3, <2>1, <2>3
  <2> QED  BY <1>2, <2>2, <2>3
<1>5. Rising(Tail(b))
  BY <1>1 DEF Rising, InOrder
<1>6. Below(c, Tail(b))
  <2> SUFFICES ASSUME NEW i \in DOMAIN c, NEW j \in DOMAIN Tail(b)
               PROVE  c[i] < Tail(b)[j]
    BY DEF Below
  <2>1. j + 1 \in DOMAIN b /\ Tail(b)[j] = b[j + 1] /\ 1 < j + 1
    BY <1>1
  <2>2. e < Tail(b)[j]
    BY <1>1, <2>1 DEF InOrder, Rising
  <2>3. CASE i \in DOMAIN a
    BY <1>2, <2>1, <2>3 DEF InOrder, Below
  <2>4. CASE i = Len(a) + 1
    BY <1>2, <2>2, <2>4
  <2> QED  BY <1>2, <2>3, <2>4
<1> QED  BY <1>4, <1>5, <1>6 DEF InOrder

\* A sequence without its i-th element is one of the same elements.
LEMMA WithoutOne ==
  ASSUME NEW S, NEW q \in Seq(S), NEW i \in 1..Len(q)
  PROVE  /\ Without(q, i) \in Seq(S)
         /\ DOMAIN Without(q, i) = 1..(Len(q) - 1)
         /\ \A k \in DOMAIN Without(q, i) :
              Without(q, i)[k] = IF k < i THEN q[k] ELSE q[k + 1]
<1>1. Len(q) \in Nat /\ \A k \in 1..Len(q) : q[k] \in S
  OBVIOUS
<1>2. Len(q) - 1 \in Nat
  BY <1>1
<1>3. \A k \in 1..(Len(q) - 1) : (IF k < i THEN q[k] ELSE q[k + 1]) \in S
  BY <1>1
<1> QED  BY <1>2, <1>3 DEF Without

\* Dropping one that waits keeps the order.
LEMMA DropInOrder ==
  ASSUME NEW a \in Seq(Nat), NEW b \in Seq(Nat), InOrder(a, b), NEW i \in 1..Len(b)
  PROVE  InOrder(a, Without(b, i))
<1> DEFINE c == Without(b, i)
<1>1. /\ DOMAIN c = 1..(Len(b) - 1)
      /\ \A k \in DOMAIN c : c[k] = IF k < i THEN b[k] ELSE b[k + 1]
  BY WithoutOne
<1>2. Len(b) \in Nat /\ DOMAIN b = 1..Len(b) /\ \A k \in 1..Len(b) : b[k] \in Nat
  OBVIOUS
<1> HIDE DEF c
<1>3. Rising(c)
  <2> SUFFICES ASSUME NEW j \in DOMAIN c, NEW k \in DOMAIN c, j < k
               PROVE  c[j] < c[k]
    BY DEF Rising
  <2>1. /\ j \in DOMAIN b /\ j + 1 \in DOMAIN b /\ k \in DOMAIN b /\ k + 1 \in DOMAIN b
        /\ j < k + 1 /\ j + 1 < k + 1 /\ i \in Nat /\ j \in Nat /\ k \in Nat
    <3>1. /\ Len(b) \in Nat /\ DOMAIN b = 1..Len(b) /\ i \in Nat
          /\ j \in Nat /\ 1 <= j /\ j + 1 <= Len(b)
          /\ k \in Nat /\ 1 <= k /\ k + 1 <= Len(b)
      <4>1. j \in Nat /\ 1 <= j /\ j + 1 <= Len(b)
        BY <1>1, <1>2
      <4>2. k \in Nat /\ 1 <= k /\ k + 1 <= Len(b)
        BY <1>1, <1>2
      <4> QED  BY <1>2, <4>1, <4>2
    <3>2. j \in 1..Len(b) /\ j + 1 \in 1..Len(b)
      BY <3>1
    <3>3. k \in 1..Len(b) /\ k + 1 \in 1..Len(b)
      BY <3>1
    <3> QED  BY <3>1, <3>2, <3>3
  <2>2. b[j] < b[k] /\ b[j] < b[k + 1] /\ b[j + 1] < b[k + 1]
    BY <2>1 DEF InOrder, Rising
  <2>3. j < i \/ ~(k < i)
    BY <2>1
  <2> QED  BY <1>1, <2>2, <2>3
<1>4. Below(a, c)
  <2> SUFFICES ASSUME NEW j \in DOMAIN a, NEW k \in DOMAIN c
               PROVE  a[j] < c[k]
    BY DEF Below
  <2>1. k \in DOMAIN b /\ k + 1 \in DOMAIN b
    <3>1. Len(b) \in Nat /\ DOMAIN b = 1..Len(b) /\ k \in Nat /\ 1 <= k /\ k + 1 <= Len(b)
      BY <1>1, <1>2
    <3>2. k \in 1..Len(b) /\ k + 1 \in 1..Len(b)
      BY <3>1
    <3> QED  BY <3>1, <3>2
  <2>2. a[j] < b[k] /\ a[j] < b[k + 1]
    BY <2>1 DEF InOrder, Below
  <2> QED  BY <1>1, <2>2
<1>5. Rising(a)
  BY DEF InOrder
<1> QED  BY <1>3, <1>4, <1>5 DEF InOrder, c

-----------------------------------------------------------------------------
(* The invariant *)

\* A sequence over a set is one over any larger set.
LEMMA SeqOverMore ==
  ASSUME NEW S, NEW T, S \subseteq T, NEW q \in Seq(S)
  PROVE  q \in Seq(T)
<1>1. Len(q) \in Nat /\ q = [i \in 1..Len(q) |-> q[i]] /\ \A i \in 1..Len(q) : q[i] \in T
  OBVIOUS
<1> QED  BY <1>1

\* A sequence of ids made so far is one of naturals.
LEMMA IdsAreNaturals ==
  ASSUME NEW n \in Nat, NEW q \in Seq(1..n)
  PROVE  q \in Seq(Nat)
  OBVIOUS

\* A step that gives one session another line and other tabs, in order.
LEMMA OneSessionMoves ==
  ASSUME LineInv, asked' = asked, NEW s \in Sessions,
         NEW l \in Seq(1..asked), NEW t \in Seq(1..asked), InOrder(t, l),
         line' = [line EXCEPT ![s] = l], tabs' = [tabs EXCEPT ![s] = t]
  PROVE  LineInv'
<1>1. LineTypeOK'
  BY DEF LineInv, LineTypeOK
<1>2. ASSUME NEW r \in Sessions PROVE InOrder(tabs'[r], line'[r])
  <2>1. CASE r = s
    BY <2>1 DEF LineInv, LineTypeOK
  <2>2. CASE r # s
    BY <2>2 DEF LineInv, LineTypeOK
  <2> QED  BY <2>1, <2>2
<1>3. (\A r \in Sessions : InOrder(tabs[r], line[r]))'
  BY <1>2 DEF InOrder, Rising, Below
<1> QED  BY <1>1, <1>3 DEF LineInv

\* What is asked joins its line behind what is shown and what stands there.
LEMMA AskKeepsOrder == ASSUME LineInv, Ask PROVE LineInv'
<1>1. /\ asked \in Nat /\ asked' \in Nat /\ asked' > asked /\ tabs' = tabs
      /\ line \in [Sessions -> Seq(1..asked)] /\ line' \in [Sessions -> Seq(1..asked')]
      /\ tabs \in [Sessions -> Seq(1..asked)]
  BY DEF LineInv, LineTypeOK, Ask
<1>2. \A q \in Seq(1..asked) : q \in Seq(1..asked')
  <2>1. 1..asked \subseteq 1..asked'
    BY <1>1
  <2> QED  BY <2>1, SeqOverMore
<1>3. LineTypeOK'
  BY <1>1, <1>2 DEF LineTypeOK
<1>4. ASSUME NEW s \in Sessions PROVE InOrder(tabs'[s], line'[s])
  <2> DEFINE t == tabs[s]
             l == line[s]
             m == line'[s]
  <2>1. /\ t \in Seq(1..asked) /\ l \in Seq(1..asked) /\ m \in Seq(1..asked')
        /\ InOrder(t, l) /\ Rising(m) /\ tabs'[s] = t
    BY <1>1 DEF LineInv, Ask
  <2>2. /\ Len(l) <= Len(m) /\ SubSeq(m, 1, Len(l)) = l
        /\ \A i \in (Len(l) + 1)..Len(m) : m[i] \in (asked + 1)..asked'
    BY DEF Ask, Longer
  <2> HIDE DEF t, l, m
  <2>3. /\ Len(l) \in Nat /\ DOMAIN l = 1..Len(l)
        /\ Len(m) \in Nat /\ DOMAIN m = 1..Len(m)
        /\ \A i \in DOMAIN t : t[i] \in 1..asked
    <3>1. l \in Seq(1..asked) /\ m \in Seq(1..asked') /\ t \in Seq(1..asked)
      BY <2>1
    <3>2. Len(l) \in Nat /\ DOMAIN l = 1..Len(l)
      BY <3>1
    <3>3. Len(m) \in Nat /\ DOMAIN m = 1..Len(m)
      BY <3>1
    <3>4. \A i \in DOMAIN t : t[i] \in 1..asked
      BY <3>1, ElementsOf
    <3> QED  BY <3>2, <3>3, <3>4
  <2>4. \A i \in 1..Len(l) : SubSeq(m, 1, Len(l))[i] = m[i]
    BY <2>1, <2>2, <2>3
  <2>5. \A i \in 1..Len(l) : m[i] = l[i]
    BY <2>2, <2>4
  <2>6. ASSUME NEW i \in DOMAIN t, NEW j \in DOMAIN m PROVE t[i] < m[j]
    <3>1. CASE j <= Len(l)
      BY <2>1, <2>3, <2>5, <3>1 DEF InOrder, Below
    <3>2. CASE j > Len(l)
      <4>1. m[j] \in (asked + 1)..asked' /\ t[i] \in 1..asked
        BY <2>2, <2>3, <3>2
      <4> QED  BY <1>1, <4>1
    <3> QED  BY <2>3, <3>1, <3>2
  <2> QED  BY <2>1, <2>6 DEF InOrder, Below, m
<1>5. (\A s \in Sessions : InOrder(tabs[s], line[s]))'
  BY <1>4 DEF InOrder, Rising, Below
<1> QED  BY <1>3, <1>5 DEF LineInv

\* What is answered goes from the front of its line to the end of the tabs.
LEMMA AnswerKeepsOrder ==
  ASSUME LineInv, NEW s \in Sessions, AnswerFirst(s) PROVE LineInv'
<1> DEFINE t == tabs[s]
           l == line[s]
<1>1. /\ asked \in Nat /\ asked' = asked /\ l # <<>>
      /\ t \in Seq(1..asked) /\ l \in Seq(1..asked) /\ InOrder(t, l)
      /\ tabs \in [Sessions -> Seq(1..asked)]
  BY DEF LineInv, LineTypeOK, AnswerFirst
<1>2. t \in Seq(Nat) /\ l \in Seq(Nat)
  BY <1>1, IdsAreNaturals
<1>3. PICK rest \in {Tail(l), <<>>} : line' = [line EXCEPT ![s] = rest]
  BY DEF AnswerFirst
<1>0. t = tabs[s] /\ l = line[s]
  OBVIOUS
<1>4. \/ tabs' = tabs
      \/ /\ Shows(t, tabs'[s], Head(l))
         /\ tabs' = [tabs EXCEPT ![s] = tabs'[s]]
  BY DEF AnswerFirst
<1> HIDE DEF t, l
<1> DEFINE c == Append(t, Head(l))
<1>5. Head(l) \in 1..asked /\ Tail(l) \in Seq(1..asked)
  BY <1>1, WithoutFirst
<1>6. c \in Seq(1..asked) /\ c # <<>>
  <2>1. ASSUME NEW S, t \in Seq(S), NEW e \in S
        PROVE  Append(t, e) \in Seq(S) /\ Append(t, e) # <<>>
    BY <2>1, OneMore
  <2> QED  BY <1>1, <1>5, <2>1
<1>7. c \in Seq(Nat) /\ Tail(l) \in Seq(Nat)
  BY <1>1, <1>5, <1>6, IdsAreNaturals
<1>8. InOrder(t, Tail(l)) /\ InOrder(t, <<>>)
  BY <1>1, <1>2, TailInOrder
<1>9. InOrder(c, Tail(l)) /\ InOrder(c, <<>>)
  BY <1>1, <1>2, <1>7, ShowFirst, TailInOrder
<1>10. InOrder(Tail(c), Tail(l)) /\ InOrder(Tail(c), <<>>)
  <2>1. InOrder(Tail(c), Tail(l))
    BY <1>6, <1>7, <1>9, TailInOrder
  <2>2. <<>> \in Seq(Nat)
    OBVIOUS
  <2>3. InOrder(Tail(c), <<>>)
    BY <1>6, <1>7, <1>9, <2>2, TailInOrder
  <2> QED  BY <2>1, <2>3
<1>11. Tail(c) \in Seq(1..asked) /\ rest \in Seq(1..asked)
  <2>1. Tail(c) \in Seq(1..asked)
    BY <1>6, WithoutFirst
  <2>2. <<>> \in Seq(1..asked)
    OBVIOUS
  <2> QED  BY <1>5, <2>1, <2>2
<1>12. CASE tabs' = tabs
  <2>1. tabs' = [tabs EXCEPT ![s] = t]
    BY <1>0, <1>1, <1>12
  <2>2. InOrder(t, rest)
    BY <1>3, <1>8
  <2> QED  BY <1>1, <1>3, <1>11, <2>1, <2>2, OneSessionMoves
<1>13. CASE Shows(t, tabs'[s], Head(l)) /\ tabs' = [tabs EXCEPT ![s] = tabs'[s]]
  <2>1. PICK after \in {c, Tail(c)} : tabs' = [tabs EXCEPT ![s] = after]
    BY <1>13 DEF Shows
  <2>2. after \in Seq(1..asked) /\ InOrder(after, rest)
    BY <1>3, <1>6, <1>9, <1>10, <1>11
  <2> QED  BY <1>1, <1>3, <1>11, <2>1, <2>2, OneSessionMoves
<1> QED  BY <1>4, <1>12, <1>13

\* The first of a line alone is a line.
LEMMA CancelKeepsOrder ==
  ASSUME LineInv, NEW s \in Sessions, CancelFirst(s) PROVE LineInv'
<1> DEFINE t == tabs[s]
           l == line[s]
<1>1. /\ asked \in Nat /\ asked' = asked /\ l # <<>>
      /\ t \in Seq(1..asked) /\ l \in Seq(1..asked) /\ InOrder(t, l)
      /\ tabs' = [tabs EXCEPT ![s] = t] /\ line' = [line EXCEPT ![s] = <<Head(l)>>]
  BY DEF LineInv, LineTypeOK, CancelFirst
<1>2. Head(l) \in 1..asked /\ Head(l) = l[1] /\ 1 \in DOMAIN l
  BY <1>1, WithoutFirst
<1>3. <<Head(l)>> \in Seq(1..asked)
  BY <1>2
<1>4. InOrder(t, <<Head(l)>>)
  BY <1>1, <1>2 DEF InOrder, Rising, Below
<1> QED  BY <1>1, <1>3, <1>4, OneSessionMoves

\* One that is dropped leaves the others in their order.
LEMMA DropKeepsOrder ==
  ASSUME LineInv, NEW s \in Sessions, DropWaiting(s) PROVE LineInv'
<1> DEFINE t == tabs[s]
           l == line[s]
<1>1. /\ asked \in Nat /\ asked' = asked
      /\ t \in Seq(1..asked) /\ l \in Seq(1..asked) /\ InOrder(t, l)
      /\ tabs' = [tabs EXCEPT ![s] = t]
  BY DEF LineInv, LineTypeOK, DropWaiting
<1>2. PICK i \in 2..Len(l) : line' = [line EXCEPT ![s] = Without(l, i)]
  BY <1>1 DEF DropWaiting, Without, LineInv, LineTypeOK
<1>3. t \in Seq(Nat) /\ l \in Seq(Nat) /\ i \in 1..Len(l)
  BY <1>1, IdsAreNaturals
<1>4. Without(l, i) \in Seq(1..asked)
  BY <1>1, <1>3, WithoutOne
<1>5. InOrder(t, Without(l, i))
  BY <1>1, <1>3, DropInOrder
<1> QED  BY <1>1, <1>2, <1>4, <1>5, OneSessionMoves

\* Nothing stands in nothing's order.
LEMMA ForgetKeepsOrder ==
  ASSUME LineInv, NEW s \in Sessions, Forget(s) PROVE LineInv'
<1>1. InOrder(<<>>, <<>>)
  BY DEF InOrder, Rising, Below
<1>2. <<>> \in Seq(1..asked)
  OBVIOUS
<1>3. /\ asked' = asked
      /\ line' = [line EXCEPT ![s] = <<>>] /\ tabs' = [tabs EXCEPT ![s] = <<>>]
  BY DEF Forget
<1> QED  BY <1>1, <1>2, <1>3, OneSessionMoves

\* They start in order, and every step keeps them so.
LEMMA LineInvHolds == LineInit => LineInv
BY DEF LineInit, LineInv, LineTypeOK, InOrder, Rising, Below

LEMMA LineInvKept == LineInv /\ [LineNext]_lineVars => LineInv'
<1> SUFFICES ASSUME LineInv, [LineNext]_lineVars PROVE LineInv'
  OBVIOUS
<1>1. CASE Ask
  BY <1>1, AskKeepsOrder
<1>2. ASSUME NEW s \in Sessions, AnswerFirst(s) PROVE LineInv'
  BY <1>2, AnswerKeepsOrder
<1>3. ASSUME NEW s \in Sessions, CancelFirst(s) PROVE LineInv'
  BY <1>3, CancelKeepsOrder
<1>4. ASSUME NEW s \in Sessions, DropWaiting(s) PROVE LineInv'
  BY <1>4, DropKeepsOrder
<1>5. ASSUME NEW s \in Sessions, Forget(s) PROVE LineInv'
  BY <1>5, ForgetKeepsOrder
<1>6. CASE UNCHANGED lineVars
  BY <1>6 DEF lineVars, LineInv, LineTypeOK, InOrder, Rising, Below
<1> QED  BY <1>1, <1>2, <1>3, <1>4, <1>5, <1>6 DEF LineNext

\* Every result is shown in its statement's turn, at most once, and before all
\* that still waits (what run.rs does with the queue, see QueryRun).
THEOREM ResultsInOrder == LineSpec => []ShownInOrder
<1>1. LineInv => ShownInOrder
  <2> SUFFICES ASSUME LineInv, NEW s \in Sessions PROVE Rising(tabs[s] \o line[s])
    BY DEF ShownInOrder
  <2>1. /\ asked \in Nat /\ tabs[s] \in Seq(1..asked) /\ line[s] \in Seq(1..asked)
        /\ InOrder(tabs[s], line[s])
    BY DEF LineInv, LineTypeOK
  <2> QED  BY <2>1, IdsAreNaturals, RisingTogether
<1> QED  BY <1>1, LineInvHolds, LineInvKept, PTL DEF LineSpec

-----------------------------------------------------------------------------
(* One line each *)

\* No statement stands in two lines.
Apart == \A s, t \in Sessions : s # t => Elements(line[s]) \cap Elements(line[t]) = {}

\* A line that only loses some stays apart from the others.
LEMMA FewerStayApart ==
  ASSUME Apart, NEW s \in Sessions, line \in [Sessions -> Seq(Nat)], NEW l,
         Elements(l) \subseteq Elements(line[s]), line' = [line EXCEPT ![s] = l]
  PROVE  Apart'
<1>1. ASSUME NEW t \in Sessions PROVE Elements(line'[t]) \subseteq Elements(line[t])
  <2>1. CASE t = s
    <3>1. line'[t] = l
      BY <2>1
    <3> QED
      BY <2>1, <3>1
  <2>2. CASE t # s
    <3>1. line'[t] = line[t]
      BY <2>2
    <3> QED
      BY <3>1
  <2> QED
    BY <2>1, <2>2
<1>2. \A t, u \in Sessions : t # u => Elements(line'[t]) \cap Elements(line'[u]) = {}
  BY <1>1 DEF Apart
<1> QED
  BY <1>2 DEF Apart, Elements

\* Every step keeps the lines apart.
LEMMA ApartKept == LineInv /\ Apart /\ [LineNext]_lineVars => Apart'
<1> SUFFICES ASSUME LineInv, Apart, [LineNext]_lineVars PROVE Apart'
  OBVIOUS
<1>1. /\ line \in [Sessions -> Seq(1..asked)] /\ line \in [Sessions -> Seq(Nat)]
      /\ \A s \in Sessions : line[s] \in Seq(1..asked) /\ line[s] \in Seq(Nat)
  <2>1. asked \in Nat /\ line \in [Sessions -> Seq(1..asked)]
    BY DEF LineInv, LineTypeOK
  <2>2. \A s \in Sessions : line[s] \in Seq(Nat)
    BY <2>1, IdsAreNaturals
  <2> QED
    BY <2>1, <2>2
<1>2. CASE Ask
  <2>1. \A s, t \in Sessions : s # t => Elements(line'[s]) \cap Elements(line'[t]) = {}
    BY <1>2 DEF Ask
  <2> QED
    BY <2>1 DEF Apart, Elements
<1>3. ASSUME NEW s \in Sessions, AnswerFirst(s) PROVE Apart'
  <2>1. PICK rest \in {Tail(line[s]), <<>>} : line' = [line EXCEPT ![s] = rest]
    BY <1>3 DEF AnswerFirst
  <2>2. Elements(Tail(line[s])) \subseteq Elements(line[s])
    BY <1>1, <1>3, WithoutFirst DEF AnswerFirst, Elements
  <2>3. Elements(<<>>) = {}
    BY DEF Elements
  <2> QED
    BY <1>1, <2>1, <2>2, <2>3, FewerStayApart
<1>4. ASSUME NEW s \in Sessions, CancelFirst(s) PROVE Apart'
  <2>1. line' = [line EXCEPT ![s] = <<Head(line[s])>>] /\ line[s] # <<>>
    BY <1>4 DEF CancelFirst
  <2>2. Elements(<<Head(line[s])>>) \subseteq Elements(line[s])
    BY <1>1, <2>1, WithoutFirst DEF Elements
  <2> QED
    BY <1>1, <2>1, <2>2, FewerStayApart
<1>5. ASSUME NEW s \in Sessions, DropWaiting(s) PROVE Apart'
  <2>1. PICK i \in 2..Len(line[s]) : line' = [line EXCEPT ![s] = Without(line[s], i)]
    BY <1>1, <1>5 DEF DropWaiting, Without
  <2> DEFINE l == line[s]
             m == Without(l, i)
  <2>2. l \in Seq(Nat) /\ Len(l) \in Nat /\ DOMAIN l = 1..Len(l) /\ i \in 1..Len(l)
    BY <1>1
  <2>3. DOMAIN m = 1..(Len(l) - 1) /\ \A k \in DOMAIN m : m[k] = IF k < i THEN l[k] ELSE l[k + 1]
    BY <2>2, WithoutOne
  <2> HIDE DEF l, m
  <2>4. \A k \in DOMAIN m : k \in DOMAIN l /\ k + 1 \in DOMAIN l
    BY <2>2, <2>3
  <2>5. Elements(m) \subseteq Elements(l)
    BY <2>3, <2>4 DEF Elements
  <2> QED
    BY <1>1, <2>1, <2>5, FewerStayApart DEF l, m
<1>6. ASSUME NEW s \in Sessions, Forget(s) PROVE Apart'
  <2>1. line' = [line EXCEPT ![s] = <<>>] /\ Elements(<<>>) \subseteq Elements(line[s])
    BY <1>6 DEF Forget, Elements
  <2> QED
    BY <1>1, <2>1, FewerStayApart
<1>7. CASE UNCHANGED lineVars
  BY <1>7 DEF lineVars, Apart
<1> QED
  BY <1>2, <1>3, <1>4, <1>5, <1>6, <1>7 DEF LineNext

\* A statement belongs to one session: no other has it in its line.
THEOREM OneLineEach == LineSpec => []Apart
<1>1. LineInit => Apart
  BY DEF LineInit, Apart, Elements
<1> QED
  BY <1>1, LineInvHolds, LineInvKept, ApartKept, PTL DEF LineSpec
=============================================================================
