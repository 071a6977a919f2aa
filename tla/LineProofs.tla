----------------------------- MODULE LineProofs -----------------------------
(***************************************************************************)
(* Queues, registry, channels and workers together run one line of         *)
(* statements per session: each step of QueryRun is a step of              *)
(* StatementLine, or none that it tells apart.  Then, for a user who waits *)
(* for an idle session to run more: every tab shows its own rows, and      *)
(* loads on from its own stream.                                           *)
(***************************************************************************)
EXTENDS MCQueryRun, AnswersProofs

\* What StatementLine promises, with what is proved of it.
Line == INSTANCE StatementLineProofs WITH
  asked <- made,
  line <- [s \in Sessions |-> LineOf(session[s])],
  tabs <- [s \in Sessions |-> Ids(session[s].tabs)],
  cancelled <- stopped

\* What is shown of session s stays, and so does its line.
Shows(s) == Ids(session'[s].tabs) = Ids(session[s].tabs)
Stands(s) == LineOf(session'[s]) = LineOf(session[s]) /\ Shows(s)

-----------------------------------------------------------------------------
(* The steps of the promise *)

\* Nothing in line moves, nothing is shown.
LEMMA Standing ==
  ASSUME UNCHANGED <<made, stopped>>, \A s \in Sessions : Stands(s)
  PROVE  UNCHANGED Line!lineVars
BY DEF Line!lineVars, Stands, Shows

\* A session is left with neither line nor tabs.
LEMMA Forgetting ==
  ASSUME NEW s \in Sessions, UNCHANGED <<made, stopped>>, \A t \in Sessions \ {s} : Stands(t),
         LineOf(session'[s]) = <<>>, Ids(session'[s].tabs) = <<>>
  PROVE  Line!Forget(s)
BY DEF Line!Forget, Stands, Shows

\* What is in flight is marked, and stands alone.
LEMMA Cancelling ==
  ASSUME NEW s \in Sessions, UNCHANGED made, \A t \in Sessions \ {s} : Stands(t), Shows(s),
         LineOf(session[s]) # <<>>, LineOf(session'[s]) = <<Head(LineOf(session[s]))>>,
         stopped' = stopped \cup {Head(LineOf(session[s]))}
  PROVE  Line!CancelFirst(s)
BY DEF Line!CancelFirst, Stands, Shows

\* One that waits leaves the line.
LEMMA Dropping ==
  ASSUME NEW s \in Sessions, UNCHANGED <<made, stopped>>, \A t \in Sessions \ {s} : Stands(t), Shows(s),
         NEW i \in 2..Len(LineOf(session[s])),
         LineOf(session'[s]) = Line!Without(LineOf(session[s]), i)
  PROVE  Line!DropWaiting(s)
BY DEF Line!DropWaiting, Stands, Shows

\* What is in flight is answered, and shown unless it was cancelled.
LEMMA FirstIsAnswered ==
  ASSUME NEW s \in Sessions, UNCHANGED <<made, stopped>>, \A t \in Sessions \ {s} : Stands(t),
         LineOf(session[s]) # <<>>, LineOf(session'[s]) \in {Tail(LineOf(session[s])), <<>>},
         \/ Shows(s)
         \/ /\ Head(LineOf(session[s])) \notin stopped
            /\ Line!Shows(Ids(session[s].tabs), Ids(session'[s].tabs), Head(LineOf(session[s])))
  PROVE  Line!AnswerFirst(s)
<1> DEFINE l == [t \in Sessions |-> LineOf(session[t])]
           tabs == [t \in Sessions |-> Ids(session[t].tabs)]
<1>1. PICK rest \in {Tail(l[s]), <<>>} : l' = [l EXCEPT ![s] = rest]
  BY DEF Stands
<1>2. CASE Shows(s)
  <2>1. UNCHANGED tabs
    BY <1>2 DEF Stands, Shows
  <2> QED
    BY <1>1, <2>1 DEF Line!AnswerFirst
<1>3. CASE /\ Head(l[s]) \notin stopped
           /\ Line!Shows(Ids(session[s].tabs), Ids(session'[s].tabs), Head(l[s]))
  <2>1. tabs' = [tabs EXCEPT ![s] = tabs'[s]]
    BY DEF Stands, Shows
  <2> QED
    BY <1>1, <1>3, <2>1 DEF Line!AnswerFirst
<1> QED
  BY <1>2, <1>3

\* New statements join the ends of lines, each one its own.
LEMMA LinesGrow ==
  ASSUME Line!LineInv, Line!Apart, made' \in Nat, made < made', UNCHANGED stopped, NEW add,
         \A s \in Sessions :
           /\ LineOf(session'[s]) = LineOf(session[s]) \o add[s] /\ Shows(s)
           /\ add[s] \in Seq((made + 1)..made') /\ Line!Rising(add[s]),
         \A id \in (made + 1)..made' : \E s \in Sessions : id \in Line!Elements(add[s]),
         \A s, t \in Sessions : s # t => Line!Elements(add[s]) \cap Line!Elements(add[t]) = {}
  PROVE  Line!Ask
<1> DEFINE was(s) == LineOf(session[s])
           is(s) == LineOf(session'[s])
<1>1. /\ made \in Nat
      /\ \A s \in Sessions : was(s) \in Seq(1..made) /\ Line!Rising(was(s))
  BY DEF Line!LineInv, Line!LineTypeOK, Line!InOrder
<1>2. ASSUME NEW s \in Sessions
      PROVE  /\ is(s) \in Seq(1..made') /\ Line!Longer(was(s), is(s)) /\ Line!Rising(is(s))
             /\ \A i \in (Len(was(s)) + 1)..Len(is(s)) : is(s)[i] \in (made + 1)..made'
             /\ Line!Elements(is(s)) = Line!Elements(was(s)) \cup Line!Elements(add[s])
             /\ Line!Elements(was(s)) \subseteq 1..made
             /\ Line!Elements(add[s]) \subseteq (made + 1)..made'
  <2> DEFINE l == was(s)
             a == add[s]
             m == is(s)
  <2>1. /\ l \in Seq(1..made) /\ a \in Seq((made + 1)..made') /\ m = l \o a
        /\ Line!Rising(l) /\ Line!Rising(a)
    BY <1>1
  <2> HIDE DEF l, a, m
  <2>2. 1..made \subseteq 1..made' /\ (made + 1)..made' \subseteq 1..made' /\ 1..made' \subseteq Nat
    BY <1>1
  <2>3. l \in Seq(1..made') /\ a \in Seq(1..made')
    <3>1. l \in Seq(1..made')
      BY <2>1, <2>2, Line!SeqOverMore
    <3>2. a \in Seq(1..made')
      <4> DEFINE new == (made + 1)..made'
                 all == 1..made'
      <4>1. a \in Seq(new) /\ new \subseteq all
        BY <2>1, <2>2
      <4> HIDE DEF new, all
      <4>2. a \in Seq(all)
        BY <4>1, Line!SeqOverMore
      <4> QED
        BY <4>2 DEF all
    <3> QED
      BY <3>1, <3>2
  <2>4. /\ m \in Seq(1..made') /\ Len(m) = Len(l) + Len(a)
        /\ DOMAIN m = 1..(Len(l) + Len(a)) /\ Len(l) \in Nat /\ Len(a) \in Nat
        /\ DOMAIN l = 1..Len(l) /\ DOMAIN a = 1..Len(a)
        /\ \A i \in 1..Len(l) : m[i] = l[i]
        /\ \A i \in 1..Len(a) : m[Len(l) + i] = a[i]
    BY <2>1, <2>3, Joined
  <2>5. (\A i \in DOMAIN l : l[i] \in 1..made) /\ (\A i \in DOMAIN a : a[i] \in (made + 1)..made')
    BY <2>1, Line!ElementsOf
  <2>6. Line!Rising(m)
    <3>1. Line!Below(l, a)
      BY <1>1, <2>5 DEF Line!Below
    <3>2. l \in Seq(Nat) /\ a \in Seq(Nat)
      BY <2>2, <2>3, Line!SeqOverMore
    <3>3. Line!InOrder(l, a)
      BY <2>1, <3>1 DEF Line!InOrder
    <3> QED
      BY <2>1, <3>2, <3>3, Line!RisingTogether
  <2>7. Line!Longer(l, m)
    <3>1. SubSeq(m, 1, Len(l)) = l
      <4>1. /\ SubSeq(m, 1, Len(l)) \in Seq(1..made') /\ Len(SubSeq(m, 1, Len(l))) = Len(l)
            /\ \A i \in 1..Len(l) : SubSeq(m, 1, Len(l))[i] = m[i]
        BY <2>4
      <4> QED
        BY <2>3, <2>4, <4>1
    <3> QED
      BY <2>4, <3>1 DEF Line!Longer
  <2>8. \A i \in (Len(l) + 1)..Len(m) : m[i] \in (made + 1)..made'
    <3> SUFFICES ASSUME NEW i \in (Len(l) + 1)..Len(m) PROVE m[i] \in (made + 1)..made'
      OBVIOUS
    <3>1. i - Len(l) \in 1..Len(a) /\ Len(l) + (i - Len(l)) = i
      BY <2>4
    <3>2. m[Len(l) + (i - Len(l))] = a[i - Len(l)]
      BY <2>4, <3>1
    <3>3. a[i - Len(l)] \in (made + 1)..made'
      BY <2>4, <2>5, <3>1
    <3> QED
      BY <3>1, <3>2, <3>3
  <2>9. Line!Elements(m) = Line!Elements(l) \cup Line!Elements(a)
    <3>1. ASSUME NEW i \in DOMAIN m PROVE m[i] \in Line!Elements(l) \cup Line!Elements(a)
      <4>1. CASE i \in 1..Len(l)
        BY <2>4, <4>1 DEF Line!Elements
      <4>2. CASE i \notin 1..Len(l)
        <5>1. i - Len(l) \in 1..Len(a) /\ Len(l) + (i - Len(l)) = i
          BY <2>4, <4>2
        <5>2. m[i] = a[i - Len(l)]
          BY <2>4, <5>1
        <5> QED
          BY <2>4, <5>1, <5>2 DEF Line!Elements
      <4> QED
        BY <4>1, <4>2
    <3>2. ASSUME NEW i \in DOMAIN l PROVE l[i] \in Line!Elements(m)
      <4>1. i \in DOMAIN m /\ m[i] = l[i]
        BY <2>4
      <4> QED
        BY <4>1 DEF Line!Elements
    <3>3. ASSUME NEW i \in DOMAIN a PROVE a[i] \in Line!Elements(m)
      <4>1. Len(l) + i \in DOMAIN m /\ m[Len(l) + i] = a[i]
        BY <2>4
      <4> QED
        BY <4>1 DEF Line!Elements
    <3> QED
      BY <3>1, <3>2, <3>3 DEF Line!Elements
  <2>10. Line!Elements(l) \subseteq 1..made /\ Line!Elements(a) \subseteq (made + 1)..made'
    BY <2>5 DEF Line!Elements
  <2> QED
    BY <2>4, <2>6, <2>7, <2>8, <2>9, <2>10 DEF l, a, m
<1>3. \A id \in (made + 1)..made' : \E s \in Sessions : id \in Line!Elements(is(s))
  <2> SUFFICES ASSUME NEW id \in (made + 1)..made' PROVE \E s \in Sessions : id \in Line!Elements(is(s))
    OBVIOUS
  <2>1. PICK s \in Sessions : id \in Line!Elements(add[s])
    OBVIOUS
  <2> QED
    BY <1>2, <2>1
<1>4. \A s, t \in Sessions : s # t => Line!Elements(is(s)) \cap Line!Elements(is(t)) = {}
  <2> SUFFICES ASSUME NEW s \in Sessions, NEW t \in Sessions, s # t
               PROVE  Line!Elements(is(s)) \cap Line!Elements(is(t)) = {}
    OBVIOUS
  <2>1. Line!Elements(was(s)) \cap Line!Elements(was(t)) = {}
    BY DEF Line!Apart
  <2>2. \A id \in 1..made : id \notin (made + 1)..made'
    BY <1>1
  <2>3. Line!Elements(add[s]) \cap Line!Elements(add[t]) = {}
    OBVIOUS
  <2> DEFINE A(x) == Line!Elements(was(x))
             B(x) == Line!Elements(add[x])
  <2>4. /\ Line!Elements(is(s)) = A(s) \cup B(s) /\ Line!Elements(is(t)) = A(t) \cup B(t)
        /\ A(s) \subseteq 1..made /\ A(t) \subseteq 1..made
        /\ B(s) \subseteq (made + 1)..made' /\ B(t) \subseteq (made + 1)..made'
    BY <1>2
  <2> HIDE DEF A, B
  <2>5. A(s) \cap A(t) = {} /\ B(s) \cap B(t) = {}
    BY <2>1, <2>3 DEF A, B
  <2>6. A(s) \cap B(t) = {} /\ B(s) \cap A(t) = {}
    BY <2>2, <2>4
  <2> QED
    BY <2>4, <2>5, <2>6
<1> QED
  BY <1>1, <1>2, <1>3, <1>4 DEF Line!Ask, Shows

-----------------------------------------------------------------------------
(* Ids and lines *)

\* Sequences that agree in every place are one.
LEMMA SameSequence ==
  ASSUME NEW S, NEW p \in Seq(S), NEW q \in Seq(S), Len(p) = Len(q), \A i \in 1..Len(p) : p[i] = q[i]
  PROVE  p = q
OBVIOUS

\* A sequence with all its elements in T is one over T.
LEMMA SequenceOver ==
  ASSUME NEW S, NEW T, NEW q \in Seq(S), \A i \in 1..Len(q) : q[i] \in T
  PROVE  q \in Seq(T)
<1>1. Len(q) \in Nat /\ q = [i \in 1..Len(q) |-> q[i]]
  OBVIOUS
<1> QED
  BY <1>1

\* It does not matter which two of three are joined first.
LEMMA JoinedThrice ==
  ASSUME NEW p \in Seq(Nat), NEW q \in Seq(Nat), NEW r \in Seq(Nat)
  PROVE  p \o (q \o r) = (p \o q) \o r
<1> DEFINE a == q \o r
           b == p \o q
<1>1. /\ a \in Seq(Nat) /\ Len(a) = Len(q) + Len(r)
      /\ \A i \in 1..Len(q) : a[i] = q[i]
      /\ \A i \in 1..Len(r) : a[Len(q) + i] = r[i]
  BY Joined
<1>2. /\ b \in Seq(Nat) /\ Len(b) = Len(p) + Len(q)
      /\ \A i \in 1..Len(p) : b[i] = p[i]
      /\ \A i \in 1..Len(q) : b[Len(p) + i] = q[i]
  BY Joined
<1>3. Len(p) \in Nat /\ Len(q) \in Nat /\ Len(r) \in Nat
  OBVIOUS
<1> HIDE DEF a, b
<1> DEFINE c == p \o a
           d == b \o r
<1>4. /\ c \in Seq(Nat) /\ Len(c) = Len(p) + Len(a)
      /\ \A i \in 1..Len(p) : c[i] = p[i]
      /\ \A i \in 1..Len(a) : c[Len(p) + i] = a[i]
  <2>1. a \in Seq(Nat)
    BY <1>1
  <2> QED
    BY <2>1, Joined DEF c
<1>5. /\ d \in Seq(Nat) /\ Len(d) = Len(b) + Len(r)
      /\ \A i \in 1..Len(b) : d[i] = b[i]
      /\ \A i \in 1..Len(r) : d[Len(b) + i] = r[i]
  <2>1. b \in Seq(Nat)
    BY <1>2
  <2> QED
    BY <2>1, Joined DEF d
<1> HIDE DEF c, d
<1>6. ASSUME NEW i \in 1..Len(c) PROVE c[i] = d[i]
  <2>1. CASE i <= Len(p)
    <3>1. i \in 1..Len(p) /\ i \in 1..Len(b)
      BY <1>2, <1>3, <2>1
    <3> QED
      BY <1>2, <1>4, <1>5, <3>1
  <2>2. CASE Len(p) < i /\ i <= Len(b)
    <3> DEFINE k == i - Len(p)
    <3>1. k \in 1..Len(q) /\ k \in 1..Len(a) /\ i = Len(p) + k /\ i \in 1..Len(b)
      <4>1. Len(a) = Len(q) + Len(r) /\ Len(b) = Len(p) + Len(q)
        BY <1>1, <1>2
      <4> QED
        BY <1>3, <2>2, <4>1
    <3> HIDE DEF k
    <3>2. c[Len(p) + k] = a[k] /\ a[k] = q[k]
      BY <1>1, <1>4, <3>1
    <3>3. b[Len(p) + k] = q[k] /\ d[i] = b[i]
      BY <1>2, <1>5, <3>1
    <3> QED
      BY <3>1, <3>2, <3>3
  <2>3. CASE Len(b) < i
    <3> DEFINE k == i - Len(b)
    <3>1. /\ k \in 1..Len(r) /\ Len(q) + k \in 1..Len(a) /\ k \in Nat
          /\ i = Len(b) + k /\ i = Len(p) + (Len(q) + k)
      <4>1. Len(a) = Len(q) + Len(r) /\ Len(b) = Len(p) + Len(q) /\ Len(c) = Len(p) + Len(a)
        BY <1>1, <1>2, <1>4
      <4> QED
        BY <1>3, <2>3, <4>1
    <3> HIDE DEF k
    <3>2. c[Len(p) + (Len(q) + k)] = a[Len(q) + k] /\ a[Len(q) + k] = r[k]
      BY <1>1, <1>4, <3>1
    <3>3. d[Len(b) + k] = r[k]
      BY <1>5, <3>1
    <3> QED
      BY <3>1, <3>2, <3>3
  <2> QED
    BY <1>2, <1>3, <2>1, <2>2, <2>3
<1>7. Len(c) = Len(d)
  BY <1>1, <1>2, <1>3, <1>4, <1>5
<1>8. c = d
  BY <1>4, <1>5, <1>6, <1>7, SameSequence
<1> QED
  BY <1>8 DEF a, b, c, d

\* The ids of a sequence stand where what they identify does.
LEMMA IdsOf ==
  ASSUME NEW R, \A x \in R : x.job \in Nat, NEW q \in Seq(R)
  PROVE  /\ Ids(q) \in Seq(Nat) /\ Len(Ids(q)) = Len(q)
         /\ DOMAIN Ids(q) = 1..Len(q) /\ DOMAIN q = 1..Len(q) /\ Len(q) \in Nat
         /\ \A i \in 1..Len(q) : q[i] \in R /\ Ids(q)[i] = q[i].job
<1>1. DOMAIN q = 1..Len(q) /\ Len(q) \in Nat /\ \A i \in 1..Len(q) : q[i] \in R
  OBVIOUS
<1>2. \A i \in 1..Len(q) : q[i].job \in Nat
  BY <1>1
<1>3. Ids(q) = [i \in 1..Len(q) |-> q[i].job]
  BY <1>1 DEF Ids
<1> QED
  BY <1>1, <1>2, <1>3

\* What there is none of has no ids.
LEMMA IdsOfNone == Ids(<<>>) = <<>>
BY DEF Ids

\* The ids of two sequences, one behind the other.
LEMMA IdsJoined ==
  ASSUME NEW R, \A x \in R : x.job \in Nat, NEW p \in Seq(R), NEW q \in Seq(R)
  PROVE  Ids(p \o q) = Ids(p) \o Ids(q)
<1> DEFINE r == p \o q
           a == Ids(p)
           b == Ids(q)
<1>1. /\ r \in Seq(R) /\ Len(r) = Len(p) + Len(q)
      /\ \A i \in 1..Len(p) : r[i] = p[i]
      /\ \A i \in 1..Len(q) : r[Len(p) + i] = q[i]
  BY Joined
<1>2. /\ a \in Seq(Nat) /\ Len(a) = Len(p) /\ Len(p) \in Nat /\ \A i \in 1..Len(p) : a[i] = p[i].job
      /\ b \in Seq(Nat) /\ Len(b) = Len(q) /\ Len(q) \in Nat /\ \A i \in 1..Len(q) : b[i] = q[i].job
  BY IdsOf
<1> HIDE DEF r, a, b
<1>3. Ids(r) \in Seq(Nat) /\ Len(Ids(r)) = Len(r) /\ \A i \in 1..Len(r) : Ids(r)[i] = r[i].job
  BY <1>1, IdsOf
<1>4. /\ a \o b \in Seq(Nat) /\ Len(a \o b) = Len(p) + Len(q)
      /\ \A i \in 1..Len(p) : (a \o b)[i] = a[i]
      /\ \A i \in 1..Len(q) : (a \o b)[Len(p) + i] = b[i]
  <2>1. /\ a \o b \in Seq(Nat) /\ Len(a \o b) = Len(a) + Len(b)
        /\ \A i \in 1..Len(a) : (a \o b)[i] = a[i]
        /\ \A i \in 1..Len(b) : (a \o b)[Len(a) + i] = b[i]
    <3>1. a \in Seq(Nat) /\ b \in Seq(Nat)
      BY <1>2
    <3> QED
      BY <3>1, Joined
  <2>2. Len(a) = Len(p) /\ Len(b) = Len(q)
    BY <1>2
  <2> QED
    BY <2>1, <2>2
<1>5. ASSUME NEW i \in 1..Len(r) PROVE Ids(r)[i] = (a \o b)[i]
  <2>1. CASE i \in 1..Len(p)
    <3>1. Ids(r)[i] = r[i].job
      BY <1>3
    <3>2. r[i] = p[i]
      BY <1>1, <2>1
    <3>3. (a \o b)[i] = a[i] /\ a[i] = p[i].job
      BY <1>2, <1>4, <2>1
    <3> QED
      BY <3>1, <3>2, <3>3
  <2>2. CASE i \notin 1..Len(p)
    <3>1. i - Len(p) \in 1..Len(q) /\ Len(p) + (i - Len(p)) = i
      BY <1>1, <1>2, <2>2
    <3>2. r[Len(p) + (i - Len(p))] = q[i - Len(p)] /\ (a \o b)[Len(p) + (i - Len(p))] = b[i - Len(p)]
      BY <1>1, <1>4, <3>1
    <3> QED
      BY <1>2, <1>3, <3>1, <3>2
  <2> QED
    BY <2>1, <2>2
<1>6. Ids(r) = a \o b
  <2> DEFINE c == Ids(r)
             d == a \o b
  <2>1. c \in Seq(Nat) /\ d \in Seq(Nat) /\ Len(c) = Len(d) /\ \A i \in 1..Len(c) : c[i] = d[i]
    BY <1>1, <1>3, <1>4, <1>5
  <2> HIDE DEF c, d
  <2>2. c = d
    BY <2>1, SameSequence
  <2> QED
    BY <2>2 DEF c, d
<1> QED
  BY <1>6 DEF r, a, b

\* The ids of what is left without the first, and of what one more joins.
LEMMA IdsTailAndAppend ==
  ASSUME NEW R, \A x \in R : x.job \in Nat, NEW q \in Seq(R)
  PROVE  /\ q # <<>> => /\ Ids(q) # <<>> /\ Head(Ids(q)) = Head(q).job
                        /\ Ids(Tail(q)) = Tail(Ids(q)) /\ Ids(q) = <<Head(q).job>> \o Ids(Tail(q))
         /\ \A x \in R : Ids(Append(q, x)) = Append(Ids(q), x.job)
<1>1. ASSUME q # <<>>
      PROVE  /\ Ids(q) # <<>> /\ Head(Ids(q)) = Head(q).job
             /\ Ids(Tail(q)) = Tail(Ids(q)) /\ Ids(q) = <<Head(q).job>> \o Ids(Tail(q))
  <2> DEFINE a == Ids(q)
             t == Tail(q)
             b == Ids(t)
  <2>1. /\ Head(q) = q[1] /\ 1 \in DOMAIN q /\ t \in Seq(R) /\ DOMAIN t = 1..(Len(q) - 1)
        /\ \A i \in DOMAIN t : i + 1 \in DOMAIN q /\ t[i] = q[i + 1]
    BY <1>1, HeadAndTail
  <2>2. /\ a \in Seq(Nat) /\ Len(a) = Len(q) /\ Len(q) \in Nat /\ DOMAIN q = 1..Len(q)
        /\ \A i \in 1..Len(q) : q[i] \in R /\ a[i] = q[i].job
    BY IdsOf
  <2>3. /\ b \in Seq(Nat) /\ Len(b) = Len(t) /\ Len(t) \in Nat /\ DOMAIN t = 1..Len(t)
        /\ \A i \in 1..Len(t) : b[i] = t[i].job
    BY <2>1, IdsOf
  <2>4. Len(t) = Len(q) - 1
    BY <2>1, <2>2, <2>3
  <2> HIDE DEF a, t, b
  <2>5. a # <<>>
    BY <2>1, <2>2
  <2>6. /\ Head(a) = a[1] /\ Tail(a) \in Seq(Nat) /\ DOMAIN Tail(a) = 1..(Len(a) - 1)
        /\ \A i \in DOMAIN Tail(a) : i + 1 \in DOMAIN a /\ Tail(a)[i] = a[i + 1]
    BY <2>2, <2>5, HeadAndTail
  <2>7. Len(Tail(a)) = Len(q) - 1
    BY <2>2, <2>5
  <2>8. ASSUME NEW i \in 1..Len(b) PROVE b[i] = Tail(a)[i]
    <3>1. i \in DOMAIN t /\ i \in DOMAIN Tail(a) /\ i + 1 \in 1..Len(q) /\ i \in 1..Len(t)
      BY <2>2, <2>3, <2>4, <2>6
    <3>2. b[i] = t[i].job /\ t[i] = q[i + 1]
      BY <2>1, <2>3, <3>1
    <3>3. Tail(a)[i] = a[i + 1] /\ a[i + 1] = q[i + 1].job
      BY <2>2, <2>6, <3>1
    <3> QED
      BY <3>2, <3>3
  <2>9. b = Tail(a)
    BY <2>3, <2>4, <2>6, <2>7, <2>8, SameSequence
  <2>10. a = <<Head(a)>> \o Tail(a)
    <3>1. Head(a) \in Nat
      BY <2>2, <2>5
    <3>2. <<Head(a)>> \in Seq(Nat) /\ Len(<<Head(a)>>) = 1 /\ <<Head(a)>>[1] = Head(a)
      BY <3>1
    <3>3. /\ <<Head(a)>> \o Tail(a) \in Seq(Nat)
          /\ Len(<<Head(a)>> \o Tail(a)) = 1 + Len(Tail(a))
          /\ (<<Head(a)>> \o Tail(a))[1] = Head(a)
          /\ \A i \in 1..Len(Tail(a)) : (<<Head(a)>> \o Tail(a))[1 + i] = Tail(a)[i]
      BY <2>6, <3>2, Joined
    <3>4. ASSUME NEW i \in 1..Len(a) PROVE a[i] = (<<Head(a)>> \o Tail(a))[i]
      <4>1. CASE i = 1
        BY <2>6, <3>3, <4>1
      <4>2. CASE i # 1
        <5>1. i - 1 \in 1..Len(Tail(a)) /\ 1 + (i - 1) = i /\ (i - 1) + 1 = i
          BY <2>2, <2>7, <4>2
        <5>2. i - 1 \in DOMAIN Tail(a)
          BY <2>2, <2>6, <2>7, <5>1
        <5>3. Tail(a)[i - 1] = a[(i - 1) + 1]
          BY <2>6, <5>2
        <5>4. (<<Head(a)>> \o Tail(a))[1 + (i - 1)] = Tail(a)[i - 1]
          BY <3>3, <5>1
        <5> QED
          BY <5>1, <5>3, <5>4
      <4> QED
        BY <4>1, <4>2
    <3>5. Len(<<Head(a)>> \o Tail(a)) = Len(a)
      BY <2>2, <2>7, <3>3
    <3> QED
      BY <2>2, <3>3, <3>4, <3>5, SameSequence
  <2>11. a[1] = q[1].job
    BY <2>1, <2>2
  <2> QED
    BY <2>1, <2>5, <2>6, <2>9, <2>10, <2>11 DEF a, b, t
<1>2. ASSUME NEW x \in R PROVE Ids(Append(q, x)) = Append(Ids(q), x.job)
  <2> DEFINE r == Append(q, x)
             a == Ids(q)
             b == Append(a, x.job)
  <2>1. /\ a \in Seq(Nat) /\ Len(a) = Len(q) /\ Len(q) \in Nat
        /\ \A i \in 1..Len(q) : a[i] = q[i].job
    BY IdsOf
  <2>2. r \in Seq(R) /\ Len(r) = Len(q) + 1 /\ r[Len(q) + 1] = x /\ \A i \in 1..Len(q) : r[i] = q[i]
    OBVIOUS
  <2>3. x.job \in Nat
    OBVIOUS
  <2> HIDE DEF r, a
  <2>4. Ids(r) \in Seq(Nat) /\ Len(Ids(r)) = Len(r) /\ \A i \in 1..Len(r) : Ids(r)[i] = r[i].job
    BY <2>2, IdsOf
  <2>5. /\ b \in Seq(Nat) /\ Len(b) = Len(q) + 1 /\ b[Len(q) + 1] = x.job
        /\ \A i \in 1..Len(q) : b[i] = a[i]
    BY <2>1, <2>3
  <2> HIDE DEF b
  <2>6. ASSUME NEW i \in 1..Len(r) PROVE Ids(r)[i] = b[i]
    <3>1. CASE i \in 1..Len(q)
      BY <2>1, <2>2, <2>4, <2>5, <3>1
    <3>2. CASE i = Len(q) + 1
      BY <2>2, <2>4, <2>5, <3>2
    <3> QED
      BY <2>1, <2>2, <3>1, <3>2
  <2>7. Ids(r) = b
    BY <2>2, <2>4, <2>5, <2>6, SameSequence
  <2> QED
    BY <2>7 DEF r, a, b
<1> QED
  BY <1>1, <1>2

\* Items and tabs have ids.
LEMMA HaveIds == (\A item \in Item : item.job \in Nat) /\ \A tab \in Tab : tab.job \in Nat
BY DEF Item, Tab

\* What is in flight stands first in the line, and the queue behind it.
LEMMA LineStands ==
  ASSUME NEW ss \in SessionState
  PROVE  /\ LineOf(ss) \in Seq(Nat) /\ Ids(ss.queue) \in Seq(Nat)
         /\ ss.inFlight = NoItem => LineOf(ss) = Ids(ss.queue)
         /\ ss.inFlight # NoItem =>
              /\ LineOf(ss) = <<ss.inFlight.job>> \o Ids(ss.queue)
              /\ LineOf(ss) # <<>> /\ Head(LineOf(ss)) = ss.inFlight.job
              /\ Tail(LineOf(ss)) = Ids(ss.queue)
<1>1. /\ ss.queue \in Seq(Item) /\ ss.inFlight \in Item \cup {NoItem}
      /\ ss.inFlight # NoItem => ss.inFlight.job \in Nat
  BY HaveIds DEF SessionState
<1>2. Ids(ss.queue) \in Seq(Nat)
  BY <1>1, HaveIds, IdsOf
<1> DEFINE b == Ids(ss.queue)
           j == ss.inFlight.job
<1>3. CASE ss.inFlight = NoItem
  <2>1. LineOf(ss) = <<>> \o b
    BY <1>3 DEF LineOf
  <2> HIDE DEF b
  <2>2. <<>> \o b = b
    BY <1>2 DEF b
  <2> QED
    BY <1>2, <1>3, <2>1, <2>2 DEF b
<1>4. CASE ss.inFlight # NoItem
  <2>1. LineOf(ss) = <<j>> \o b /\ j \in Nat
    BY <1>1, <1>4 DEF LineOf
  <2> HIDE DEF b, j
  <2>2. b \in Seq(Nat)
    BY <1>2 DEF b
  <2>3. /\ <<j>> \o b \in Seq(Nat) /\ <<j>> \o b # <<>> /\ Head(<<j>> \o b) = j /\ Tail(<<j>> \o b) = b
    BY <2>1, <2>2
  <2> QED
    BY <1>4, <2>1, <2>2, <2>3 DEF b, j
<1> QED
  BY <1>3, <1>4

\* The pump moves the line's first to the worker, where it stands as before.
LEMMA LinePumped ==
  ASSUME NEW ss \in SessionState
  PROVE  LineOf(Pumped(ss)) = LineOf(ss) /\ Pumped(ss).tabs = ss.tabs
<1>1. CASE ~Sends(ss)
  BY <1>1 DEF Pumped
<1>2. CASE Sends(ss)
  <2> DEFINE after == Pumped(ss)
  <2>1. /\ ss.inFlight = NoItem /\ ss.queue # <<>> /\ ss.queue \in Seq(Item)
        /\ after \in SessionState /\ after.inFlight = Head(ss.queue) /\ after.queue = Tail(ss.queue)
        /\ after.tabs = ss.tabs
    <3>1. ss.inFlight = NoItem /\ ss.queue # <<>> /\ ss.queue \in Seq(Item)
      BY <1>2 DEF Sends, SessionState
    <3>2. after \in SessionState
      BY PumpedTyped
    <3>3. after.inFlight = Head(ss.queue) /\ after.queue = Tail(ss.queue) /\ after.tabs = ss.tabs
      BY <1>2 DEF Pumped, SessionState
    <3> QED
      BY <3>1, <3>2, <3>3
  <2>2. Head(ss.queue) \in Item
    BY <2>1
  <2>3. Head(ss.queue) # NoItem
    BY <2>2 DEF Item, NoItem, Hows
  <2> HIDE DEF after
  <2>4. LineOf(after) = <<Head(ss.queue).job>> \o Ids(Tail(ss.queue))
    BY <2>1, <2>3, LineStands
  <2>5. LineOf(ss) = Ids(ss.queue)
    BY <2>1, LineStands
  <2>6. Ids(ss.queue) = <<Head(ss.queue).job>> \o Ids(Tail(ss.queue))
    BY <2>1, HaveIds, IdsTailAndAppend
  <2> QED
    BY <2>1, <2>4, <2>5, <2>6 DEF after
<1> QED
  BY <1>1, <1>2

-----------------------------------------------------------------------------
(* The steps of the app *)

\* What joins the queue joins the line.
LEMMA LineBehind ==
  ASSUME NEW ss \in SessionState, NEW after \in SessionState, after.inFlight = ss.inFlight,
         NEW r \in Seq(Item), after.queue = ss.queue \o r
  PROVE  LineOf(after) = LineOf(ss) \o Ids(r)
<1> DEFINE a == Ids(ss.queue)
           b == Ids(r)
           j == ss.inFlight.job
<1>1. ss.queue \in Seq(Item)
  BY DEF SessionState
<1>2. a \in Seq(Nat) /\ b \in Seq(Nat) /\ Ids(after.queue) = a \o b
  BY <1>1, HaveIds, IdsOf, IdsJoined
<1>3. CASE ss.inFlight = NoItem
  <2>1. LineOf(ss) = a /\ LineOf(after) = Ids(after.queue)
    BY <1>3, LineStands
  <2> QED
    BY <1>2, <2>1
<1>4. CASE ss.inFlight # NoItem
  <2>1. LineOf(ss) = <<j>> \o a /\ LineOf(after) = <<j>> \o Ids(after.queue)
    BY <1>4, LineStands
  <2>2. j \in Nat
    BY <1>4, HaveIds DEF SessionState
  <2> HIDE DEF a, b, j
  <2>3. <<j>> \in Seq(Nat)
    BY <2>2
  <2>4. ASSUME NEW x \in Seq(Nat) PROVE x \o (a \o b) = (x \o a) \o b
    <3>1. a \in Seq(Nat) /\ b \in Seq(Nat)
      BY <1>2
    <3> QED
      BY <3>1, JoinedThrice
  <2> QED
    BY <1>2, <2>1, <2>3, <2>4 DEF b
<1> QED
  BY <1>3, <1>4

\* A session whose statements and tabs are left alone stands.
LEMMA LeftAlone ==
  ASSUME NEW s \in Sessions, session'[s].inFlight = session[s].inFlight,
         session'[s].queue = session[s].queue, session'[s].tabs = session[s].tabs
  PROVE  Stands(s)
BY DEF Stands, Shows, LineOf

\* One event's new statements join the line of its session.
LEMMA QueueAsks ==
  ASSUME Typed, Line!LineInv, Line!Apart, NEW s \in Sessions, NEW ss \in SessionState,
         ss.queue = session[s].queue, ss.inFlight = session[s].inFlight, ss.tabs = session[s].tabs,
         NEW items \in Seq(Item), Queue(s, ss, items), UNCHANGED stopped
  PROVE  [Line!LineNext]_(Line!lineVars)
<1> DEFINE after == Queues(s, ss, items)
           r == Numbered(items)
           new == Ids(r)
           add == [t \in Sessions |-> IF t = s THEN new ELSE <<>>]
<1>1. /\ made \in Nat /\ session \in [Sessions -> SessionState]
      /\ made' = made + Len(items) /\ Len(items) \in Nat
      /\ session' = [session EXCEPT ![s] = Pumped(after)]
  BY DEF Typed, TypeOK, Queue, Pump, Queues
<1>2. /\ after \in SessionState /\ after.inFlight = ss.inFlight
      /\ after.queue = ss.queue \o r /\ after.tabs = ss.tabs
  <2>1. after \in SessionState
    BY QueuesTyped
  <2> QED
    BY <2>1 DEF Queues, Behind, SessionState
<1>3. /\ r \in Seq(Item) /\ Len(r) = Len(items) /\ \A i \in 1..Len(items) : r[i].job = made + i
  BY <1>1, NumberedItems
<1> HIDE DEF after, r
<1>4. /\ new \in Seq(Nat) /\ DOMAIN new = 1..Len(items) /\ Len(new) = Len(items)
      /\ \A i \in 1..Len(items) : new[i] = made + i
  BY <1>3, HaveIds, IdsOf
<1>5. LineOf(session'[s]) = LineOf(session[s]) \o new /\ Shows(s)
  <2>1. LineOf(session'[s]) = LineOf(after) /\ session'[s].tabs = session[s].tabs
    BY <1>1, <1>2, LinePumped
  <2>2. LineOf(after) = LineOf(ss) \o new
    BY <1>2, <1>3, LineBehind
  <2>3. LineOf(ss) = LineOf(session[s])
    BY DEF LineOf
  <2> QED
    BY <2>1, <2>2, <2>3 DEF Shows
<1>6. \A t \in Sessions \ {s} : Stands(t)
  BY <1>1, LeftAlone
<1>7. \A t \in Sessions : LineOf(session[t]) \in Seq(Nat)
  BY <1>1, LineStands
<1> HIDE DEF new
<1>8. CASE Len(items) = 0
  <2>1. LineOf(session[s]) \o new = LineOf(session[s])
    BY <1>4, <1>7, <1>8
  <2>2. Stands(s) /\ made' = made
    BY <1>1, <1>5, <1>8, <2>1 DEF Stands
  <2> QED
    BY <1>6, <2>2, Standing
<1>9. CASE Len(items) # 0
  <2>1. made' \in Nat /\ made < made'
    BY <1>1, <1>9
  <2>2. new \in Seq((made + 1)..made') /\ Line!Rising(new)
    <3>1. \A i \in 1..Len(items) : new[i] \in (made + 1)..made'
      BY <1>1, <1>4
    <3>2. new \in Seq((made + 1)..made')
      <4>1. new \in Seq(Nat) /\ \A i \in 1..Len(new) : new[i] \in (made + 1)..made'
        BY <1>4, <3>1
      <4> QED
        BY <4>1, SequenceOver
    <3> QED
      BY <1>1, <1>4, <3>2 DEF Line!Rising
  <2>3. Line!Rising(<<>>) /\ <<>> \in Seq((made + 1)..made') /\ Line!Elements(<<>>) = {}
    BY DEF Line!Rising, Line!Elements
  <2>4. \A t \in Sessions \ {s} : LineOf(session[t]) \o <<>> = LineOf(session[t])
    BY <1>7
  <2>5. ASSUME NEW t \in Sessions
        PROVE  /\ LineOf(session'[t]) = LineOf(session[t]) \o add[t] /\ Shows(t)
               /\ add[t] \in Seq((made + 1)..made') /\ Line!Rising(add[t])
    <3>1. CASE t = s
      BY <1>5, <2>2, <3>1
    <3>2. CASE t # s
      <4>1. Stands(t) /\ add[t] = <<>>
        BY <1>6, <3>2
      <4> QED
        BY <2>3, <2>4, <3>2, <4>1 DEF Stands
    <3> QED
      BY <3>1, <3>2
  <2>6. ASSUME NEW id \in (made + 1)..made' PROVE \E t \in Sessions : id \in Line!Elements(add[t])
    <3>1. id - made \in 1..Len(items) /\ made + (id - made) = id
      BY <1>1
    <3>2. id \in Line!Elements(new)
      BY <1>4, <3>1 DEF Line!Elements
    <3> QED
      BY <3>2
  <2>7. \A t, u \in Sessions : t # u => Line!Elements(add[t]) \cap Line!Elements(add[u]) = {}
    BY <2>3
  <2> HIDE DEF add
  <2>8. Line!Ask
    BY <2>1, <2>5, <2>6, <2>7, LinesGrow
  <2> QED
    BY <2>8 DEF Line!LineNext
<1> QED
  BY <1>1, <1>8, <1>9

\* An unused session has shown nothing.
Blank == \A s \in Sessions : session[s].status = "unused" => session[s].tabs = <<>>

\* Where there is no session there is no line.
LEMMA NobodyWaits ==
  ASSUME Typed, Agreed, NEW s \in Sessions, s \notin Live
  PROVE  LineOf(session[s]) = <<>>
<1>1. session[s] \in SessionState /\ session[s].inFlight = NoItem /\ session[s].queue = <<>>
  BY DEF Typed, TypeOK, Agreed, SessionsAgree, Settled
<1> QED
  BY <1>1, LineStands, IdsOfNone

\* A session that opens starts with nothing.
LEMMA Opening ==
  ASSUME Typed, Agreed, Blank, NEW s \in Unused, NEW status, NEW prod,
         session'[s] = Fresh(status, prod)
  PROVE  Stands(s)
<1>1. s \in Sessions /\ s \notin Live /\ session[s].tabs = <<>>
  BY DEF Unused, Live, Blank
<1>2. LineOf(session[s]) = <<>>
  BY <1>1, NobodyWaits
<1>3. LineOf(Fresh(status, prod)) = <<>> /\ Fresh(status, prod).tabs = <<>>
  <2>1. <<>> \o <<>> = <<>>
    OBVIOUS
  <2> QED
    BY <2>1, IdsOfNone DEF Fresh, LineOf
<1> QED
  BY <1>1, <1>2, <1>3 DEF Stands, Shows

\* What the user runs joins the line or is held.
LEMMA RunsAsk ==
  ASSUME Typed, Line!LineInv, Line!Apart, NEW s \in Sessions,
         Run(s) \/ LoadMore(s) \/ FetchAll(s) \/ ExportAll(s) \/ Release(s)
  PROVE  [Line!LineNext]_(Line!lineVars)
<1>1. session \in [Sessions -> SessionState] /\ session[s] \in SessionState
  BY DEF Typed, TypeOK
<1>2. CASE Release(s)
  <2> DEFINE held == session[s].held
             ss == [session[s] EXCEPT !.confirmed = TRUE, !.held = <<>>]
  <2>1. Queue(s, ss, held) /\ UNCHANGED stopped
    BY <1>2 DEF Release
  <2>2. /\ ss \in SessionState /\ held \in Seq(Item)
        /\ ss.queue = session[s].queue /\ ss.inFlight = session[s].inFlight /\ ss.tabs = session[s].tabs
    <3>1. ss \in SessionState
      <4>1. <<>> \in Seq(Item)
        OBVIOUS
      <4> QED
        BY <1>1, <4>1 DEF SessionState
    <3> QED
      BY <1>1, <3>1 DEF SessionState
  <2> HIDE DEF ss, held
  <2> QED
    BY <2>1, <2>2, QueueAsks
<1>3. CASE Run(s) \/ LoadMore(s) \/ FetchAll(s) \/ ExportAll(s)
  <2>1. UNCHANGED stopped
    BY <1>3 DEF Run, LoadMore, FetchAll, ExportAll
  <2>2. PICK items \in Seq(Item) : EnqueueOn(s, items)
    BY <1>3, RunsEnqueue
  <2>3. CASE Asks(s, items)
    <3>1. /\ session' = [session EXCEPT ![s] = [session[s] EXCEPT !.held = items]]
          /\ UNCHANGED made
      BY <2>2, <2>3 DEF EnqueueOn, Only
    <3>2. \A t \in Sessions : /\ session'[t].inFlight = session[t].inFlight
                              /\ session'[t].queue = session[t].queue /\ session'[t].tabs = session[t].tabs
      BY <1>1, <3>1 DEF SessionState
    <3>3. \A t \in Sessions : Stands(t)
      BY <3>2, LeftAlone
    <3> QED
      BY <2>1, <3>1, <3>3, Standing
  <2>4. CASE ~Asks(s, items)
    <3>1. Queue(s, session[s], items)
      BY <2>2, <2>4 DEF EnqueueOn
    <3> QED
      BY <1>1, <2>1, <3>1, QueueAsks
  <2> QED
    BY <2>3, <2>4
<1> QED
  BY <1>2, <1>3

\* Cancelling marks the first of the line, which then stands alone.
LEMMA CancelMarks ==
  ASSUME Typed, Agreed, NEW s \in Sessions, CancelRunning(s)
  PROVE  Line!LineNext
<1> DEFINE ss == session[s]
           job == ss.inFlight.job
<1>1. /\ session' = [session EXCEPT ![s] = Dropped(ss)] /\ UNCHANGED made /\ stopped' = stopped \cup {job}
      /\ session \in [Sessions -> SessionState] /\ ss \in SessionState
      /\ job \in Running(jobs)
  BY DEF CancelRunning, Typed, TypeOK
<1>2. job \in 1..made
  BY <1>1 DEF Running, Typed, TypeOK
<1>3. ss.inFlight # NoItem
  BY <1>2 DEF NoItem, NoJob, Typed, TypeOK
<1>4. /\ Dropped(ss) \in SessionState /\ Dropped(ss).inFlight = ss.inFlight /\ Dropped(ss).queue = <<>>
      /\ Dropped(ss).tabs = ss.tabs
  BY <1>1, EndedTyped DEF Dropped, SessionState
<1>5. LineOf(ss) # <<>> /\ Head(LineOf(ss)) = job
  BY <1>1, <1>3, LineStands
<1>6. LineOf(Dropped(ss)) = <<job>>
  <2>1. LineOf(Dropped(ss)) = <<job>> \o <<>>
    BY <1>3, <1>4, IdsOfNone, LineStands
  <2>2. job \in Nat
    BY <1>2
  <2> HIDE DEF job
  <2>3. <<job>> \o <<>> = <<job>>
    BY <2>2
  <2> QED
    BY <2>1, <2>3
<1>7. session'[s] = Dropped(ss) /\ \A t \in Sessions \ {s} : session'[t] = session[t]
  BY <1>1
<1>8. \A t \in Sessions \ {s} : Stands(t)
  BY <1>7, LeftAlone
<1>9. Shows(s)
  BY <1>4, <1>7 DEF Shows
<1>10. Line!CancelFirst(s)
  BY <1>1, <1>5, <1>6, <1>7, <1>8, <1>9, Cancelling
<1> QED
  BY <1>10 DEF Line!LineNext

\* Dropping one that waits takes it out of the line.
LEMMA DropLeaves ==
  ASSUME Typed, Agreed, NEW s \in Sessions, DropQueued(s)
  PROVE  Line!LineNext
<1> DEFINE ss == session[s]
           q == ss.queue
           l == LineOf(ss)
<1>1. PICK id \in Queued(jobs) \cap JobsOf(jobs, s) : session' = [session EXCEPT ![s].queue = Without(@, id)]
  BY DEF DropQueued
<1>2. /\ session \in [Sessions -> SessionState] /\ ss \in SessionState /\ q \in Seq(Item)
      /\ UNCHANGED <<made, stopped>>
  BY DEF DropQueued, Typed, TypeOK, SessionState
<1>3. id \in QueuedIds(ss)
  BY <1>1 DEF Agreed, SessionsAgree, Coherent, QueuedOf
<1> DEFINE places == {i \in DOMAIN q : q[i].job = id}
           place == CHOOSE i \in places : TRUE
           r == RemoveAt(q, place)
           after == [ss EXCEPT !.queue = r]
<1>4. place \in 1..Len(q) /\ Without(q, id) = r
  <2>1. places # {}
    BY <1>3 DEF QueuedIds
  <2>2. DOMAIN q = 1..Len(q)
    BY <1>2
  <2> QED
    BY <2>1, <2>2 DEF Without
<1>5. session'[s] = after /\ \A t \in Sessions \ {s} : session'[t] = session[t]
  BY <1>1, <1>2, <1>4
<1>6. /\ after.inFlight = ss.inFlight /\ after.queue = r /\ after.tabs = ss.tabs
  BY <1>2 DEF SessionState
<1> HIDE DEF place, after
<1>7. /\ r \in Seq(Item) /\ DOMAIN r = 1..(Len(q) - 1) /\ Len(q) \in Nat
      /\ \A k \in 1..(Len(q) - 1) : r[k] = IF k < place THEN q[k] ELSE q[k + 1]
  BY <1>2, <1>4, WithoutThe
<1>8. after \in SessionState
  BY <1>2, <1>7 DEF after, SessionState
<1>9. ss.inFlight # NoItem
  <2>1. Settled(ss) /\ q # <<>>
    BY <1>2, <1>4 DEF Agreed, SessionsAgree
  <2> QED
    BY <2>1 DEF Settled
<1> DEFINE a == Ids(q)
           b == Ids(r)
           j == ss.inFlight.job
<1>10. /\ l = <<j>> \o a /\ LineOf(after) = <<j>> \o b /\ l \in Seq(Nat) /\ LineOf(after) \in Seq(Nat)
       /\ j \in Nat
  <2>1. l = <<j>> \o a /\ l \in Seq(Nat)
    BY <1>2, <1>9, LineStands
  <2>2. LineOf(after) = <<j>> \o b /\ LineOf(after) \in Seq(Nat)
    BY <1>6, <1>8, <1>9, LineStands
  <2>3. j \in Nat
    BY <1>2, <1>9, HaveIds DEF SessionState
  <2> QED
    BY <2>1, <2>2, <2>3
<1> HIDE DEF r
<1>11. /\ a \in Seq(Nat) /\ Len(a) = Len(q) /\ \A k \in 1..Len(q) : a[k] = q[k].job
       /\ b \in Seq(Nat) /\ Len(b) = Len(q) - 1 /\ \A k \in 1..(Len(q) - 1) : b[k] = r[k].job
  <2>1. /\ a \in Seq(Nat) /\ Len(a) = Len(q) /\ \A k \in 1..Len(q) : a[k] = q[k].job
    BY <1>2, HaveIds, IdsOf
  <2>2. /\ b \in Seq(Nat) /\ Len(b) = Len(r) /\ \A k \in 1..Len(r) : b[k] = r[k].job
        /\ Len(r) \in Nat /\ DOMAIN r = 1..Len(r)
    BY <1>7, HaveIds, IdsOf
  <2>3. Len(q) - 1 \in Nat
    BY <1>4, <1>7
  <2>4. Len(r) = Len(q) - 1
    BY <1>7, <2>2, <2>3
  <2> QED
    BY <2>1, <2>2, <2>4
<1> DEFINE n == Len(q)
           c == <<j>> \o a
           d == <<j>> \o b
           w == Line!Without(c, place + 1)
<1>12. n \in Nat /\ place \in 1..n
  BY <1>4, <1>7
<1> HIDE DEF a, b, j, l, n
<1>13. /\ c \in Seq(Nat) /\ Len(c) = n + 1 /\ c[1] = j /\ \A k \in 1..n : c[k + 1] = a[k]
       /\ d \in Seq(Nat) /\ Len(d) = n /\ d[1] = j /\ \A k \in 1..(n - 1) : d[k + 1] = b[k]
  <2> DEFINE one == <<j>>
  <2>1. one \in Seq(Nat) /\ Len(one) = 1 /\ one[1] = j
    BY <1>10
  <2> HIDE DEF one
  <2>0. ASSUME NEW x \in Seq(Nat)
        PROVE  /\ one \o x \in Seq(Nat) /\ Len(one \o x) = 1 + Len(x) /\ (one \o x)[1] = j
               /\ \A k \in 1..Len(x) : (one \o x)[1 + k] = x[k]
    <3>1. /\ one \o x \in Seq(Nat) /\ Len(one \o x) = Len(one) + Len(x)
          /\ \A k \in 1..Len(one) : (one \o x)[k] = one[k]
          /\ \A k \in 1..Len(x) : (one \o x)[Len(one) + k] = x[k]
      <4>1. one \in Seq(Nat)
        BY <2>1
      <4> QED
        BY <4>1, Joined
    <3> QED
      BY <2>1, <3>1
  <2>2. /\ c \in Seq(Nat) /\ Len(c) = 1 + Len(a) /\ c[1] = j /\ \A k \in 1..Len(a) : c[1 + k] = a[k]
    BY <1>11, <2>0 DEF one
  <2>3. /\ d \in Seq(Nat) /\ Len(d) = 1 + Len(b) /\ d[1] = j /\ \A k \in 1..Len(b) : d[1 + k] = b[k]
    BY <1>11, <2>0 DEF one
  <2>4. Len(a) = n /\ Len(b) = n - 1
    BY <1>11 DEF n
  <2> QED
    BY <1>12, <2>2, <2>3, <2>4
<1> HIDE DEF c, d
<1>14. /\ w \in Seq(Nat) /\ DOMAIN w = 1..n
       /\ \A k \in 1..n : w[k] = IF k < place + 1 THEN c[k] ELSE c[k + 1]
  <2>1. place + 1 \in 1..Len(c) /\ Len(c) - 1 = n
    BY <1>12, <1>13
  <2> QED
    BY <1>13, <2>1, Line!WithoutOne
<1> HIDE DEF w
<1>15. ASSUME NEW k \in 1..n PROVE w[k] = d[k]
  <2>1. CASE k = 1
    <3>1. 1 < place + 1 /\ 1 \in 1..n
      BY <1>12
    <3>2. w[1] = c[1]
      BY <1>14, <3>1
    <3> QED
      BY <1>13, <2>1, <3>2
  <2>2. CASE k # 1
    <3> DEFINE m == k - 1
    <3>1. m \in 1..(n - 1) /\ m \in 1..n /\ m + 1 \in 1..n /\ k = m + 1 /\ m \in Nat
      BY <1>12, <2>2
    <3> HIDE DEF m
    <3>2. d[m + 1] = r[m].job
      BY <1>11, <1>13, <3>1 DEF n
    <3>3. r[m] = IF m < place THEN q[m] ELSE q[m + 1]
      BY <1>7, <3>1 DEF n
    <3>4. c[m + 1] = q[m].job /\ c[(m + 1) + 1] = q[m + 1].job
      BY <1>11, <1>13, <3>1 DEF n
    <3>5. w[m + 1] = IF m + 1 < place + 1 THEN c[m + 1] ELSE c[(m + 1) + 1]
      BY <1>14, <3>1
    <3>6. m < place <=> m + 1 < place + 1
      BY <1>12, <3>1
    <3>7. CASE m < place
      BY <3>1, <3>2, <3>3, <3>4, <3>5, <3>6, <3>7
    <3>8. CASE ~(m < place)
      BY <3>1, <3>2, <3>3, <3>4, <3>5, <3>6, <3>8
    <3> QED
      BY <3>7, <3>8
  <2> QED
    BY <2>1, <2>2
<1>16. w = d
  <2>1. Len(w) = n
    BY <1>12, <1>14
  <2> QED
    BY <1>13, <1>14, <1>15, <2>1, SameSequence
<1>17. LineOf(session'[s]) = Line!Without(l, place + 1) /\ place + 1 \in 2..Len(l)
  <2>1. l = c /\ LineOf(session'[s]) = d
    BY <1>5, <1>10 DEF c, d
  <2>2. place + 1 \in 2..(n + 1)
    BY <1>12
  <2> QED
    BY <1>13, <1>16, <2>1, <2>2 DEF w
<1>18. \A t \in Sessions \ {s} : Stands(t)
  BY <1>5, LeftAlone
<1>19. Shows(s)
  BY <1>5, <1>6 DEF Shows
<1>20. Line!DropWaiting(s)
  BY <1>2, <1>17, <1>18, <1>19, Dropping DEF l
<1> QED
  BY <1>20 DEF Line!LineNext

\* A session that closes leaves nothing; the scratch that opens in its place
\* starts with nothing.
LEMMA CloseForgets ==
  ASSUME Typed, Agreed, Blank, NEW s \in Live, Close(s)
  PROVE  Line!LineNext
<1>1. /\ session \in [Sessions -> SessionState] /\ s \in Sessions /\ s \notin Unused
      /\ UNCHANGED <<made, stopped>>
  BY DEF Typed, TypeOK, Close, Live, Unused
<1>2. PICK new \in Unused \cup {s} :
        session' = IF new = s THEN [session EXCEPT ![s] = Fresh("closed", FALSE)]
                   ELSE [session EXCEPT ![s] = Fresh("closed", FALSE), ![new] = Fresh("connecting", FALSE)]
  <2>1. CASE Live = {s}
    <3>1. PICK new \in Sessions :
            /\ NextId(new)
            /\ session' = [session EXCEPT ![s] = Fresh("closed", FALSE), ![new] = Fresh("connecting", FALSE)]
      BY <2>1 DEF Close
    <3> QED
      BY <1>1, <3>1 DEF NextId
  <2>2. CASE Live # {s}
    BY <1>1, <2>2 DEF Close
  <2> QED
    BY <2>1, <2>2
<1>3. session'[s] = Fresh("closed", FALSE)
  BY <1>1, <1>2
<1>4. ASSUME NEW t \in Sessions \ {s} PROVE Stands(t)
  <2>1. CASE t = new
    <3>1. session'[t] = Fresh("connecting", FALSE) /\ t \in Unused
      BY <1>1, <1>2, <2>1
    <3> QED
      BY <3>1, Opening
  <2>2. CASE t # new
    <3>1. session'[t] = session[t]
      BY <1>1, <1>2, <2>2
    <3> QED
      BY <3>1, LeftAlone
  <2> QED
    BY <2>1, <2>2
<1>5. LineOf(session'[s]) = <<>> /\ Ids(session'[s].tabs) = <<>>
  <2>1. <<>> \o <<>> = <<>>
    OBVIOUS
  <2> QED
    BY <1>3, <2>1, IdsOfNone DEF Fresh, LineOf
<1>6. Line!Forget(s)
  BY <1>1, <1>4, <1>5, Forgetting
<1> QED
  BY <1>1, <1>6 DEF Line!LineNext

\* Whatever the user does is one step of the promise, or none.
LEMMA ActsLineUp ==
  ASSUME Typed, Agreed, Blank, Line!LineInv, Line!Apart, NEW s \in Sessions, UserActs(s)
  PROVE  [Line!LineNext]_(Line!lineVars)
<1>1. session \in [Sessions -> SessionState] /\ session[s] \in SessionState
  BY DEF Typed, TypeOK
<1>2. CASE UNCHANGED <<session, made, stopped>>
  BY <1>2, LeftAlone, Standing
<1>3. CASE AskToFetchAll(s) \/ ToggleAutocommit(s) \/ LoadSchema(s) \/ ExportFetched(s)
  BY <1>2, <1>3 DEF AskToFetchAll, ToggleAutocommit, LoadSchema, ExportFetched
<1>4. CASE Reconnect(s)
  <2>1. PICK prod \in BOOLEAN : session' = [session EXCEPT ![s] =
            [@ EXCEPT !.status = "connecting", !.prod = prod, !.inTx = FALSE,
                      !.autocommit = TRUE, !.cursor = 0, !.cursorKept = FALSE]]
    BY <1>4 DEF Reconnect
  <2>2. \A t \in Sessions : /\ session'[t].inFlight = session[t].inFlight
                            /\ session'[t].queue = session[t].queue /\ session'[t].tabs = session[t].tabs
    BY <1>1, <2>1 DEF SessionState
  <2>3. UNCHANGED <<made, stopped>>
    BY <1>4 DEF Reconnect
  <2> QED
    BY <2>2, <2>3, LeftAlone, Standing
<1>5. CASE OpenSession(s)
  <2>1. PICK prod \in BOOLEAN : session' = [session EXCEPT ![s] = Fresh("connecting", prod)]
    BY <1>5 DEF OpenSession
  <2>2. s \in Unused /\ UNCHANGED <<made, stopped>> /\ session'[s] = Fresh("connecting", prod)
    BY <1>1, <1>5, <2>1 DEF OpenSession, NextId
  <2>3. Stands(s)
    BY <2>2, Opening
  <2>4. \A t \in Sessions \ {s} : Stands(t)
    BY <1>1, <2>1, LeftAlone
  <2> QED
    BY <2>2, <2>3, <2>4, Standing
<1>6. CASE CloseOrConfirm(s) \/ CloseConfirmed(s)
  <2>1. s \in Live
    BY <1>6 DEF CloseOrConfirm, CloseConfirmed, Acts, Agreed, Confirm
  <2>2. Close(s) \/ UNCHANGED <<session, made, stopped>>
    BY <1>6 DEF CloseOrConfirm, CloseConfirmed
  <2> QED
    BY <1>2, <2>1, <2>2, CloseForgets
<1> QED
  BY <1>3, <1>4, <1>5, <1>6, RunsAsk, CancelMarks, DropLeaves DEF UserActs

-----------------------------------------------------------------------------
(* The answers *)

\* A new tab shows the newest result; the oldest may go for it.
LEMMA NewTabShows ==
  ASSUME NEW a \in SessionState, NEW job \in Nat, NEW sql \in Statements \cup {NoSql},
         NEW rows \in Rows, NEW truncated \in BOOLEAN, NEW stops \in BOOLEAN
  PROVE  Line!Shows(Ids(a.tabs), Ids(NewTab(a, job, sql, rows, truncated, stops).tabs), job)
<1> DEFINE tab == [number |-> a.tabsMade + 1, job |-> job, sql |-> sql, rows |-> rows,
                   truncated |-> truncated, stopped |-> stops]
           tabs == Append(a.tabs, tab)
           shown == NewTab(a, job, sql, rows, truncated, stops)
<1>1. a.tabs \in Seq(Tab) /\ tab \in Tab /\ tab.job = job
  BY DEF SessionState, Tab, Rows
<1>2. shown.tabs \in {tabs, Tail(tabs)}
  BY DEF NewTab, SessionState
<1> HIDE DEF tab, shown
<1>3. tabs \in Seq(Tab) /\ tabs # <<>>
  <2> DEFINE old == a.tabs
  <2>1. old \in Seq(Tab) /\ tab \in Tab
    BY <1>1
  <2> HIDE DEF old
  <2>2. Append(old, tab) \in Seq(Tab) /\ Append(old, tab) # <<>>
    BY <2>1
  <2> QED
    BY <2>2 DEF old
<1>4. Ids(tabs) = Append(Ids(a.tabs), job)
  BY <1>1, HaveIds, IdsTailAndAppend
<1> HIDE DEF tabs
<1>5. Ids(Tail(tabs)) = Tail(Ids(tabs))
  BY <1>3, HaveIds, IdsTailAndAppend
<1>6. Ids(shown.tabs) \in {Append(Ids(a.tabs), job), Tail(Append(Ids(a.tabs), job))}
  BY <1>2, <1>4, <1>5
<1> QED
  BY <1>6 DEF Line!Shows, shown

\* A tab that is read on stays its statement's.
LEMMA ExtendedShows ==
  ASSUME NEW tab \in Tab, NEW answer
  PROVE  Extended(tab, answer).job = tab.job
BY DEF Extended, Tab

\* What an ending does to the session beside the tabs leaves them.
LEMMA EndedShows ==
  ASSUME NEW ss \in SessionState
  PROVE  /\ Ended(ss).tabs = ss.tabs /\ Succeeded(ss).tabs = ss.tabs
         /\ \A a \in SessionState : /\ [a EXCEPT !.cursorKept = FALSE].tabs = a.tabs
                                    /\ Placeless(a).tabs = a.tabs /\ Dropped(a).tabs = a.tabs
                                    /\ \A cursor \in Nat : [a EXCEPT !.cursor = cursor].tabs = a.tabs
<1>1. Ended(ss).tabs = ss.tabs /\ Ended(ss) \in SessionState
  BY EndedTyped DEF Ended, SessionState
<1>2. Succeeded(ss).tabs = ss.tabs
  <2> DEFINE ended == Ended(ss)
             change == IF ss.txChanges = <<>> THEN "none" ELSE Head(ss.txChanges)
             tx == CASE change = "begins" -> TRUE [] change = "ends" -> FALSE [] OTHER -> ended.inTx
  <2>1. Succeeded(ss) = [ended EXCEPT !.inTx = tx]
    BY DEF Succeeded
  <2> HIDE DEF ended, tx
  <2>2. [ended EXCEPT !.inTx = tx].tabs = ended.tabs
    BY <1>1 DEF ended, SessionState
  <2> QED
    BY <1>1, <2>1, <2>2 DEF ended
<1>3. ASSUME NEW a \in SessionState
      PROVE  /\ [a EXCEPT !.cursorKept = FALSE].tabs = a.tabs
             /\ Placeless(a).tabs = a.tabs /\ Dropped(a).tabs = a.tabs
             /\ \A cursor \in Nat : [a EXCEPT !.cursor = cursor].tabs = a.tabs
  BY DEF SessionState, Placeless, Dropped
<1> QED
  BY <1>1, <1>2, <1>3

\* An answer shows nothing, or the result of the statement in flight: when it
\* ends it and it was not cancelled.
LEMMA HearShows ==
  ASSUME Typed, NEW s \in Live, Hear(s)
  PROVE  \/ Shows(s)
         \/ /\ EndsIt(session[s], Head(answers[s])) /\ ~WasCancelled(s)
            /\ Line!Shows(Ids(session[s].tabs), Ids(session'[s].tabs), session[s].inFlight.job)
<1> DEFINE ss == session[s]
           answer == Head(answers[s])
           item == ss.inFlight
           tabs == session'[s].tabs
<1>1. ss \in SessionState /\ answer \in AnswerSet /\ s \in Sessions /\ session \in [Sessions -> SessionState]
  <2>1. s \in Sessions
    BY DEF Live
  <2>2. answers[s] \in Seq(AnswerSet) /\ answers[s] # <<>>
    BY <2>1 DEF Hear, Typed, ChannelsOK
  <2>3. answer \in AnswerSet
    BY <2>2, HeadAndTail
  <2> QED
    BY <2>1, <2>3 DEF Typed, TypeOK
<1>2. item.job \in Nat /\ item.sql \in Statements \cup {NoSql} /\ answer.rows \in Rows /\ answer.more \in BOOLEAN
  <2>1. item \in Item \cup {NoItem} /\ answer.rows \in Rows /\ answer.more \in BOOLEAN
    BY <1>1 DEF SessionState, AnswerSet
  <2> QED
    BY <2>1 DEF Item, NoItem, NoJob
<1>3. ASSUME NEW after \in SessionState, NEW js, Pump(s, after, js) PROVE tabs = after.tabs
  <2>1. session'[s] = Pumped(after)
    BY <1>1, <1>3 DEF Pump
  <2> QED
    BY <2>1, LinePumped
<1>4. ASSUME NEW after, Only(s, after) PROVE tabs = after.tabs
  BY <1>1, <1>4 DEF Only
<1>5. ASSUME NEW after \in SessionState, Skip(s, after) PROVE tabs = after.tabs
  BY <1>3, <1>5 DEF Skip
<1>6. /\ Ended(ss) \in SessionState /\ Succeeded(ss) \in SessionState
      /\ Ended(ss).tabs = ss.tabs /\ Succeeded(ss).tabs = ss.tabs
  BY <1>1, EndedTyped, EndedShows
<1>7. CASE answer.type = "QueryDone"
  <2> DEFINE ended == [Succeeded(ss) EXCEPT !.cursorKept = FALSE]
             shown == NewTab(ended, item.job, item.sql, answer.rows, answer.more, FALSE)
             cursor == IF ss.cursorKept /\ answer.more THEN shown.tabsMade ELSE shown.cursor
             after == [shown EXCEPT !.cursor = cursor]
  <2>1. IF WasCancelled(s) THEN Skip(s, ended) ELSE Pump(s, after, Finish(jobs, item.job))
    BY <1>1, <1>7 DEF Hear, Done
  <2>2. ended \in SessionState /\ ended.tabs = ss.tabs
    BY <1>6, EndedTyped, EndedShows
  <2> HIDE DEF ended
  <2>3. shown \in SessionState /\ Line!Shows(Ids(ended.tabs), Ids(shown.tabs), item.job)
    BY <1>2, <2>2, NewTabTyped, NewTabShows
  <2>4. cursor \in Nat
    BY <2>3 DEF SessionState
  <2> HIDE DEF shown, cursor
  <2>5. after \in SessionState /\ after.tabs = shown.tabs
    BY <2>3, <2>4 DEF SessionState
  <2> HIDE DEF after
  <2>6. CASE WasCancelled(s)
    BY <1>5, <2>1, <2>2, <2>6 DEF Shows
  <2>7. CASE ~WasCancelled(s)
    <3>1. tabs = shown.tabs
      BY <1>3, <2>1, <2>5, <2>7
    <3> QED
      BY <1>7, <2>2, <2>3, <2>7, <3>1 DEF EndsIt
  <2> QED
    BY <2>6, <2>7
<1>8. CASE answer.type \in {"QueryStopped", "QueryFailed"}
  <2> DEFINE ended == [Ended(ss) EXCEPT !.cursorKept = FALSE]
             shown == NewTab(ended, item.job, item.sql, answer.rows, FALSE, TRUE)
  <2>1. IF WasCancelled(s) THEN Skip(s, ended)
        ELSE \E js : Pump(s, shown, js) \/ Pump(s, Dropped(shown), js)
    BY <1>1, <1>8 DEF Hear, Failed
  <2>2. ended \in SessionState /\ ended.tabs = ss.tabs
    BY <1>6, EndedTyped, EndedShows
  <2> HIDE DEF ended
  <2>3. shown \in SessionState /\ Line!Shows(Ids(ended.tabs), Ids(shown.tabs), item.job)
    BY <1>2, <2>2, NewTabTyped, NewTabShows
  <2> HIDE DEF shown
  <2>4. Dropped(shown) \in SessionState /\ Dropped(shown).tabs = shown.tabs
    BY <2>3, EndedTyped, EndedShows
  <2>5. CASE WasCancelled(s)
    BY <1>5, <2>1, <2>2, <2>5 DEF Shows
  <2>6. CASE ~WasCancelled(s)
    <3>1. tabs = shown.tabs
      BY <1>3, <2>1, <2>3, <2>4, <2>6
    <3> QED
      BY <1>8, <2>2, <2>3, <2>6, <3>1 DEF EndsIt
  <2> QED
    BY <2>5, <2>6
<1>9. CASE answer.type = "MoreRows"
  <2> DEFINE ended == IF answer.more THEN Ended(ss) ELSE Placeless(Ended(ss))
             longer == [i \in DOMAIN ended.tabs |->
                          IF ended.tabs[i].number = item.tab THEN Extended(ended.tabs[i], answer)
                          ELSE ended.tabs[i]]
             after == [ended EXCEPT !.tabs = longer]
  <2>1. \/ Only(s, ss) \/ Skip(s, Placeless(ended)) \/ \E js : Pump(s, after, js)
    BY <1>1, <1>9 DEF Hear, MoreRows
  <2>2. ended \in SessionState /\ ended.tabs = ss.tabs
    BY <1>6, EndedTyped, EndedShows
  <2> HIDE DEF ended
  <2>3. Placeless(ended) \in SessionState /\ Placeless(ended).tabs = ss.tabs
    BY <2>2, EndedTyped, EndedShows
  <2>4. longer \in Seq(Tab) /\ Ids(longer) = Ids(ss.tabs)
    <3>1. ended.tabs \in Seq(Tab)
      BY <2>2 DEF SessionState
    <3>2. longer \in Seq(Tab)
      BY <1>1, <3>1, ExtendedTyped
    <3>3. Ids(longer) = Ids(ended.tabs)
      <4>1. \A i \in DOMAIN ended.tabs : ended.tabs[i] \in Tab
        BY <3>1
      <4>2. \A i \in DOMAIN ended.tabs : longer[i].job = ended.tabs[i].job
        BY <4>1, ExtendedShows
      <4>3. DOMAIN longer = DOMAIN ended.tabs
        OBVIOUS
      <4> HIDE DEF longer
      <4> QED
        BY <4>2, <4>3 DEF Ids
    <3> QED
      BY <2>2, <3>2, <3>3
  <2> HIDE DEF longer
  <2>5. after \in SessionState /\ after.tabs = longer
    BY <2>2, <2>4 DEF SessionState
  <2> HIDE DEF after
  <2>6. CASE Only(s, ss)
    BY <1>4, <2>6 DEF Shows
  <2>7. CASE Skip(s, Placeless(ended))
    BY <1>5, <2>3, <2>7 DEF Shows
  <2>8. CASE \E js : Pump(s, after, js)
    BY <1>3, <2>4, <2>5, <2>8 DEF Shows
  <2> QED
    BY <2>1, <2>6, <2>7, <2>8
<1>10. CASE answer.type \in {"Exported", "ExportFailed"}
  <2> DEFINE ended == IF answer.ok THEN Succeeded(ss) ELSE Ended(ss)
  <2>1. Only(s, ss) \/ \E js : Pump(s, ended, js)
    BY <1>1, <1>10 DEF Hear, ExportEnded
  <2>2. ended \in SessionState /\ ended.tabs = ss.tabs
    BY <1>6
  <2> HIDE DEF ended
  <2> QED
    BY <1>3, <1>4, <2>1, <2>2 DEF Shows
<1>11. CASE answer.type \notin Ending
  <2>1. Only(s, Told(ss, answer))
    BY <1>1, <1>11 DEF Hear, Ending
  <2>2. Told(ss, answer).tabs = ss.tabs
    <3> HIDE DEF ss, answer
    <3> DEFINE Same(b) == b.tabs = ss.tabs
    <3>1. Same([ss EXCEPT !.status = "open", !.inTx = FALSE, !.autocommit = TRUE, !.cursor = 0,
                          !.cursorKept = FALSE])
      BY <1>1 DEF SessionState
    <3>2. Same([ss EXCEPT !.status = "failed"]) /\ Same([ss EXCEPT !.cursorKept = TRUE])
      BY <1>1 DEF SessionState
    <3>3. Same([ss EXCEPT !.cursor = 0])
      BY <1>1 DEF SessionState
    <3>4. Same([ss EXCEPT !.autocommit = answer.more, !.inTx = FALSE]) /\ Same(ss)
      BY <1>1 DEF SessionState
    <3> HIDE DEF Same
    <3>5. Same(Told(ss, answer))
      BY <3>1, <3>2, <3>3, <3>4 DEF Told, Placeless
    <3> QED
      BY <3>5 DEF Same
  <2> QED
    BY <1>4, <2>1, <2>2 DEF Shows
<1> QED
  BY <1>7, <1>8, <1>9, <1>10, <1>11 DEF Ending

\* No worker has died.
AllAlive == \A s \in Sessions : alive[s]

\* The registry still knows that what was cancelled while it ran was cancelled,
\* as long as it is in flight.
Remembered ==
  \A s \in Sessions :
    session[s].inFlight.job \in stopped => IsCancelled(jobs, session[s].inFlight.job)

\* What ends a statement finds one in flight.
LEMMA EndedWasOut ==
  ASSUME NEW ss \in SessionState, NEW q, NEW c, NEW a \in Seq(AnswerSet), a # <<>>, Lined(ss, q, c, a),
         EndsIt(ss, Head(a))
  PROVE  ss.inFlight # NoItem
<1> SUFFICES ASSUME ss.inFlight = NoItem PROVE FALSE
  OBVIOUS
<1> DEFINE x == Head(a)
<1>1. x \in AnswerSet /\ x = a[1] /\ 1 \in DOMAIN a
  BY HeadAndTail
<1>2. x \notin Telling /\ (x.type \in Ending /\ x.job = NoJob => x.type = "Exported")
  BY <1>1 DEF Lined, NoneIn
<1>3. x.type \in {"QueryDone", "QueryStopped", "QueryFailed"}
  BY DEF EndsIt, NoItem
<1> QED
  BY <1>1, <1>2, <1>3 DEF Telling, Ending

\* An answer takes the first from the line and shows it, unless it was
\* cancelled, or leaves the line as it stands.
LEMMA HearLineUp ==
  ASSUME Typed, Agreed, Answering, AllAlive, Remembered, NEW s \in Sessions, Hear(s)
  PROVE  [Line!LineNext]_(Line!lineVars)
<1> DEFINE ss == session[s]
           x == Head(answers[s])
<1>1. /\ session \in [Sessions -> SessionState] /\ ss \in SessionState
      /\ answers[s] \in Seq(AnswerSet) /\ answers[s] # <<>>
      /\ UNCHANGED <<made, stopped>>
  BY DEF Typed, TypeOK, ChannelsOK, Hear
<1>2. CASE s \notin Live
  <2>1. \A t \in Sessions : session'[t] = session[t]
    BY <1>1, <1>2 DEF Hear, Only
  <2> QED
    BY <1>1, <2>1, LeftAlone, Standing
<1>3. CASE s \in Live /\ ~EndsIt(ss, x)
  <2>1. PICK after : StaysAs(ss, after) /\ Only(s, after)
    BY <1>3, HearShape
  <2>2. session'[s] = after /\ \A t \in Sessions \ {s} : session'[t] = session[t]
    BY <1>1, <2>1 DEF Only
  <2>3. LineOf(session'[s]) = LineOf(ss)
    BY <2>1, <2>2 DEF StaysAs, LineOf
  <2>4. Shows(s)
    BY <1>3, HearShows
  <2>5. Stands(s) /\ \A t \in Sessions \ {s} : Stands(t)
    BY <2>2, <2>3, <2>4, LeftAlone DEF Stands
  <2> QED
    BY <1>1, <2>5, Standing
<1>4. CASE s \in Live /\ EndsIt(ss, x)
  <2>1. PICK after, js : EndsAs(ss, after) /\ Pump(s, after, js)
    BY <1>4, HearShape
  <2>2. session'[s] = Pumped(after) /\ \A t \in Sessions \ {s} : session'[t] = session[t]
    BY <1>1, <2>1 DEF Pump
  <2>3. \A t \in Sessions \ {s} : Stands(t)
    BY <2>2, LeftAlone
  <2>4. ss.inFlight # NoItem
    <3>1. Lined(ss, cmds[s], current[s], answers[s])
      BY <1>4 DEF Answering, AllAlive
    <3> QED
      BY <1>1, <1>4, <3>1, EndedWasOut
  <2>5. LineOf(ss) # <<>> /\ Head(LineOf(ss)) = ss.inFlight.job /\ Tail(LineOf(ss)) = Ids(ss.queue)
    BY <1>1, <2>4, LineStands
  <2>6. LineOf(session'[s]) \in {Tail(LineOf(ss)), <<>>}
    <3>1. after \in SessionState /\ after.inFlight = NoItem /\ after.queue \in {ss.queue, <<>>}
      BY <2>1 DEF EndsAs
    <3>2. LineOf(session'[s]) = LineOf(after) /\ LineOf(after) = Ids(after.queue)
      BY <2>2, <3>1, LinePumped, LineStands
    <3> QED
      BY <2>5, <3>1, <3>2, IdsOfNone
  <2>7. \/ Shows(s)
        \/ /\ Head(LineOf(ss)) \notin stopped
           /\ Line!Shows(Ids(ss.tabs), Ids(session'[s].tabs), Head(LineOf(ss)))
    <3>1. CASE Shows(s)
      BY <3>1
    <3>2. CASE /\ ~WasCancelled(s)
               /\ Line!Shows(Ids(ss.tabs), Ids(session'[s].tabs), ss.inFlight.job)
      <4>1. ss.inFlight.job \notin stopped
        BY <3>2 DEF Remembered, WasCancelled
      <4> QED
        BY <2>5, <3>2, <4>1
    <3> QED
      BY <1>4, <3>1, <3>2, HearShows
  <2>8. Line!AnswerFirst(s)
    BY <1>1, <2>3, <2>5, <2>6, <2>7, FirstIsAnswered
  <2> QED
    BY <2>8 DEF Line!LineNext
<1> QED
  BY <1>2, <1>3, <1>4

-----------------------------------------------------------------------------
(* Quitting *)

\* Between them the places of the sessions asked about are all there are.
LEMMA PlacesFill ==
  ASSUME NEW who \in SUBSET Sessions, NEW i \in 1..Cardinality(who)
  PROVE  \E s \in who : Place(who, s) = i
<1> DEFINE n == Cardinality(who)
           f == [s \in who |-> Place(who, s)]
<1>1. n \in Nat /\ IsFiniteSet(who)
  BY Places, QueryRunAssumption, FS_Subset
<1>2. f \in Injection(who, 1..n)
  <2>1. (\A s \in who : Place(who, s) \in 1..n) /\ \A s, t \in who : Place(who, s) = Place(who, t) => s = t
    BY Places
  <2> QED
    BY <2>1 DEF Injection, IsInjective
<1>3. IsFiniteSet(1..n) /\ Cardinality(1..n) = n
  BY <1>1, FS_Interval
<1>4. f \in Surjection(who, 1..n)
  <2> HIDE DEF f
  <2> QED
    BY <1>2, <1>3, FS_Injection
<1> QED
  BY <1>4 DEF Surjection

\* The rollbacks before a quit join the lines of their sessions.
LEMMA QuitLineUp ==
  ASSUME Typed, Agreed, Line!LineInv, Line!Apart, QuitRollingBack
  PROVE  [Line!LineNext]_(Line!lineVars)
<1> DEFINE who == dialog.who
           n == Cardinality(who)
           id(t) == Rollback(t).job
           add == [t \in Sessions |-> IF t \in who THEN <<id(t)>> ELSE <<>>]
<1>1. /\ who \in SUBSET Sessions /\ made \in Nat /\ session \in [Sessions -> SessionState]
      /\ made' = made + n /\ UNCHANGED stopped
      /\ \A t \in Sessions : session'[t] = IF t \in who THEN Pumped(RollingBack(t)) ELSE NothingHeld[t]
  BY DEF Typed, TypeOK, Dialogs, QuitRollingBack
<1>2. n \in Nat /\ IsFiniteSet(who)
  BY <1>1, Places, QueryRunAssumption, FS_Subset
<1>3. ASSUME NEW t \in Sessions \ who PROVE Stands(t)
  <2>1. session'[t] = NothingHeld[t] /\ session[t] \in SessionState
    BY <1>1
  <2>2. /\ session'[t].inFlight = session[t].inFlight
        /\ session'[t].queue = session[t].queue /\ session'[t].tabs = session[t].tabs
    BY <2>1 DEF NothingHeld, SessionState
  <2> QED
    BY <2>2, LeftAlone
<1>4. ASSUME NEW t \in who
      PROVE  /\ LineOf(session'[t]) = LineOf(session[t]) \o <<id(t)>> /\ Shows(t)
             /\ id(t) = made + Place(who, t) /\ id(t) \in (made + 1)..(made + n)
  <2> DEFINE back == RollingBack(t)
             item == Rollback(t)
  <2>1. /\ back \in SessionState /\ session[t] \in SessionState /\ session'[t] = Pumped(back)
        /\ item \in Item /\ id(t) = made + Place(who, t) /\ id(t) \in (made + 1)..(made + n)
    BY <1>1, RollingBackTyped, RollbackItem
  <2>2. back.inFlight = session[t].inFlight /\ back.queue = session[t].queue \o <<item>> /\ back.tabs = session[t].tabs
    BY <2>1 DEF RollingBack, Behind, SessionState
  <2> HIDE DEF back
  <2>3. <<item>> \in Seq(Item) /\ Ids(<<item>>) = <<item.job>>
    <3> HIDE DEF item
    <3>1. <<item>> \in Seq(Item)
      BY <2>1
    <3>2. Ids(<<item>>) = <<item.job>>
      BY DEF Ids
    <3> QED
      BY <3>1, <3>2
  <2>4. LineOf(back) = LineOf(session[t]) \o Ids(<<item>>)
    BY <2>1, <2>2, <2>3, LineBehind
  <2>5. LineOf(session'[t]) = LineOf(back) /\ session'[t].tabs = back.tabs
    BY <2>1, LinePumped
  <2> QED
    BY <2>1, <2>2, <2>3, <2>4, <2>5 DEF Shows
<1>5. CASE n = 0
  <2>1. who = {}
    BY <1>2, <1>5, FS_EmptySet
  <2>2. \A t \in Sessions : Stands(t)
    BY <1>3, <2>1
  <2>3. made' = made
    BY <1>1, <1>5
  <2> QED
    BY <1>1, <2>2, <2>3, Standing
<1>6. CASE n # 0
  <2>1. made' \in Nat /\ made < made'
    BY <1>1, <1>2, <1>6
  <2>2. \A t \in Sessions : LineOf(session[t]) \in Seq(Nat)
    BY <1>1, LineStands
  <2>3. Line!Rising(<<>>) /\ <<>> \in Seq((made + 1)..made') /\ Line!Elements(<<>>) = {}
    BY DEF Line!Rising, Line!Elements
  <2>4. ASSUME NEW y \in (made + 1)..made'
        PROVE  <<y>> \in Seq((made + 1)..made') /\ Line!Rising(<<y>>) /\ Line!Elements(<<y>>) = {y}
    <3>1. Line!Rising(<<y>>) /\ Line!Elements(<<y>>) = {y}
      BY DEF Line!Rising, Line!Elements
    <3>2. <<y>> \in Seq((made + 1)..made')
      <4> DEFINE new == (made + 1)..made'
      <4>1. y \in new
        OBVIOUS
      <4> HIDE DEF new
      <4>2. <<y>> \in Seq(new)
        BY <4>1
      <4> QED
        BY <4>2 DEF new
    <3> QED
      BY <3>1, <3>2
  <2>5. ASSUME NEW t \in Sessions
        PROVE  /\ LineOf(session'[t]) = LineOf(session[t]) \o add[t] /\ Shows(t)
               /\ add[t] \in Seq((made + 1)..made') /\ Line!Rising(add[t])
               /\ Line!Elements(add[t]) = IF t \in who THEN {id(t)} ELSE {}
    <3>1. CASE t \in who
      <4>1. add[t] = <<id(t)>> /\ id(t) \in (made + 1)..made'
        BY <1>1, <1>4, <3>1
      <4>2. /\ <<id(t)>> \in Seq((made + 1)..made') /\ Line!Rising(<<id(t)>>)
            /\ Line!Elements(<<id(t)>>) = {id(t)}
        BY <2>4, <4>1
      <4> QED
        BY <1>4, <3>1, <4>1, <4>2
    <3>2. CASE t \notin who
      <4>1. add[t] = <<>> /\ Stands(t)
        BY <1>3, <3>2
      <4>2. LineOf(session[t]) \o <<>> = LineOf(session[t])
        BY <2>2
      <4> QED
        BY <2>3, <3>2, <4>1, <4>2 DEF Stands
    <3> QED
      BY <3>1, <3>2
  <2> HIDE DEF add
  <2>6. ASSUME NEW y \in (made + 1)..made' PROVE \E t \in Sessions : y \in Line!Elements(add[t])
    <3>1. y - made \in 1..n /\ made + (y - made) = y
      BY <1>1, <1>2
    <3>2. PICK t \in who : Place(who, t) = y - made
      BY <1>1, <3>1, PlacesFill
    <3>3. id(t) = y
      BY <1>4, <3>1, <3>2
    <3> QED
      BY <1>1, <2>5, <3>3
  <2>7. ASSUME NEW t \in Sessions, NEW u \in Sessions, t # u
        PROVE  Line!Elements(add[t]) \cap Line!Elements(add[u]) = {}
    <3>1. CASE t \in who /\ u \in who
      <4>1. Place(who, t) # Place(who, u) /\ Place(who, t) \in Nat /\ Place(who, u) \in Nat
        <5>1. \A a \in who : Place(who, a) \in 1..n
          BY <1>1, Places
        <5>2. \A a, b \in who : Place(who, a) = Place(who, b) => a = b
          BY <1>1, Places
        <5> QED
          BY <2>7, <3>1, <5>1, <5>2
      <4>2. id(t) = made + Place(who, t) /\ id(u) = made + Place(who, u)
        BY <1>4, <3>1
      <4>3. Line!Elements(add[t]) = {id(t)} /\ Line!Elements(add[u]) = {id(u)}
        BY <2>5, <3>1
      <4> HIDE DEF id
      <4>4. id(t) # id(u)
        BY <1>1, <4>1, <4>2
      <4> QED
        BY <4>3, <4>4
    <3>2. CASE t \notin who \/ u \notin who
      BY <2>5, <3>2
    <3> QED
      BY <3>1, <3>2
  <2>8. Line!Ask
    BY <1>1, <2>1, <2>5, <2>6, <2>7, LinesGrow
  <2> QED
    BY <2>8 DEF Line!LineNext
<1> QED
  BY <1>5, <1>6

-----------------------------------------------------------------------------
(* Unused sessions *)

\* A step that makes no session unused, nor shows anything of one.
LEMMA StaysBlank ==
  ASSUME Blank,
         \A t \in Sessions : \/ session'[t].status # "unused"
                             \/ session'[t].tabs = session[t].tabs /\ session[t].status = "unused"
  PROVE  Blank'
BY DEF Blank

\* One that changes a session in use.
LEMMA OneStaysBlank ==
  ASSUME Blank, Typed, NEW s \in Sessions, NEW after, after.status # "unused",
         session' = [session EXCEPT ![s] = after]
  PROVE  Blank'
<1>1. session \in [Sessions -> SessionState]
  BY DEF Typed, TypeOK
<1>2. session'[s] = after /\ \A t \in Sessions \ {s} : session'[t] = session[t]
  BY <1>1
<1> QED
  BY <1>2 DEF Blank

\* The pump leaves a session's status.
LEMMA PumpedStatus ==
  ASSUME NEW ss \in SessionState
  PROVE  Pumped(ss).status = ss.status
BY DEF Pumped, SessionState

\* What the user does shows nothing of an unused session.
LEMMA ActsBlank ==
  ASSUME Typed, Agreed, Blank, NEW s \in Sessions, UserActs(s)
  PROVE  Blank'
<1>1. /\ session \in [Sessions -> SessionState] /\ session[s] \in SessionState
      /\ s \in Live => session[s].status # "unused"
  BY DEF Typed, TypeOK, Live
<1>2. CASE UNCHANGED session
  BY <1>2 DEF Blank
<1>3. ASSUME s \in Live, NEW ss \in SessionState, ss.status = session[s].status,
             NEW items \in Seq(Item), Queue(s, ss, items)
      PROVE  Blank'
  <2>1. session' = [session EXCEPT ![s] = Pumped(Queues(s, ss, items))]
    BY <1>3 DEF Queue, Pump, Queues
  <2>2. Queues(s, ss, items) \in SessionState /\ Queues(s, ss, items).status = ss.status
    BY <1>3, QueuesHolds
  <2>3. Pumped(Queues(s, ss, items)).status # "unused"
    BY <1>1, <1>3, <2>2, PumpedStatus
  <2> QED
    BY <2>1, <2>3, OneStaysBlank
<1>4. CASE Run(s) \/ LoadMore(s) \/ FetchAll(s) \/ ExportAll(s)
  <2>1. s \in Live
    BY <1>4 DEF Run, LoadMore, FetchAll, ExportAll, Acts, Agreed, Confirm
  <2>2. PICK items \in Seq(Item) : EnqueueOn(s, items)
    BY <1>4, RunsEnqueue
  <2>3. CASE Asks(s, items)
    <3>1. session' = [session EXCEPT ![s] = [session[s] EXCEPT !.held = items]]
      BY <2>2, <2>3 DEF EnqueueOn, Only
    <3>2. [session[s] EXCEPT !.held = items].status # "unused"
      BY <1>1, <2>1 DEF SessionState
    <3> QED
      BY <3>1, <3>2, OneStaysBlank
  <2>4. CASE ~Asks(s, items)
    <3>1. Queue(s, session[s], items)
      BY <2>2, <2>4 DEF EnqueueOn
    <3> QED
      BY <1>1, <1>3, <2>1, <3>1
  <2> QED
    BY <2>3, <2>4
<1>5. CASE Release(s)
  <2> DEFINE held == session[s].held
             ss == [session[s] EXCEPT !.confirmed = TRUE, !.held = <<>>]
  <2>1. s \in Live /\ Queue(s, ss, held)
    BY <1>5 DEF Release, Agreed, Confirm
  <2>2. held \in Seq(Item) /\ ss \in SessionState
    <3>1. <<>> \in Seq(Item)
      OBVIOUS
    <3> QED
      BY <1>1, <3>1 DEF SessionState
  <2>3. ss.status = session[s].status
    BY <1>1 DEF SessionState
  <2> HIDE DEF held, ss
  <2> QED
    BY <1>3, <2>1, <2>2, <2>3
<1>6. CASE AskToFetchAll(s) \/ ToggleAutocommit(s) \/ LoadSchema(s) \/ ExportFetched(s)
  BY <1>2, <1>6 DEF AskToFetchAll, ToggleAutocommit, LoadSchema, ExportFetched
<1>7. CASE CancelRunning(s)
  <2>1. s \in Live /\ session' = [session EXCEPT ![s] = Dropped(session[s])]
    BY <1>7 DEF CancelRunning, Acts
  <2>2. Dropped(session[s]).status # "unused"
    BY <1>1, <2>1 DEF Dropped, SessionState
  <2> QED
    BY <2>1, <2>2, OneStaysBlank
<1>8. CASE DropQueued(s)
  <2>1. s \in Live
    BY <1>8 DEF DropQueued, Acts
  <2>2. PICK id : session' = [session EXCEPT ![s].queue = Without(@, id)]
    BY <1>8 DEF DropQueued
  <2> DEFINE after == [session[s] EXCEPT !.queue = Without(session[s].queue, id)]
  <2>3. session' = [session EXCEPT ![s] = after]
    BY <1>1, <2>2
  <2>4. after.status # "unused"
    BY <1>1, <2>1 DEF SessionState
  <2> HIDE DEF after
  <2> QED
    BY <2>3, <2>4, OneStaysBlank
<1>9. CASE Reconnect(s)
  <2>1. PICK prod \in BOOLEAN : session' = [session EXCEPT ![s] =
            [@ EXCEPT !.status = "connecting", !.prod = prod, !.inTx = FALSE,
                      !.autocommit = TRUE, !.cursor = 0, !.cursorKept = FALSE]]
    BY <1>9 DEF Reconnect
  <2>2. session'[s].status = "connecting" /\ \A t \in Sessions \ {s} : session'[t] = session[t]
    BY <1>1, <2>1 DEF SessionState
  <2>3. \A t \in Sessions : \/ session'[t].status # "unused"
                            \/ session'[t].tabs = session[t].tabs /\ session[t].status = "unused"
    BY <2>2
  <2> QED
    BY <2>3, StaysBlank
<1>10. CASE OpenSession(s)
  <2>1. PICK prod \in BOOLEAN : session' = [session EXCEPT ![s] = Fresh("connecting", prod)]
    BY <1>10 DEF OpenSession
  <2>2. Fresh("connecting", prod).status # "unused"
    BY DEF Fresh
  <2> QED
    BY <2>1, <2>2, OneStaysBlank
<1>11. CASE CloseOrConfirm(s) \/ CloseConfirmed(s)
  <2>1. Close(s) \/ UNCHANGED session
    BY <1>11 DEF CloseOrConfirm, CloseConfirmed
  <2>2. CASE Close(s)
    <3>1. \/ session' = [session EXCEPT ![s] = Fresh("closed", FALSE)]
          \/ \E new \in Sessions :
               session' = [session EXCEPT ![s] = Fresh("closed", FALSE), ![new] = Fresh("connecting", FALSE)]
      BY <2>2 DEF Close
    <3>2. Fresh("closed", FALSE).status # "unused" /\ Fresh("connecting", FALSE).status # "unused"
      BY DEF Fresh
    <3>3. \A t \in Sessions : session'[t].status # "unused" \/ session'[t] = session[t]
      BY <1>1, <3>1, <3>2
    <3> QED
      BY <3>3 DEF Blank
  <2> QED
    BY <1>2, <2>1, <2>2
<1> QED
  BY <1>4, <1>5, <1>6, <1>7, <1>8, <1>9, <1>10, <1>11 DEF UserActs

\* Nor does any other step.
LEMMA NextBlank == Typed /\ Agreed /\ Blank /\ [Next]_vars => Blank'
<1> SUFFICES ASSUME Typed, Agreed, Blank, [Next]_vars PROVE Blank'
  OBVIOUS
<1>1. session \in [Sessions -> SessionState]
  BY DEF Typed, TypeOK
<1>2. CASE UNCHANGED session
  BY <1>2 DEF Blank
<1>3. CASE UNCHANGED vars \/ CancelArrives \/ Quit \/ \E s \in Sessions : Work(s)
  BY <1>2, <1>3 DEF vars, appVars, CancelArrives, Quit, Work
<1>4. CASE Dismiss
  <2>1. \A t \in Sessions : session'[t].status = session[t].status /\ session'[t].tabs = session[t].tabs
    BY <1>1, <1>4 DEF Dismiss, NothingHeld, SessionState
  <2> QED
    BY <2>1 DEF Blank
<1>5. CASE QuitRollingBack
  <2>1. \A t \in Sessions : session'[t] = IF t \in dialog.who THEN Pumped(RollingBack(t)) ELSE NothingHeld[t]
    BY <1>5 DEF QuitRollingBack
  <2>2. dialog.who \subseteq Live
    BY DEF Agreed
  <2>3. ASSUME NEW t \in Sessions
        PROVE  \/ session'[t].status # "unused"
               \/ session'[t].tabs = session[t].tabs /\ session[t].status = "unused"
    <3>1. CASE t \in dialog.who
      <4>1. RollingBack(t) \in SessionState
        BY <3>1, RollingBackTyped
      <4>2. RollingBack(t).status = session[t].status
        BY <1>1 DEF RollingBack, SessionState
      <4>3. session[t].status # "unused"
        BY <2>2, <3>1 DEF Live
      <4> QED
        BY <2>1, <3>1, <4>1, <4>2, <4>3, PumpedStatus
    <3>2. CASE t \notin dialog.who
      <4>1. session'[t] = [session[t] EXCEPT !.held = <<>>] /\ session[t] \in SessionState
        BY <1>1, <2>1, <3>2 DEF NothingHeld
      <4>2. session'[t].status = session[t].status /\ session'[t].tabs = session[t].tabs
        BY <4>1 DEF SessionState
      <4> QED
        BY <4>2
    <3> QED
      BY <3>1, <3>2
  <2> QED
    BY <2>3, StaysBlank
<1>6. ASSUME NEW s \in Sessions, Hear(s) PROVE Blank'
  <2>1. CASE s \notin Live
    BY <1>1, <1>2, <1>6, <2>1 DEF Hear, Only
  <2>2. CASE s \in Live
    <3>1. \/ \E after, js : EndsAs(session[s], after) /\ Pump(s, after, js)
          \/ \E after : StaysAs(session[s], after) /\ Only(s, after)
      BY <1>6, <2>2, HearShape
    <3>2. session[s].status # "unused"
      BY <2>2 DEF Live
    <3>3. ASSUME NEW after, NEW js, EndsAs(session[s], after), Pump(s, after, js) PROVE Blank'
      <4>1. session' = [session EXCEPT ![s] = Pumped(after)] /\ after \in SessionState
            /\ after.status = session[s].status
        BY <3>3 DEF Pump, EndsAs
      <4>2. Pumped(after).status # "unused"
        BY <3>2, <4>1, PumpedStatus
      <4> QED
        BY <4>1, <4>2, OneStaysBlank
    <3>4. ASSUME NEW after, StaysAs(session[s], after), Only(s, after) PROVE Blank'
      <4>1. session' = [session EXCEPT ![s] = after] /\ after.status # "unused"
        BY <3>2, <3>4 DEF Only, StaysAs
      <4> QED
        BY <4>1, OneStaysBlank
    <3> QED
      BY <3>1, <3>3, <3>4
  <2> QED
    BY <2>1, <2>2
<1>7. ASSUME NEW s \in Sessions, WorkerStopped(s) PROVE Blank'
  <2>1. CASE s \in Live
    <3>1. session' = [session EXCEPT ![s] = GivenUp(session[s])]
      BY <1>1, <1>7, <2>1 DEF WorkerStopped
    <3>2. GivenUp(session[s]).status # "unused"
      BY <1>1 DEF GivenUp, SessionState
    <3> QED
      BY <3>1, <3>2, OneStaysBlank
  <2>2. CASE s \notin Live
    BY <1>2, <1>7, <2>2 DEF WorkerStopped
  <2> QED
    BY <2>1, <2>2
<1> QED
  BY <1>3, <1>4, <1>5, <1>6, <1>7, ActsBlank DEF Next

-----------------------------------------------------------------------------
(* The refinement *)

\* The inductive invariant: the line is what the promise says of it, and the
\* channels hold no answer but to what is in flight.
Ready == Typed /\ Agreed /\ Answering /\ AllAlive /\ Blank /\ Line!LineInv /\ Line!Apart

\* Workers die of panics only.
LEMMA NoneDies == Panics = FALSE /\ AllAlive /\ [Next]_vars => AllAlive'
<1> SUFFICES ASSUME Panics = FALSE, [Next]_vars PROVE alive' = alive
  BY DEF AllAlive
<1>1. ASSUME NEW s \in Sessions, UserActs(s) PROVE alive' = alive
  BY <1>1 DEF UserActs, Run, LoadMore, AskToFetchAll, FetchAll, ExportAll, Release, CancelRunning,
     DropQueued, ToggleAutocommit, LoadSchema, ExportFetched, Reconnect, OpenSession, CloseOrConfirm,
     CloseConfirmed, Acts, User, untouchedByUser
<1>2. ASSUME NEW s \in Sessions, Hear(s) \/ WorkerStopped(s) PROVE alive' = alive
  BY <1>2 DEF Hear, WorkerStopped
<1>3. ASSUME NEW s \in Sessions, Work(s) PROVE alive' = alive
  BY <1>3 DEF Work, Take, EndCommand, Die, Ends, QueryFails, QueryExecutes, ReadEnds, ReadKept, ReadStops,
     ReadOn, ExportEnds, ExportFetchedEnds, AutocommitEnds, SchemaEnds, ConnectEnds
<1>4. CASE CancelArrives \/ Dismiss \/ Quit \/ QuitRollingBack
  BY <1>4 DEF CancelArrives, CancelFires, Dismiss, Quit, QuitRollingBack, User, untouchedByUser
<1>5. CASE UNCHANGED vars
  BY <1>5 DEF vars, workerVars
<1> QED
  BY <1>1, <1>2, <1>3, <1>4, <1>5 DEF Next

\* At first nothing stands in line and nothing is shown.
LEMMA FirstLinesUp == Init => Line!LineInit /\ Blank /\ AllAlive
<1> SUFFICES ASSUME Init PROVE Line!LineInit /\ Blank /\ AllAlive
  OBVIOUS
<1>1. ASSUME NEW s \in Sessions
      PROVE  session[s].inFlight = NoItem /\ session[s].queue = <<>> /\ session[s].tabs = <<>>
  BY DEF Init, Fresh
<1>2. ASSUME NEW s \in Sessions PROVE LineOf(session[s]) = <<>> /\ Ids(session[s].tabs) = <<>>
  <2>1. LineOf(session[s]) = <<>> \o <<>>
    BY <1>1, IdsOfNone DEF LineOf
  <2>2. <<>> \o <<>> = <<>>
    BY SMT
  <2> QED
    BY <1>1, <2>1, <2>2, IdsOfNone
<1>3. made = 0 /\ stopped = {} /\ AllAlive
  BY DEF Init, WorkerInit, AllAlive
<1> QED
  BY <1>1, <1>2, <1>3 DEF Line!LineInit, Blank

\* Every step of the app is one of the promise, or none that it tells apart.
LEMMA StepsLineUp == Ready /\ Remembered /\ [Next]_vars => [Line!LineNext]_(Line!lineVars)
<1> SUFFICES ASSUME Ready, Remembered, [Next]_vars PROVE [Line!LineNext]_(Line!lineVars)
  OBVIOUS
<1> USE DEF Ready
<1>1. session \in [Sessions -> SessionState]
  BY DEF Typed, TypeOK
<1>2. CASE UNCHANGED <<session, made, stopped>>
  BY <1>2, LeftAlone, Standing
<1>3. CASE UNCHANGED vars \/ CancelArrives \/ Quit \/ \E s \in Sessions : Work(s)
  BY <1>2, <1>3 DEF vars, appVars, CancelArrives, Quit, Work
<1>4. CASE Dismiss
  <2>1. \A t \in Sessions : /\ session'[t].inFlight = session[t].inFlight
                            /\ session'[t].queue = session[t].queue /\ session'[t].tabs = session[t].tabs
    BY <1>1, <1>4 DEF Dismiss, NothingHeld, SessionState
  <2>2. UNCHANGED <<made, stopped>>
    BY <1>4 DEF Dismiss
  <2> QED
    BY <2>1, <2>2, LeftAlone, Standing
<1>5. ASSUME NEW s \in Sessions PROVE ~WorkerStopped(s)
  BY DEF WorkerStopped, Answering, Aside, AllAlive
<1> QED
  BY <1>3, <1>4, <1>5, ActsLineUp, HearLineUp, QuitLineUp DEF Next

\* The invariant holds at first,
LEMMA InitReady == Init => Ready
<1> SUFFICES ASSUME Init PROVE Ready
  OBVIOUS
<1>1. Line!LineInv
  BY FirstLinesUp, Line!LineInvHolds
<1>2. Line!Apart
  BY FirstLinesUp DEF Line!LineInit, Line!Apart, Line!Elements
<1> QED
  BY <1>1, <1>2, FirstLinesUp, InitTyped, InitAgreed, InitAnswering DEF Ready

\* and every step keeps it.
LEMMA NextReady == Panics = FALSE /\ Ready /\ Remembered /\ [Next]_vars => Ready'
<1> SUFFICES ASSUME Panics = FALSE, Ready, Remembered, [Next]_vars PROVE Ready'
  OBVIOUS
<1>1. [Line!LineNext]_(Line!lineVars)
  BY StepsLineUp
<1>2. Line!LineInv'
  BY <1>1, Line!LineInvKept DEF Ready
<1>3. Line!Apart'
  BY <1>1, Line!ApartKept DEF Ready
<1> QED
  BY <1>2, <1>3, NextTyped, NextAgreed, NextAnswering, NextBlank, NoneDies DEF Ready

\* StatementLineProofs extends StatementLine: what it calls the promise is the promise.
LEMMA SamePromise ==
  /\ Line!LineInit => Promise!LineInit
  /\ [Line!LineNext]_(Line!lineVars) => [Promise!LineNext]_(Promise!lineVars)
BY DEF Line!LineInit, Promise!LineInit, Line!LineNext, Promise!LineNext, Line!lineVars, Promise!lineVars,
   Line!Ask, Promise!Ask, Line!AnswerFirst, Promise!AnswerFirst, Line!CancelFirst, Promise!CancelFirst,
   Line!DropWaiting, Promise!DropWaiting, Line!Forget, Promise!Forget, Line!Shows, Promise!Shows,
   Line!Longer, Promise!Longer, Line!Rising, Promise!Rising, Line!Elements, Promise!Elements,
   Line!Without, Promise!Without

\* Where no worker dies and the registry forgets no cancelled statement that is
\* still in flight, the app keeps the promise of StatementLine: every step of
\* it is a step of the promise, or none.
THEOREM KeepsThePromise ==
  ASSUME Panics = FALSE
  PROVE  Spec /\ []Remembered => ImplementsLine
<1>1. Ready /\ Remembered /\ [Next]_vars => [Promise!LineNext]_(Promise!lineVars)
  BY StepsLineUp, SamePromise
<1>2. Init => Promise!LineInit
  BY FirstLinesUp, SamePromise
<1>3. Ready /\ Remembered /\ [Next]_vars => Ready'
  BY NextReady
<1> QED
  BY <1>1, <1>2, <1>3, InitReady, PTL DEF Spec, ImplementsLine, Promise!LineSpec

-----------------------------------------------------------------------------
(* What the registry remembers *)

\* What was cancelled in js is cancelled in after.
StaysCancelled(js, after) == \A id : IsCancelled(js, id) => IsCancelled(after, id)

\* As long as no more jobs were made than finished ones are kept, none is trimmed.
LEMMA NoneTrimmed ==
  ASSUME NEW n \in Nat, n <= FinishedKept, NEW js, RegistryOK(js, n)
  PROVE  DOMAIN Trim(js) = DOMAIN js /\ \A id \in DOMAIN js : Trim(js)[id] = js[id]
<1>1. ASSUME NEW id \in DOMAIN js PROVE Cardinality(FinishedAfter(js, id)) < FinishedKept
  <2>1. id \in Nat /\ 1 <= id /\ id <= n /\ FinishedKept \in Nat
    BY QueryRunAssumption DEF RegistryOK
  <2>2. FinishedAfter(js, id) \subseteq (id + 1)..n
    BY <2>1 DEF FinishedAfter, Finished, RegistryOK
  <2>3. /\ IsFiniteSet((id + 1)..n)
        /\ Cardinality((id + 1)..n) = IF id + 1 > n THEN 0 ELSE n - (id + 1) + 1
    <3>1. id + 1 \in Int /\ n \in Int
      BY <2>1
    <3>2. \A a, b \in Int : IsFiniteSet(a..b) /\ Cardinality(a..b) = IF a > b THEN 0 ELSE b - a + 1
      BY FS_Interval
    <3> QED
      BY <3>1, <3>2
  <2>4. /\ Cardinality(FinishedAfter(js, id)) <= Cardinality((id + 1)..n)
        /\ Cardinality(FinishedAfter(js, id)) \in Nat
    BY <2>2, <2>3, FS_Subset, FS_CardinalityType
  <2> QED
    BY <2>1, <2>3, <2>4
<1>2. Kept(js) = DOMAIN js
  BY <1>1 DEF Kept
<1> QED
  BY <1>2 DEF Trim

\* Nothing but its trim takes a cancelled job from the registry, and nothing
\* changes its state.
LEMMA CallsKeepCancelled ==
  ASSUME NEW n \in Nat, n <= FinishedKept, NEW js, RegistryOK(js, n)
  PROVE  /\ \A id : StaysCancelled(js, Start(js, id))
         /\ \A id : \A state \in FinishedStates : StaysCancelled(js, End(js, id, state))
         /\ \A id : StaysCancelled(js, Cancel(js, id))
         /\ \A ids : StaysCancelled(js, RemoveQueued(js, ids))
         /\ \A s : StaysCancelled(js, CloseSession(js, s))
<1>1. ASSUME NEW id \in DOMAIN js, NEW state PROVE
        LET after == SetState(js, id, state)
        IN  DOMAIN after = DOMAIN js /\ \A other \in DOMAIN js \ {id} : after[other] = js[other]
  BY DEF SetState
<1>2. ASSUME NEW id PROVE StaysCancelled(js, Start(js, id))
  <2>1. id \in Queued(js) => id \in DOMAIN js /\ js[id].state # "cancelled"
    BY DEF Queued
  <2> QED
    BY <1>1, <2>1 DEF StaysCancelled, Start, IsCancelled
<1>3. ASSUME NEW id, NEW state \in FinishedStates
      PROVE  StaysCancelled(js, End(js, id, state))
  <2>1. CASE id \in DOMAIN js \ Finished(js)
    <3> DEFINE after == SetState(js, id, state)
    <3>1. RegistryOK(after, n)
      BY <2>1 DEF RegistryOK, SetState, Job, JobStates
    <3>2. End(js, id, state) = Trim(after) /\ js[id].state # "cancelled"
      BY <2>1 DEF End, Finished, FinishedStates
    <3>3. DOMAIN after = DOMAIN js /\ \A other \in DOMAIN js \ {id} : after[other] = js[other]
      BY <1>1, <2>1
    <3> HIDE DEF after
    <3>4. DOMAIN Trim(after) = DOMAIN after /\ \A other \in DOMAIN after : Trim(after)[other] = after[other]
      BY <3>1, NoneTrimmed
    <3> QED
      BY <3>2, <3>3, <3>4 DEF StaysCancelled, IsCancelled
  <2>2. CASE id \notin DOMAIN js \ Finished(js)
    BY <2>2, NoneTrimmed DEF StaysCancelled, IsCancelled, End
  <2> QED
    BY <2>1, <2>2
<1>4. ASSUME NEW id PROVE StaysCancelled(js, Cancel(js, id))
  <2>1. CASE id \in Queued(js)
    BY <2>1 DEF Cancel, StaysCancelled, IsCancelled, Queued
  <2>2. CASE id \notin Queued(js)
    BY <1>3, <2>2 DEF Cancel, StaysCancelled, FinishedStates
  <2> QED
    BY <2>1, <2>2
<1>5. ASSUME NEW ids PROVE StaysCancelled(js, RemoveQueued(js, ids))
  BY DEF RemoveQueued, StaysCancelled, IsCancelled, Queued
<1>6. ASSUME NEW s PROVE StaysCancelled(js, CloseSession(js, s))
  <2> DEFINE open == JobsOf(js, s) \ Finished(js)
             closed == [id \in DOMAIN js |->
                          IF id \in open THEN [js[id] EXCEPT !.state = "cancelled"] ELSE js[id]]
  <2>1. RegistryOK(closed, n)
    BY DEF RegistryOK, Job, JobStates, FinishedStates
  <2>2. \A id : IsCancelled(js, id) => id \in DOMAIN js /\ id \notin open /\ closed[id] = js[id]
    BY DEF IsCancelled, Finished, FinishedStates
  <2>3. CloseSession(js, s) = IF open = {} THEN js ELSE Trim(closed)
    BY DEF CloseSession
  <2>4. DOMAIN closed = DOMAIN js
    OBVIOUS
  <2> HIDE DEF closed, open
  <2>5. DOMAIN Trim(closed) = DOMAIN closed /\ \A id \in DOMAIN closed : Trim(closed)[id] = closed[id]
    BY <2>1, NoneTrimmed
  <2> QED
    BY <2>2, <2>3, <2>4, <2>5 DEF StaysCancelled, IsCancelled
<1> QED
  BY <1>2, <1>3, <1>4, <1>5, <1>6

\* The inductive invariant: what was cancelled while it ran is still known to be.
Known == made <= MaxJobs /\ \A id \in stopped : IsCancelled(jobs, id)

\* What is known is remembered of what is in flight.
LEMMA KnownIsRemembered == Known => Remembered
BY DEF Known, Remembered

\* A step that keeps every cancelled job cancelled.
LEMMA StaysKnown ==
  ASSUME Known, StaysCancelled(jobs, jobs'), made' <= MaxJobs, UNCHANGED stopped
  PROVE  Known'
BY DEF Known, StaysCancelled

\* The pump starts at most one job.
LEMMA StartedKeeps ==
  ASSUME NEW n \in Nat, n <= FinishedKept, NEW js, RegistryOK(js, n), NEW ss,
         NEW before, StaysCancelled(before, js)
  PROVE  StaysCancelled(before, Started(js, ss))
BY CallsKeepCancelled DEF StaysCancelled, Started

\* Neither queueing more statements nor the user's cancels and closes lose one.
LEMMA ActsKeepKnown ==
  ASSUME MaxJobs <= FinishedKept, Typed, Known, NEW s \in Sessions, UserActs(s)
  PROVE  Known'
<1>1. /\ made \in Nat /\ made <= FinishedKept /\ RegistryOK(jobs, made) /\ MaxJobs \in Nat /\ FinishedKept \in Nat
      /\ made <= MaxJobs /\ session \in [Sessions -> SessionState]
  BY QueryRunAssumption DEF Typed, TypeOK, RegistryOK, Known
<1>2. CASE UNCHANGED <<jobs, made, stopped>>
  BY <1>2 DEF Known
<1>3. ASSUME NEW ss, NEW items \in Seq(Item), made + Len(items) <= MaxJobs, Queue(s, ss, items),
             UNCHANGED stopped
      PROVE  Known'
  <2> DEFINE js == Enqueued(s, items)
  <2>1. Len(items) \in Nat /\ made' = made + Len(items) /\ jobs' = Started(js, Queues(s, ss, items))
    BY <1>3 DEF Queue, Pump, Queues
  <2>2. RegistryOK(js, made + Len(items))
    BY <1>1, EnqueuedQueues
  <2>3. StaysCancelled(jobs, js)
    BY DEF StaysCancelled, IsCancelled, Enqueued
  <2>4. made + Len(items) \in Nat /\ made + Len(items) <= FinishedKept
    BY <1>1, <1>3, <2>1
  <2> HIDE DEF js
  <2>5. StaysCancelled(jobs, jobs')
    BY <2>1, <2>2, <2>3, <2>4, StartedKeeps
  <2> QED
    BY <1>3, <2>1, <2>5, StaysKnown
<1>4. CASE Run(s) \/ LoadMore(s) \/ FetchAll(s) \/ ExportAll(s)
  <2>1. PICK items \in Seq(Item) : EnqueueOn(s, items)
    BY <1>4, RunsEnqueue
  <2>2. UNCHANGED stopped
    BY <1>4 DEF Run, LoadMore, FetchAll, ExportAll
  <2>3. Queue(s, session[s], items) \/ UNCHANGED <<jobs, made>>
    BY <2>1 DEF EnqueueOn, Only
  <2>4. made + Len(items) <= MaxJobs
    BY <2>1 DEF EnqueueOn
  <2> QED
    BY <1>2, <1>3, <2>2, <2>3, <2>4
<1>5. CASE Release(s)
  <2> DEFINE held == session[s].held
             ss == [session[s] EXCEPT !.confirmed = TRUE, !.held = <<>>]
  <2>1. made + Len(held) <= MaxJobs /\ Queue(s, ss, held) /\ UNCHANGED stopped
    BY <1>5 DEF Release
  <2>2. held \in Seq(Item)
    BY <1>1 DEF SessionState
  <2> HIDE DEF held, ss
  <2> QED
    BY <1>3, <2>1, <2>2
<1>6. CASE AskToFetchAll(s) \/ ToggleAutocommit(s) \/ LoadSchema(s) \/ ExportFetched(s)
           \/ Reconnect(s) \/ OpenSession(s)
  BY <1>2, <1>6 DEF AskToFetchAll, ToggleAutocommit, LoadSchema, ExportFetched, Reconnect, OpenSession
<1>7. CASE CancelRunning(s)
  <2> DEFINE job == session[s].inFlight.job
             after == Cancel(jobs, job)
  <2>1. /\ job \in Running(jobs) /\ jobs' = RemoveQueued(after, QueuedIds(session[s]))
        /\ stopped' = stopped \cup {job} /\ made' = made
    BY <1>7 DEF CancelRunning
  <2>2. RegistryOK(after, made)
    BY <1>1, <2>1, CancelCloses
  <2>3. StaysCancelled(jobs, after)
    BY <1>1, CallsKeepCancelled
  <2>4. IsCancelled(after, job)
    <3> DEFINE marked == SetState(jobs, job, "cancelled")
    <3>1. job \in DOMAIN jobs /\ job \notin Queued(jobs) /\ job \notin Finished(jobs)
      BY <2>1 DEF Running, Queued, Finished, FinishedStates
    <3>2. after = Trim(marked)
      BY <2>1, <3>1 DEF Cancel, End
    <3>3. RegistryOK(marked, made)
      BY <1>1, <3>1 DEF RegistryOK, SetState, Job, JobStates, FinishedStates
    <3>4. job \in DOMAIN marked /\ marked[job].state = "cancelled"
      BY <1>1, <3>1 DEF RegistryOK, SetState, Job
    <3> HIDE DEF marked
    <3>5. job \in DOMAIN Trim(marked) /\ Trim(marked)[job] = marked[job]
      BY <1>1, <3>3, <3>4, NoneTrimmed
    <3> QED
      BY <3>2, <3>4, <3>5 DEF IsCancelled
  <2> HIDE DEF after, job
  <2>5. StaysCancelled(after, jobs')
    BY <1>1, <2>1, <2>2, CallsKeepCancelled
  <2> QED
    BY <1>1, <2>1, <2>3, <2>4, <2>5 DEF Known, StaysCancelled
<1>8. CASE DropQueued(s)
  <2>1. StaysCancelled(jobs, jobs') /\ UNCHANGED <<made, stopped>>
    BY <1>1, <1>8, CallsKeepCancelled DEF DropQueued
  <2> QED
    BY <1>1, <2>1, StaysKnown
<1>9. CASE CloseOrConfirm(s) \/ CloseConfirmed(s)
  <2>1. jobs' = CloseSession(jobs, s) \/ UNCHANGED jobs
    BY <1>9 DEF CloseOrConfirm, CloseConfirmed, Close
  <2>2. UNCHANGED <<made, stopped>>
    BY <1>9 DEF CloseOrConfirm, CloseConfirmed, Close
  <2>3. StaysCancelled(jobs, jobs')
    BY <1>1, <2>1, CallsKeepCancelled DEF StaysCancelled
  <2> QED
    BY <1>1, <2>2, <2>3, StaysKnown
<1> QED
  BY <1>4, <1>5, <1>6, <1>7, <1>8, <1>9 DEF UserActs

\* Nor does an answer.
LEMMA HearKeepsKnown ==
  ASSUME MaxJobs <= FinishedKept, Typed, Known, NEW s \in Sessions, Hear(s)
  PROVE  Known'
<1> DEFINE x == Head(answers[s])
           ss == session[s]
<1>1. /\ made \in Nat /\ made <= FinishedKept /\ RegistryOK(jobs, made) /\ made <= MaxJobs
      /\ UNCHANGED <<made, stopped>>
  BY QueryRunAssumption DEF Typed, TypeOK, RegistryOK, Known, Hear
<1> DEFINE Good(js) == RegistryOK(js, made) /\ StaysCancelled(jobs, js)
<1>2. Good(jobs)
  BY <1>1 DEF StaysCancelled
<1>3. ASSUME NEW id PROVE Good(Finish(jobs, id)) /\ Good(Fail(jobs, id))
  <2>1. "done" \in FinishedStates /\ "failed" \in FinishedStates
    BY DEF FinishedStates
  <2>2. StaysCancelled(jobs, Finish(jobs, id)) /\ StaysCancelled(jobs, Fail(jobs, id))
    BY <1>1, <2>1, CallsKeepCancelled DEF Finish, Fail
  <2> QED
    BY <1>1, <2>2, FinishOrFailCloses
<1>4. ASSUME NEW js, Good(js), NEW ids PROVE Good(RemoveQueued(js, ids))
  <2>1. StaysCancelled(js, RemoveQueued(js, ids))
    BY <1>1, <1>4, CallsKeepCancelled
  <2>2. RegistryOK(RemoveQueued(js, ids), made)
    BY <1>1, <1>4, RemoveQueuedCloses
  <2> QED
    BY <1>4, <2>1, <2>2 DEF StaysCancelled
<1>5. ASSUME NEW after, NEW js, Good(js), Pump(s, after, js) PROVE StaysCancelled(jobs, jobs')
  <2>1. jobs' = Started(js, after)
    BY <1>5 DEF Pump
  <2> QED
    BY <1>1, <1>5, <2>1, StartedKeeps
<1>6. ASSUME NEW after, Only(s, after) PROVE StaysCancelled(jobs, jobs')
  BY <1>6 DEF Only, StaysCancelled
<1> HIDE DEF Good
<1>7. CASE s \notin Live
  <2>1. Only(s, ss)
    BY <1>7 DEF Hear
  <2> QED
    BY <1>1, <1>6, <2>1, StaysKnown
<1>8. CASE s \in Live
  <2>1. CASE x.type = "QueryDone"
    <3>1. Done(s, x)
      BY <1>8, <2>1 DEF Hear
    <3>2. \E after : Pump(s, after, jobs) \/ Pump(s, after, Finish(jobs, ss.inFlight.job))
      BY <3>1 DEF Done, Skip
    <3> QED
      BY <1>1, <1>2, <1>3, <1>5, <3>2, StaysKnown
  <2>2. CASE x.type \in {"QueryStopped", "QueryFailed"}
    <3>1. Failed(s, x)
      BY <1>8, <2>2 DEF Hear
    <3>2. \E after : \/ Pump(s, after, jobs) \/ Pump(s, after, Fail(jobs, ss.inFlight.job))
                     \/ Pump(s, after, RemoveQueued(Fail(jobs, ss.inFlight.job), QueuedIds(ss)))
      BY <3>1 DEF Failed, Skip
    <3> QED
      BY <1>1, <1>2, <1>3, <1>4, <1>5, <3>2, StaysKnown
  <2>3. CASE x.type = "MoreRows"
    <3>1. MoreRows(s, x)
      BY <1>8, <2>3 DEF Hear
    <3>2. \E after : \/ Only(s, after) \/ Pump(s, after, jobs)
                     \/ Pump(s, after, Finish(jobs, ss.inFlight.job))
                     \/ Pump(s, after, Fail(jobs, ss.inFlight.job))
      BY <3>1 DEF MoreRows, Skip
    <3> QED
      BY <1>1, <1>2, <1>3, <1>5, <1>6, <3>2, StaysKnown
  <2>4. CASE x.type \in {"Exported", "ExportFailed"}
    <3>1. ExportEnded(s, x)
      BY <1>8, <2>4 DEF Hear
    <3>2. \E after : \/ Only(s, after) \/ Pump(s, after, jobs)
                     \/ Pump(s, after, Finish(jobs, x.job)) \/ Pump(s, after, Fail(jobs, x.job))
      BY <3>1 DEF ExportEnded
    <3> QED
      BY <1>1, <1>2, <1>3, <1>5, <1>6, <3>2, StaysKnown
  <2>5. CASE x.type \notin {"QueryDone", "QueryStopped", "QueryFailed", "MoreRows", "Exported", "ExportFailed"}
    <3>1. Only(s, Told(ss, x))
      BY <1>8, <2>5 DEF Hear
    <3> QED
      BY <1>1, <1>6, <3>1, StaysKnown
  <2> QED
    BY <2>1, <2>2, <2>3, <2>4, <2>5
<1> QED
  BY <1>7, <1>8

\* Nor does any other step.
LEMMA NextKnown == MaxJobs <= FinishedKept /\ Typed /\ Known /\ [Next]_vars => Known'
<1> SUFFICES ASSUME MaxJobs <= FinishedKept, Typed, Known, [Next]_vars PROVE Known'
  OBVIOUS
<1>1. /\ made \in Nat /\ made <= FinishedKept /\ RegistryOK(jobs, made) /\ made <= MaxJobs
  BY QueryRunAssumption DEF Typed, TypeOK, RegistryOK, Known
<1>2. CASE UNCHANGED <<jobs, made, stopped>>
  BY <1>2 DEF Known
<1>3. CASE UNCHANGED vars \/ CancelArrives \/ Quit \/ Dismiss \/ \E s \in Sessions : Work(s)
  BY <1>2, <1>3 DEF vars, appVars, CancelArrives, Quit, Dismiss, Work
<1>4. CASE QuitRollingBack
  <2>1. \A id \in DOMAIN jobs : id \in DOMAIN jobs' /\ jobs'[id] = jobs[id]
    BY <1>4 DEF QuitRollingBack
  <2>2. made' <= MaxJobs /\ UNCHANGED stopped
    BY <1>4 DEF QuitRollingBack
  <2>3. StaysCancelled(jobs, jobs')
    BY <2>1 DEF StaysCancelled, IsCancelled
  <2> QED
    BY <2>2, <2>3, StaysKnown
<1>5. ASSUME NEW s \in Sessions, WorkerStopped(s) PROVE Known'
  <2>1. StaysCancelled(jobs, jobs')
    BY <1>1, <1>5, CallsKeepCancelled DEF WorkerStopped, StaysCancelled
  <2>2. UNCHANGED <<made, stopped>>
    BY <1>5 DEF WorkerStopped
  <2> QED
    BY <1>1, <2>1, <2>2, StaysKnown
<1> QED
  BY <1>3, <1>4, <1>5, ActsKeepKnown, HearKeepsKnown DEF Next

\* A run that makes no more jobs than finished ones are kept remembers every
\* cancelled statement until it is answered.
THEOREM CancelsAreRemembered ==
  ASSUME MaxJobs <= FinishedKept
  PROVE  Spec => []Remembered
<1>1. Init => Known
  BY QueryRunAssumption DEF Init, Known
<1>2. Typed /\ Known /\ [Next]_vars => Known'
  BY NextKnown
<1> QED
  BY <1>1, <1>2, KnownIsRemembered, InitTyped, NextTyped, PTL DEF Spec

\* ... and keeps the promise of StatementLine.
THEOREM ImplementsThePromise ==
  ASSUME Panics = FALSE, MaxJobs <= FinishedKept
  PROVE  Spec => ImplementsLine
BY KeepsThePromise, CancelsAreRemembered, PTL

\* So results are shown in the order their statements were run, each once.
THEOREM ShowsInOrder ==
  ASSUME Panics = FALSE
  PROVE  Spec /\ []Remembered => []Promise!ShownInOrder
<1>1. Line!LineInv => Promise!ShownInOrder
  <2> SUFFICES ASSUME Line!LineInv, NEW s \in Sessions
               PROVE  Promise!Rising(Ids(session[s].tabs) \o LineOf(session[s]))
    BY DEF Promise!ShownInOrder
  <2> DEFINE t == Ids(session[s].tabs)
             l == LineOf(session[s])
  <2>1. made \in Nat /\ t \in Seq(1..made) /\ l \in Seq(1..made) /\ Line!InOrder(t, l)
    BY DEF Line!LineInv, Line!LineTypeOK
  <2> HIDE DEF t, l
  <2>2. t \in Seq(Nat) /\ l \in Seq(Nat)
    BY <2>1, Line!IdsAreNaturals
  <2>3. Line!Rising(t \o l)
    BY <2>1, <2>2, Line!RisingTogether
  <2> QED
    BY <2>3 DEF Line!Rising, Promise!Rising, t, l
<1>2. Ready /\ Remembered /\ [Next]_vars => Ready'
  BY NextReady
<1>3. Ready => Line!LineInv
  BY DEF Ready
<1> QED
  BY <1>1, <1>2, <1>3, InitReady, PTL DEF Spec

-----------------------------------------------------------------------------
(* The rows of a tab, and the stream it loads on from. *)

\* The answers that hand a stream to a session: the read whose stream is kept,
\* the rows that were read on.  The one that says it is gone.
Offering == {x \in AnswerSet : x.type = "QueryDone" /\ x.more}
Reading == {x \in AnswerSet : x.type = "MoreRows"}
Giving == Offering \cup Reading
Closing == {x \in AnswerSet : x.type = "CursorClosed"}

\* The answers that carry a statement's rows from the first on.
Whole == {x \in AnswerSet : x.type \in {"QueryDone", "QueryStopped", "QueryFailed"}}

\* What is still to be heard of session s: what was sent, then what its running
\* command answers first.
Unheard(s) == answers[s] \o early[s]

\* The last a session will hear of its stream is that it is gone.
Gone(a) == Latched(FALSE, a, Closing, Giving)

\* The first n rows of job were read from st, or it will be heard that its stream
\* is gone.
StandsAt(job, n, st) == st = [job |-> job, read |-> n]
Serves(job, n, a, st) == Gone(a) \/ StandsAt(job, n, st)

\* The worker of a session: a command that reads nothing on has no stream.
Streaming(c, e, a, st) ==
  /\ c = NoCommand => e = <<>>
  /\ \A i \in DOMAIN e : e[i] \in Closing
  /\ c.type \in {"none", "FetchMore", "ExportFetched"} \/ st = NoStream
  /\ Gone(a) => st = NoStream
  /\ \A i \in DOMAIN a : a[i] \in Whole => a[i].rows = RowsOf(a[i].job, 0, Len(a[i].rows))

\* A tab of session ss, with a still unheard and its worker's stream at st.
Plain(items) == \A i \in DOMAIN items : items[i].how # "more"
LoadsOn(ss, tab) == ss.inFlight.how = "more" /\ tab.number = ss.inFlight.tab
IsOwn(ss, tab) ==
  /\ tab.number \in 1..ss.tabsMade /\ tab.job # NoJob
  /\ tab.rows = RowsOf(tab.job, 0, Len(tab.rows))
  /\ tab.truncated => tab.sql = "select"

\* The tab that can load on: it will be told that it no longer can, or it
\* stands where the stream stands.
Offered(tab, a, st) ==
  /\ tab.truncated
  /\ ~NoneIn(a, Closing) \/ (NoneIn(a, Giving) /\ StandsAt(tab.job, Len(tab.rows), st))

\* The tab that loads on, before its rows are read and after.
Awaits(tab, a, st) ==
  NoneIn(a, Giving) => st = NoStream \/ StandsAt(tab.job, Len(tab.rows), st)
Continues(tab, x, a, st) ==
  LET rows == tab.rows \o x.rows
  IN  rows = RowsOf(tab.job, 0, Len(rows)) /\ (x.more => Serves(tab.job, Len(rows), a, st))

TabFits(ss, tab, a, st) ==
  /\ IsOwn(ss, tab)
  /\ tab.number = ss.cursor /\ NoneIn(a, Reading) => Offered(tab, a, st)
  /\ LoadsOn(ss, tab) => /\ tab.sql = "select" /\ Awaits(tab, a, st)
                         /\ \A i \in DOMAIN a : a[i] \in Reading => Continues(tab, a[i], a, st)

\* The session: what it offers, and what it has been offered.
Placing(ss) ==
  /\ ss.cursor \in 0..ss.tabsMade
  /\ ss.inFlight.how = "more" => ss.cursor \in {0, ss.inFlight.tab}
  /\ Plain(ss.queue) /\ Plain(ss.held)
OffersHold(ss, a, st) ==
  \A i \in DOMAIN a : a[i] \in Offering =>
    ss.inFlight.sql = "select" /\ Serves(a[i].job, Len(a[i].rows), a, st)
TabsFit(ss, a, st) ==
  /\ Placing(ss) /\ OffersHold(ss, a, st)
  /\ \A i \in DOMAIN ss.tabs : TabFits(ss, ss.tabs[i], a, st)

\* The inductive invariant.
TabInv ==
  \A s \in Sessions :
    /\ Streaming(current[s], early[s], Unheard(s), stream[s])
    /\ s \in Live => TabsFit(session[s], Unheard(s), stream[s])

\* What waits for a worker is a command.
Sendable == \A s \in Sessions : \A i \in DOMAIN cmds[s] : cmds[s][i].type # "none"

\* No answer both hands a stream to a session and says that it is gone.
LEMMA HandsOrCloses == Closing \cap Giving = {} /\ Reading \subseteq Giving /\ Offering \subseteq Giving
BY DEF Closing, Giving, Offering, Reading

\* What is unheard, first and last.
LEMMA UnheardFirst ==
  ASSUME NEW a \in Seq(AnswerSet), a # <<>>, NEW e \in Seq(AnswerSet)
  PROVE  /\ a \o e \in Seq(AnswerSet) /\ a \o e # <<>>
         /\ Head(a \o e) = Head(a) /\ Tail(a \o e) = Tail(a) \o e
<1>1. a \o e \in Seq(AnswerSet) /\ a \o e # <<>>
  OBVIOUS
<1>2. Head(a \o e) = Head(a)
  OBVIOUS
<1>3. Tail(a \o e) = Tail(a) \o e
  OBVIOUS
<1> QED
  BY <1>1, <1>2, <1>3

\* None of a sequence is in S when neither its first nor its rest is.
LEMMA NoneFirst ==
  ASSUME NEW a \in Seq(AnswerSet), a # <<>>, NEW S
  PROVE  NoneIn(a, S) <=> Head(a) \notin S /\ NoneIn(Tail(a), S)
<1>1. /\ Head(a) = a[1] /\ 1 \in DOMAIN a /\ DOMAIN Tail(a) = 1..(Len(a) - 1)
      /\ \A i \in DOMAIN Tail(a) : i + 1 \in DOMAIN a /\ Tail(a)[i] = a[i + 1]
  BY HeadAndTail
<1>2. ASSUME NEW i \in DOMAIN a, i # 1 PROVE i - 1 \in DOMAIN Tail(a) /\ Tail(a)[i - 1] = a[i]
  <2>1. i - 1 \in 1..(Len(a) - 1) /\ (i - 1) + 1 = i
    BY <1>2
  <2> QED
    BY <1>1, <2>1
<1> QED
  BY <1>1, <1>2 DEF NoneIn

\* ... and of two joined when it is of neither.
LEMMA NoneJoined ==
  ASSUME NEW a \in Seq(AnswerSet), NEW b \in Seq(AnswerSet), NEW S
  PROVE  /\ NoneIn(a \o b, S) <=> NoneIn(a, S) /\ NoneIn(b, S)
         /\ \A i \in DOMAIN (a \o b) : \/ \E j \in DOMAIN a : (a \o b)[i] = a[j]
                                       \/ \E j \in DOMAIN b : (a \o b)[i] = b[j]
<1> DEFINE c == a \o b
<1>1. /\ Len(a) \in Nat /\ Len(b) \in Nat /\ DOMAIN a = 1..Len(a) /\ DOMAIN b = 1..Len(b)
      /\ DOMAIN c = 1..(Len(a) + Len(b))
      /\ \A i \in 1..Len(a) : c[i] = a[i]
      /\ \A i \in 1..Len(b) : c[Len(a) + i] = b[i]
  BY Joined
<1> HIDE DEF c
<1>2. ASSUME NEW i \in DOMAIN c, ~(i <= Len(a)) PROVE i - Len(a) \in DOMAIN b /\ c[i] = b[i - Len(a)]
  <2>1. i - Len(a) \in 1..Len(b) /\ Len(a) + (i - Len(a)) = i
    BY <1>1, <1>2
  <2> QED
    BY <1>1, <2>1
<1>3. ASSUME NEW i \in DOMAIN c, i <= Len(a) PROVE i \in DOMAIN a /\ c[i] = a[i]
  BY <1>1, <1>3
<1>4. \A i \in DOMAIN a : i \in DOMAIN c /\ c[i] = a[i]
  BY <1>1
<1>5. \A i \in DOMAIN b : Len(a) + i \in DOMAIN c /\ c[Len(a) + i] = b[i]
  BY <1>1
<1>6. NoneIn(c, S) <=> NoneIn(a, S) /\ NoneIn(b, S)
  BY <1>2, <1>3, <1>4, <1>5 DEF NoneIn
<1>7. \A i \in DOMAIN c : (\E j \in DOMAIN a : c[i] = a[j]) \/ (\E j \in DOMAIN b : c[i] = b[j])
  BY <1>2, <1>3
<1> QED
  BY <1>6, <1>7 DEF c

\* One answer is heard: what is gone behind it is gone.
LEMMA GoneFirst ==
  ASSUME NEW a \in Seq(AnswerSet), a # <<>>
  PROVE  /\ Gone(Tail(a)) => Gone(a)
         /\ Gone(a) /\ (Head(a) \notin Closing \/ ~NoneIn(Tail(a), Giving)) => Gone(Tail(a))
<1> DEFINE h == Head(a)
           t == Tail(a)
           v == Turned(FALSE, h, Closing, Giving)
<1>1. Gone(a) <=> Latched(v, t, Closing, Giving)
  BY LatchedFirst DEF Gone
<1>2. v <=> h \in Closing
  BY DEF Turned
<1> HIDE DEF h, t, v
<1>3. Latched(v, t, Closing, Giving) <=> (v /\ NoneIn(t, Giving)) \/ Gone(t)
  BY DEF Latched, Gone
<1> QED
  BY <1>1, <1>2, <1>3 DEF h, t

\* Something that is gone was closed.
LEMMA GoneCloses == ASSUME NEW a, Gone(a) PROVE ~NoneIn(a, Closing)
BY DEF Gone, Latched, NoneIn

\* A command's answers come last: the stream is gone when they say so, and kept
\* when they hand one.
LEMMA GoneLast ==
  ASSUME NEW a \in Seq(AnswerSet)
  PROVE  /\ \A x \in Closing : Gone(a \o <<x>>)
         /\ \A b \in Seq(AnswerSet) : NoneIn(b, Closing \cup Giving) => (Gone(a \o b) <=> Gone(a))
         /\ \A x \in Giving : \A y \in AnswerSet \ (Closing \cup Giving) :
              \A last \in {<<x>>, <<y, x>>} : ~Gone(a \o last)
<1>1. ASSUME NEW x \in Closing PROVE Gone(a \o <<x>>)
  <2>1. x \in AnswerSet
    BY DEF Closing
  <2>2. a \o <<x>> = Append(a, x)
    BY <2>1
  <2>3. Latched(FALSE, Append(a, x), Closing, Giving)
    BY <2>1, LatchedLast DEF Turned
  <2> QED
    BY <2>2, <2>3 DEF Gone
<1>2. ASSUME NEW b \in Seq(AnswerSet), NoneIn(b, Closing \cup Giving) PROVE Gone(a \o b) <=> Gone(a)
  BY <1>2, LatchedBehind DEF Gone
<1>3. ASSUME NEW x \in Giving, NEW y \in AnswerSet \ (Closing \cup Giving), NEW last \in {<<x>>, <<y, x>>}
      PROVE  ~Gone(a \o last)
  <2>1. x \in AnswerSet /\ y \in AnswerSet /\ x \notin Closing
    BY <1>3, HandsOrCloses DEF Giving, Offering, Reading
  <2>2. <<>> \in Seq(AnswerSet) /\ NoneIn(<<>>, Closing \cup Giving) /\ a \o <<>> = a
    BY DEF NoneIn
  <2>3. Latched(FALSE, (a \o <<>>) \o last, Closing, Giving)
          <=> Turned(Latched(FALSE, a, Closing, Giving), x, Closing, Giving)
    BY <1>3, <2>1, <2>2, LatchedEnd
  <2> QED
    BY <2>1, <2>2, <2>3 DEF Gone, Turned
<1> QED
  BY <1>1, <1>2, <1>3

-----------------------------------------------------------------------------
(* What the app does to a session's tabs. *)

\* The same tabs, none of which can load on but the one that could.
SameTabs(ss, after) ==
  after.tabs = ss.tabs /\ after.tabsMade = ss.tabsMade /\ after.cursor \in {0, ss.cursor}

\* With nothing handed to it on its way, and nothing loading on, a session fits
\* when its tabs are their own and the one offered is.
LEMMA TabsAtRest ==
  ASSUME NEW after, NEW b, NEW st, NoneIn(b, Giving), after.inFlight.how # "more",
         after.cursor \in 0..after.tabsMade, Plain(after.queue), Plain(after.held),
         \A i \in DOMAIN after.tabs : /\ IsOwn(after, after.tabs[i])
                                      /\ after.tabs[i].number = after.cursor => Offered(after.tabs[i], b, st)
  PROVE  TabsFit(after, b, st)
<1>1. NoneIn(b, Offering)
  BY HandsOrCloses DEF NoneIn
<1>2. OffersHold(after, b, st)
  BY <1>1 DEF OffersHold, NoneIn
<1>3. Placing(after)
  BY DEF Placing
<1>4. \A i \in DOMAIN after.tabs : TabFits(after, after.tabs[i], b, st)
  BY DEF TabFits, LoadsOn
<1> QED
  BY <1>2, <1>3, <1>4 DEF TabsFit

\* What the code does to a session beside its tabs leaves them fit.
LEMMA TabsStay ==
  ASSUME NEW ss, NEW a, NEW st, TabsFit(ss, a, st), ss.tabsMade \in Nat,
         NEW after, SameTabs(ss, after), after.inFlight = ss.inFlight, Plain(after.queue), Plain(after.held)
  PROVE  TabsFit(after, a, st)
<1>1. Placing(after) /\ OffersHold(after, a, st)
  BY DEF TabsFit, Placing, SameTabs, OffersHold
<1>2. ASSUME NEW tab, TabFits(ss, tab, a, st) PROVE TabFits(after, tab, a, st)
  <2>1. IsOwn(after, tab) /\ (LoadsOn(after, tab) <=> LoadsOn(ss, tab))
    BY <1>2 DEF TabFits, SameTabs, IsOwn, LoadsOn
  <2>2. tab.number # 0
    BY <1>2 DEF TabFits, IsOwn
  <2>3. tab.number = after.cursor => tab.number = ss.cursor
    BY <2>2 DEF SameTabs
  <2> QED
    BY <1>2, <2>1, <2>3 DEF TabFits
<1>3. \A i \in DOMAIN after.tabs : TabFits(after, after.tabs[i], a, st)
  BY <1>2 DEF TabsFit, SameTabs
<1> QED
  BY <1>1, <1>3 DEF TabsFit

\* What still serves when an answer is heard that hands nothing.
LEMMA ServesFirst ==
  ASSUME NEW a \in Seq(AnswerSet), a # <<>>, NEW st, NEW job, NEW n, Serves(job, n, a, st),
         Head(a) \notin Closing \/ ~NoneIn(Tail(a), Giving)
  PROVE  Serves(job, n, Tail(a), st)
BY GoneFirst DEF Serves

\* An answer that hands nothing is heard: a session that is told its stream is
\* gone offers it no more.
LEMMA TabsTold ==
  ASSUME NEW ss, NEW a \in Seq(AnswerSet), a # <<>>, NEW st, TabsFit(ss, a, st), ss.tabsMade \in Nat,
         Head(a) \notin Giving, NEW after, SameTabs(ss, after), after.inFlight = ss.inFlight,
         Plain(after.queue), Plain(after.held), Head(a) \in Closing => after.cursor = 0
  PROVE  TabsFit(after, Tail(a), st)
<1> DEFINE t == Tail(a)
<1>1. TabsFit(after, a, st)
  BY TabsStay
<1>2. /\ NoneIn(t, Giving) => NoneIn(a, Giving)
      /\ NoneIn(t, Reading) => NoneIn(a, Reading)
      /\ Head(a) \notin Closing /\ ~NoneIn(a, Closing) => ~NoneIn(t, Closing)
      /\ NoneIn(a, Giving) => NoneIn(t, Giving)
  BY NoneFirst, HandsOrCloses
<1>3. \A i \in DOMAIN t : \E j \in DOMAIN a : t[i] = a[j]
  BY HeadAndTail
<1>4. ASSUME NEW i \in DOMAIN t, t[i] \in Giving, NEW job, NEW n, Serves(job, n, a, st)
      PROVE  Serves(job, n, t, st)
  <2>1. ~NoneIn(Tail(a), Giving)
    BY <1>4 DEF NoneIn
  <2> QED
    BY <1>4, <2>1, ServesFirst
<1> HIDE DEF t
<1>5. Placing(after)
  BY <1>1 DEF TabsFit
<1>6. OffersHold(after, t, st)
  BY <1>1, <1>3, <1>4, HandsOrCloses DEF TabsFit, OffersHold
<1>7. ASSUME NEW tab, TabFits(after, tab, a, st) PROVE TabFits(after, tab, t, st)
  <2>1. IsOwn(after, tab)
    BY <1>7 DEF TabFits
  <2>2. tab.number = after.cursor /\ NoneIn(t, Reading) => Offered(tab, t, st)
    <3> SUFFICES ASSUME tab.number = after.cursor, NoneIn(t, Reading) PROVE Offered(tab, t, st)
      OBVIOUS
    <3>1. Offered(tab, a, st)
      BY <1>2, <1>7 DEF TabFits
    <3>2. after.cursor # 0
      BY <2>1 DEF IsOwn
    <3> QED
      BY <1>2, <3>1, <3>2 DEF Offered
  <2>3. LoadsOn(after, tab) => tab.sql = "select" /\ Awaits(tab, t, st)
    BY <1>2, <1>7 DEF TabFits, Awaits
  <2>4. ASSUME LoadsOn(after, tab), NEW i \in DOMAIN t, t[i] \in Reading PROVE Continues(tab, t[i], t, st)
    <3>1. PICK j \in DOMAIN a : t[i] = a[j]
      BY <1>3
    <3>2. Continues(tab, t[i], a, st)
      BY <1>7, <2>4, <3>1 DEF TabFits
    <3> QED
      BY <1>4, <2>4, <3>2, HandsOrCloses DEF Continues
  <2> QED
    BY <2>1, <2>2, <2>3, <2>4 DEF TabFits
<1>8. \A i \in DOMAIN after.tabs : TabFits(after, after.tabs[i], t, st)
  BY <1>1, <1>7 DEF TabsFit
<1>9. TabsFit(after, t, st)
  BY <1>5, <1>6, <1>8 DEF TabsFit
<1> QED
  BY <1>9 DEF t

\* What waits in a queue never loads on, so what the pump sends does not.
LEMMA TabsPumped ==
  ASSUME NEW ss \in SessionState, NEW a, NEW st, TabsFit(ss, a, st),
         ss.inFlight = NoItem => NoneIn(a, Giving)
  PROVE  TabsFit(Pumped(ss), a, st)
<1>1. CASE Sends(ss)
  <2> DEFINE q == ss.queue
             after == Pumped(ss)
  <2>1. q \in Seq(Item) /\ q # <<>> /\ ss.inFlight = NoItem
    BY <1>1 DEF Sends, SessionState
  <2>2. /\ Head(q) = q[1] /\ 1 \in DOMAIN q
        /\ \A i \in DOMAIN Tail(q) : i + 1 \in DOMAIN q /\ Tail(q)[i] = q[i + 1]
    BY <2>1, HeadAndTail
  <2>3. /\ after.inFlight = Head(q) /\ after.queue = Tail(q) /\ after.held = ss.held
        /\ after.tabs = ss.tabs /\ after.tabsMade = ss.tabsMade /\ after.cursor = ss.cursor
    BY <1>1 DEF Pumped, SessionState
  <2> HIDE DEF q, after
  <2>4. Plain(q) /\ Plain(ss.held) /\ ss.cursor \in 0..ss.tabsMade
    BY DEF TabsFit, Placing, q
  <2>5. Head(q).how # "more" /\ Plain(Tail(q))
    BY <2>2, <2>4 DEF Plain
  <2>6. NoneIn(a, Reading)
    BY <2>1, HandsOrCloses DEF NoneIn
  <2>7. ASSUME NEW i \in DOMAIN after.tabs
        PROVE  /\ IsOwn(after, after.tabs[i])
               /\ after.tabs[i].number = after.cursor => Offered(after.tabs[i], a, st)
    <3>1. TabFits(ss, after.tabs[i], a, st)
      BY <2>3, <2>7 DEF TabsFit
    <3> QED
      BY <2>3, <2>6, <3>1 DEF TabFits, IsOwn
  <2>8. TabsFit(after, a, st)
    BY <2>1, <2>3, <2>4, <2>5, <2>7, TabsAtRest
  <2> QED
    BY <2>8 DEF after
<1>2. CASE ~Sends(ss)
  BY <1>2 DEF Pumped
<1> QED
  BY <1>1, <1>2

\* The answer that ends what is in flight is heard, and shows nothing.
LEMMA TabsEnded ==
  ASSUME NEW ss, NEW a \in Seq(AnswerSet), a # <<>>, NEW st, TabsFit(ss, a, st), ss.tabsMade \in Nat,
         Head(a) \notin Closing, NoneIn(Tail(a), Giving), NEW after, SameTabs(ss, after),
         Head(a) \in Reading => after.cursor = 0,
         after.inFlight = NoItem, Plain(after.queue), Plain(after.held)
  PROVE  TabsFit(after, Tail(a), st)
<1>1. after.cursor \in 0..after.tabsMade
  BY DEF SameTabs, TabsFit, Placing
<1>2. ASSUME NEW i \in DOMAIN after.tabs
      PROVE  /\ IsOwn(after, after.tabs[i])
             /\ after.tabs[i].number = after.cursor => Offered(after.tabs[i], Tail(a), st)
  <2> DEFINE tab == after.tabs[i]
  <2>1. TabFits(ss, tab, a, st)
    BY <1>2 DEF TabsFit, SameTabs
  <2> HIDE DEF tab
  <2>2. IsOwn(after, tab) /\ tab.number # 0
    BY <2>1 DEF TabFits, IsOwn, SameTabs
  <2>3. ASSUME tab.number = after.cursor PROVE Offered(tab, Tail(a), st)
    <3>1. tab.number = ss.cursor /\ Head(a) \notin Reading
      BY <2>2, <2>3 DEF SameTabs
    <3>2. NoneIn(Tail(a), Reading)
      BY HandsOrCloses DEF NoneIn
    <3>3. NoneIn(a, Reading)
      BY <3>1, <3>2, NoneFirst
    <3>4. Offered(tab, a, st)
      BY <2>1, <3>1, <3>3 DEF TabFits
    <3>5. ~NoneIn(a, Closing) => ~NoneIn(Tail(a), Closing)
      BY NoneFirst
    <3> QED
      BY <3>4, <3>5 DEF Offered
  <2> QED
    BY <2>2, <2>3 DEF tab
<1>3. NoItem.how # "more"
  BY DEF NoItem
<1> QED
  BY <1>1, <1>2, <1>3, TabsAtRest

\* A tab more: its number is the next, it holds its statement's rows, and it is
\* offered the stream only when that stands behind them.
LEMMA TabsGrow ==
  ASSUME NEW ss \in SessionState, NEW b, NEW st, TabsFit(ss, b, st), NoneIn(b, Giving), ss.inFlight = NoItem,
         NEW job \in Nat \ {NoJob}, NEW sql, NEW rows, rows = RowsOf(job, 0, Len(rows)),
         NEW truncated, truncated => sql = "select", NEW stops, NEW after, NEW shown,
         shown = NewTab(ss, job, sql, rows, truncated, stops),
         after.tabs = shown.tabs, after.tabsMade = shown.tabsMade, after.inFlight = NoItem,
         Plain(after.queue), Plain(after.held),
         \/ after.cursor = ss.cursor
         \/ after.cursor = shown.tabsMade /\ truncated /\ Serves(job, Len(rows), b, st)
  PROVE  TabsFit(after, b, st)
<1> DEFINE tab == [number |-> ss.tabsMade + 1, job |-> job, sql |-> sql, rows |-> rows,
                   truncated |-> truncated, stopped |-> stops]
           tabs == Append(ss.tabs, tab)
<1>1. ss.tabs \in Seq(Tab) /\ ss.tabsMade \in Nat /\ ss.cursor \in 0..ss.tabsMade
  BY DEF SessionState, TabsFit, Placing
<1>2. shown.tabsMade = ss.tabsMade + 1 /\ shown.tabs \in {tabs, Tail(tabs)}
  BY DEF NewTab, SessionState
<1>3. \A i \in DOMAIN tabs : tabs[i] = tab \/ \E j \in DOMAIN ss.tabs : tabs[i] = ss.tabs[j]
  BY <1>1
<1>4. \A i \in DOMAIN Tail(tabs) : i + 1 \in DOMAIN tabs /\ Tail(tabs)[i] = tabs[i + 1]
  BY <1>1
<1>5. \A i \in DOMAIN after.tabs : after.tabs[i] = tab \/ \E j \in DOMAIN ss.tabs : after.tabs[i] = ss.tabs[j]
  <2> HIDE DEF tab, tabs
  <2>1. CASE after.tabs = tabs
    BY <1>3, <2>1
  <2>2. CASE after.tabs = Tail(tabs)
    BY <1>3, <1>4, <2>2
  <2> QED
    BY <1>2, <2>1, <2>2
<1>6. after.cursor \in 0..after.tabsMade
  BY <1>1, <1>2
<1>7. IsOwn(after, tab)
  BY <1>1, <1>2 DEF IsOwn
<1>8. tab.number = after.cursor => Offered(tab, b, st)
  <2> SUFFICES ASSUME tab.number = after.cursor PROVE Offered(tab, b, st)
    OBVIOUS
  <2>1. truncated /\ Serves(job, Len(rows), b, st)
    BY <1>1, <1>2
  <2>2. Gone(b) => ~NoneIn(b, Closing)
    BY GoneCloses
  <2> QED
    BY <2>1, <2>2 DEF Offered, Serves
<1> HIDE DEF tab, tabs
<1>9. ASSUME NEW j \in DOMAIN ss.tabs
      PROVE  /\ IsOwn(after, ss.tabs[j])
             /\ ss.tabs[j].number = after.cursor => Offered(ss.tabs[j], b, st)
  <2>1. TabFits(ss, ss.tabs[j], b, st)
    BY DEF TabsFit
  <2>2. ss.tabs[j].number \in 1..ss.tabsMade /\ IsOwn(after, ss.tabs[j])
    BY <1>1, <1>2, <2>1 DEF TabFits, IsOwn
  <2>3. ss.tabs[j].number = after.cursor => after.cursor = ss.cursor
    BY <1>1, <1>2, <2>2
  <2>4. NoneIn(b, Reading)
    BY HandsOrCloses DEF NoneIn
  <2> QED
    BY <2>1, <2>2, <2>3, <2>4 DEF TabFits
<1>10. ASSUME NEW i \in DOMAIN after.tabs
       PROVE  /\ IsOwn(after, after.tabs[i])
              /\ after.tabs[i].number = after.cursor => Offered(after.tabs[i], b, st)
  BY <1>5, <1>7, <1>8, <1>9
<1>11. NoItem.how # "more"
  BY DEF NoItem
<1> QED
  BY <1>6, <1>10, <1>11, TabsAtRest

\* Rows that were read on go to the end of the tab they are for, which can load
\* on if there are more.
LEMMA TabsLonger ==
  ASSUME NEW ss \in SessionState, NEW a \in Seq(AnswerSet), a # <<>>, NEW st, TabsFit(ss, a, st),
         Head(a) \in Reading, ss.inFlight.how = "more", NoneIn(Tail(a), Giving),
         NEW after, after.inFlight = NoItem, after.tabsMade = ss.tabsMade,
         after.cursor = IF Head(a).more THEN ss.cursor ELSE 0,
         after.tabs = [i \in DOMAIN ss.tabs |->
                         IF ss.tabs[i].number = ss.inFlight.tab THEN Extended(ss.tabs[i], Head(a)) ELSE ss.tabs[i]],
         Plain(after.queue), Plain(after.held)
  PROVE  TabsFit(after, Tail(a), st)
<1> DEFINE x == Head(a)
           t == Tail(a)
<1>1. x = a[1] /\ 1 \in DOMAIN a
  BY HeadAndTail
<1>2. x \notin Closing
  BY HandsOrCloses
<1>3. ss.cursor \in 0..ss.tabsMade /\ ss.cursor \in {0, ss.inFlight.tab} /\ ss.tabsMade \in Nat
  BY DEF TabsFit, Placing, SessionState
<1>4. Gone(a) => ~NoneIn(t, Closing)
  BY <1>2, GoneFirst, GoneCloses
<1>5. ASSUME NEW tab \in Tab, TabFits(ss, tab, a, st), tab.number = ss.inFlight.tab
      PROVE  /\ IsOwn(after, Extended(tab, x))
             /\ Extended(tab, x).number = after.cursor => Offered(Extended(tab, x), t, st)
  <2> DEFINE rows == tab.rows \o x.rows
             longer == Extended(tab, x)
  <2>1. /\ longer.number = tab.number /\ longer.job = tab.job /\ longer.sql = tab.sql
        /\ longer.rows = rows /\ longer.truncated = x.more
    BY DEF Extended, Tab
  <2>2. tab.sql = "select" /\ Continues(tab, x, a, st)
    BY <1>1, <1>5 DEF TabFits, LoadsOn
  <2>3. rows = RowsOf(tab.job, 0, Len(rows)) /\ (x.more => Serves(tab.job, Len(rows), a, st))
    BY <2>2 DEF Continues
  <2> HIDE DEF x, t, longer, rows
  <2>4. IsOwn(ss, tab)
    BY <1>5 DEF TabFits
  <2>5. IsOwn(after, longer)
    BY <2>1, <2>2, <2>3, <2>4 DEF IsOwn
  <2>6. ASSUME longer.number = after.cursor PROVE Offered(longer, t, st)
    <3>1. longer.number # 0
      BY <2>5 DEF IsOwn
    <3>2. x.more
      BY <2>6, <3>1 DEF x
    <3>3. ~NoneIn(t, Closing) \/ StandsAt(tab.job, Len(rows), st)
      BY <1>4, <2>3, <3>2 DEF Serves
    <3>4. NoneIn(t, Giving)
      BY DEF t
    <3> QED
      BY <2>1, <3>2, <3>3, <3>4 DEF Offered
  <2> QED
    BY <2>5, <2>6 DEF longer
<1>6. ASSUME NEW tab, TabFits(ss, tab, a, st), tab.number # ss.inFlight.tab
      PROVE  IsOwn(after, tab) /\ tab.number # after.cursor
  BY <1>3, <1>6 DEF TabFits, IsOwn
<1> HIDE DEF t
<1>7. ASSUME NEW i \in DOMAIN after.tabs
      PROVE  /\ IsOwn(after, after.tabs[i])
             /\ after.tabs[i].number = after.cursor => Offered(after.tabs[i], t, st)
  <2>1. i \in DOMAIN ss.tabs /\ ss.tabs[i] \in Tab /\ TabFits(ss, ss.tabs[i], a, st)
    BY <1>7 DEF TabsFit, SessionState
  <2> HIDE DEF x
  <2>2. after.tabs[i] = IF ss.tabs[i].number = ss.inFlight.tab THEN Extended(ss.tabs[i], x) ELSE ss.tabs[i]
    BY <2>1 DEF x
  <2> QED
    BY <1>5, <1>6, <2>1, <2>2
<1>8. after.cursor \in 0..after.tabsMade /\ NoItem.how # "more"
  BY <1>3 DEF NoItem
<1>9. NoneIn(t, Giving)
  BY DEF t
<1>10. TabsFit(after, t, st)
  BY <1>7, <1>8, <1>9, TabsAtRest
<1> QED
  BY <1>10 DEF t

-----------------------------------------------------------------------------
(* What is handed to a session is of what it has in flight. *)

\* What is handed is the answer to what is in flight, once.
LEMMA HandedIsOfIt ==
  ASSUME NEW ss, NEW q, NEW c, NEW a \in Seq(AnswerSet), Lined(ss, q, c, a)
  PROVE  /\ \A i \in DOMAIN a : a[i] \in Giving =>
              ss.inFlight # NoItem /\ c \notin Asking /\ a[i] \in TellingOf(ss.inFlight)
         /\ \A i, j \in DOMAIN a : a[i] \in Telling /\ a[j] \in Telling => i = j
         /\ ss.inFlight = NoItem => NoneIn(a, Giving)
<1>1. ASSUME NEW i \in DOMAIN a, a[i] \in Giving PROVE a[i] \in Telling
  <2>1. a[i] \in AnswerSet /\ a[i].type \in {"QueryDone", "MoreRows"}
    BY <1>1 DEF Giving, Offering, Reading
  <2>2. a[i].type \in Ending /\ a[i].job = NoJob => a[i].type = "Exported"
    BY DEF Lined
  <2> QED
    BY <2>1, <2>2 DEF Telling, Ending
<1>2. CASE NoneIn(a, Telling)
  BY <1>1, <1>2 DEF NoneIn
<1>3. CASE ~NoneIn(a, Telling)
  <2>1. ss.inFlight # NoItem /\ c \notin Asking /\ OneIn(a, Telling, TellingOf(ss.inFlight))
    BY <1>3 DEF Lined, OutAt
  <2>2. PICK k \in DOMAIN a : a[k] \in TellingOf(ss.inFlight) /\ \A j \in DOMAIN a \ {k} : a[j] \notin Telling
    BY <2>1 DEF OneIn
  <2> QED
    BY <1>1, <2>1, <2>2
<1> QED
  BY <1>2, <1>3

\* Once the answer to it is heard nothing handed is on its way.
LEMMA HandedOnce ==
  ASSUME NEW ss, NEW q, NEW c, NEW a \in Seq(AnswerSet), a # <<>>, Lined(ss, q, c, a), EndsIt(ss, Head(a))
  PROVE  NoneIn(Tail(a), Giving)
<1> DEFINE h == Head(a)
           t == Tail(a)
<1>1. /\ h \in AnswerSet /\ h = a[1] /\ 1 \in DOMAIN a
      /\ \A i \in DOMAIN t : i + 1 \in DOMAIN a /\ t[i] = a[i + 1]
  BY HeadAndTail
<1>2. a[1].type \in Ending /\ a[1].job = NoJob => a[1].type = "Exported"
  BY <1>1 DEF Lined
<1>3. DOMAIN t \subseteq Nat \ {0}
  BY HeadAndTail
<1> HIDE DEF t
<1>4. h \in Telling
  BY <1>1, <1>2 DEF EndsIt, Telling, Ending
<1>5. ASSUME NEW i \in DOMAIN t PROVE t[i] \notin Giving
  <2>1. i + 1 \in DOMAIN a /\ t[i] = a[i + 1] /\ i + 1 # 1
    BY <1>1, <1>3
  <2>2. t[i] \notin Telling
    BY <1>1, <1>4, <2>1, HandedIsOfIt
  <2>3. t[i] \in Giving => t[i] \in TellingOf(ss.inFlight)
    BY <2>1, HandedIsOfIt
  <2> QED
    BY <2>2, <2>3 DEF TellingOf
<1> QED
  BY <1>5 DEF NoneIn, t

\* What hands a session its stream ends what is in flight.
LEMMA HandedEnds ==
  ASSUME NEW ss \in SessionState, NEW q, NEW c, NEW a \in Seq(AnswerSet), a # <<>>, Lined(ss, q, c, a),
         Head(a) \in Giving
  PROVE  EndsIt(ss, Head(a))
<1>1. Head(a) = a[1] /\ 1 \in DOMAIN a
  BY HeadAndTail
<1>2. ss.inFlight # NoItem /\ Head(a) \in TellingOf(ss.inFlight)
  BY <1>1, HandedIsOfIt
<1>3. Head(a).type = "MoreRows" => ss.inFlight.how = "more"
  <2> SUFFICES ASSUME Head(a).type = "MoreRows" PROVE ss.inFlight.how = "more"
    OBVIOUS
  <2>1. "MoreRows" \in EndsOf(ss.inFlight.how)
    BY <1>2 DEF TellingOf
  <2>2. ss.inFlight.how \in Hows
    BY <1>2 DEF SessionState, Item
  <2> QED
    BY <2>1, <2>2 DEF EndsOf, Hows
<1>4. Head(a).type \in {"QueryDone", "MoreRows"}
  BY DEF Giving, Offering, Reading
<1> QED
  BY <1>3, <1>4 DEF EndsIt

-----------------------------------------------------------------------------
(* An answer is heard. *)

\* One answer less is unheard.
LEMMA StreamingTold ==
  ASSUME NEW c, NEW e, NEW a \in Seq(AnswerSet), a # <<>>, NEW st, Streaming(c, e, a, st)
  PROVE  Streaming(c, e, Tail(a), st)
<1>1. \A i \in DOMAIN Tail(a) : i + 1 \in DOMAIN a /\ Tail(a)[i] = a[i + 1]
  BY HeadAndTail
<1>2. Gone(Tail(a)) => st = NoStream
  BY GoneFirst DEF Streaming
<1>3. \A i \in DOMAIN Tail(a) : Tail(a)[i] \in Whole => Tail(a)[i].rows = RowsOf(Tail(a)[i].job, 0, Len(Tail(a)[i].rows))
  BY <1>1 DEF Streaming
<1> QED
  BY <1>2, <1>3 DEF Streaming

\* A session whose statement ended, beside its tabs.
EndsPlain(ss, after) == EndsAs(ss, after) /\ SameTabs(ss, after)

\* What every ending does first.
LEMMA EndedPlain ==
  ASSUME NEW ss \in SessionState
  PROVE  /\ EndsPlain(ss, Ended(ss)) /\ EndsPlain(ss, Succeeded(ss))
         /\ Ended(ss).tabs = ss.tabs /\ Ended(ss).cursor = ss.cursor
         /\ \A a : EndsPlain(ss, a) => /\ EndsPlain(ss, [a EXCEPT !.cursorKept = FALSE])
                                       /\ EndsPlain(ss, Placeless(a)) /\ Placeless(a).cursor = 0
                                       /\ Placeless(a).tabs = a.tabs
<1>1. SameTabs(ss, Ended(ss)) /\ Ended(ss).cursor = ss.cursor /\ Ended(ss).tabs = ss.tabs
  BY DEF SameTabs, Ended, SessionState
<1>2. SameTabs(ss, Succeeded(ss))
  BY DEF SameTabs, Succeeded, Ended, SessionState
<1>3. EndsAs(ss, Ended(ss)) /\ EndsAs(ss, Succeeded(ss))
  BY EndedEnds
<1>4. ASSUME NEW a, EndsPlain(ss, a)
      PROVE  /\ EndsPlain(ss, [a EXCEPT !.cursorKept = FALSE])
             /\ EndsPlain(ss, Placeless(a)) /\ Placeless(a).cursor = 0 /\ Placeless(a).tabs = a.tabs
  <2>1. EndsAs(ss, a) /\ a \in SessionState
    BY <1>4 DEF EndsPlain, EndsAs
  <2>2. EndsAs(ss, [a EXCEPT !.cursorKept = FALSE]) /\ EndsAs(ss, Placeless(a))
    BY <2>1, StillEnded DEF Placeless
  <2>3. SameTabs(ss, [a EXCEPT !.cursorKept = FALSE])
    BY <1>4, <2>1 DEF EndsPlain, SameTabs, SessionState
  <2>4. SameTabs(ss, Placeless(a)) /\ Placeless(a).cursor = 0 /\ Placeless(a).tabs = a.tabs
    BY <1>4, <2>1 DEF EndsPlain, SameTabs, Placeless, SessionState
  <2> QED
    BY <2>2, <2>3, <2>4 DEF EndsPlain
<1> QED
  BY <1>1, <1>2, <1>3, <1>4 DEF EndsPlain

\* Nothing dropped loads on.
LEMMA EndedIsPlain ==
  ASSUME NEW ss, Plain(ss.queue), Plain(ss.held), NEW after, EndsAs(ss, after)
  PROVE  Plain(after.queue) /\ Plain(after.held) /\ after.inFlight = NoItem /\ after \in SessionState
<1>1. Plain(<<>>)
  BY DEF Plain
<1> QED
  BY <1>1 DEF EndsAs

\* What session s and its worker's stream are when its next answer is h.
LEMMA HeardOf ==
  ASSUME Typed, Answering, AllAlive, TabInv, NEW s \in Live, answers[s] # <<>>
  PROVE  LET ss == session[s]
             a == Unheard(s)
             h == Head(answers[s])
         IN  /\ s \in Sessions /\ ss \in SessionState /\ ss.tabsMade \in Nat
             /\ TabsFit(ss, a, stream[s]) /\ Plain(ss.queue) /\ Plain(ss.held)
             /\ a \in Seq(AnswerSet) /\ a # <<>> /\ Head(a) = h /\ h \in AnswerSet
             /\ h \in Giving => EndsIt(ss, h)
             /\ EndsIt(ss, h) => /\ NoneIn(Tail(a), Giving)
                                 /\ ss.inFlight \in Item /\ h \in TellingOf(ss.inFlight)
             /\ h \in Whole => h.rows = RowsOf(h.job, 0, Len(h.rows))
             /\ h \in Offering => ss.inFlight.sql = "select" /\ Serves(h.job, Len(h.rows), a, stream[s])
<1> DEFINE ss == session[s]
           p == answers[s]
           e == early[s]
           a == p \o e
           h == Head(p)
<1>1. /\ s \in Sessions /\ ss \in SessionState /\ ss.tabsMade \in Nat /\ p \in Seq(AnswerSet) /\ e \in Seq(AnswerSet)
      /\ alive[s] /\ Unheard(s) = a
  BY DEF Live, Typed, TypeOK, ChannelsOK, AllAlive, SessionState, Unheard
<1>2. Lined(ss, cmds[s], current[s], p)
  BY <1>1 DEF Answering
<1>3. a \in Seq(AnswerSet) /\ a # <<>> /\ Head(a) = h /\ Tail(a) = Tail(p) \o e
  BY <1>1, UnheardFirst
<1>4. TabsFit(ss, a, stream[s]) /\ Streaming(current[s], e, a, stream[s])
  BY <1>1 DEF TabInv
<1>5. h \in Giving => EndsIt(ss, h)
  BY <1>1, <1>2, HandedEnds
<1>6. ASSUME EndsIt(ss, h) PROVE NoneIn(Tail(a), Giving) /\ ss.inFlight \in Item /\ h \in TellingOf(ss.inFlight)
  <2>1. NoneIn(Tail(p), Giving) /\ Tail(p) \in Seq(AnswerSet)
    BY <1>1, <1>2, <1>6, HandedOnce
  <2>2. NoneIn(e, Giving)
    BY <1>4, HandsOrCloses DEF Streaming, NoneIn
  <2>3. NoneIn(Tail(p) \o e, Giving)
    BY <1>1, <2>1, <2>2, NoneJoined
  <2> QED
    BY <1>1, <1>2, <1>3, <1>6, <2>3, HeardIsOfIt
<1> HIDE DEF a, ss, p, e
<1>7. h = a[1] /\ 1 \in DOMAIN a /\ h \in AnswerSet
  BY <1>3, HeadAndTail
<1>8. /\ h \in Whole => h.rows = RowsOf(h.job, 0, Len(h.rows))
      /\ h \in Offering => ss.inFlight.sql = "select" /\ Serves(h.job, Len(h.rows), a, stream[s])
  BY <1>4, <1>7 DEF Streaming, TabsFit, OffersHold
<1>9. Plain(ss.queue) /\ Plain(ss.held)
  BY <1>4 DEF TabsFit, Placing
<1> QED
  BY <1>1, <1>3, <1>4, <1>5, <1>6, <1>7, <1>8, <1>9 DEF ss, p

\* Its tabs fit once the statement ended, without a tab more or with it.
LEMMA EndFits ==
  ASSUME Typed, Answering, AllAlive, TabInv, NEW s \in Live, answers[s] # <<>>, EndsIt(session[s], Head(answers[s])),
         NEW after, EndsPlain(session[s], after), Head(answers[s]).type = "MoreRows" => after.cursor = 0
  PROVE  TabsFit(after, Tail(Unheard(s)), stream[s])
<1> DEFINE ss == session[s]
           a == Unheard(s)
           h == Head(answers[s])
<1>1. /\ s \in Sessions /\ ss \in SessionState /\ ss.tabsMade \in Nat
      /\ TabsFit(ss, a, stream[s]) /\ Plain(ss.queue) /\ Plain(ss.held)
      /\ a \in Seq(AnswerSet) /\ a # <<>> /\ Head(a) = h /\ NoneIn(Tail(a), Giving)
  BY HeardOf
<1>2. h \notin Closing
  BY DEF EndsIt, Closing
<1>3. h \in Reading => after.cursor = 0
  BY DEF Reading
<1>4. Plain(after.queue) /\ Plain(after.held) /\ after.inFlight = NoItem /\ SameTabs(ss, after)
  BY <1>1, EndedIsPlain DEF EndsPlain
<1> HIDE DEF ss, a, h
<1> QED
  BY <1>1, <1>2, <1>3, <1>4, TabsEnded DEF ss, a, h

\* The tab of a statement that ended well, or that stopped, shows what was read of it,
\* and can load on if the stream was kept.
LEMMA ShownFits ==
  ASSUME Typed, Answering, AllAlive, TabInv, NEW s \in Live, answers[s] # <<>>,
         Head(answers[s]).type \in {"QueryDone", "QueryStopped", "QueryFailed"},
         NEW ended, EndsPlain(session[s], ended), NEW truncated \in BOOLEAN,
         truncated => Head(answers[s]) \in Offering, NEW stops \in BOOLEAN, NEW shown,
         shown = NewTab(ended, session[s].inFlight.job, session[s].inFlight.sql, Head(answers[s]).rows, truncated, stops),
         NEW after, after.tabs = shown.tabs, after.tabsMade = shown.tabsMade,
         EndsAs(session[s], after),
         after.cursor = ended.cursor \/ (after.cursor = shown.tabsMade /\ truncated)
  PROVE  TabsFit(after, Tail(Unheard(s)), stream[s])
<1> DEFINE ss == session[s]
           a == Unheard(s)
           h == Head(answers[s])
           item == ss.inFlight
<1>0. EndsIt(ss, h) /\ h.type # "MoreRows" /\ h \notin Closing
  BY DEF EndsIt, Closing
<1>1. /\ s \in Sessions /\ ss \in SessionState /\ ss.tabsMade \in Nat
      /\ Plain(ss.queue) /\ Plain(ss.held) /\ a \in Seq(AnswerSet) /\ a # <<>> /\ Head(a) = h
      /\ NoneIn(Tail(a), Giving) /\ item \in Item /\ h \in TellingOf(item) /\ h \in AnswerSet
      /\ h \in Whole => h.rows = RowsOf(h.job, 0, Len(h.rows))
      /\ h \in Offering => item.sql = "select" /\ Serves(h.job, Len(h.rows), a, stream[s])
  BY <1>0, HeardOf
<1>2. h.job = item.job /\ item.job \in Nat \ {NoJob}
  BY <1>1 DEF TellingOf, Telling, Item
<1>3. h.rows = RowsOf(item.job, 0, Len(h.rows))
  BY <1>1, <1>2 DEF Whole
<1>4. truncated => item.sql = "select" /\ Serves(item.job, Len(h.rows), Tail(a), stream[s])
  BY <1>0, <1>1, <1>2, ServesFirst
<1>5. TabsFit(ended, Tail(a), stream[s])
  BY <1>0, EndFits
<1>6. ended \in SessionState /\ ended.inFlight = NoItem
  BY DEF EndsPlain, EndsAs
<1>7. Plain(after.queue) /\ Plain(after.held) /\ after.inFlight = NoItem
  BY <1>1, EndedIsPlain
<1>8. shown = NewTab(ended, item.job, item.sql, h.rows, truncated, stops)
  OBVIOUS
<1> HIDE DEF ss, a, h, item
<1>9. \/ after.cursor = ended.cursor
      \/ after.cursor = shown.tabsMade /\ truncated /\ Serves(item.job, Len(h.rows), Tail(a), stream[s])
  BY <1>4
<1>10. TabsFit(after, Tail(a), stream[s])
  BY <1>1, <1>2, <1>3, <1>4, <1>5, <1>6, <1>7, <1>8, <1>9, TabsGrow
<1> QED
  BY <1>10 DEF a

\* What an answer that ends nothing tells a session leaves its tabs as they are,
\* and takes the offer back when the stream is gone.
LEMMA ToldPlain ==
  ASSUME NEW ss \in SessionState, NEW h
  PROVE  /\ SameTabs(ss, Told(ss, h)) /\ Told(ss, h).inFlight = ss.inFlight
         /\ Told(ss, h).queue = ss.queue /\ Told(ss, h).held = ss.held
         /\ h.type = "CursorClosed" => Told(ss, h).cursor = 0
<1> DEFINE Same(b) == /\ SameTabs(ss, b) /\ b.inFlight = ss.inFlight
                      /\ b.queue = ss.queue /\ b.held = ss.held
<1>1. Same([ss EXCEPT !.status = "open", !.inTx = FALSE, !.autocommit = TRUE, !.cursor = 0,
                      !.cursorKept = FALSE])
  BY DEF SessionState, SameTabs
<1>2. Same([ss EXCEPT !.status = "failed"]) /\ Same([ss EXCEPT !.cursorKept = TRUE])
  BY DEF SessionState, SameTabs
<1>3. Same(Placeless(ss)) /\ Placeless(ss).cursor = 0
  BY DEF SessionState, SameTabs, Placeless
<1>4. Same([ss EXCEPT !.autocommit = h.more, !.inTx = FALSE]) /\ Same(ss)
  BY DEF SessionState, SameTabs
<1> HIDE DEF Same
<1>5. Same(Told(ss, h))
  BY <1>1, <1>2, <1>3, <1>4 DEF Told
<1>6. h.type = "CursorClosed" => Told(ss, h).cursor = 0
  BY <1>3 DEF Told
<1> QED
  BY <1>5, <1>6 DEF Same

\* Every handler leaves the session's tabs fit.
LEMMA HearFits ==
  ASSUME Typed, Answering, AllAlive, TabInv, NEW s \in Live, Hear(s)
  PROVE  TabsFit(session'[s], Tail(Unheard(s)), stream[s])
<1> DEFINE ss == session[s]
           h == Head(answers[s])
           item == ss.inFlight
           a == Unheard(s)
           Fits(b) == TabsFit(b, Tail(a), stream[s])
<1>0. answers[s] # <<>>
  BY DEF Hear
<1>1. /\ s \in Sessions /\ ss \in SessionState /\ ss.tabsMade \in Nat
      /\ TabsFit(ss, a, stream[s]) /\ Plain(ss.queue) /\ Plain(ss.held)
      /\ a \in Seq(AnswerSet) /\ a # <<>> /\ Head(a) = h /\ h \in AnswerSet
      /\ h \in Giving => EndsIt(ss, h)
      /\ EndsIt(ss, h) => NoneIn(Tail(a), Giving)
      /\ session \in [Sessions -> SessionState]
  BY <1>0, HeardOf DEF Typed, TypeOK
<1>2. item.job \in Nat /\ item.sql \in Statements \cup {NoSql} /\ h.rows \in Rows /\ h.more \in BOOLEAN
  <2>1. item \in Item \cup {NoItem} /\ h.rows \in Rows /\ h.more \in BOOLEAN
    BY <1>1 DEF SessionState, AnswerSet
  <2> QED
    BY <2>1 DEF Item, NoItem, NoJob
<1>3. ASSUME NEW after, EndsAs(ss, after), Fits(after), EndsIt(ss, h), NEW js, Pump(s, after, js)
      PROVE  Fits(session'[s])
  <2>1. session'[s] = Pumped(after) /\ after \in SessionState
    BY <1>1, <1>3 DEF Pump, EndsAs
  <2>2. Fits(Pumped(after))
    BY <1>1, <1>3, <2>1, TabsPumped
  <2> QED
    BY <2>1, <2>2
<1>4. ASSUME NEW after, Only(s, after) PROVE session'[s] = after
  BY <1>1, <1>4 DEF Only
<1>5. ASSUME NEW after, EndsPlain(ss, after), EndsIt(ss, h), h.type = "MoreRows" => after.cursor = 0
      PROVE  Fits(after)
  BY <1>0, <1>5, EndFits
<1>6. CASE h.type = "QueryDone"
  <2> DEFINE ended == [Succeeded(ss) EXCEPT !.cursorKept = FALSE]
             shown == NewTab(ended, item.job, item.sql, h.rows, h.more, FALSE)
             cursor == IF ss.cursorKept /\ h.more THEN shown.tabsMade ELSE shown.cursor
             after == [shown EXCEPT !.cursor = cursor]
  <2>0. EndsIt(ss, h)
    BY <1>6 DEF EndsIt
  <2>1. IF WasCancelled(s) THEN Pump(s, ended, jobs) ELSE Pump(s, after, Finish(jobs, item.job))
    BY <1>1, <1>6 DEF Hear, Done, Skip
  <2>2. EndsPlain(ss, ended)
    BY <1>1, EndedPlain
  <2>3. EndsAs(ss, shown) /\ shown.cursor = ended.cursor
    <3>1. EndsAs(ss, shown)
      BY <1>2, <2>2, NewTabEnds DEF EndsPlain
    <3>2. ended \in SessionState
      BY <2>2 DEF EndsPlain, EndsAs
    <3> HIDE DEF ended
    <3>3. shown.cursor = ended.cursor
      BY <3>2 DEF NewTab, SessionState
    <3> QED
      BY <3>1, <3>3
  <2>4. cursor \in Nat
    BY <2>3 DEF EndsAs, SessionState
  <2>5. h.more => h \in Offering
    BY <1>1, <1>6 DEF Offering
  <2>6. shown = NewTab(ended, item.job, item.sql, h.rows, h.more, FALSE) /\ FALSE \in BOOLEAN
    OBVIOUS
  <2> HIDE DEF ended, shown, cursor
  <2>7. EndsAs(ss, after) /\ after.tabs = shown.tabs /\ after.tabsMade = shown.tabsMade /\ after.cursor = cursor
    <3>1. EndsAs(ss, after)
      BY <2>3, <2>4, StillEnded
    <3> QED
      BY <2>3, <3>1 DEF EndsAs, SessionState
  <2>8. after.cursor = ended.cursor \/ (after.cursor = shown.tabsMade /\ h.more)
    BY <2>3, <2>7 DEF cursor
  <2> HIDE DEF after
  <2>9. Fits(after)
    BY <1>0, <1>2, <1>6, <2>2, <2>5, <2>6, <2>7, <2>8, ShownFits
  <2> HIDE DEF Fits
  <2>10. EndsAs(ss, ended) /\ Fits(ended)
    BY <1>5, <1>6, <2>0, <2>2 DEF EndsPlain
  <2>11. Fits(session'[s])
    BY <1>3, <2>0, <2>1, <2>7, <2>9, <2>10
  <2> QED
    BY <2>11 DEF Fits
<1>7. CASE h.type \in {"QueryStopped", "QueryFailed"}
  <2> DEFINE ended == [Ended(ss) EXCEPT !.cursorKept = FALSE]
             shown == NewTab(ended, item.job, item.sql, h.rows, FALSE, TRUE)
             dropped == Dropped(shown)
  <2>0. EndsIt(ss, h)
    BY <1>7 DEF EndsIt
  <2>1. \/ Pump(s, ended, jobs) \/ \E js : Pump(s, shown, js) \/ Pump(s, dropped, js)
    BY <1>1, <1>7 DEF Hear, Failed, Skip
  <2>2. EndsPlain(ss, ended)
    BY <1>1, EndedPlain
  <2>3. EndsAs(ss, shown) /\ shown.cursor = ended.cursor
    <3>1. EndsAs(ss, shown)
      BY <1>2, <2>2, NewTabEnds DEF EndsPlain
    <3>2. ended \in SessionState
      BY <2>2 DEF EndsPlain, EndsAs
    <3> HIDE DEF ended
    <3>3. shown.cursor = ended.cursor
      BY <3>2 DEF NewTab, SessionState
    <3> QED
      BY <3>1, <3>3
  <2>4. /\ EndsAs(ss, dropped) /\ dropped.tabs = shown.tabs /\ dropped.tabsMade = shown.tabsMade
        /\ dropped.cursor = shown.cursor
    <3> HIDE DEF shown
    <3>1. EndsAs(ss, dropped)
      BY <2>3, StillEnded
    <3> QED
      BY <2>3, <3>1 DEF EndsAs, Dropped, SessionState
  <2>5. FALSE \in BOOLEAN /\ TRUE \in BOOLEAN
    OBVIOUS
  <2>6. shown = NewTab(ended, item.job, item.sql, h.rows, FALSE, TRUE)
    OBVIOUS
  <2> HIDE DEF ended, shown, dropped
  <2>7. Fits(shown)
    BY <1>0, <1>7, <2>2, <2>3, <2>5, <2>6, ShownFits
  <2>8. Fits(dropped)
    BY <1>0, <1>7, <2>2, <2>3, <2>4, <2>5, <2>6, ShownFits
  <2> HIDE DEF Fits
  <2>9. EndsAs(ss, ended) /\ Fits(ended)
    BY <1>5, <1>7, <2>0, <2>2 DEF EndsPlain
  <2>10. Fits(session'[s])
    BY <1>3, <2>0, <2>1, <2>3, <2>4, <2>7, <2>8, <2>9
  <2> QED
    BY <2>10 DEF Fits
<1>8. CASE h.type = "MoreRows"
  <2> DEFINE bad == Ended(ss)
             ended == IF h.more THEN bad ELSE Placeless(bad)
             gone == Placeless(ended)
             longer == [i \in DOMAIN ended.tabs |->
                          IF ended.tabs[i].number = item.tab THEN Extended(ended.tabs[i], h)
                          ELSE ended.tabs[i]]
             after == [ended EXCEPT !.tabs = longer]
  <2>0. h \in Reading /\ EndsIt(ss, h)
    BY <1>1, <1>8, HandsOrCloses DEF Reading
  <2>1. item.how = "more"
    BY <1>8, <2>0 DEF EndsIt
  <2>2. Pump(s, gone, jobs) \/ \E js : Pump(s, after, js)
    BY <1>1, <1>8, <2>1 DEF Hear, MoreRows, Skip
  <2>3. /\ EndsPlain(ss, ended) /\ ended.tabs = ss.tabs
        /\ ended.cursor = IF h.more THEN ss.cursor ELSE 0
    <3>1. /\ EndsPlain(ss, bad) /\ bad.tabs = ss.tabs /\ bad.cursor = ss.cursor
      BY <1>1, EndedPlain
    <3> HIDE DEF bad
    <3>2. EndsPlain(ss, Placeless(bad)) /\ Placeless(bad).tabs = bad.tabs /\ Placeless(bad).cursor = 0
      BY <1>1, <3>1, EndedPlain
    <3> QED
      BY <3>1, <3>2
  <2> HIDE DEF bad, ended
  <2>4. EndsPlain(ss, gone) /\ gone.cursor = 0
    BY <1>1, <2>3, EndedPlain
  <2>5. Fits(gone) /\ EndsAs(ss, gone)
    BY <1>5, <2>0, <2>4 DEF EndsPlain
  <2>6. longer \in Seq(Tab)
    <3>1. ended.tabs \in Seq(Tab)
      BY <2>3 DEF EndsPlain, EndsAs, SessionState
    <3> QED
      BY <1>1, <3>1, ExtendedTyped
  <2>7. longer = [i \in DOMAIN ss.tabs |->
                    IF ss.tabs[i].number = item.tab THEN Extended(ss.tabs[i], h) ELSE ss.tabs[i]]
    BY <2>3
  <2> HIDE DEF longer, gone
  <2>8. EndsAs(ss, after)
    BY <2>3, <2>6, StillEnded DEF EndsPlain
  <2>9. after.tabs = longer /\ after.tabsMade = ss.tabsMade /\ after.cursor = ended.cursor
    BY <2>3 DEF EndsPlain, EndsAs, SameTabs, SessionState
  <2>10. Plain(after.queue) /\ Plain(after.held) /\ after.inFlight = NoItem
    BY <1>1, <2>8, EndedIsPlain
  <2> HIDE DEF after
  <2>11. Fits(after)
    <3>1. NoneIn(Tail(a), Giving)
      BY <1>1, <2>0
    <3> HIDE DEF a, ss, h, item
    <3>2. TabsFit(after, Tail(a), stream[s])
      BY <1>1, <2>0, <2>1, <2>3, <2>7, <2>9, <2>10, <3>1, TabsLonger DEF item
    <3> QED
      BY <3>2
  <2> HIDE DEF Fits
  <2>12. Fits(session'[s])
    BY <1>3, <2>0, <2>2, <2>5, <2>8, <2>11
  <2> QED
    BY <2>12 DEF Fits
<1>9. ASSUME h \notin Giving, Only(s, Told(ss, h)) \/ (Only(s, ss) /\ h \notin Closing)
      PROVE  Fits(session'[s])
  <2> DEFINE b == session'[s]
  <2>1. b = Told(ss, h) \/ (b = ss /\ h \notin Closing)
    BY <1>4, <1>9
  <2>2. /\ SameTabs(ss, b) /\ b.inFlight = ss.inFlight /\ b.queue = ss.queue /\ b.held = ss.held
        /\ h \in Closing => b.cursor = 0
    <3>1. SameTabs(ss, ss)
      BY DEF SameTabs
    <3> HIDE DEF b
    <3> QED
      BY <1>1, <2>1, <3>1, ToldPlain DEF Closing
  <2> HIDE DEF b, a, ss, h
  <2>3. Plain(b.queue) /\ Plain(b.held)
    BY <1>1, <2>2
  <2>4. TabsFit(b, Tail(a), stream[s])
    BY <1>1, <1>9, <2>2, <2>3, TabsTold
  <2> QED
    BY <2>4 DEF b
<1>10. CASE h.type \in {"Exported", "ExportFailed"}
  <2> DEFINE ended == IF h.ok THEN Succeeded(ss) ELSE Ended(ss)
  <2>1. EndsIt(ss, h) <=> ~(h.job = NoJob \/ item.job # h.job)
    BY <1>10 DEF EndsIt
  <2>2. IF EndsIt(ss, h) THEN \E js : Pump(s, ended, js) ELSE Only(s, ss)
    BY <1>1, <1>10, <2>1 DEF Hear, ExportEnded
  <2>3. EndsPlain(ss, ended) /\ h.type # "MoreRows" /\ h \notin Closing /\ h \notin Giving
    BY <1>1, <1>10, EndedPlain DEF Closing, Giving, Offering, Reading
  <2> HIDE DEF ended, Fits
  <2>4. EndsIt(ss, h) => Fits(ended) /\ EndsAs(ss, ended)
    BY <1>5, <2>3 DEF EndsPlain
  <2>5. Fits(session'[s])
    BY <1>3, <1>9, <2>2, <2>3, <2>4
  <2> QED
    BY <2>5 DEF Fits
<1>11. CASE h.type \notin Ending
  <2>1. Only(s, Told(ss, h))
    BY <1>1, <1>11 DEF Hear, Ending
  <2>2. h \notin Giving
    BY <1>11 DEF Giving, Offering, Reading, Ending
  <2> QED
    BY <1>9, <2>1, <2>2
<1> QED
  BY <1>6, <1>7, <1>8, <1>10, <1>11 DEF Ending

\* A step of session s alone.
LEMMA OneFits ==
  ASSUME TabInv, NEW s \in Sessions,
         \A t \in Sessions \ {s} :
           /\ session'[t] = session[t] /\ current'[t] = current[t] /\ early'[t] = early[t]
           /\ answers'[t] = answers[t] /\ stream'[t] = stream[t],
         Streaming(current'[s], early'[s], Unheard(s)', stream'[s]),
         s \in Live' => TabsFit(session'[s], Unheard(s)', stream'[s])
  PROVE  TabInv'
<1>1. ASSUME NEW t \in Sessions \ {s}
      PROVE  /\ Streaming(current'[t], early'[t], Unheard(t)', stream'[t])
             /\ t \in Live' => TabsFit(session'[t], Unheard(t)', stream'[t])
  <2>1. t \in Live' => t \in Live
    BY DEF Live
  <2>2. Unheard(t)' = Unheard(t)
    BY DEF Unheard
  <2> QED
    BY <2>1, <2>2 DEF TabInv
<1> QED
  BY <1>1 DEF TabInv

\* Hearing an answer keeps every session's tabs fit.
LEMMA HearTabs ==
  ASSUME Typed, Answering, AllAlive, TabInv, NEW s \in Sessions, Hear(s)
  PROVE  TabInv'
<1>1. /\ session \in [Sessions -> SessionState] /\ answers \in [Sessions -> Seq(AnswerSet)]
      /\ early[s] \in Seq(AnswerSet) /\ answers[s] # <<>> /\ answers[s] \in Seq(AnswerSet)
  BY DEF Typed, TypeOK, ChannelsOK, Hear
<1>2. UNCHANGED <<current, early, stream>> /\ answers' = [answers EXCEPT ![s] = Tail(answers[s])]
  BY DEF Hear
<1>3. Unheard(s)' = Tail(Unheard(s)) /\ Unheard(s) \in Seq(AnswerSet) /\ Unheard(s) # <<>>
  BY <1>1, <1>2, UnheardFirst DEF Unheard
<1>4. \E after : session' = [session EXCEPT ![s] = after]
  <2>1. CASE s \in Live
    BY <2>1, HearShape DEF Pump, Only
  <2>2. CASE s \notin Live
    BY <2>2 DEF Hear, Only
  <2> QED
    BY <2>1, <2>2
<1>5. \A t \in Sessions \ {s} : session'[t] = session[t] /\ answers'[t] = answers[t]
  BY <1>1, <1>2, <1>4
<1>6. Streaming(current[s], early[s], Unheard(s), stream[s])
  BY DEF TabInv
<1>7. Streaming(current'[s], early'[s], Unheard(s)', stream'[s])
  BY <1>2, <1>3, <1>6, StreamingTold
<1>8. s \in Live' => TabsFit(session'[s], Unheard(s)', stream'[s])
  <2>1. CASE s \in Live
    BY <1>2, <1>3, <2>1, HearFits
  <2>2. CASE s \notin Live
    <3>1. session' = [session EXCEPT ![s] = session[s]]
      BY <2>2 DEF Hear, Only
    <3>2. s \notin Live'
      BY <1>1, <2>2, <3>1 DEF Live
    <3> QED
      BY <3>2
  <2> QED
    BY <2>1, <2>2
<1> QED
  BY <1>2, <1>5, <1>7, <1>8, OneFits

-----------------------------------------------------------------------------
(* The worker. *)

\* How many rows there are, and what those of the next read make with them.
LEMMA RowsOn ==
  ASSUME NEW job, NEW n \in Nat, NEW m \in Nat, n <= m
  PROVE  /\ Len(RowsOf(job, 0, n)) = n
         /\ RowsOf(job, 0, n) \o RowsOf(job, n, m) = RowsOf(job, 0, m)
<1> DEFINE p == RowsOf(job, 0, n)
           q == RowsOf(job, n, m)
           r == RowsOf(job, 0, m)
           S == {<<job, k>> : k \in Nat}
<1>1. p = [i \in 1..n |-> <<job, i>>] /\ r = [i \in 1..m |-> <<job, i>>]
  BY DEF RowsOf
<1>2. q = [i \in 1..(m - n) |-> <<job, n + i>>] /\ m - n \in Nat
  BY DEF RowsOf
<1>3. p \in Seq(S) /\ Len(p) = n
  BY <1>1
<1>4. r \in Seq(S) /\ Len(r) = m
  BY <1>1
<1>5. q \in Seq(S) /\ Len(q) = m - n
  BY <1>2
<1>6. \A i \in 1..n : p[i] = <<job, i>>
  BY <1>1
<1>7. \A i \in 1..(m - n) : q[i] = <<job, n + i>>
  BY <1>2
<1>8. \A i \in 1..m : r[i] = <<job, i>>
  BY <1>1
<1> HIDE DEF p, q, r, S
<1>9. /\ p \o q \in Seq(S) /\ Len(p \o q) = n + (m - n) /\ n + (m - n) = m
      /\ \A i \in 1..n : (p \o q)[i] = p[i]
      /\ \A i \in 1..(m - n) : (p \o q)[n + i] = q[i]
  <2>1. /\ p \o q \in Seq(S) /\ Len(p \o q) = Len(p) + Len(q)
        /\ \A i \in 1..Len(p) : (p \o q)[i] = p[i]
        /\ \A i \in 1..Len(q) : (p \o q)[Len(p) + i] = q[i]
    <3>1. p \in Seq(S) /\ q \in Seq(S)
      BY <1>3, <1>5
    <3> QED
      BY <3>1
  <2>2. n + (m - n) = m
    OBVIOUS
  <2> QED
    BY <1>3, <1>5, <2>1, <2>2
<1>10. ASSUME NEW i \in 1..m PROVE (p \o q)[i] = r[i]
  <2>1. CASE i <= n
    <3>1. i \in 1..n
      BY <2>1
    <3> QED
      BY <1>6, <1>8, <1>9, <3>1
  <2>2. CASE ~(i <= n)
    <3>1. i - n \in 1..(m - n) /\ n + (i - n) = i
      BY <2>2
    <3>2. (p \o q)[i] = q[i - n]
      BY <1>9, <3>1
    <3> QED
      BY <1>7, <1>8, <3>1, <3>2
  <2> QED
    BY <2>1, <2>2
<1>11. p \o q = r
  BY <1>4, <1>9, <1>10
<1> QED
  BY <1>3, <1>11 DEF p, q, r

\* Answers that neither hand a stream nor say it is gone change nothing.
LEMMA TabsBehind ==
  ASSUME NEW ss, NEW a \in Seq(AnswerSet), NEW st, TabsFit(ss, a, st),
         NEW b \in Seq(AnswerSet), NoneIn(b, Closing \cup Giving)
  PROVE  TabsFit(ss, a \o b, st)
<1> DEFINE c == a \o b
<1>1. /\ NoneIn(c, Giving) <=> NoneIn(a, Giving)
      /\ NoneIn(c, Reading) <=> NoneIn(a, Reading)
      /\ NoneIn(c, Closing) <=> NoneIn(a, Closing)
      /\ \A i \in DOMAIN c : (\E j \in DOMAIN a : c[i] = a[j]) \/ (\E j \in DOMAIN b : c[i] = b[j])
      /\ \A i \in DOMAIN b : b[i] \notin Giving
  <2>1. NoneIn(b, Giving) /\ NoneIn(b, Reading) /\ NoneIn(b, Closing)
    BY HandsOrCloses DEF NoneIn
  <2>2. \A i \in DOMAIN b : b[i] \notin Giving
    BY DEF NoneIn
  <2> QED
    BY <2>1, <2>2, NoneJoined
<1>2. \A job, n : Serves(job, n, c, st) <=> Serves(job, n, a, st)
  BY GoneLast DEF Serves
<1> HIDE DEF c
<1>3. OffersHold(ss, c, st)
  BY <1>1, <1>2, HandsOrCloses DEF TabsFit, OffersHold
<1>4. ASSUME NEW tab, TabFits(ss, tab, a, st) PROVE TabFits(ss, tab, c, st)
  <2>1. ASSUME LoadsOn(ss, tab), NEW i \in DOMAIN c, c[i] \in Reading PROVE Continues(tab, c[i], c, st)
    <3>1. PICK j \in DOMAIN a : c[i] = a[j]
      BY <1>1, <2>1, HandsOrCloses
    <3>2. Continues(tab, c[i], a, st)
      BY <1>4, <2>1, <3>1 DEF TabFits
    <3> QED
      BY <1>2, <3>2 DEF Continues
  <2>2. Offered(tab, a, st) => Offered(tab, c, st)
    BY <1>1 DEF Offered
  <2>3. Awaits(tab, a, st) => Awaits(tab, c, st)
    BY <1>1 DEF Awaits
  <2> QED
    BY <1>1, <1>4, <2>1, <2>2, <2>3 DEF TabFits
<1>5. TabsFit(ss, c, st)
  BY <1>3, <1>4 DEF TabsFit
<1> QED
  BY <1>5 DEF c

\* A command that closes the stream says so before all else it answers.
LEMMA TabsClosed ==
  ASSUME NEW ss, NEW a \in Seq(AnswerSet), NEW st, TabsFit(ss, a, st), NEW x \in Closing
  PROVE  TabsFit(ss, a \o <<x>>, NoStream)
<1> DEFINE c == a \o <<x>>
<1>0. x \in AnswerSet /\ x \notin Giving /\ <<x>> \in Seq(AnswerSet)
  BY HandsOrCloses DEF Closing
<1>1. /\ NoneIn(c, Reading) => NoneIn(a, Reading)
      /\ ~NoneIn(c, Closing)
      /\ \A i \in DOMAIN c : c[i] \in Giving => \E j \in DOMAIN a : c[i] = a[j]
  <2>1. ~NoneIn(<<x>>, Closing)
    BY DEF NoneIn
  <2>2. \A i \in DOMAIN <<x>> : <<x>>[i] = x
    OBVIOUS
  <2>3. NoneIn(c, Reading) => NoneIn(a, Reading)
    BY <1>0, NoneJoined
  <2>4. ~NoneIn(c, Closing)
    BY <1>0, <2>1, NoneJoined
  <2>5. \A i \in DOMAIN c : (\E j \in DOMAIN a : c[i] = a[j]) \/ (\E j \in DOMAIN <<x>> : c[i] = <<x>>[j])
    BY <1>0, NoneJoined
  <2> HIDE DEF c
  <2> QED
    BY <1>0, <2>2, <2>3, <2>4, <2>5
<1>2. \A job, n : Serves(job, n, c, NoStream)
  BY GoneLast DEF Serves
<1> HIDE DEF c
<1>3. OffersHold(ss, c, NoStream)
  BY <1>1, <1>2, HandsOrCloses DEF TabsFit, OffersHold
<1>4. ASSUME NEW tab, TabFits(ss, tab, a, st) PROVE TabFits(ss, tab, c, NoStream)
  <2>1. ASSUME LoadsOn(ss, tab), NEW i \in DOMAIN c, c[i] \in Reading PROVE Continues(tab, c[i], c, NoStream)
    <3>1. PICK j \in DOMAIN a : c[i] = a[j]
      BY <1>1, <2>1, HandsOrCloses
    <3>2. Continues(tab, c[i], a, st)
      BY <1>4, <2>1, <3>1 DEF TabFits
    <3> QED
      BY <1>2, <3>2 DEF Continues
  <2>2. Offered(tab, a, st) => Offered(tab, c, NoStream)
    BY <1>1 DEF Offered
  <2>3. Awaits(tab, c, NoStream)
    BY DEF Awaits
  <2> QED
    BY <1>1, <1>4, <2>1, <2>2, <2>3 DEF TabFits
<1>5. TabsFit(ss, c, NoStream)
  BY <1>3, <1>4 DEF TabsFit
<1> QED
  BY <1>5 DEF c

\* A read is handed to a session with its rows and its stream behind them.
LEMMA TabsHanded ==
  ASSUME NEW ss, NEW a \in Seq(AnswerSet), TabsFit(ss, a, NoStream), NoneIn(a, Giving),
         ss.inFlight.sql = "select", ss.inFlight.how # "more",
         NEW y \in AnswerSet \ (Closing \cup Giving), NEW x \in Offering, NEW last, last = <<y, x>>,
         NEW st, StandsAt(x.job, Len(x.rows), st)
  PROVE  TabsFit(ss, a \o last, st)
<1> DEFINE c == a \o last
<1>0. x \in AnswerSet /\ last \in Seq(AnswerSet) /\ x \notin Reading /\ x \notin Closing
  BY HandsOrCloses DEF Offering, Reading
<1>1. /\ NoneIn(c, Closing) <=> NoneIn(a, Closing)
      /\ NoneIn(c, Reading) /\ NoneIn(a, Reading)
      /\ \A i \in DOMAIN c : c[i] \in Giving => c[i] = x
  <2>1. \A i \in DOMAIN last : last[i] \in {x, y}
    BY <1>0
  <2>2. NoneIn(last, Closing) /\ NoneIn(last, Reading) /\ NoneIn(a, Reading)
    BY <1>0, <2>1, HandsOrCloses DEF NoneIn
  <2>3. NoneIn(c, Closing) <=> NoneIn(a, Closing)
    BY <1>0, <2>2, NoneJoined
  <2>4. NoneIn(c, Reading)
    BY <1>0, <2>2, NoneJoined
  <2>5. \A i \in DOMAIN c : (\E j \in DOMAIN a : c[i] = a[j]) \/ (\E j \in DOMAIN last : c[i] = last[j])
    BY <1>0, NoneJoined
  <2> HIDE DEF c
  <2>6. \A i \in DOMAIN c : c[i] \in Giving => c[i] = x
    BY <2>1, <2>5 DEF NoneIn
  <2> QED
    BY <2>2, <2>3, <2>4, <2>6
<1> HIDE DEF c
<1>2. OffersHold(ss, c, st)
  BY <1>1, HandsOrCloses DEF OffersHold, Serves
<1>3. ASSUME NEW tab, TabFits(ss, tab, a, NoStream) PROVE TabFits(ss, tab, c, st)
  <2>1. tab.job # NoJob
    BY <1>3 DEF TabFits, IsOwn
  <2>2. ~StandsAt(tab.job, Len(tab.rows), NoStream)
    BY <2>1 DEF StandsAt, NoStream
  <2>3. Offered(tab, a, NoStream) => Offered(tab, c, st)
    BY <1>1, <2>2 DEF Offered
  <2>4. ~LoadsOn(ss, tab)
    BY DEF LoadsOn
  <2> QED
    BY <1>1, <1>3, <2>3, <2>4 DEF TabFits
<1>4. TabsFit(ss, c, st)
  BY <1>2, <1>3 DEF TabsFit
<1> QED
  BY <1>4 DEF c

\* The rows that are read on are the tab's next: from `from` on, where its stream
\* stood, and there is more only where it stands then.
LEMMA TabsReadOn ==
  ASSUME NEW ss, NEW a \in Seq(AnswerSet), NEW before, TabsFit(ss, a, before), NoneIn(a, Giving),
         \A i \in DOMAIN ss.tabs : ss.tabs[i].rows \in Rows,
         before \in [job : Nat, read : Nat], NEW x \in Reading, NEW st, NEW to \in Nat, before.read <= to,
         x.rows = RowsOf(before.job, before.read, to),
         before = NoStream => to = 0 /\ ~x.more,
         x.more => StandsAt(before.job, to, st)
  PROVE  TabsFit(ss, a \o <<x>>, st)
<1> DEFINE c == a \o <<x>>
<1>0. x \in AnswerSet /\ <<x>> \in Seq(AnswerSet) /\ x \notin Offering /\ x \in Giving
  BY HandsOrCloses DEF Offering, Reading
<1>1. /\ ~NoneIn(c, Reading) /\ ~NoneIn(c, Giving)
      /\ \A i \in DOMAIN c : c[i] \in Giving => c[i] = x
  <2>1. \A i \in DOMAIN <<x>> : <<x>>[i] = x
    OBVIOUS
  <2>2. ~NoneIn(<<x>>, Reading) /\ ~NoneIn(<<x>>, Giving)
    BY <1>0 DEF NoneIn
  <2>3. ~NoneIn(c, Reading) /\ ~NoneIn(c, Giving)
    BY <1>0, <2>2, NoneJoined
  <2>4. \A i \in DOMAIN c : (\E j \in DOMAIN a : c[i] = a[j]) \/ (\E j \in DOMAIN <<x>> : c[i] = <<x>>[j])
    BY <1>0, NoneJoined
  <2> HIDE DEF c
  <2> QED
    BY <2>1, <2>3, <2>4 DEF NoneIn
<1> HIDE DEF c
<1>2. OffersHold(ss, c, st)
  BY <1>0, <1>1, HandsOrCloses DEF OffersHold
<1>3. ASSUME NEW tab, TabFits(ss, tab, a, before), tab.rows \in Rows PROVE TabFits(ss, tab, c, st)
  <2>1. ASSUME LoadsOn(ss, tab) PROVE tab.sql = "select" /\ Continues(tab, x, c, st)
    <3> DEFINE n == Len(tab.rows)
    <3>1. /\ tab.sql = "select" /\ (before = NoStream \/ StandsAt(tab.job, n, before))
          /\ tab.rows = RowsOf(tab.job, 0, n) /\ n \in Nat
      BY <1>3, <2>1 DEF TabFits, Awaits, IsOwn, Rows
    <3>2. CASE before = NoStream
      <4>1. x.rows = <<>> /\ ~x.more
        <5>1. x.rows = RowsOf(NoJob, 0, 0)
          BY <3>2 DEF NoStream
        <5>2. RowsOf(NoJob, 0, 0) = <<>>
          BY DEF RowsOf
        <5> QED
          BY <3>2, <5>1, <5>2
      <4>2. tab.rows \o <<>> = tab.rows
        BY <1>3 DEF Rows
      <4> QED
        BY <3>1, <4>1, <4>2 DEF Continues
    <3>3. CASE before # NoStream
      <4>1. before.job = tab.job /\ before.read = n
        BY <3>1, <3>3 DEF StandsAt
      <4>2. tab.rows \o x.rows = RowsOf(tab.job, 0, to)
        <5>1. x.rows = RowsOf(tab.job, n, to) /\ n <= to
          BY <4>1
        <5>2. RowsOf(tab.job, 0, n) \o RowsOf(tab.job, n, to) = RowsOf(tab.job, 0, to)
          BY <3>1, <5>1, RowsOn
        <5> QED
          BY <3>1, <5>1, <5>2
      <4>3. Len(RowsOf(tab.job, 0, to)) = to
        BY RowsOn
      <4>4. x.more => Serves(tab.job, to, c, st)
        BY <4>1 DEF Serves
      <4> QED
        BY <3>1, <4>2, <4>3, <4>4 DEF Continues
    <3> QED
      BY <3>2, <3>3
  <2>2. Awaits(tab, c, st)
    BY <1>1 DEF Awaits
  <2> QED
    BY <1>1, <1>3, <2>1, <2>2, HandsOrCloses DEF TabFits
<1>4. TabsFit(ss, c, st)
  BY <1>2, <1>3 DEF TabsFit
<1> QED
  BY <1>4 DEF c

\* How a command ends: it hands nothing and its stream stays, it hands the first
\* rows of a read whose stream is kept, or it reads on from the kept stream.
EndsPlainly(s, last) ==
  /\ stream' = stream
  /\ \E x \in AnswerSet \ (Closing \cup Giving) :
       last = <<x>> /\ (x \in Whole => x.rows = RowsOf(x.job, 0, Len(x.rows)))
EndsKept(s, last) ==
  /\ current[s].type = "Query" /\ current[s].sql = "select"
  /\ \E x \in Offering : /\ last = <<Answer("CursorKept"), x>>
                         /\ x.rows = RowsOf(x.job, 0, Len(x.rows)) /\ StandsAt(x.job, Len(x.rows), stream'[s])
EndsReading(s, last) ==
  /\ current[s].type = "FetchMore"
  /\ \E x \in Reading : \E to \in Nat :
       /\ last = <<x>> /\ stream[s].read <= to /\ x.rows = RowsOf(stream[s].job, stream[s].read, to)
       /\ stream[s] = NoStream => to = 0 /\ ~x.more /\ stream'[s] = NoStream
       /\ x.more => StandsAt(stream[s].job, to, stream'[s])

\* A command ends in one of the three ways, and leaves the other sessions' streams.
LEMMA EndHands ==
  ASSUME Typed, NEW s \in Sessions, EndCommand(s)
  PROVE  /\ \A t \in Sessions \ {s} : stream'[t] = stream[t]
         /\ \E type, last :
              /\ last \in Seq(AnswerSet) /\ Ends(s, type, last)
              /\ EndsPlainly(s, last) \/ EndsKept(s, last) \/ EndsReading(s, last)
<1> DEFINE c == current[s]
           Shape == \E type, last :
              /\ last \in Seq(AnswerSet) /\ Ends(s, type, last)
              /\ EndsPlainly(s, last) \/ EndsKept(s, last) \/ EndsReading(s, last)
<1>1. /\ c.job \in Nat /\ c.sql \in Statements \cup {NoSql} /\ c.on \in BOOLEAN
      /\ stream \in [Sessions -> [job : Nat, read : Nat]]
      /\ stream[s].job \in Nat /\ stream[s].read \in Nat /\ c.type = current[s].type
  BY DEF Typed, ChannelsOK, CommandSet
<1>2. MaxRows \in Nat \ {0} /\ MaxStream \in Nat /\ TRUE \in BOOLEAN /\ FALSE \in BOOLEAN /\ <<>> \in Rows /\ 0 \in Nat /\ NoJob \in Nat
  BY WorkerAssumption DEF Rows, NoJob
<1>3. ASSUME NEW type, NEW x \in AnswerSet, x.type \notin {"CursorClosed", "MoreRows"},
             x.type = "QueryDone" => ~x.more, x \in Whole => x.rows = RowsOf(x.job, 0, Len(x.rows)),
             Ends(s, type, <<x>>), UNCHANGED stream
      PROVE  Shape
  <2>1. x \in AnswerSet \ (Closing \cup Giving)
    BY <1>3 DEF Closing, Giving, Offering, Reading
  <2>2. EndsPlainly(s, <<x>>)
    BY <1>3, <2>1 DEF EndsPlainly
  <2>3. <<x>> \in Seq(AnswerSet)
    BY <1>3
  <2> QED
    BY <1>3, <2>2, <2>3
<1>4. ASSUME NEW n \in Nat PROVE RowsOf(c.job, 0, n) \in Rows /\ Len(RowsOf(c.job, 0, n)) = n
  <2>1. 0 <= n /\ n <= n
    OBVIOUS
  <2>2. RowsOf(c.job, 0, n) \in Rows
    BY <1>1, <1>2, <2>1, RowsOfTyped
  <2>3. Len(RowsOf(c.job, 0, n)) = n
    BY <2>1, RowsOn
  <2> QED
    BY <2>2, <2>3
<1>5. ASSUME NEW type, NEW t \in {"QueryDone", "QueryStopped", "QueryFailed"}, NEW n \in Nat, NEW ok \in BOOLEAN,
             Ends(s, type, <<RowsAnswer(t, c.job, RowsOf(c.job, 0, n), FALSE, ok)>>), UNCHANGED stream
      PROVE  Shape
  <2> DEFINE x == RowsAnswer(t, c.job, RowsOf(c.job, 0, n), FALSE, ok)
  <2>1. t \in AnswerTypes
    BY DEF AnswerTypes, Ending
  <2>2. x \in AnswerSet
    BY <1>1, <1>2, <1>4, <2>1, AnswerTyped
  <2>3. x.type = t /\ x.job = c.job /\ x.rows = RowsOf(c.job, 0, n) /\ x.more = FALSE
    BY DEF RowsAnswer
  <2> HIDE DEF x, Shape
  <2>4. x.rows = RowsOf(x.job, 0, Len(x.rows))
    BY <1>4, <2>3
  <2>5. Ends(s, type, <<x>>)
    BY <1>5 DEF x
  <2> QED
    BY <1>3, <1>5, <2>2, <2>3, <2>4, <2>5
<1>6. ASSUME NEW type, NEW t \in AnswerTypes \ {"CursorClosed", "MoreRows", "QueryDone", "QueryStopped", "QueryFailed"},
             NEW job \in Nat, NEW more \in BOOLEAN, NEW ok \in BOOLEAN,
             Ends(s, type, <<RowsAnswer(t, job, <<>>, more, ok)>>), UNCHANGED stream
      PROVE  Shape
  <2> DEFINE x == RowsAnswer(t, job, <<>>, more, ok)
  <2>1. x \in AnswerSet
    BY <1>2, <1>6, AnswerTyped
  <2>2. x.type = t
    BY DEF RowsAnswer
  <2> HIDE DEF x, Shape
  <2>3. x \notin Whole /\ x.type \notin {"CursorClosed", "MoreRows", "QueryDone"}
    BY <1>6, <2>2 DEF Whole
  <2>4. Ends(s, type, <<x>>)
    BY <1>6 DEF x
  <2> QED
    BY <1>3, <1>6, <2>1, <2>3, <2>4
<1>7. ASSUME NEW type, NEW t \in AnswerTypes \ {"CursorClosed", "MoreRows", "QueryDone", "QueryStopped", "QueryFailed"},
             Ends(s, type, <<Answer(t)>>), UNCHANGED stream
      PROVE  Shape
  <2>1. Answer(t) = RowsAnswer(t, NoJob, <<>>, FALSE, TRUE)
    BY DEF Answer, RowsAnswer
  <2> HIDE DEF Shape
  <2> QED
    BY <1>2, <1>6, <1>7, <2>1
<1> HIDE DEF Shape
<1>8. ASSUME NEW type, QueryFails(s, type) PROVE Shape /\ UNCHANGED stream
  <2>1. Ends(s, type, <<RowsAnswer("QueryFailed", c.job, <<>>, FALSE, FALSE)>>) /\ UNCHANGED stream
    BY <1>8 DEF QueryFails
  <2>2. RowsOf(c.job, 0, 0) = <<>>
    BY DEF RowsOf
  <2> QED
    BY <1>2, <1>5, <2>1, <2>2
<1>9. ASSUME NEW type, QueryExecutes(s, type) PROVE Shape /\ UNCHANGED stream
  <2>1. Ends(s, type, <<RowsAnswer("QueryDone", c.job, <<>>, FALSE, TRUE)>>) /\ UNCHANGED stream
    BY <1>9 DEF QueryExecutes
  <2>2. RowsOf(c.job, 0, 0) = <<>>
    BY DEF RowsOf
  <2> QED
    BY <1>2, <1>5, <2>1, <2>2
<1>10. ASSUME NEW type, NEW limit \in Nat, ReadEnds(s, type, limit) \/ ReadStops(s, type, limit)
       PROVE  Shape /\ UNCHANGED stream
  <2>1. UNCHANGED stream
    BY <1>10 DEF ReadEnds, ReadStops
  <2>2. CASE ReadEnds(s, type, limit)
    <3>1. PICK n \in 0..limit : Ends(s, type, <<RowsAnswer("QueryDone", c.job, RowsOf(c.job, 0, n), FALSE, TRUE)>>)
      BY <2>2 DEF ReadEnds
    <3>2. n \in Nat
      OBVIOUS
    <3> QED
      BY <1>2, <1>5, <2>1, <3>1, <3>2
  <2>3. CASE ReadStops(s, type, limit)
    <3>1. PICK n \in 1..limit : Ends(s, type, <<RowsAnswer("QueryStopped", c.job, RowsOf(c.job, 0, n), FALSE, FALSE)>>)
      BY <2>3 DEF ReadStops
    <3>2. n \in Nat
      OBVIOUS
    <3> QED
      BY <1>2, <1>5, <2>1, <3>1, <3>2
  <2> QED
    BY <1>10, <2>1, <2>2, <2>3
<1>11. ASSUME ReadKept(s) PROVE Shape /\ \A t \in Sessions \ {s} : stream'[t] = stream[t]
  <2> DEFINE x == RowsAnswer("QueryDone", c.job, RowsOf(c.job, 0, MaxRows), TRUE, TRUE)
             y == Answer("CursorKept")
             last == <<y, x>>
  <2>1. /\ Ends(s, "Query", last) /\ stream' = [stream EXCEPT ![s] = [job |-> c.job, read |-> MaxRows]]
        /\ c.sql = "select"
    BY <1>11 DEF ReadKept, Streams
  <2>2. c.type = "Query"
    BY <2>1 DEF Ends
  <2>3. "QueryDone" \in AnswerTypes /\ "CursorKept" \in AnswerTypes
    BY DEF AnswerTypes, Ending
  <2>4. x \in AnswerSet
    BY <1>1, <1>2, <1>4, <2>3, AnswerTyped
  <2>5. y \in AnswerSet
    BY <1>2, <2>3, AnswerTyped
  <2>6. x.type = "QueryDone" /\ x.more /\ x.job = c.job /\ x.rows = RowsOf(c.job, 0, MaxRows)
    BY DEF RowsAnswer
  <2>7. stream'[s] = [job |-> c.job, read |-> MaxRows] /\ \A t \in Sessions \ {s} : stream'[t] = stream[t]
    BY <1>1, <2>1
  <2> HIDE DEF x, y
  <2>8. x \in Offering /\ last \in Seq(AnswerSet)
    BY <2>4, <2>5, <2>6 DEF Offering
  <2>9. x.rows = RowsOf(x.job, 0, Len(x.rows)) /\ StandsAt(x.job, Len(x.rows), stream'[s])
    BY <1>2, <1>4, <2>6, <2>7 DEF StandsAt
  <2>10. EndsKept(s, last)
    BY <2>1, <2>2, <2>8, <2>9 DEF EndsKept, y
  <2> QED
    BY <2>1, <2>7, <2>8, <2>10 DEF Shape
<1>12. ASSUME ReadOn(s) PROVE Shape /\ \A t \in Sessions \ {s} : stream'[t] = stream[t]
  <2> DEFINE st == stream[s]
             x(to, more, ok) == RowsAnswer("MoreRows", c.job, RowsOf(st.job, st.read, to), more, ok)
             Reads(to, more, ok) == Ends(s, "FetchMore", <<x(to, more, ok)>>)
  <2>1. ASSUME NEW to \in Nat, st.read <= to, NEW more \in BOOLEAN, NEW ok \in BOOLEAN, Reads(to, more, ok),
               st = NoStream => to = 0 /\ ~more /\ stream'[s] = NoStream,
               more => stream'[s] = [job |-> st.job, read |-> to]
        PROVE  Shape
    <3> DEFINE y == x(to, more, ok)
    <3>1. "MoreRows" \in AnswerTypes
      BY DEF AnswerTypes, Ending
    <3>2. RowsOf(st.job, st.read, to) \in Rows
      BY <1>1, <2>1, RowsOfTyped
    <3>3. y \in AnswerSet
      BY <1>1, <2>1, <3>1, <3>2, AnswerTyped
    <3>4. y.type = "MoreRows" /\ y.more = more /\ y.rows = RowsOf(st.job, st.read, to)
      BY DEF RowsAnswer
    <3>5. Ends(s, "FetchMore", <<y>>)
      BY <2>1
    <3> HIDE DEF y
    <3>6. y \in Reading /\ <<y>> \in Seq(AnswerSet)
      BY <3>3, <3>4 DEF Reading
    <3>7. c.type = "FetchMore"
      BY <3>5 DEF Ends
    <3>8. EndsReading(s, <<y>>)
      BY <2>1, <3>4, <3>6, <3>7 DEF EndsReading, StandsAt
    <3> QED
      BY <3>5, <3>6, <3>8 DEF Shape
  <2>2. CASE st = NoStream /\ Reads(st.read, FALSE, FALSE) /\ UNCHANGED stream
    <3>1. st.read = 0 /\ st.read <= st.read
      BY <1>1, <2>2 DEF NoStream
    <3>2. stream'[s] = NoStream
      BY <2>2
    <3>3. Shape
      BY <1>1, <1>2, <2>1, <2>2, <3>1, <3>2
    <3> QED
      BY <2>2, <3>3
  <2>3. CASE /\ st # NoStream /\ Reads(st.read + MaxRows, TRUE, TRUE)
             /\ stream' = [stream EXCEPT ![s].read = st.read + MaxRows]
    <3> DEFINE to == st.read + MaxRows
    <3>1. to \in Nat /\ st.read <= to
      BY <1>1, <1>2
    <3>2. stream'[s] = [job |-> st.job, read |-> to] /\ \A t \in Sessions \ {s} : stream'[t] = stream[t]
      BY <1>1, <2>3
    <3> HIDE DEF to
    <3> QED
      BY <1>2, <2>1, <2>3, <3>1, <3>2 DEF to
  <2>4. ASSUME NEW n \in 1..MaxRows, NEW ok \in BOOLEAN, st # NoStream, Reads(st.read + n, FALSE, ok),
               stream' = [stream EXCEPT ![s] = NoStream]
        PROVE  Shape /\ \A t \in Sessions \ {s} : stream'[t] = stream[t]
    <3> DEFINE to == st.read + n
    <3>1. to \in Nat /\ st.read <= to
      BY <1>1, <1>2
    <3>2. stream'[s] = NoStream /\ \A t \in Sessions \ {s} : stream'[t] = stream[t]
      BY <1>1, <2>4
    <3> HIDE DEF to
    <3> QED
      BY <1>2, <2>1, <2>4, <3>1, <3>2 DEF to
  <2> QED
    BY <1>12, <2>2, <2>3, <2>4 DEF ReadOn
<1>13. ASSUME ExportEnds(s) \/ ExportFetchedEnds(s) \/ AutocommitEnds(s) \/ SchemaEnds(s) \/ ConnectEnds(s)
       PROVE  Shape /\ UNCHANGED stream
  <2> DEFINE T == AnswerTypes \ {"CursorClosed", "MoreRows", "QueryDone", "QueryStopped", "QueryFailed"}
  <2>1. {"Exported", "ExportFailed", "Autocommit", "Schema", "Connected", "ConnectFailed"} \subseteq T
    BY DEF AnswerTypes, Ending
  <2>2. UNCHANGED stream
    BY <1>13 DEF ExportEnds, ExportFetchedEnds, AutocommitEnds, SchemaEnds, ConnectEnds
  <2> HIDE DEF T
  <2>3. CASE ExportEnds(s)
    <3>1. PICK ok \in BOOLEAN :
            Ends(s, "Export", <<RowsAnswer(IF ok THEN "Exported" ELSE "ExportFailed", c.job, <<>>, FALSE, ok)>>)
      BY <2>3 DEF ExportEnds
    <3>2. (IF ok THEN "Exported" ELSE "ExportFailed") \in T
      BY <2>1
    <3> QED
      BY <1>1, <1>2, <1>6, <2>2, <3>1, <3>2 DEF T
  <2>4. CASE ExportFetchedEnds(s)
    BY <1>7, <2>1, <2>2, <2>4 DEF ExportFetchedEnds, T
  <2>5. CASE AutocommitEnds(s)
    <3>1. \E ok \in BOOLEAN : Ends(s, "SetAutocommit", <<RowsAnswer("Autocommit", NoJob, <<>>, c.on, ok)>>)
      BY <1>2, <2>5 DEF AutocommitEnds
    <3> QED
      BY <1>1, <1>2, <1>6, <2>1, <2>2, <3>1 DEF T
  <2>6. CASE SchemaEnds(s)
    BY <1>7, <2>1, <2>2, <2>6 DEF SchemaEnds, T
  <2>7. CASE ConnectEnds(s)
    BY <1>7, <2>1, <2>2, <2>7 DEF ConnectEnds, T
  <2> QED
    BY <1>13, <2>2, <2>3, <2>4, <2>5, <2>6, <2>7
<1>14. Shape /\ \A t \in Sessions \ {s} : stream'[t] = stream[t]
  BY <1>2, <1>8, <1>9, <1>10, <1>11, <1>12, <1>13 DEF EndCommand
<1> QED
  BY <1>14 DEF Shape

\* The rows of what was sent and of what is sent now are those of their statements.
LEMMA WholeJoined ==
  ASSUME NEW a \in Seq(AnswerSet), NEW b \in Seq(AnswerSet),
         \A i \in DOMAIN a : a[i] \in Whole => a[i].rows = RowsOf(a[i].job, 0, Len(a[i].rows)),
         \A i \in DOMAIN b : b[i] \in Whole => b[i].rows = RowsOf(b[i].job, 0, Len(b[i].rows))
  PROVE  LET c == a \o b
         IN  \A i \in DOMAIN c : c[i] \in Whole => c[i].rows = RowsOf(c[i].job, 0, Len(c[i].rows))
<1> DEFINE c == a \o b
           Fine(x) == x \in Whole => x.rows = RowsOf(x.job, 0, Len(x.rows))
<1>1. \A i \in DOMAIN c : (\E j \in DOMAIN a : c[i] = a[j]) \/ (\E j \in DOMAIN b : c[i] = b[j])
  BY NoneJoined
<1>2. (\A i \in DOMAIN a : Fine(a[i])) /\ (\A i \in DOMAIN b : Fine(b[i]))
  OBVIOUS
<1> HIDE DEF c, Fine
<1>3. \A i \in DOMAIN c : Fine(c[i])
  BY <1>1, <1>2
<1> QED
  BY <1>3 DEF c, Fine

\* Taking a command keeps every session's tabs fit: the stream goes together with
\* the answer that says so.
LEMMA TakeTabs ==
  ASSUME Typed, Sendable, TabInv, NEW s \in Sessions, Take(s), UNCHANGED session
  PROVE  TabInv'
<1> DEFINE a == answers[s]
           c == Head(cmds[s])
           st == stream[s]
           x == Answer("CursorClosed")
           closes == ClosesStream(c) /\ st # NoStream
<1>1. /\ a \in Seq(AnswerSet) /\ current \in [Sessions -> CommandSet] /\ early \in [Sessions -> Seq(AnswerSet)]
      /\ stream \in [Sessions -> [job : Nat, read : Nat]] /\ c \in CommandSet
  BY HeadAndTail DEF Typed, ChannelsOK, Take
<1>2. /\ current[s] = NoCommand /\ UNCHANGED answers /\ current' = [current EXCEPT ![s] = c]
      /\ stream' = [stream EXCEPT ![s] = IF closes THEN NoStream ELSE st]
      /\ early' = [early EXCEPT ![s] = IF closes THEN <<x>> ELSE <<>>]
  BY DEF Take
<1>3. Streaming(current[s], early[s], Unheard(s), st) /\ (s \in Live => TabsFit(session[s], Unheard(s), st))
  BY DEF TabInv
<1>4. Unheard(s) = a
  <2>1. early[s] = <<>>
    BY <1>2, <1>3 DEF Streaming
  <2>2. a \o <<>> = a
    BY <1>1
  <2> QED
    BY <2>1, <2>2 DEF Unheard
<1>5. \A t \in Sessions \ {s} :
        /\ session'[t] = session[t] /\ current'[t] = current[t] /\ early'[t] = early[t]
        /\ answers'[t] = answers[t] /\ stream'[t] = stream[t]
  BY <1>1, <1>2
<1>6. current'[s] = c /\ answers'[s] = a /\ session'[s] = session[s] /\ (s \in Live' => s \in Live)
  BY <1>1, <1>2 DEF Live
<1>7. x \in Closing /\ x \notin Whole /\ <<x>> \in Seq(AnswerSet)
  <2>1. "CursorClosed" \in AnswerTypes /\ <<>> \in Rows /\ NoJob \in Nat
    BY DEF AnswerTypes, Rows, NoJob
  <2>2. x \in AnswerSet /\ x.type = "CursorClosed"
    BY <2>1, AnswerTyped DEF Answer
  <2> HIDE DEF x
  <2> QED
    BY <2>2 DEF Closing, Whole
<1> HIDE DEF a, c, st, x, closes
<1>8. CASE closes
  <2>1. early'[s] = <<x>> /\ stream'[s] = NoStream
    BY <1>1, <1>2, <1>8
  <2>2. Unheard(s)' = a \o <<x>>
    BY <1>6, <2>1 DEF Unheard
  <2>3. \A i \in DOMAIN <<x>> : <<x>>[i] = x
    OBVIOUS
  <2>4. Streaming(c, <<x>>, a \o <<x>>, NoStream)
    <3>1. LET b == a \o <<x>>
          IN  \A i \in DOMAIN b : b[i] \in Whole => b[i].rows = RowsOf(b[i].job, 0, Len(b[i].rows))
      BY <1>1, <1>3, <1>4, <1>7, <2>3, WholeJoined DEF Streaming, a
    <3>2. c.type # "none"
      <4>1. cmds[s] \in Seq(CommandSet) /\ cmds[s] # <<>>
        BY DEF Typed, ChannelsOK, Take
      <4>2. c = cmds[s][1] /\ 1 \in DOMAIN cmds[s]
        BY <4>1, HeadAndTail DEF c
      <4> QED
        BY <4>2 DEF Sendable
    <3>3. c # NoCommand
      BY <3>2 DEF NoCommand, Direct
    <3> QED
      BY <1>7, <2>3, <3>1, <3>3 DEF Streaming
  <2>5. s \in Live => TabsFit(session[s], a \o <<x>>, NoStream)
    BY <1>1, <1>3, <1>4, <1>7, TabsClosed DEF a
  <2> QED
    BY <1>5, <1>6, <2>1, <2>2, <2>4, <2>5, OneFits
<1>9. CASE ~closes
  <2>1. early'[s] = <<>> /\ stream'[s] = st
    BY <1>1, <1>2, <1>9
  <2>2. Unheard(s)' = a
    <3>1. a \o <<>> = a
      BY <1>1 DEF a
    <3> QED
      BY <1>6, <2>1, <3>1 DEF Unheard
  <2>3. c.type \in {"FetchMore", "ExportFetched"} \/ st = NoStream
    BY <1>9 DEF closes, ClosesStream
  <2>4. Streaming(c, <<>>, a, st)
    BY <1>3, <1>4, <2>3 DEF Streaming
  <2> QED
    BY <1>3, <1>4, <1>5, <1>6, <2>1, <2>2, <2>4, OneFits
<1> QED
  BY <1>8, <1>9

\* The statement a worker runs is the one its session has in flight, and nothing is
\* handed to the session meanwhile.
LEMMA AskedIsInFlight ==
  ASSUME Typed, Answering, AllAlive, TabInv, NEW s \in Live, current[s].type \in StatementTypes
  PROVE  /\ NoneIn(Unheard(s), Giving)
         /\ session[s].inFlight \in Item /\ current[s] = CommandOf(session[s].inFlight)
<1> DEFINE ss == session[s]
           c == current[s]
           a == answers[s]
           e == early[s]
<1>1. /\ s \in Sessions /\ ss \in SessionState /\ c \in CommandSet
      /\ a \in Seq(AnswerSet) /\ e \in Seq(AnswerSet)
  BY DEF Live, Typed, TypeOK, ChannelsOK
<1>2. Lined(ss, cmds[s], c, a) /\ c \in Asking
  BY <1>1 DEF Answering, AllAlive, Asking
<1>3. ss.inFlight # NoItem /\ c = CommandOf(ss.inFlight)
  BY <1>2 DEF Lined, OutAt
<1>4. ss.inFlight \in Item
  BY <1>1, <1>3 DEF SessionState
<1>5. NoneIn(a, Giving)
  BY <1>1, <1>2, HandedIsOfIt DEF NoneIn
<1>6. NoneIn(e, Giving)
  <2>1. \A i \in DOMAIN e : e[i] \in Closing
    BY <1>1 DEF TabInv, Streaming
  <2> QED
    BY <2>1, HandsOrCloses DEF NoneIn
<1>7. NoneIn(Unheard(s), Giving)
  BY <1>1, <1>5, <1>6, NoneJoined DEF Unheard
<1> QED
  BY <1>3, <1>4, <1>7

\* A command's end keeps every session's tabs fit.
LEMMA EndTabs ==
  ASSUME Typed, Answering, AllAlive, TabInv, NEW s \in Sessions, EndCommand(s), UNCHANGED session
  PROVE  TabInv'
<1> DEFINE ss == session[s]
           c == current[s]
           u == Unheard(s)
           st == stream[s]
           After(last) == /\ Streaming(NoCommand, <<>>, u \o last, stream'[s])
                          /\ s \in Live => TabsFit(ss, u \o last, stream'[s])
<1>1. /\ ss \in SessionState /\ c \in CommandSet /\ answers[s] \in Seq(AnswerSet) /\ early[s] \in Seq(AnswerSet)
      /\ answers \in [Sessions -> Seq(AnswerSet)] /\ current \in [Sessions -> CommandSet]
      /\ early \in [Sessions -> Seq(AnswerSet)] /\ st \in [job : Nat, read : Nat]
  BY DEF Typed, TypeOK, ChannelsOK
<1>2. PICK type, last :
        /\ last \in Seq(AnswerSet) /\ Ends(s, type, last)
        /\ EndsPlainly(s, last) \/ EndsKept(s, last) \/ EndsReading(s, last)
  BY EndHands
<1>3. \A t \in Sessions \ {s} : stream'[t] = stream[t]
  BY EndHands
<1>4. u \in Seq(AnswerSet) /\ u \o last \in Seq(AnswerSet)
  BY <1>1, <1>2, Joined DEF Unheard
<1>5. Streaming(c, early[s], u, st) /\ (s \in Live => TabsFit(ss, u, st)) /\ (s \in Live' => s \in Live)
  BY DEF TabInv, Live
<1>6. \A t \in Sessions \ {s} :
        /\ session'[t] = session[t] /\ current'[t] = current[t] /\ early'[t] = early[t]
        /\ answers'[t] = answers[t] /\ stream'[t] = stream[t]
  BY <1>1, <1>2, <1>3 DEF Ends
<1>7. current'[s] = NoCommand /\ early'[s] = <<>> /\ Unheard(s)' = u \o last
  <2>1. current'[s] = NoCommand /\ early'[s] = <<>> /\ answers'[s] = u \o last
    BY <1>1, <1>2 DEF Ends, Unheard
  <2>2. (u \o last) \o <<>> = u \o last
    BY <1>4
  <2> QED
    BY <2>1, <2>2 DEF Unheard
<1>8. ASSUME Gone(u \o last) => stream'[s] = NoStream,
             \A i \in DOMAIN last : last[i] \in Whole => last[i].rows = RowsOf(last[i].job, 0, Len(last[i].rows))
      PROVE  Streaming(NoCommand, <<>>, u \o last, stream'[s])
  <2> DEFINE b == u \o last
  <2>1. \A i \in DOMAIN u : u[i] \in Whole => u[i].rows = RowsOf(u[i].job, 0, Len(u[i].rows))
    BY <1>5 DEF Streaming
  <2>2. \A i \in DOMAIN b : b[i] \in Whole => b[i].rows = RowsOf(b[i].job, 0, Len(b[i].rows))
    <3> HIDE DEF u
    <3> QED
      BY <1>2, <1>4, <1>8, <2>1, WholeJoined
  <2>3. NoCommand.type = "none"
    BY DEF NoCommand, Direct
  <2>4. Gone(b) => stream'[s] = NoStream
    BY <1>8
  <2> HIDE DEF b
  <2>5. Streaming(NoCommand, <<>>, b, stream'[s])
    BY <2>2, <2>3, <2>4 DEF Streaming
  <2> QED
    BY <2>5 DEF b
<1> HIDE DEF u, st, ss
<1>9. ASSUME EndsPlainly(s, last) PROVE After(last)
  <2>1. PICK x \in AnswerSet \ (Closing \cup Giving) :
          last = <<x>> /\ (x \in Whole => x.rows = RowsOf(x.job, 0, Len(x.rows)))
    BY <1>9 DEF EndsPlainly
  <2>2. stream'[s] = st
    BY <1>9 DEF EndsPlainly, st
  <2>3. \A i \in DOMAIN last : last[i] = x
    BY <2>1
  <2>4. NoneIn(last, Closing \cup Giving)
    BY <2>3 DEF NoneIn
  <2>5. Gone(u \o last) => Gone(u)
    BY <1>2, <1>4, <2>4, GoneLast
  <2>6. Gone(u \o last) => stream'[s] = NoStream
    BY <1>5, <2>2, <2>5 DEF Streaming
  <2>7. s \in Live => TabsFit(ss, u \o last, stream'[s])
    BY <1>2, <1>4, <1>5, <2>2, <2>4, TabsBehind
  <2>8. Streaming(NoCommand, <<>>, u \o last, stream'[s])
    BY <1>8, <2>1, <2>3, <2>6
  <2> QED
    BY <2>7, <2>8 DEF After
<1>10. ASSUME EndsKept(s, last) PROVE After(last)
  <2> DEFINE y == Answer("CursorKept")
  <2>1. PICK x \in Offering : /\ last = <<y, x>> /\ x.rows = RowsOf(x.job, 0, Len(x.rows))
                              /\ StandsAt(x.job, Len(x.rows), stream'[s])
    BY <1>10 DEF EndsKept
  <2>2. c.type = "Query" /\ c.sql = "select"
    BY <1>10 DEF EndsKept
  <2>3. y \in AnswerSet \ (Closing \cup Giving) /\ y \notin Whole
    <3>1. "CursorKept" \in AnswerTypes /\ <<>> \in Rows /\ NoJob \in Nat
      BY DEF AnswerTypes, Rows, NoJob
    <3>2. y \in AnswerSet /\ y.type = "CursorKept"
      BY <3>1, AnswerTyped DEF Answer
    <3> HIDE DEF y
    <3> QED
      BY <3>2 DEF Closing, Whole, Giving, Offering, Reading
  <2> HIDE DEF y
  <2>4. \A i \in DOMAIN last : last[i] = x \/ last[i] = y
    BY <2>1
  <2>5. ~Gone(u \o last)
    BY <1>4, <2>1, <2>3, HandsOrCloses, GoneLast
  <2>6. Streaming(NoCommand, <<>>, u \o last, stream'[s])
    BY <1>8, <2>1, <2>3, <2>4, <2>5
  <2>7. ASSUME s \in Live PROVE TabsFit(ss, u \o last, stream'[s])
    <3>1. NoneIn(u, Giving) /\ ss.inFlight \in Item /\ c = CommandOf(ss.inFlight)
      BY <2>2, <2>7, AskedIsInFlight DEF StatementTypes, u, ss
    <3>2. ss.inFlight.how = "query" /\ ss.inFlight.sql = "select"
      BY <2>2, <3>1 DEF CommandOf, Statement, Item, Hows
    <3>3. st = NoStream
      BY <1>5, <2>2 DEF Streaming
    <3> QED
      BY <1>4, <1>5, <2>1, <2>3, <2>7, <3>1, <3>2, <3>3, TabsHanded
  <2> QED
    BY <2>6, <2>7 DEF After
<1>11. ASSUME EndsReading(s, last) PROVE After(last)
  <2>1. PICK x \in Reading, to \in Nat :
          /\ last = <<x>> /\ st.read <= to /\ x.rows = RowsOf(st.job, st.read, to)
          /\ st = NoStream => to = 0 /\ ~x.more /\ stream'[s] = NoStream
          /\ x.more => StandsAt(st.job, to, stream'[s])
    BY <1>11 DEF EndsReading, st
  <2>2. c.type = "FetchMore"
    BY <1>11 DEF EndsReading
  <2>3. \A i \in DOMAIN last : last[i] = x
    BY <2>1
  <2>4. x \in AnswerSet /\ x.type = "MoreRows"
    BY DEF Reading
  <2>5. ~Gone(u \o last)
    <3>1. NoCommand \notin AnswerSet /\ \E y \in AnswerSet : y \notin Closing \cup Giving
      <4> DEFINE y == Answer("CursorKept")
      <4>1. "CursorKept" \in AnswerTypes /\ <<>> \in Rows /\ NoJob \in Nat
        BY DEF AnswerTypes, Rows, NoJob
      <4>2. y \in AnswerSet /\ y.type = "CursorKept"
        BY <4>1, AnswerTyped DEF Answer
      <4> HIDE DEF y
      <4> QED
        BY <4>2 DEF Closing, Giving, Offering, Reading, AnswerSet, NoCommand, Direct
    <3> QED
      BY <1>4, <2>1, <3>1, HandsOrCloses, GoneLast
  <2>6. x \notin Whole
    BY <2>4 DEF Whole
  <2>7. Streaming(NoCommand, <<>>, u \o last, stream'[s])
    BY <1>8, <2>3, <2>5, <2>6
  <2>8. ASSUME s \in Live PROVE TabsFit(ss, u \o last, stream'[s])
    <3>1. NoneIn(u, Giving)
      BY <2>2, <2>8, AskedIsInFlight DEF StatementTypes, u, ss
    <3>2. \A i \in DOMAIN ss.tabs : ss.tabs[i].rows \in Rows
      <4>1. ss.tabs \in Seq(Tab)
        BY <1>1 DEF SessionState, ss
      <4>2. \A i \in DOMAIN ss.tabs : ss.tabs[i] \in Tab
        BY <4>1
      <4> QED
        BY <4>2 DEF Tab, Rows
    <3>3. /\ st \in [job : Nat, read : Nat] /\ TabsFit(ss, u, st)
          /\ st = NoStream => to = 0 /\ ~x.more
      BY <1>1, <1>5, <2>1, <2>8 DEF st
    <3>4. TabsFit(ss, u \o <<x>>, stream'[s])
      BY <1>4, <2>1, <3>1, <3>2, <3>3, TabsReadOn
    <3> QED
      BY <2>1, <3>4
  <2> QED
    BY <2>7, <2>8 DEF After
<1>12. After(last)
  BY <1>2, <1>9, <1>10, <1>11
<1>13. session'[s] = ss
  BY DEF ss
<1> QED
  BY <1>5, <1>6, <1>7, <1>12, <1>13, OneFits DEF After

\* A worker's step keeps every session's tabs fit.
LEMMA WorkTabs ==
  ASSUME Panics = FALSE, Typed, Answering, AllAlive, Sendable, TabInv, NEW s \in Sessions, Work(s)
  PROVE  TabInv'
<1>1. UNCHANGED session
  BY DEF Work, appVars
<1>2. Take(s) \/ EndCommand(s)
  BY DEF Work, Die
<1> QED
  BY <1>1, <1>2, TakeTabs, EndTabs

-----------------------------------------------------------------------------
(* What is sent is a command. *)

\* What is sent behind what waits is a command, so all that waits is.
LEMMA SentBehind ==
  ASSUME Typed, Sendable, NEW out, Deliver(out),
         \A s \in Sessions : \/ out[s] = <<>>
                             \/ \E c \in CommandSet : c.type # "none" /\ out[s] = <<c>>
  PROVE  Sendable'
<1>1. ASSUME NEW s \in Sessions, NEW i \in DOMAIN cmds'[s] PROVE cmds'[s][i].type # "none"
  <2> DEFINE q == cmds[s]
  <2>1. q \in Seq(CommandSet) /\ (cmds'[s] = q \/ cmds'[s] = q \o out[s])
    BY DEF Typed, ChannelsOK, Deliver
  <2>2. \A j \in DOMAIN q : q[j].type # "none"
    BY DEF Sendable
  <2>3. out[s] = <<>> \/ \E c \in CommandSet : c.type # "none" /\ out[s] = <<c>>
    OBVIOUS
  <2> HIDE DEF q
  <2>4. CASE cmds'[s] = q
    BY <1>1, <2>2, <2>4
  <2>5. CASE cmds'[s] = q \o out[s] /\ out[s] = <<>>
    <3>1. q \o <<>> = q
      BY <2>1
    <3> QED
      BY <1>1, <2>2, <2>5, <3>1
  <2>6. ASSUME NEW c \in CommandSet, c.type # "none", cmds'[s] = q \o <<c>>
        PROVE  cmds'[s][i].type # "none"
    <3>1. /\ DOMAIN (q \o <<c>>) = 1..(Len(q) + 1) /\ Len(q) \in Nat /\ DOMAIN q = 1..Len(q)
          /\ (q \o <<c>>)[Len(q) + 1] = c
          /\ \A j \in 1..Len(q) : (q \o <<c>>)[j] = q[j]
      BY <2>1
    <3>2. i \in 1..Len(q) \/ i = Len(q) + 1
      BY <1>1, <2>6, <3>1
    <3> QED
      BY <2>2, <2>6, <3>1, <3>2
  <2> QED
    BY <2>1, <2>3, <2>4, <2>5, <2>6
<1> QED
  BY <1>1 DEF Sendable

\* Nothing sent leaves what waits.
LEMMA UnsentStays ==
  ASSUME Sendable, UNCHANGED cmds
  PROVE  Sendable'
BY DEF Sendable

\* A command past the queue is one.
LEMMA DirectSends ==
  ASSUME Typed, Sendable, NEW s \in Sessions, NEW type \in CommandTypes, NEW on \in BOOLEAN,
         Deliver(To(s, <<Direct(type, on)>>))
  PROVE  Sendable'
<1> DEFINE c == Direct(type, on)
           out == To(s, <<c>>)
<1>1. c \in CommandSet /\ c.type # "none"
  BY CommandTyped DEF Direct, CommandTypes
<1>2. \A t \in Sessions : out[t] = IF t = s THEN <<c>> ELSE <<>>
  BY DEF To
<1>3. Deliver(out)
  OBVIOUS
<1> HIDE DEF c, out
<1> QED
  BY <1>1, <1>2, <1>3, SentBehind

\* What a session's pump sends is a command.
LEMMA PumpIsCommand ==
  ASSUME NEW ss \in SessionState
  PROVE  Sent(ss) = <<>> \/ \E c \in CommandSet : c.type # "none" /\ Sent(ss) = <<c>>
<1>1. CASE Sends(ss)
  <2> DEFINE c == CommandOf(Head(ss.queue))
  <2>1. Head(ss.queue) \in Item
    BY <1>1, HeadAndTail DEF Sends, SessionState
  <2>2. c \in Asking
    BY <2>1, CommandAsks
  <2>3. Sent(ss) = <<c>>
    BY <1>1 DEF Sent
  <2> HIDE DEF c
  <2> QED
    BY <2>2, <2>3 DEF Asking, StatementTypes
<1>2. CASE ~Sends(ss)
  BY <1>2 DEF Sent
<1> QED
  BY <1>1, <1>2

\* What a handler sends as it pumps session s, the next of the queue, is a command.
LEMMA PumpSends ==
  ASSUME Typed, Sendable, NEW s \in Sessions, NEW ss \in SessionState, NEW js, Pump(s, ss, js)
  PROVE  Sendable'
<1> DEFINE out == To(s, Sent(ss))
<1>1. \A t \in Sessions : out[t] = IF t = s THEN Sent(ss) ELSE <<>>
  BY DEF To
<1>2. Deliver(out)
  BY DEF Pump
<1> HIDE DEF out
<1> QED
  BY <1>1, <1>2, PumpIsCommand, SentBehind

\* All that the user does sends only commands.
LEMMA ActsSend ==
  ASSUME Typed, Sendable, NEW s \in Sessions, UserActs(s)
  PROVE  Sendable'
<1>0. session[s] \in SessionState /\ session[s].autocommit \in BOOLEAN
  BY DEF Typed, TypeOK, SessionState
<1>1. CASE Run(s) \/ LoadMore(s) \/ FetchAll(s) \/ ExportAll(s)
  <2>1. PICK items \in Seq(Item) : EnqueueOn(s, items)
    BY <1>1, RunsEnqueue
  <2>2. CASE Asks(s, items)
    BY <2>1, <2>2, UnsentStays DEF EnqueueOn, Only
  <2>3. CASE ~Asks(s, items)
    <3>1. Pump(s, Queues(s, session[s], items), Enqueued(s, items))
      BY <2>1, <2>3 DEF EnqueueOn, Queue, Queues
    <3> QED
      BY <1>0, <3>1, QueuesTyped, PumpSends
  <2> QED
    BY <2>2, <2>3
<1>2. CASE Release(s)
  <2> DEFINE ss == [session[s] EXCEPT !.confirmed = TRUE, !.held = <<>>]
  <2>1. <<>> \in Seq(Item)
    OBVIOUS
  <2>2. ss \in SessionState /\ session[s].held \in Seq(Item)
    BY <1>0, <2>1 DEF SessionState
  <2>3. Pump(s, Queues(s, ss, session[s].held), Enqueued(s, session[s].held))
    BY <1>2 DEF Release, Queue, Queues
  <2> HIDE DEF ss
  <2> QED
    BY <2>2, <2>3, QueuesTyped, PumpSends
<1>3. CASE AskToFetchAll(s) \/ CancelRunning(s) \/ DropQueued(s)
  <2>1. UNCHANGED cmds
    BY <1>3 DEF AskToFetchAll, CancelRunning, DropQueued
  <2> QED
    BY <2>1, UnsentStays
<1>4. CASE ToggleAutocommit(s) \/ LoadSchema(s) \/ ExportFetched(s) \/ Reconnect(s) \/ OpenSession(s)
  <2>1. {"SetAutocommit", "LoadSchema", "ExportFetched", "Connect"} \subseteq CommandTypes /\ FALSE \in BOOLEAN
    BY DEF CommandTypes
  <2>2. CASE ToggleAutocommit(s)
    BY <1>0, <2>1, <2>2, DirectSends DEF ToggleAutocommit, SendDirect
  <2>3. CASE LoadSchema(s)
    BY <2>1, <2>3, DirectSends DEF LoadSchema, SendDirect
  <2>4. CASE ExportFetched(s)
    BY <2>1, <2>4, DirectSends DEF ExportFetched, SendDirect
  <2>5. CASE Reconnect(s)
    BY <2>1, <2>5, DirectSends DEF Reconnect, SendDirect
  <2>6. CASE OpenSession(s)
    BY <2>1, <2>6, DirectSends DEF OpenSession, SendDirect
  <2> QED
    BY <1>4, <2>2, <2>3, <2>4, <2>5, <2>6
<1>5. CASE CloseOrConfirm(s) \/ CloseConfirmed(s)
  <2>1. \/ UNCHANGED cmds
        \/ \E new \in Sessions : Deliver(To(new, <<Direct("Connect", FALSE)>>))
    BY <1>5 DEF CloseOrConfirm, CloseConfirmed, Close
  <2>2. "Connect" \in CommandTypes /\ FALSE \in BOOLEAN
    BY DEF CommandTypes
  <2> QED
    BY <2>1, <2>2, UnsentStays, DirectSends
<1> QED
  BY <1>1, <1>2, <1>3, <1>4, <1>5 DEF UserActs

\* What a step takes or leaves of what waits are commands.
LEMMA NextSends == Panics = FALSE /\ Typed /\ Sendable /\ [Next]_vars => Sendable'
<1> SUFFICES ASSUME Panics = FALSE, Typed, Sendable, [Next]_vars PROVE Sendable'
  OBVIOUS
<1>1. CASE UNCHANGED vars \/ CancelArrives \/ Dismiss \/ Quit
  <2>1. UNCHANGED cmds
    BY <1>1 DEF vars, workerVars, CancelArrives, CancelFires, Dismiss, Quit
  <2> QED
    BY <2>1, UnsentStays
<1>2. CASE QuitRollingBack
  <2> DEFINE out == [s \in Sessions |-> IF s \in dialog.who THEN Sent(RollingBack(s)) ELSE <<>>]
  <2>1. Deliver(out)
    BY <1>2 DEF QuitRollingBack
  <2>2. \A s \in Sessions : out[s] = IF s \in dialog.who THEN Sent(RollingBack(s)) ELSE <<>>
    OBVIOUS
  <2> HIDE DEF out
  <2> QED
    BY <2>1, <2>2, RollingBackTyped, PumpIsCommand, SentBehind
<1>3. ASSUME NEW s \in Sessions, Hear(s) PROVE Sendable'
  <2>1. CASE s \notin Live
    BY <1>3, <2>1, UnsentStays DEF Hear, Only
  <2>2. CASE s \in Live /\ EndsIt(session[s], Head(answers[s]))
    <3>1. PICK after, js : EndsAs(session[s], after) /\ Pump(s, after, js)
      BY <1>3, <2>2, HearShape
    <3> QED
      BY <1>3, <3>1, PumpSends DEF EndsAs
  <2>3. CASE s \in Live /\ ~EndsIt(session[s], Head(answers[s]))
    BY <1>3, <2>3, HearShape, UnsentStays DEF Only
  <2> QED
    BY <2>1, <2>2, <2>3
<1>4. ASSUME NEW s \in Sessions, WorkerStopped(s) PROVE Sendable'
  BY <1>4, UnsentStays DEF WorkerStopped
<1>5. ASSUME NEW s \in Sessions, Work(s) PROVE Sendable'
  <2>1. CASE Take(s)
    <3>1. /\ cmds \in [Sessions -> Seq(CommandSet)] /\ cmds[s] # <<>>
          /\ cmds' = [cmds EXCEPT ![s] = Tail(cmds[s])]
      BY <2>1 DEF Take, Typed, ChannelsOK
    <3>2. \A i \in DOMAIN Tail(cmds[s]) : i + 1 \in DOMAIN cmds[s] /\ Tail(cmds[s])[i] = cmds[s][i + 1]
      BY <1>5, <3>1, HeadAndTail
    <3>3. \A t \in Sessions : cmds'[t] = IF t = s THEN Tail(cmds[s]) ELSE cmds[t]
      BY <3>1
    <3> QED
      BY <3>2, <3>3 DEF Sendable
  <2>2. CASE EndCommand(s)
    BY <1>5, <2>2, EndHands, UnsentStays DEF Ends
  <2> QED
    BY <1>5, <2>1, <2>2 DEF Work, Die
<1> QED
  BY <1>1, <1>2, <1>3, <1>4, <1>5, ActsSend DEF Next

-----------------------------------------------------------------------------
(* What the app does. *)

\* What the app does to session s beside its tabs: none of what they are about, or
\* it opens it.
Rests(s) ==
  s \in Live' =>
    \/ /\ s \in Live /\ SameTabs(session[s], session'[s]) /\ session'[s].inFlight = session[s].inFlight
       /\ Plain(session'[s].queue) /\ Plain(session'[s].held)
    \/ session[s].status = "unused" /\ \E prod : session'[s] = Fresh("connecting", prod)

\* A session that is opened fits what its worker has: nothing.
LEMMA FreshTabs ==
  ASSUME NEW status, NEW prod, NEW st
  PROVE  TabsFit(Fresh(status, prod), <<>>, st)
<1> DEFINE f == Fresh(status, prod)
<1>1. /\ f.inFlight = NoItem /\ f.cursor = 0 /\ f.tabsMade = 0
      /\ f.queue = <<>> /\ f.held = <<>> /\ f.tabs = <<>>
  BY DEF Fresh
<1>2. NoItem.how # "more" /\ NoneIn(<<>>, Giving) /\ Plain(<<>>)
  BY DEF NoItem, NoneIn, Plain
<1> HIDE DEF f
<1>3. f.cursor \in 0..f.tabsMade /\ f.inFlight.how # "more" /\ Plain(f.queue) /\ Plain(f.held)
  BY <1>1, <1>2
<1>4. \A i \in DOMAIN f.tabs : /\ IsOwn(f, f.tabs[i])
                               /\ f.tabs[i].number = f.cursor => Offered(f.tabs[i], <<>>, st)
  BY <1>1
<1>5. TabsFit(f, <<>>, st)
  BY <1>2, <1>3, <1>4, TabsAtRest
<1> QED
  BY <1>5 DEF f

\* A step of the app keeps every session's tabs fit when each rests or is shown to.
LEMMA AppTabs ==
  ASSUME Typed, Answering, TabInv, UNCHANGED <<current, early, stream, answers>>,
         \A s \in Sessions : Rests(s) \/ TabsFit(session'[s], Unheard(s), stream[s])
  PROVE  TabInv'
<1>1. ASSUME NEW s \in Sessions
      PROVE  /\ Streaming(current'[s], early'[s], Unheard(s)', stream'[s])
             /\ s \in Live' => TabsFit(session'[s], Unheard(s)', stream'[s])
  <2>1. Unheard(s)' = Unheard(s) /\ stream'[s] = stream[s] /\ current'[s] = current[s] /\ early'[s] = early[s]
    BY DEF Unheard
  <2>2. Streaming(current[s], early[s], Unheard(s), stream[s]) /\ session[s] \in SessionState
    BY DEF TabInv, Typed, TypeOK
  <2>3. ASSUME s \in Live, SameTabs(session[s], session'[s]), session'[s].inFlight = session[s].inFlight,
               Plain(session'[s].queue), Plain(session'[s].held)
        PROVE  TabsFit(session'[s], Unheard(s), stream[s])
    <3>1. TabsFit(session[s], Unheard(s), stream[s]) /\ session[s].tabsMade \in Nat
      BY <2>2, <2>3 DEF TabInv, SessionState
    <3> QED
      BY <2>3, <3>1, TabsStay
  <2>4. ASSUME session[s].status = "unused", NEW prod, session'[s] = Fresh("connecting", prod)
        PROVE  TabsFit(session'[s], Unheard(s), stream[s])
    <3>1. current[s] = NoCommand /\ answers[s] = <<>>
      BY <2>4 DEF Answering, Aside
    <3>2. early[s] = <<>>
      BY <2>2, <3>1 DEF Streaming
    <3>3. Unheard(s) = <<>>
      BY <3>1, <3>2 DEF Unheard
    <3> QED
      BY <2>4, <3>3, FreshTabs
  <2>5. s \in Live' => TabsFit(session'[s], Unheard(s), stream[s])
    BY <2>3, <2>4 DEF Rests
  <2> QED
    BY <2>1, <2>2, <2>5
<1> QED
  BY <1>1 DEF TabInv

\* A session that is as it was rests.
LEMMA AsItWas ==
  ASSUME TabInv, NEW s \in Sessions, session'[s] = session[s]
  PROVE  Rests(s)
<1>1. s \in Live' => s \in Live
  BY DEF Live
<1>2. s \in Live => Plain(session[s].queue) /\ Plain(session[s].held)
  BY DEF TabInv, TabsFit, Placing
<1> QED
  BY <1>1, <1>2 DEF Rests, SameTabs

\* Nothing is handed to an idle session.
LEMMA IdleIsHandedNone ==
  ASSUME Typed, Answering, AllAlive, TabInv, NEW s \in Live
  PROVE  /\ session[s].inFlight = NoItem => NoneIn(Unheard(s), Giving)
         /\ session[s].running = 0 => session[s].inFlight = NoItem
<1>1. s \in Sessions /\ answers[s] \in Seq(AnswerSet) /\ early[s] \in Seq(AnswerSet)
  BY DEF Live, Typed, ChannelsOK
<1>2. Lined(session[s], cmds[s], current[s], answers[s])
  BY <1>1 DEF Answering, AllAlive
<1>3. NoneIn(early[s], Giving)
  <2>1. \A i \in DOMAIN early[s] : early[s][i] \in Closing
    BY <1>1 DEF TabInv, Streaming
  <2> QED
    BY <2>1, HandsOrCloses DEF NoneIn
<1>4. session[s].inFlight = NoItem => NoneIn(answers[s], Giving)
  BY <1>1, <1>2, HandedIsOfIt
<1>5. session[s].inFlight = NoItem => NoneIn(Unheard(s), Giving)
  BY <1>1, <1>3, <1>4, NoneJoined DEF Unheard
<1>6. session[s].running = 0 => session[s].inFlight = NoItem
  BY <1>2 DEF Lined
<1> QED
  BY <1>5, <1>6

\* A session that fits and is pumped fits.
LEMMA PumpTabs ==
  ASSUME Typed, Answering, AllAlive, TabInv, UNCHANGED <<current, early, stream, answers>>, NEW s \in Live,
         NEW ss \in SessionState, TabsFit(ss, Unheard(s), stream[s]), ss.inFlight = session[s].inFlight,
         NEW js, Pump(s, ss, js)
  PROVE  TabInv'
<1>1. /\ s \in Sessions /\ session \in [Sessions -> SessionState] /\ session' = [session EXCEPT ![s] = Pumped(ss)]
  BY DEF Live, Typed, TypeOK, Pump
<1>2. TabsFit(Pumped(ss), Unheard(s), stream[s])
  BY IdleIsHandedNone, TabsPumped
<1>3. session'[s] = Pumped(ss) /\ \A t \in Sessions \ {s} : session'[t] = session[t]
  BY <1>1
<1>4. \A t \in Sessions : Rests(t) \/ TabsFit(session'[t], Unheard(t), stream[t])
  BY <1>2, <1>3, AsItWas
<1> QED
  BY <1>4, AppTabs

\* Plain items behind plain ones are plain.
LEMMA PlainJoined ==
  ASSUME NEW p \in Seq(Item), NEW q \in Seq(Item), Plain(p), Plain(q)
  PROVE  Plain(p \o q)
<1> DEFINE r == p \o q
<1>1. /\ Len(p) \in Nat /\ DOMAIN p = 1..Len(p) /\ Len(q) \in Nat /\ DOMAIN q = 1..Len(q)
      /\ DOMAIN r = 1..(Len(p) + Len(q))
      /\ \A i \in 1..Len(p) : r[i] = p[i]
      /\ \A i \in 1..Len(q) : r[Len(p) + i] = q[i]
  BY Joined
<1> HIDE DEF r
<1>2. ASSUME NEW i \in 1..(Len(p) + Len(q)) PROVE r[i].how # "more"
  <2>1. CASE i <= Len(p)
    <3>1. i \in 1..Len(p)
      BY <1>1, <2>1
    <3> QED
      BY <1>1, <3>1 DEF Plain
  <2>2. CASE ~(i <= Len(p))
    <3>1. i - Len(p) \in 1..Len(q) /\ Len(p) + (i - Len(p)) = i
      BY <1>1, <2>2
    <3>2. r[i] = q[i - Len(p)]
      BY <1>1, <3>1
    <3> QED
      BY <1>1, <3>1, <3>2 DEF Plain
  <2> QED
    BY <2>1, <2>2
<1>3. Plain(r)
  BY <1>1, <1>2 DEF Plain
<1> QED
  BY <1>3 DEF r

\* ... and without one of them.
LEMMA PlainWithout ==
  ASSUME NEW queue \in Seq(Item), Plain(queue), NEW id
  PROVE  Plain(Without(queue, id))
<1> DEFINE places == {i \in DOMAIN queue : queue[i].job = id}
           i == CHOOSE i \in places : TRUE
<1>1. CASE places = {}
  BY <1>1 DEF Without
<1>2. CASE places # {}
  <2>1. i \in 1..Len(queue)
    BY <1>2
  <2>2. Without(queue, id) = RemoveAt(queue, i)
    BY <1>2 DEF Without
  <2> HIDE DEF i, places
  <2>3. /\ DOMAIN RemoveAt(queue, i) = 1..(Len(queue) - 1)
        /\ \A k \in 1..(Len(queue) - 1) : RemoveAt(queue, i)[k] = IF k < i THEN queue[k] ELSE queue[k + 1]
    BY <2>1, WithoutThe
  <2>4. ASSUME NEW k \in 1..(Len(queue) - 1) PROVE k \in DOMAIN queue /\ k + 1 \in DOMAIN queue
    OBVIOUS
  <2> QED
    BY <2>2, <2>3, <2>4 DEF Plain
<1> QED
  BY <1>1, <1>2

\* A run that reads nothing on, queued, leaves the tabs what they are.
LEMMA QueuesFit ==
  ASSUME Typed, NEW s \in Sessions, NEW ss \in SessionState, NEW items \in Seq(Item), Plain(items),
         NEW a, NEW st, TabsFit(ss, a, st)
  PROVE  TabsFit(Queues(s, ss, items), a, st) /\ Queues(s, ss, items).inFlight = ss.inFlight
<1> DEFINE q == ss.queue
           r == Numbered(items)
           b == Queues(s, ss, items)
<1>1. /\ made \in Nat /\ q \in Seq(Item) /\ Plain(q) /\ Plain(ss.held) /\ ss.tabsMade \in Nat
  BY DEF Typed, TypeOK, SessionState, TabsFit, Placing
<1>2. r \in Seq(Item) /\ DOMAIN r = DOMAIN items /\ \A i \in DOMAIN items : r[i] = [items[i] EXCEPT !.job = JobId(i)]
  <2>1. r \in Seq(Item)
    BY <1>1, NumberedItems
  <2> QED
    BY <2>1 DEF Numbered
<1>3. /\ b.queue = q \o r /\ b.inFlight = ss.inFlight /\ b.held = ss.held
      /\ b.tabs = ss.tabs /\ b.tabsMade = ss.tabsMade /\ b.cursor \in {0, ss.cursor}
  BY DEF Queues, Behind, SessionState
<1>4. Plain(r)
  <2>1. ASSUME NEW i \in DOMAIN items PROVE r[i].how # "more"
    <3>1. items[i] \in Item /\ items[i].how # "more"
      BY DEF Plain
    <3> DEFINE n == JobId(i)
    <3>2. r[i] = [items[i] EXCEPT !.job = n]
      BY <1>2
    <3> HIDE DEF n
    <3>3. [items[i] EXCEPT !.job = n].how = items[i].how
      BY <3>1 DEF Item
    <3> QED
      BY <3>1, <3>2, <3>3
  <2> QED
    BY <1>2, <2>1 DEF Plain
<1> HIDE DEF q, r, b
<1>5. Plain(b.queue) /\ Plain(b.held)
  BY <1>1, <1>2, <1>3, <1>4, PlainJoined
<1>6. TabsFit(b, a, st)
  BY <1>1, <1>3, <1>5, TabsStay DEF SameTabs
<1> QED
  BY <1>3, <1>6 DEF b

\* What a run, or a read of every row, asks for reads nothing on.
LEMMA RunsPlain ==
  ASSUME Typed, NEW s \in Sessions, Run(s) \/ FetchAll(s) \/ ExportAll(s)
  PROVE  \E items \in Seq(Item) : EnqueueOn(s, items) /\ Plain(items)
<1>1. ASSUME NEW sql \in Statements, NEW how \in {"all", "export"}, EnqueueOn(s, <<Wanted(sql, how, 0)>>)
      PROVE  \E items \in Seq(Item) : EnqueueOn(s, items) /\ Plain(items)
  <2> DEFINE item == Wanted(sql, how, 0)
  <2>1. item \in Item
    BY WantedTyped DEF Hows
  <2>2. item.how # "more"
    BY DEF Wanted
  <2> HIDE DEF item
  <2>3. <<item>> \in Seq(Item) /\ Plain(<<item>>)
    BY <2>1, <2>2 DEF Plain
  <2> QED
    BY <1>1, <2>3 DEF item
<1>2. CASE Run(s)
  <2>1. PICK run \in Runs : EnqueueOn(s, [i \in DOMAIN run |-> Wanted(run[i], "query", 0)])
    BY <1>2 DEF Run
  <2> DEFINE items == [i \in DOMAIN run |-> Wanted(run[i], "query", 0)]
  <2>2. run \in Seq(Statements)
    BY QueryRunAssumption
  <2>3. items \in Seq(Item)
    <3>1. ASSUME NEW i \in DOMAIN run PROVE Wanted(run[i], "query", 0) \in Item
      <4>1. run[i] \in Statements \cup {NoSql} /\ "query" \in Hows /\ 0 \in Nat
        BY <2>2, <3>1 DEF Hows
      <4> QED
        BY <4>1, WantedTyped
    <3>2. DOMAIN run = 1..Len(run) /\ Len(run) \in Nat
      BY <2>2
    <3> QED
      BY <3>1, <3>2
  <2>4. Plain(items)
    BY DEF Plain, Wanted
  <2> HIDE DEF items
  <2> QED
    BY <2>1, <2>3, <2>4 DEF items
<1>3. CASE FetchAll(s)
  BY <1>1, <1>3 DEF FetchAll, Statements
<1>4. CASE ExportAll(s)
  BY <1>1, <1>4 DEF ExportAll, Statements
<1> QED
  BY <1>2, <1>3, <1>4

\* A run, released or not, keeps every session's tabs fit.
LEMMA RunsTabs ==
  ASSUME Typed, Agreed, Answering, AllAlive, TabInv, NEW s \in Sessions,
         Run(s) \/ FetchAll(s) \/ ExportAll(s) \/ Release(s)
  PROVE  TabInv'
<1>0. /\ UNCHANGED <<current, early, stream, answers>> /\ session[s] \in SessionState
      /\ session \in [Sessions -> SessionState]
  BY DEF Run, FetchAll, ExportAll, Release, Acts, User, untouchedByUser, Typed, TypeOK
<1>1. s \in Live /\ TabsFit(session[s], Unheard(s), stream[s])
  <2>1. dialog \in {Confirm("FetchAll", {s}), Confirm("RunOnProd", {s})} => s \in dialog.who
    BY DEF Confirm
  <2>2. s \in Live
    BY <2>1 DEF Run, FetchAll, ExportAll, Release, Acts, Agreed
  <2> QED
    BY <2>2 DEF TabInv
<1>2. ASSUME NEW ss \in SessionState, TabsFit(ss, Unheard(s), stream[s]), ss.inFlight = session[s].inFlight,
             NEW items \in Seq(Item), Plain(items), Queue(s, ss, items)
      PROVE  TabInv'
  <2> DEFINE after == Queues(s, ss, items)
  <2>1. after \in SessionState
    BY <1>2, QueuesTyped
  <2>2. TabsFit(after, Unheard(s), stream[s]) /\ after.inFlight = session[s].inFlight
    BY <1>2, QueuesFit
  <2>3. Pump(s, after, Enqueued(s, items))
    BY <1>2 DEF Queue, Queues
  <2> HIDE DEF after
  <2> QED
    BY <1>0, <1>1, <2>1, <2>2, <2>3, PumpTabs
<1>3. CASE Release(s)
  <2> DEFINE ss == [session[s] EXCEPT !.confirmed = TRUE, !.held = <<>>]
  <2>1. <<>> \in Seq(Item) /\ Plain(<<>>) /\ session[s].tabsMade \in Nat
    BY <1>0 DEF Plain, SessionState
  <2>2. /\ ss \in SessionState /\ session[s].held \in Seq(Item) /\ ss.inFlight = session[s].inFlight
        /\ ss.queue = session[s].queue /\ ss.held = <<>> /\ SameTabs(session[s], ss)
    BY <1>0, <2>1 DEF SessionState, SameTabs
  <2>3. Queue(s, ss, session[s].held)
    BY <1>3 DEF Release
  <2> HIDE DEF ss
  <2>4. Plain(session[s].queue) /\ Plain(session[s].held)
    BY <1>1 DEF TabsFit, Placing
  <2>5. TabsFit(ss, Unheard(s), stream[s])
    BY <1>1, <2>1, <2>2, <2>4, TabsStay
  <2> QED
    BY <1>2, <2>2, <2>3, <2>4, <2>5
<1>4. CASE ~Release(s)
  <2>1. PICK items \in Seq(Item) : EnqueueOn(s, items) /\ Plain(items)
    BY <1>4, RunsPlain
  <2>2. CASE Asks(s, items)
    <3> DEFINE ss == [session[s] EXCEPT !.held = items]
    <3>1. session' = [session EXCEPT ![s] = ss]
      BY <2>1, <2>2 DEF EnqueueOn, Only
    <3>2. SameTabs(session[s], ss) /\ ss.inFlight = session[s].inFlight /\ ss.queue = session[s].queue /\ ss.held = items
      BY <1>0 DEF SessionState, SameTabs
    <3> HIDE DEF ss
    <3>3. Plain(ss.queue) /\ Plain(ss.held)
      BY <1>1, <2>1, <3>2 DEF TabsFit, Placing
    <3>4. session'[s] = ss /\ \A t \in Sessions \ {s} : session'[t] = session[t]
      BY <1>0, <3>1
    <3>5. Rests(s)
      BY <1>1, <3>2, <3>3, <3>4 DEF Rests
    <3> QED
      BY <1>0, <3>4, <3>5, AsItWas, AppTabs
  <2>3. CASE ~Asks(s, items)
    <3>1. Queue(s, session[s], items)
      BY <2>1, <2>3 DEF EnqueueOn
    <3> QED
      BY <1>0, <1>1, <1>2, <2>1, <3>1
  <2> QED
    BY <2>2, <2>3
<1> QED
  BY <1>3, <1>4

\* Loading on, once its session is idle: the tab that is offered has its stream,
\* or will hear that it is gone and load nothing.
LEMMA LoadMoreTabs ==
  ASSUME Patient = TRUE, Typed, Answering, AllAlive, TabInv, NEW s \in Sessions, LoadMore(s)
  PROVE  TabInv'
<1> DEFINE ss == session[s]
           a == Unheard(s)
           st == stream[s]
           b == session'[s]
<1>1. /\ s \in Live /\ UNCHANGED <<current, early, stream, answers>> /\ ss \in SessionState
      /\ session \in [Sessions -> SessionState] /\ made \in Nat
      /\ answers[s] \in Seq(AnswerSet) /\ early[s] \in Seq(AnswerSet)
  BY DEF LoadMore, Acts, User, untouchedByUser, Typed, TypeOK, ChannelsOK
<1>2. /\ TabsFit(ss, a, st) /\ Placing(ss) /\ Streaming(current[s], early[s], a, st)
      /\ \A i \in DOMAIN ss.tabs : TabFits(ss, ss.tabs[i], a, st)
  BY <1>1 DEF TabInv, TabsFit
<1>3. ss.queue = <<>> /\ ss.running = 0
  BY <1>1 DEF LoadMore, Waits, Busy, SessionState
<1>4. ss.inFlight = NoItem /\ NoneIn(a, Giving) /\ NoneIn(a, Reading)
  <2>1. ss.inFlight = NoItem /\ NoneIn(a, Giving)
    BY <1>1, <1>3, IdleIsHandedNone
  <2> QED
    BY <2>1, HandsOrCloses DEF NoneIn
<1>5. PICK n \in DOMAIN ss.tabs :
        /\ ss.tabs[n].truncated /\ ss.cursor = ss.tabs[n].number
        /\ EnqueueOn(s, <<Wanted(ss.tabs[n].sql, "more", ss.tabs[n].number)>>)
  BY DEF LoadMore
<1> DEFINE tab == ss.tabs[n]
           item == Wanted(tab.sql, "more", tab.number)
           placed == [item EXCEPT !.job = JobId(1)]
<1>6. tab.sql = "select" /\ tab.number \in Nat
  BY <1>1, <1>2, <1>5 DEF TabFits, IsOwn, SessionState, Tab
<1>7. item.sql = "select" /\ item.how = "more" /\ item.tab = tab.number
  BY <1>6 DEF Wanted
<1>8. placed.how = "more" /\ placed.tab = tab.number
  BY <1>6 DEF Wanted
<1> HIDE DEF item, placed
<1>9. b = Pumped(Queues(s, ss, <<item>>)) /\ \A t \in Sessions \ {s} : session'[t] = session[t]
  <2>1. ~Asks(s, <<item>>)
    <3>1. \A i \in DOMAIN <<item>> : <<item>>[i] = item
      OBVIOUS
    <3> QED
      BY <1>7, <3>1 DEF Asks, ReadOnly
  <2>2. Pump(s, Queues(s, ss, <<item>>), Enqueued(s, <<item>>))
    BY <1>5, <2>1 DEF EnqueueOn, Queue, Queues, item
  <2> DEFINE after == Pumped(Queues(s, ss, <<item>>))
  <2>3. session' = [session EXCEPT ![s] = after]
    BY <2>2 DEF Pump
  <2> HIDE DEF after
  <2>4. b = after /\ \A t \in Sessions \ {s} : session'[t] = session[t]
    BY <1>1, <2>3
  <2> QED
    BY <2>4 DEF after
<1>10. /\ b.inFlight = placed /\ b.queue = <<>> /\ b.held = ss.held
       /\ b.tabs = ss.tabs /\ b.tabsMade = ss.tabsMade /\ b.cursor = ss.cursor
  <2> DEFINE q == Queues(s, ss, <<item>>)
             r == Numbered(<<item>>)
  <2>1. r = <<placed>>
    <3>1. \A i \in DOMAIN <<item>> : i = 1 /\ <<item>>[i] = item
      OBVIOUS
    <3>2. r = [i \in 1..1 |-> placed]
      BY <3>1 DEF Numbered, placed
    <3> QED
      BY <3>2
  <2>2. ~Closes(<<item>>)
    BY <1>7 DEF Closes
  <2>3. /\ q.queue = <<>> \o r /\ q.inFlight = NoItem /\ q.held = ss.held
        /\ q.tabs = ss.tabs /\ q.tabsMade = ss.tabsMade /\ q.cursor = ss.cursor
    BY <1>1, <1>3, <1>4, <2>2 DEF Queues, Behind, SessionState
  <2>4. q.queue = <<placed>>
    <3>1. <<>> \o <<placed>> = <<placed>>
      OBVIOUS
    <3> QED
      BY <2>1, <2>3, <3>1
  <2>5. q \in SessionState
    <3>1. <<item>> \in Seq(Item)
      BY <1>6, WantedTyped DEF item, Hows, Statements
    <3> QED
      BY <1>1, <3>1, QueuesTyped
  <2> HIDE DEF q, r
  <2>6. Head(q.queue) = placed /\ Tail(q.queue) = <<>> /\ q.queue # <<>>
    BY <2>4
  <2>7. Pumped(q) = [q EXCEPT !.inFlight = Head(q.queue), !.queue = Tail(q.queue), !.running = q.running + 1,
                              !.txChanges = Append(q.txChanges, ChangeOf(Head(q.queue)))]
    BY <2>3, <2>6 DEF Pumped, Sends
  <2>8. /\ Pumped(q).inFlight = Head(q.queue) /\ Pumped(q).queue = Tail(q.queue) /\ Pumped(q).held = q.held
        /\ Pumped(q).tabs = q.tabs /\ Pumped(q).tabsMade = q.tabsMade /\ Pumped(q).cursor = q.cursor
    BY <2>5, <2>7 DEF SessionState
  <2> QED
    BY <1>9, <2>3, <2>6, <2>8 DEF q
<1> HIDE DEF ss, a, st, b
<1>11. Placing(b) /\ OffersHold(b, a, st)
  <2>1. Plain(<<>>)
    BY DEF Plain
  <2>2. \A i \in DOMAIN a : a[i] \notin Offering
    BY <1>4, HandsOrCloses DEF NoneIn
  <2> QED
    BY <1>2, <1>5, <1>8, <1>10, <2>1, <2>2 DEF Placing, OffersHold, tab
<1>12. ASSUME NEW i \in DOMAIN b.tabs PROVE TabFits(b, b.tabs[i], a, st)
  <2> DEFINE t == b.tabs[i]
  <2>1. TabFits(ss, t, a, st)
    BY <1>2, <1>10, <1>12
  <2>2. IsOwn(b, t)
    BY <1>10, <2>1 DEF TabFits, IsOwn
  <2>3. t.number = b.cursor => Offered(t, a, st)
    BY <1>4, <1>10, <2>1 DEF TabFits
  <2>4. ASSUME LoadsOn(b, t) PROVE t.sql = "select" /\ Awaits(t, a, st)
    <3>1. Offered(t, a, st)
      BY <1>5, <1>8, <1>10, <2>3, <2>4 DEF LoadsOn, tab
    <3>2. t.sql = "select"
      BY <2>1, <3>1 DEF TabFits, IsOwn, Offered
    <3>3. ~NoneIn(a, Closing) => Gone(a)
      BY <1>4 DEF NoneIn, Gone, Latched
    <3>4. Gone(a) => st = NoStream
      BY <1>2 DEF Streaming
    <3> QED
      BY <3>1, <3>2, <3>3, <3>4 DEF Offered, Awaits
  <2>5. \A j \in DOMAIN a : a[j] \notin Reading
    BY <1>4 DEF NoneIn
  <2> HIDE DEF t
  <2>6. TabFits(b, t, a, st)
    BY <2>2, <2>3, <2>4, <2>5 DEF TabFits
  <2> QED
    BY <2>6 DEF t
<1>13. TabsFit(session'[s], Unheard(s), stream[s])
  BY <1>11, <1>12 DEF TabsFit, b, a, st
<1> QED
  BY <1>1, <1>9, <1>13, AsItWas, AppTabs

\* All that the user does keeps every session's tabs fit.
LEMMA ActsTabs ==
  ASSUME Patient = TRUE, Typed, Agreed, Answering, AllAlive, TabInv, NEW s \in Sessions, UserActs(s)
  PROVE  TabInv'
<1> DEFINE ss == session[s]
           Apart == UNCHANGED <<current, early, stream, answers>>
<1>0. /\ ss \in SessionState /\ session \in [Sessions -> SessionState]
      /\ s \in Live => Plain(ss.queue) /\ Plain(ss.held)
  BY DEF Typed, TypeOK, TabInv, TabsFit, Placing
<1>1. CASE Run(s) \/ FetchAll(s) \/ ExportAll(s) \/ Release(s)
  BY <1>1, RunsTabs
<1>2. CASE LoadMore(s)
  BY <1>2, LoadMoreTabs
<1>3. ASSUME ~(Run(s) \/ LoadMore(s) \/ FetchAll(s) \/ ExportAll(s) \/ Release(s))
      PROVE  Apart
  BY <1>3 DEF UserActs, AskToFetchAll, CancelRunning, DropQueued, ToggleAutocommit, LoadSchema, ExportFetched,
     Reconnect, OpenSession, CloseOrConfirm, CloseConfirmed, Acts, User, untouchedByUser
<1>4. ASSUME Apart, session' = session PROVE TabInv'
  BY <1>4, AsItWas, AppTabs
<1>5. ASSUME Apart, NEW b, session' = [session EXCEPT ![s] = b],
             \/ b.status = "closed"
             \/ /\ s \in Live /\ SameTabs(ss, b) /\ b.inFlight = ss.inFlight /\ Plain(b.queue) /\ Plain(b.held)
             \/ ss.status = "unused" /\ \E prod : b = Fresh("connecting", prod)
      PROVE  TabInv'
  <2>1. session'[s] = b /\ \A t \in Sessions \ {s} : session'[t] = session[t]
    BY <1>0, <1>5
  <2>2. Rests(s)
    BY <1>5, <2>1 DEF Rests, Live
  <2> QED
    BY <1>5, <2>1, <2>2, AsItWas, AppTabs
<1>6. CASE AskToFetchAll(s) \/ ToggleAutocommit(s) \/ LoadSchema(s) \/ ExportFetched(s)
  <2>1. Apart /\ session' = session
    BY <1>6 DEF AskToFetchAll, ToggleAutocommit, LoadSchema, ExportFetched, Acts, User, untouchedByUser
  <2> QED
    BY <1>4, <2>1
<1>7. CASE CancelRunning(s) \/ DropQueued(s)
  <2>1. Apart /\ s \in Live
    BY <1>7 DEF CancelRunning, DropQueued, Acts, User, untouchedByUser
  <2>2. ASSUME NEW q, Plain(q), session' = [session EXCEPT ![s] = [ss EXCEPT !.queue = q]] PROVE TabInv'
    <3> DEFINE b == [ss EXCEPT !.queue = q]
    <3>1. /\ b.inFlight = ss.inFlight /\ b.queue = q /\ b.held = ss.held
          /\ b.tabs = ss.tabs /\ b.tabsMade = ss.tabsMade /\ b.cursor = ss.cursor
      BY <1>0 DEF SessionState
    <3>2. session' = [session EXCEPT ![s] = b]
      BY <2>2
    <3> HIDE DEF b, ss
    <3> QED
      BY <1>0, <1>5, <2>1, <2>2, <3>1, <3>2 DEF SameTabs
  <2>3. Plain(<<>>) /\ \A id : Plain(Without(ss.queue, id))
    <3>1. ss.queue \in Seq(Item)
      BY <1>0 DEF SessionState
    <3>2. Plain(ss.queue)
      BY <1>0, <2>1
    <3>3. Plain(<<>>)
      BY DEF Plain
    <3>4. ASSUME NEW id PROVE Plain(Without(ss.queue, id))
      <4> HIDE DEF ss
      <4> QED
        BY <3>1, <3>2, PlainWithout
    <3> QED
      BY <3>3, <3>4
  <2>4. CASE CancelRunning(s)
    BY <2>2, <2>3, <2>4 DEF CancelRunning, Dropped
  <2>5. CASE DropQueued(s)
    <3>1. \E id : session' = [session EXCEPT ![s] = [ss EXCEPT !.queue = Without(ss.queue, id)]]
      BY <2>5 DEF DropQueued
    <3> QED
      BY <2>2, <2>3, <3>1
  <2> QED
    BY <1>7, <2>4, <2>5
<1>8. CASE Reconnect(s)
  <2>1. Apart /\ s \in Live
    BY <1>8 DEF Reconnect, Acts, User, untouchedByUser
  <2>2. PICK prod \in BOOLEAN : session' = [session EXCEPT ![s] =
          [ss EXCEPT !.status = "connecting", !.prod = prod, !.inTx = FALSE,
                     !.autocommit = TRUE, !.cursor = 0, !.cursorKept = FALSE]]
    BY <1>8 DEF Reconnect
  <2> DEFINE b == [ss EXCEPT !.status = "connecting", !.prod = prod, !.inTx = FALSE,
                             !.autocommit = TRUE, !.cursor = 0, !.cursorKept = FALSE]
  <2>3. /\ b.inFlight = ss.inFlight /\ b.queue = ss.queue /\ b.held = ss.held
        /\ b.tabs = ss.tabs /\ b.tabsMade = ss.tabsMade /\ b.cursor = 0
    BY <1>0 DEF SessionState
  <2>4. session' = [session EXCEPT ![s] = b]
    BY <2>2
  <2> HIDE DEF b, ss
  <2> QED
    BY <1>0, <1>5, <2>1, <2>3, <2>4 DEF SameTabs
<1>9. CASE OpenSession(s)
  <2>1. Apart /\ ss.status = "unused"
    BY <1>9 DEF OpenSession, User, untouchedByUser, NextId, Unused
  <2>2. PICK prod \in BOOLEAN : session' = [session EXCEPT ![s] = Fresh("connecting", prod)]
    BY <1>9 DEF OpenSession
  <2> DEFINE b == Fresh("connecting", prod)
  <2>3. session' = [session EXCEPT ![s] = b] /\ \E new : b = Fresh("connecting", new)
    BY <2>2
  <2> HIDE DEF b, ss
  <2> QED
    BY <1>5, <2>1, <2>3
<1>10. CASE CloseOrConfirm(s) \/ CloseConfirmed(s)
  <2>1. Apart
    BY <1>10 DEF CloseOrConfirm, CloseConfirmed, Acts, User, untouchedByUser
  <2>2. CASE Close(s)
    <3> DEFINE gone == Fresh("closed", FALSE)
               f == Fresh("connecting", FALSE)
    <3>1. gone.status = "closed"
      BY DEF Fresh
    <3>2. \/ session' = [session EXCEPT ![s] = gone]
          \/ \E new \in Sessions : NextId(new) /\ session' = [session EXCEPT ![s] = gone, ![new] = f]
      BY <2>2 DEF Close
    <3>3. \E prod : f = Fresh("connecting", prod)
      OBVIOUS
    <3> HIDE DEF gone, f, ss
    <3>4. CASE session' = [session EXCEPT ![s] = gone]
      BY <1>5, <2>1, <3>1, <3>4
    <3>5. ASSUME NEW new \in Sessions, NextId(new), session' = [session EXCEPT ![s] = gone, ![new] = f]
          PROVE  TabInv'
      <4>1. session[new].status = "unused"
        BY <3>5 DEF NextId, Unused
      <4>2. /\ session'[new] = f
            /\ \A t \in Sessions \ {new} : session'[t] = IF t = s THEN gone ELSE session[t]
        BY <1>0, <3>5
      <4>3. Rests(new)
        BY <3>3, <4>1, <4>2 DEF Rests
      <4>4. ASSUME NEW t \in Sessions \ {new} PROVE Rests(t)
        <5>1. CASE t = s
          BY <3>1, <4>2, <5>1 DEF Rests, Live
        <5>2. CASE t # s
          BY <4>2, <5>2, AsItWas
        <5> QED
          BY <5>1, <5>2
      <4> QED
        BY <2>1, <4>3, <4>4, AppTabs
    <3> QED
      BY <3>2, <3>4, <3>5
  <2>3. CASE ~Close(s)
    <3>1. session' = session
      BY <1>10, <2>3 DEF CloseOrConfirm, CloseConfirmed
    <3> QED
      BY <1>4, <2>1, <3>1
  <2> QED
    BY <2>2, <2>3
<1> QED
  BY <1>1, <1>2, <1>6, <1>7, <1>8, <1>9, <1>10 DEF UserActs

\* A session that holds no run any more is otherwise as it was.
LEMMA NothingHeldRests ==
  ASSUME Typed, TabInv, NEW s \in Sessions, session'[s] = NothingHeld[s]
  PROVE  Rests(s)
<1> DEFINE ss == session[s]
           b == [ss EXCEPT !.held = <<>>]
<1>1. ss \in SessionState /\ session'[s] = b
  BY DEF Typed, TypeOK, NothingHeld
<1>2. /\ b.inFlight = ss.inFlight /\ b.queue = ss.queue /\ b.held = <<>> /\ b.status = ss.status
      /\ b.tabs = ss.tabs /\ b.tabsMade = ss.tabsMade /\ b.cursor = ss.cursor
  BY <1>1 DEF SessionState
<1> HIDE DEF b
<1>3. s \in Live' => s \in Live
  BY <1>1, <1>2 DEF Live
<1>4. s \in Live => Plain(ss.queue)
  BY DEF TabInv, TabsFit, Placing
<1> QED
  BY <1>1, <1>2, <1>3, <1>4 DEF Rests, SameTabs, Plain

\* Rolling back closes the streams of the sessions that do, and their tabs load on
\* no more.
LEMMA QuitTabs ==
  ASSUME Typed, Agreed, Answering, AllAlive, TabInv, QuitRollingBack
  PROVE  TabInv'
<1> DEFINE who == dialog.who
<1>1. /\ who \subseteq Live /\ who \in SUBSET Sessions /\ session \in [Sessions -> SessionState]
      /\ UNCHANGED <<current, early, stream, answers>>
  BY DEF Agreed, Typed, TypeOK, Dialogs, QuitRollingBack, User, untouchedByUser
<1>2. \A t \in Sessions : session'[t] = IF t \in who THEN Pumped(RollingBack(t)) ELSE NothingHeld[t]
  BY DEF QuitRollingBack
<1>3. ASSUME NEW t \in who PROVE TabsFit(session'[t], Unheard(t), stream[t])
  <2> DEFINE back == RollingBack(t)
             ss == session[t]
             item == Rollback(t)
  <2>1. back \in SessionState /\ ss \in SessionState /\ t \in Sessions /\ t \in Live /\ item \in Item
    BY <1>1, RollingBackTyped, RollbackItem
  <2>2. item.how # "more"
    BY DEF Rollback, Wanted
  <2>3. /\ back.inFlight = ss.inFlight /\ back.queue = ss.queue \o <<item>> /\ back.held = <<>>
        /\ back.tabs = ss.tabs /\ back.tabsMade = ss.tabsMade /\ back.cursor = 0
    BY <2>1 DEF RollingBack, Behind, SessionState
  <2>4. TabsFit(ss, Unheard(t), stream[t]) /\ ss.queue \in Seq(Item) /\ ss.tabsMade \in Nat
    BY <2>1 DEF TabInv, SessionState
  <2>5. session'[t] = Pumped(back)
    BY <1>2, <2>1
  <2>6. ss.inFlight = NoItem => NoneIn(Unheard(t), Giving)
    BY <2>1, IdleIsHandedNone
  <2> HIDE DEF item, back, ss
  <2>7. <<item>> \in Seq(Item) /\ Plain(<<item>>) /\ Plain(<<>>) /\ Plain(ss.queue)
    BY <2>1, <2>2, <2>4 DEF Plain, TabsFit, Placing
  <2>8. Plain(back.queue) /\ Plain(back.held)
    BY <2>3, <2>4, <2>7, PlainJoined
  <2>9. TabsFit(back, Unheard(t), stream[t])
    BY <2>3, <2>4, <2>8, TabsStay DEF SameTabs
  <2> QED
    BY <2>1, <2>3, <2>5, <2>6, <2>9, TabsPumped
<1>4. \A t \in Sessions \ who : Rests(t)
  BY <1>2, NothingHeldRests
<1> QED
  BY <1>1, <1>3, <1>4, AppTabs

-----------------------------------------------------------------------------
(* Every step. *)

\* The first state.
LEMMA InitTabs == Init => TabInv /\ Sendable
<1> SUFFICES ASSUME Init, NEW s \in Sessions
             PROVE  /\ Streaming(current[s], early[s], Unheard(s), stream[s])
                    /\ TabsFit(session[s], Unheard(s), stream[s])
                    /\ \A i \in DOMAIN cmds[s] : cmds[s][i].type # "none"
  BY DEF TabInv, Sendable
<1>1. /\ current[s] = NoCommand /\ early[s] = <<>> /\ answers[s] = <<>> /\ stream[s] = NoStream /\ cmds[s] = <<>>
      /\ \E status, prod : session[s] = Fresh(status, prod)
  BY DEF Init, WorkerInit
<1>2. Unheard(s) = <<>>
  BY <1>1 DEF Unheard
<1>3. Streaming(current[s], early[s], Unheard(s), stream[s])
  BY <1>1, <1>2 DEF Streaming
<1> QED
  BY <1>1, <1>2, <1>3, FreshTabs

\* The step.
LEMMA NextTabs ==
  ASSUME Patient = TRUE, Panics = FALSE
  PROVE  Typed /\ Agreed /\ Answering /\ AllAlive /\ Sendable /\ TabInv /\ [Next]_vars => TabInv'
<1> SUFFICES ASSUME Typed, Agreed, Answering, AllAlive, Sendable, TabInv, [Next]_vars
             PROVE  TabInv'
  OBVIOUS
<1>1. CASE UNCHANGED vars \/ CancelArrives \/ Quit
  <2>1. UNCHANGED <<session, current, early, stream, answers>>
    BY <1>1 DEF vars, workerVars, appVars, CancelArrives, CancelFires, Quit, User, untouchedByUser
  <2> QED
    BY <2>1, AsItWas, AppTabs
<1>2. CASE Dismiss
  <2>1. session' = NothingHeld /\ UNCHANGED <<current, early, stream, answers>>
    BY <1>2 DEF Dismiss, User, untouchedByUser
  <2> QED
    BY <2>1, NothingHeldRests, AppTabs
<1>3. ASSUME NEW s \in Sessions, WorkerStopped(s) PROVE FALSE
  BY <1>3 DEF WorkerStopped, Answering, Aside, AllAlive
<1>4. ASSUME NEW s \in Sessions, UserActs(s) \/ Hear(s) \/ Work(s) PROVE TabInv'
  BY <1>4, ActsTabs, HearTabs, WorkTabs
<1> QED
  BY <1>1, <1>2, <1>3, <1>4, QuitTabs DEF Next

\* What the invariant says of the tabs, and, with nothing on its way, of the stream.
LEMMA FitTabsAreRight == TabInv => TabsShowTheirOwnRows /\ OfferedStreamIsKept
<1> SUFFICES ASSUME TabInv PROVE TabsShowTheirOwnRows /\ OfferedStreamIsKept
  OBVIOUS
<1>1. ASSUME NEW s \in Live, NEW i \in DOMAIN session[s].tabs
      PROVE  TabFits(session[s], session[s].tabs[i], Unheard(s), stream[s])
  BY <1>1 DEF TabInv, TabsFit, Live
<1>2. TabsShowTheirOwnRows
  BY <1>1 DEF TabsShowTheirOwnRows, TabFits, IsOwn
<1>3. ASSUME NEW s \in Sessions, Quiet(s), NEW i \in DOMAIN session[s].tabs,
             session[s].tabs[i].number = session[s].cursor
      PROVE  LET tab == session[s].tabs[i]
             IN  tab.truncated /\ stream[s] = [job |-> tab.job, read |-> Len(tab.rows)]
  <2>1. s \in Live /\ Unheard(s) = <<>>
    <3>1. s \in Live /\ answers[s] = <<>> /\ current[s] = NoCommand
      BY <1>3 DEF Quiet
    <3>2. early[s] = <<>>
      BY <3>1 DEF TabInv, Streaming
    <3> QED
      BY <3>1, <3>2 DEF Unheard
  <2>2. NoneIn(<<>>, Reading) /\ NoneIn(<<>>, Closing)
    BY DEF NoneIn
  <2>3. Offered(session[s].tabs[i], <<>>, stream[s])
    BY <1>1, <1>3, <2>1, <2>2 DEF TabFits
  <2> QED
    BY <2>2, <2>3 DEF Offered, StandsAt
<1>4. OfferedStreamIsKept
  BY <1>3 DEF OfferedStreamIsKept
<1> QED
  BY <1>2, <1>4

\* Where no worker dies and nothing more is run on a busy session, the tabs and
\* the streams fit.
LEMMA TabsAlwaysFit ==
  ASSUME Patient = TRUE, Panics = FALSE
  PROVE  Spec => []TabInv
<1> DEFINE I == Typed /\ Agreed /\ Answering /\ AllAlive /\ Sendable /\ TabInv
<1>1. Init => AllAlive
  BY DEF Init, WorkerInit, AllAlive
<1>2. Init => I
  BY <1>1, InitTyped, InitAgreed, InitAnswering, InitTabs
<1>3. I /\ [Next]_vars => I'
  BY NextTyped, NextAgreed, NextAnswering, NoneDies, NextSends, NextTabs
<1> QED
  BY <1>2, <1>3, PTL DEF Spec

\* There every tab shows its own statement's rows from the first on, without a gap,
\* through loads, cancels, drops, runs that close its stream and sessions that
\* connect again (reducer/run.rs, `more_rows`; db.rs, `fetch_more`): whatever is
\* answered late is about the tab it is added to.
THEOREM TabsStayTheirOwn ==
  ASSUME Patient = TRUE, Panics = FALSE
  PROVE  Spec => []TabsShowTheirOwnRows
BY TabsAlwaysFit, FitTabsAreRight, PTL

\* There, once nothing is on its way, a tab that offers to load on (`cursor` in
\* app/state.rs) has its stream kept by the worker (`Cursor` in db.rs): the one
\* that stands right after its last row.
THEOREM OffersStayKept ==
  ASSUME Patient = TRUE, Panics = FALSE
  PROVE  Spec => []OfferedStreamIsKept
BY TabsAlwaysFit, FitTabsAreRight, PTL

=============================================================================
