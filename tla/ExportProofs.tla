---------------------------- MODULE ExportProofs ----------------------------
(***************************************************************************)
(* Every target of an export holds what was there or a whole export, and   *)
(* is replaced only if the user agreed to replace that very file: for any  *)
(* sessions, paths, formats, number of batches and results, whatever fails *)
(* or is killed on the way.                                                *)
(*                                                                         *)
(* Neither is inductive by itself.  A file is whole because its writer     *)
(* takes all that was streamed, of a query that ended well, into a         *)
(* temporary file that is its own: so the exports on their way must differ *)
(* in their numbers.  And a file that stood where an export without leave  *)
(* goes was gone when the worker looked, and is none that comes later: so  *)
(* the numbers of files, too, are none to be given out again.              *)
(***************************************************************************)
EXTENDS Export, TLAPS

FileSet == {Nothing} \cup [of : Int, batches : {Batches}]
JobSet ==
  [n : Nat, fetched : BOOLEAN, target : Targets, overwrite : BOOLEAN, stood : FileSet,
   said : Targets \cup {""}, misled : BOOLEAN]
AnswerSet == [type : {"exported", "failed", "exists"}, fetched : BOOLEAN, target : Targets]
TempSet == [of : Nat, batches : Nat, abandoned : BOOLEAN]
WriterSet ==
  {NoWriter} \cup
  [step : {"creates", "writes", "renames"}, job : JobSet, taken : 0..Batches, streamed : 0..Batches,
   query : {"running", "ok", "failed"}]

\* A form that may replace a file is about the file that the user agreed to.
FormOk(f) ==
  /\ DOMAIN f = {"input", "format", "scope", "sql", "probe", "asked", "overwrite", "rerun",
                 "pending", "said", "misled"}
  /\ f.input \in Inputs \cup {""} /\ f.format \in Formats
  /\ f.overwrite \in BOOLEAN /\ f.misled \in BOOLEAN /\ f.said \in Targets \cup {""}
  /\ f.overwrite => f.misled \/ f.said = Target(f)

ModalOk(m) ==
  \/ m = NoModal
  \/ m = Modal("form", m.form) /\ FormOk(m.form)
  \/ m = AskToRunAgain(m.form) /\ FormOk(m.form)
  \/ /\ m = AskToReplace(m.form, m.about) /\ FormOk(m.form) /\ m.about \in Targets
     /\ m.form.misled \/ m.about = Target(m.form)

Left == expLeft.left

Typed ==
  /\ expLeft = [may |-> expLeft.may, left |-> Left, results |-> expLeft.results] /\ Left \in Nat
  /\ inbox \in [ExpSessions -> Seq(JobSet)] /\ outbox \in [ExpSessions -> Seq(AnswerSet)]
  /\ writer \in [ExpSessions -> WriterSet]
  /\ files \in [Targets -> FileSet] /\ temps \in SUBSET TempSet

\* A writer takes what is streamed, and is done when that is all.
WriterOk(w) ==
  w # NoWriter =>
    /\ w.taken <= w.streamed
    /\ w.query = "ok" => w.streamed = Batches
    /\ w.step = "renames" => w.taken = Batches

HasTemp(w) == w.step \in {"writes", "renames"}
IsTempOf(t, n) == t.of = n /\ ~t.abandoned

\* A temporary file is its writer's, and a writer's is one.
TempsOk ==
  /\ \A t \in temps : ~t.abandoned =>
       \E s \in ExpSessions : HasTemp(writer[s]) /\ writer[s].job.n = t.of
  /\ \A s \in ExpSessions : HasTemp(writer[s]) =>
       \E u \in temps : /\ IsTempOf(u, writer[s].job.n)
                        /\ \A t \in temps : IsTempOf(t, writer[s].job.n) => t = u
                        /\ writer[s].step = "renames" => u.batches = Batches

\* The exports on their way and at work.
Queued == {j \in JobSet : \E s \in ExpSessions : \E i \in DOMAIN inbox[s] : j = inbox[s][i]}
AtWork == {j \in JobSet : \E s \in ExpSessions : writer[s] # NoWriter /\ j = writer[s].job}
LiveJobs == Queued \cup AtWork

\* No two of them have one number.
Apart ==
  /\ \A s, t \in ExpSessions :
       writer[s] # NoWriter /\ writer[t] # NoWriter /\ writer[s].job.n = writer[t].job.n => s = t
  /\ \A s, t \in ExpSessions : \A i \in DOMAIN inbox[t] :
       writer[s] # NoWriter => writer[s].job.n # inbox[t][i].n
  /\ \A s, t \in ExpSessions : \A i \in DOMAIN inbox[s], j \in DOMAIN inbox[t] :
       inbox[s][i].n = inbox[t][j].n => s = t /\ i = j

\* A file's number is none that will be given out.
Beyond(n) == n = 0 \/ n > Left \/ 0 - n > Left

JobOk(j) ==
  /\ j.n > Left /\ Beyond(j.stood.of)
  /\ j.overwrite => j.misled \/ j.said = j.target

Numbers ==
  /\ \A j \in LiveJobs : JobOk(j)
  /\ \A t \in Targets : Beyond(files[t].of)
  /\ \A j \in LiveJobs : \A t \in Targets : files[t].of # j.n
  /\ \A j, k \in LiveJobs : j.stood.of # k.n

\* What stood where an export without leave goes is gone for good.
Spared ==
  \A s \in ExpSessions : writer[s] # NoWriter /\ ~writer[s].job.overwrite =>
    LET job == writer[s].job
    IN  files[job.target] # job.stood \/ job.stood = Nothing

\* The inductive invariant.
Exporting ==
  /\ Typed /\ ModalOk(modal) /\ (\A s \in ExpSessions : WriterOk(writer[s]))
  /\ TempsOk /\ Apart /\ Numbers /\ Spared

-----------------------------------------------------------------------------
(* The dialog *)

\* A form that opens, is changed, or is looked up, is still about its file.
LEMMA NewFormOk == ASSUME NEW sql PROVE FormOk(NewForm(sql))
BY FormatsAssumption DEF NewForm, FormOk

LEMMA ProbedOk ==
  ASSUME NEW f, FormOk(f)
  PROVE  FormOk(Probed(f).form)
<1> DEFINE g == IF f.input # "" /\ f.asked # <<f.input, f.format>> THEN <<f.input, f.format>> ELSE f.asked
<1>1. Probed(f).form = [f EXCEPT !.asked = g]
  BY DEF Probed
<1> HIDE DEF g
<1> QED
  BY <1>1 DEF FormOk, Target

\* Changed, it may replace nothing, unless its path and format stay.
LEMMA ChangeOk ==
  ASSUME NEW f, FormOk(f), NEW i \in Inputs \cup {""}, NEW t \in Formats, NEW sc
  PROVE  /\ FormOk(AfterChange([f EXCEPT !.input = i], f))
         /\ FormOk(AfterChange([f EXCEPT !.format = t], f))
         /\ FormOk(AfterChange([f EXCEPT !.scope = sc], f))
BY DEF AfterChange, FormOk, Target

\* The form that shows.
LEMMA ShowOk ==
  ASSUME NEW f, FormOk(f), Show(f)
  PROVE  ModalOk(modal')
<1> DEFINE g == Probed(f).form
<1>1. modal' = Modal("form", g) /\ FormOk(g)
  BY ProbedOk DEF Show
<1> HIDE DEF g
<1> QED
  BY <1>1 DEF ModalOk, Modal

\* What a form may do is not touched by what it waits for, what is known of its
\* file, or what was agreed about running again.
LEMMA MarksOk ==
  ASSUME NEW f, FormOk(f), NEW x
  PROVE  /\ FormOk([f EXCEPT !.pending = x]) /\ FormOk([f EXCEPT !.rerun = x])
         /\ FormOk([f EXCEPT !.probe = x])
         /\ Target([f EXCEPT !.pending = x]) = Target(f)
BY DEF FormOk, Target

\* An answer about another file misleads, one about the form's own does not.
LEMMA MisledOk ==
  ASSUME NEW f, FormOk(f), NEW target
  PROVE  LET g == [f EXCEPT !.misled = @ \/ target # Target(f)]
         IN  FormOk(g) /\ (g.misled \/ target = Target(g))
<1> DEFINE m == f.misled \/ target # Target(f)
           g == [f EXCEPT !.misled = m]
<1>1. m \in BOOLEAN /\ (m \/ target = Target(f)) /\ (f.misled => m)
  BY DEF FormOk
<1> HIDE DEF m
<1>2. FormOk(g) /\ g.misled = m /\ Target(g) = Target(f)
  BY <1>1 DEF FormOk, Target
<1> QED
  BY <1>1, <1>2 DEF m

\* A form with a path names one of the targets.
LEMMA TargetOk ==
  ASSUME NEW f, FormOk(f), f.input # ""
  PROVE  Target(f) \in Targets
<1>1. f.input \in Inputs \ {""} /\ f.format \in Formats
  BY DEF FormOk
<1> DEFINE p == <<f.input, f.format>>
<1>2. p \in (Inputs \ {""}) \X Formats /\ p[1] = f.input /\ p[2] = f.format
  BY <1>1
<1> HIDE DEF p
<1>3. FileOf(p[1], p[2]) \in Targets
  BY <1>2 DEF Targets
<1> QED
  BY <1>2, <1>3 DEF Target

\* The question that comes before a form may replace a file is about its file.
LEMMA AskOk ==
  ASSUME NEW f, FormOk(f), ~f.overwrite, f.input # ""
  PROVE  ModalOk(AskToReplace([f EXCEPT !.misled = FALSE], Target(f)))
<1> DEFINE g == [f EXCEPT !.misled = FALSE]
           m == AskToReplace(g, Target(f))
<1>1. FormOk(g) /\ Target(g) = Target(f)
  BY DEF FormOk, Target
<1>2. Target(f) \in Targets
  BY TargetOk
<1> HIDE DEF g
<1>3. m = AskToReplace(m.form, m.about) /\ m.form = g /\ m.about = Target(f)
  BY DEF AskToReplace
<1> HIDE DEF m
<1>4. FormOk(m.form) /\ m.about = Target(m.form) /\ m.about \in Targets
  BY <1>1, <1>2, <1>3
<1>5. ModalOk(m)
  BY <1>3, <1>4, Zenon DEF ModalOk
<1> QED
  BY <1>5 DEF m, g

\* Said yes to, a form may replace the file that the question was about.
LEMMA YesOk ==
  ASSUME ModalOk(modal), modal.kind \in {"rerun", "overwrite"}
  PROVE  FormOk(IF modal.kind = "rerun" THEN [modal.form EXCEPT !.rerun = TRUE]
                ELSE [modal.form EXCEPT !.overwrite = TRUE, !.said = modal.about])
<1>1. modal # NoModal /\ FormOk(modal.form)
  BY DEF ModalOk, NoModal, Modal, AskToRunAgain, AskToReplace
<1>2. CASE modal.kind = "rerun"
  BY <1>1, <1>2, MarksOk
<1>3. CASE modal.kind = "overwrite"
  <2>1. modal.about \in Targets /\ (modal.form.misled \/ modal.about = Target(modal.form))
    BY <1>3 DEF ModalOk, NoModal, Modal, AskToRunAgain, AskToReplace
  <2> DEFINE f == modal.form
             t == modal.about
  <2> HIDE DEF f, t
  <2>2. FormOk([f EXCEPT !.overwrite = TRUE, !.said = t])
    BY <1>1, <2>1 DEF FormOk, Target, f, t
  <2> QED
    BY <1>3, <2>2 DEF f, t
<1> QED
  BY <1>2, <1>3

-----------------------------------------------------------------------------
(* What the dialog does to the exports on their way *)

\* A job is asked for by a form, at the time that is its number, with the file
\* that stands there.
Asked(j) ==
  /\ j \in JobSet /\ j.n = Left /\ j.stood = files[j.target]
  /\ j.overwrite => j.misled \/ j.said = j.target

LEMMA JobAsked ==
  ASSUME Typed, NEW s, NEW f, FormOk(f), f.input # "", NEW b \in BOOLEAN
  PROVE  Asked(ExportJob(s, f, b))
<1> DEFINE j == ExportJob(s, f, b)
<1>1. Target(f) \in Targets
  BY TargetOk
<1>2. files[Target(f)] \in FileSet /\ expLeft.left \in Nat
  BY <1>1 DEF Typed, Left
<1>3. j = [n |-> expLeft.left, fetched |-> b, target |-> Target(f), overwrite |-> f.overwrite,
           stood |-> files[Target(f)], said |-> f.said, misled |-> f.misled]
  BY DEF ExportJob
<1>4. /\ f.overwrite \in BOOLEAN /\ f.misled \in BOOLEAN /\ f.said \in Targets \cup {""}
      /\ f.overwrite => f.misled \/ f.said = Target(f)
  BY DEF FormOk
<1> DEFINE t == Target(f)
           st == files[t]
<1> HIDE DEF j, t, st
<1>5. j \in JobSet
  BY <1>1, <1>2, <1>3, <1>4 DEF JobSet, t, st
<1>6. j.n = Left /\ j.target = t /\ j.stood = st /\ j.overwrite = f.overwrite /\ j.said = f.said
      /\ j.misled = f.misled
  BY <1>3 DEF Left, t, st
<1>7. Asked(j)
  BY <1>4, <1>5, <1>6 DEF Asked, t, st
<1> QED
  BY <1>7 DEF j

\* Time goes on: what was none to be given out still is none.
LEMMA Later ==
  ASSUME Left \in Nat, Left' \in Nat, Left' <= Left, NEW n \in Int, Beyond(n)
  PROVE  Beyond(n)'
BY DEF Beyond

LEMMA Quiet ==
  ASSUME Exporting, UNCHANGED <<inbox, outbox, writer, files, temps>>, ModalOk(modal'),
         expLeft' = [may |-> expLeft'.may, left |-> Left', results |-> expLeft'.results],
         Left' \in Nat, Left' <= Left
  PROVE  Exporting'
<1>1. Typed' /\ Left \in Nat /\ \A t \in Targets : files[t] \in FileSet
  BY DEF Exporting, Typed
<1>2. TempsOk' /\ Apart' /\ Spared' /\ (\A s \in ExpSessions : WriterOk(writer[s]))'
  BY DEF Exporting, TempsOk, IsTempOf, Apart, Spared
<1>3. LiveJobs' = LiveJobs /\ \A j \in LiveJobs : j \in JobSet
  BY DEF LiveJobs, Queued, AtWork
<1>4. \A f \in FileSet : f.of \in Int
  BY DEF FileSet, Nothing
<1>5. \A j \in LiveJobs : JobOk(j)'
  <2> SUFFICES ASSUME NEW j \in LiveJobs PROVE JobOk(j)'
    OBVIOUS
  <2>1. j \in JobSet /\ JobOk(j)
    BY <1>3 DEF Exporting, Numbers
  <2>2. j.stood.of \in Int /\ j.n \in Nat
    BY <1>4, <2>1 DEF JobSet
  <2> QED
    BY <1>1, <2>1, <2>2, Later DEF JobOk
<1>6. \A t \in Targets : Beyond(files[t].of)'
  BY <1>1, <1>4, Later DEF Exporting, Numbers
<1>7. Numbers'
  BY <1>3, <1>5, <1>6 DEF Exporting, Numbers
<1> QED
  BY <1>1, <1>2, <1>7 DEF Exporting

\* A job more at the end of a worker's queue.
LEMMA Appended ==
  ASSUME inbox \in [ExpSessions -> Seq(JobSet)], NEW s, NEW x \in JobSet,
         inbox' = [inbox EXCEPT ![s] = Append(inbox[s], x)]
  PROVE  /\ inbox' \in [ExpSessions -> Seq(JobSet)]
         /\ \A t \in ExpSessions : \A i \in DOMAIN inbox'[t] :
              \/ i \in DOMAIN inbox[t] /\ inbox'[t][i] = inbox[t][i]
              \/ t = s /\ i = Len(inbox[t]) + 1 /\ inbox'[t][i] = x
<1> DEFINE D == ExpSessions
           S == JobSet
           q == inbox
           r == inbox'
<1>0. q \in [D -> Seq(S)] /\ r = [q EXCEPT ![s] = Append(@, x)] /\ x \in S
  OBVIOUS
<1> HIDE DEF D, S, q, r
<1>1. ASSUME NEW t \in D
      PROVE  /\ r[t] \in Seq(S)
             /\ \A i \in DOMAIN r[t] :
                  \/ i \in DOMAIN q[t] /\ r[t][i] = q[t][i]
                  \/ t = s /\ i = Len(q[t]) + 1 /\ r[t][i] = x
  <2>1. q[t] \in Seq(S)
    BY <1>0
  <2>2. CASE t = s
    <3>1. r[t] = Append(q[t], x)
      BY <1>0, <2>2
    <3> DEFINE a == q[t]
               b == r[t]
    <3>2. a \in Seq(S) /\ b = Append(a, x)
      BY <1>0, <2>1, <3>1
    <3> HIDE DEF a, b
    <3>3. /\ b \in Seq(S)
          /\ \A i \in DOMAIN b : \/ i \in DOMAIN a /\ b[i] = a[i]
                                 \/ i = Len(a) + 1 /\ b[i] = x
      BY <1>0, <3>2
    <3> QED
      BY <2>2, <3>3 DEF a, b
  <2>3. CASE t # s
    BY <1>0, <2>1, <2>3
  <2> QED
    BY <2>2, <2>3
<1>2. r \in [D -> Seq(S)]
  BY <1>0, <1>1
<1> QED
  BY <1>1, <1>2 DEF D, S, q, r

\* An export is sent: no other has its number, and no file of it is there.
LEMMA JobSent ==
  ASSUME Exporting, NEW s, NEW j, Asked(j), inbox' = [inbox EXCEPT ![s] = Append(@, j)],
         UNCHANGED <<outbox, writer, files, temps>>, ModalOk(modal'),
         expLeft' = [may |-> expLeft'.may, left |-> Left', results |-> expLeft'.results],
         Left > 0, Left' = Left - 1
  PROVE  Exporting'
<1>1. /\ Typed /\ Left \in Nat /\ inbox \in [ExpSessions -> Seq(JobSet)]
      /\ \A t \in Targets : files[t] \in FileSet
      /\ j \in JobSet /\ j.n = Left /\ j.stood = files[j.target] /\ j.target \in Targets
  BY DEF Exporting, Typed, Asked, JobSet
<1>2. /\ inbox' \in [ExpSessions -> Seq(JobSet)]
      /\ \A t \in ExpSessions : \A i \in DOMAIN inbox'[t] :
           \/ i \in DOMAIN inbox[t] /\ inbox'[t][i] = inbox[t][i]
           \/ t = s /\ i = Len(inbox[t]) + 1 /\ inbox'[t][i] = j
  <2>1. inbox \in [ExpSessions -> Seq(JobSet)] /\ j \in JobSet
        /\ inbox' = [inbox EXCEPT ![s] = Append(inbox[s], j)]
    BY <1>1
  <2>2. inbox' \in [ExpSessions -> Seq(JobSet)]
    BY <2>1, Appended
  <2>3. \A t \in ExpSessions : \A i \in DOMAIN inbox'[t] :
           \/ i \in DOMAIN inbox[t] /\ inbox'[t][i] = inbox[t][i]
           \/ t = s /\ i = Len(inbox[t]) + 1 /\ inbox'[t][i] = j
    BY ONLY <2>1, Appended
  <2> QED
    BY <2>2, <2>3
<1>3. Left' \in Nat /\ Left' <= Left /\ Left > Left'
  BY <1>1
<1>4. Typed'
  BY <1>1, <1>2, <1>3 DEF Typed
<1>5. TempsOk' /\ Spared' /\ (\A t \in ExpSessions : WriterOk(writer[t]))'
  BY DEF Exporting, TempsOk, IsTempOf, Spared
<1>6. AtWork' = AtWork /\ \A k \in Queued' : k \in Queued \/ k = j
  BY <1>2 DEF AtWork, Queued
<1>7. \A k \in LiveJobs' : k \in LiveJobs \/ k = j
  BY <1>6 DEF LiveJobs
<1>8. \A k \in LiveJobs : k \in JobSet /\ JobOk(k) /\ k.n # Left
  <2>1. \A k \in LiveJobs : k \in JobSet /\ JobOk(k)
    BY DEF LiveJobs, Queued, AtWork, Exporting, Numbers
  <2> SUFFICES ASSUME NEW k \in LiveJobs PROVE k.n # Left
    BY <2>1
  <2>2. k.n > Left /\ k.n \in Nat
    BY <2>1 DEF JobOk, JobSet
  <2> QED
    BY <1>1, <2>2
<1>9. \A f \in FileSet : f.of \in Int
  BY DEF FileSet, Nothing
<1>10. \A t \in Targets : Beyond(files[t].of) /\ Beyond(files[t].of)' /\ files[t].of # Left
  BY <1>1, <1>3, <1>9, Later DEF Exporting, Numbers, Beyond
<1>11. \A k \in LiveJobs : JobOk(k)' /\ k.stood.of # Left
  <2> SUFFICES ASSUME NEW k \in LiveJobs PROVE JobOk(k)' /\ k.stood.of # Left
    OBVIOUS
  <2>1. k \in JobSet /\ JobOk(k) /\ k.stood.of \in Int /\ k.n \in Nat
    BY <1>8, <1>9 DEF JobSet
  <2>2. Beyond(k.stood.of)' /\ k.stood.of # Left
    BY <1>1, <1>3, <2>1, Later DEF JobOk, Beyond
  <2> QED
    BY <1>1, <1>3, <2>1, <2>2 DEF JobOk
<1>12. JobOk(j)'
  BY <1>1, <1>3, <1>10 DEF JobOk, Asked
<1>13. Numbers'
  <2>1. \A k \in LiveJobs' : JobOk(k)' /\ k.stood.of # Left
    BY <1>1, <1>7, <1>10, <1>11, <1>12
  <2>2. \A k \in LiveJobs' : \A t \in Targets : files[t].of # k.n
    BY <1>1, <1>7, <1>10 DEF Exporting, Numbers
  <2>3. \A k \in LiveJobs : j.stood.of # k.n /\ k.stood.of # j.n
    BY <1>1, <1>11 DEF Exporting, Numbers
  <2>4. \A k, l \in LiveJobs' : k.stood.of # l.n
    BY <1>1, <1>7, <1>10, <2>3 DEF Exporting, Numbers
  <2> QED
    BY <1>10, <2>1, <2>2, <2>4 DEF Numbers
<1>14. Apart'
  <2>1. \A t \in ExpSessions : \A i \in DOMAIN inbox[t] : inbox[t][i] \in LiveJobs
    <3> SUFFICES ASSUME NEW t \in ExpSessions, NEW i \in DOMAIN inbox[t] PROVE inbox[t][i] \in LiveJobs
      OBVIOUS
    <3>1. inbox[t][i] \in JobSet
      BY <1>1
    <3> QED
      BY <3>1 DEF LiveJobs, Queued
  <2>2. \A t \in ExpSessions : writer[t] # NoWriter => writer[t].job \in LiveJobs
    <3> SUFFICES ASSUME NEW t \in ExpSessions, writer[t] # NoWriter PROVE writer[t].job \in LiveJobs
      OBVIOUS
    <3>1. writer[t].job \in JobSet
      BY <1>1 DEF Typed, WriterSet
    <3> QED
      BY <3>1 DEF LiveJobs, AtWork
  <2>3. /\ \A t \in ExpSessions : \A i \in DOMAIN inbox[t] : inbox[t][i].n # j.n
        /\ \A t \in ExpSessions : writer[t] # NoWriter => writer[t].job.n # j.n
    BY <1>1, <1>8, <2>1, <2>2
  <2>4. \A t, u \in ExpSessions : \A i \in DOMAIN inbox'[u] :
          writer[t] # NoWriter => writer[t].job.n # inbox'[u][i].n
    BY <1>2, <2>3 DEF Exporting, Apart
  <2>5. \A t, u \in ExpSessions : \A i \in DOMAIN inbox'[t], k \in DOMAIN inbox'[u] :
          inbox'[t][i].n = inbox'[u][k].n => t = u /\ i = k
    BY <1>2, <2>3 DEF Exporting, Apart
  <2> QED
    BY <2>4, <2>5 DEF Exporting, Apart
<1> QED
  BY <1>4, <1>5, <1>13, <1>14 DEF Exporting

\* What the user does takes one of the times that are left.
LEMMA MayOk ==
  ASSUME Typed, NEW what, ExpMay(what)
  PROVE  /\ expLeft' = [may |-> expLeft'.may, left |-> Left', results |-> expLeft'.results]
         /\ Left \in Nat /\ Left > 0 /\ Left' = Left - 1 /\ Left' \in Nat /\ Left' <= Left
<1> DEFINE n == expLeft.left
           m == n - 1
<1>1. expLeft = [may |-> expLeft.may, left |-> n, results |-> expLeft.results] /\ n \in Nat /\ n > 0
  BY DEF Typed, ExpMay, Left
<1>2. expLeft' = [expLeft EXCEPT !.left = m]
  BY DEF ExpMay
<1>3. m \in Nat /\ m <= n /\ m = n - 1
  BY <1>1
<1> HIDE DEF n, m
<1>4. expLeft' = [may |-> expLeft.may, left |-> m, results |-> expLeft.results]
  BY <1>1, <1>2
<1> QED
  BY <1>1, <1>3, <1>4 DEF Left, n

\* Submitted, a form asks, or sends its export.
LEMMA SubmitKeeps ==
  ASSUME Exporting, NEW f, FormOk(f), NEW what, ExpMay(what), Submit(f),
         UNCHANGED <<outbox, writer, files, temps>>
  PROVE  Exporting'
<1> DEFINE b == f.scope = "fetched"
           j == ExportJob(activeSession, f, b)
<1>1. \/ Show(f) /\ inbox' = inbox
      \/ modal' = AskToRunAgain(f) /\ inbox' = inbox
      \/ f.input # "" /\ ~f.overwrite /\ inbox' = inbox
         /\ modal' = AskToReplace([f EXCEPT !.misled = FALSE], Target(f))
      \/ /\ f.input # "" /\ inbox' = [inbox EXCEPT ![activeSession] = Append(@, j)]
         /\ modal' = NoModal \/ Show([f EXCEPT !.pending = TRUE])
  BY DEF Submit
<1>2. /\ expLeft' = [may |-> expLeft'.may, left |-> Left', results |-> expLeft'.results]
      /\ Left \in Nat /\ Left > 0 /\ Left' = Left - 1 /\ Left' \in Nat /\ Left' <= Left
  BY MayOk DEF Exporting
<1> HIDE DEF j, b
<1>3. CASE Show(f) /\ inbox' = inbox
  <2>1. ModalOk(modal')
    BY <1>3, ShowOk
  <2> QED
    BY <1>2, <1>3, <2>1, Quiet
<1>4. CASE modal' = AskToRunAgain(f) /\ inbox' = inbox
  <2>1. ModalOk(modal')
    BY <1>4 DEF ModalOk, AskToRunAgain
  <2> QED
    BY <1>2, <1>4, <2>1, Quiet
<1>5. CASE f.input # "" /\ ~f.overwrite /\ inbox' = inbox
           /\ modal' = AskToReplace([f EXCEPT !.misled = FALSE], Target(f))
  <2>1. ModalOk(modal')
    BY <1>5, AskOk
  <2> QED
    BY <1>2, <1>5, <2>1, Quiet
<1>6. CASE /\ f.input # "" /\ inbox' = [inbox EXCEPT ![activeSession] = Append(@, j)]
           /\ modal' = NoModal \/ Show([f EXCEPT !.pending = TRUE])
  <2>1. ModalOk(modal')
    <3>1. CASE modal' = NoModal
      BY <3>1 DEF ModalOk
    <3>2. CASE Show([f EXCEPT !.pending = TRUE])
      <4>1. FormOk([f EXCEPT !.pending = TRUE])
        BY MarksOk
      <4> QED
        BY <3>2, <4>1, ShowOk
    <3> QED
      BY <1>6, <3>1, <3>2
  <2>2. Asked(j)
    <3>1. b \in BOOLEAN
      BY DEF b
    <3> QED
      BY <1>6, <3>1, JobAsked DEF Exporting, j
  <2> DEFINE s == activeSession
  <2> HIDE DEF s
  <2>3. inbox' = [inbox EXCEPT ![s] = Append(@, j)]
    BY <1>6 DEF s
  <2> QED
    BY <1>2, <2>1, <2>2, <2>3, JobSent
<1> QED
  BY <1>1, <1>3, <1>4, <1>5, <1>6

\* Whatever the user does in the dialog, a confirm or the palette.
LEMMA DialogKeeps ==
  ASSUME Exporting,
         OpenExport \/ EditField \/ PressEnter \/ SayYes \/ CancelExport \/ Quick \/ SwitchSession
  PROVE  Exporting'
<1>1. ASSUME NEW what, ExpMay(what), UNCHANGED <<inbox, outbox, writer, files, temps>>,
             ModalOk(modal')
      PROVE  Exporting'
  BY <1>1, MayOk, Quiet DEF Exporting
<1>2. ModalOk(modal)
  BY DEF Exporting
<1>3. CASE OpenExport
  <2>1. ModalOk(modal')
    BY <1>3, NewFormOk, ShowOk DEF OpenExport
  <2> QED
    BY <1>1, <1>3, <2>1 DEF OpenExport
<1>4. HasForm => FormOk(modal.form)
  BY <1>2 DEF HasForm, ModalOk, NoModal, Modal, AskToRunAgain, AskToReplace
<1>5. CASE EditField
  <2>1. FormOk(modal.form)
    BY <1>4, <1>5 DEF EditField
  <2> DEFINE f == modal.form
  <2>2. \/ \E i \in Inputs : Show(AfterChange([f EXCEPT !.input = i], f))
        \/ \E t \in Formats : Show(AfterChange([f EXCEPT !.format = t], f))
        \/ \E sc \in {"fetched", "all"} : Show(AfterChange([f EXCEPT !.scope = sc], f))
    BY <1>5 DEF EditField
  <2>3. PICK i \in Inputs \cup {""}, t \in Formats, sc \in {"fetched", "all"} :
          \/ Show(AfterChange([f EXCEPT !.input = i], f))
          \/ Show(AfterChange([f EXCEPT !.format = t], f))
          \/ Show(AfterChange([f EXCEPT !.scope = sc], f))
    BY <2>1, <2>2 DEF FormOk
  <2> HIDE DEF f
  <2>4. FormOk(f)
    BY <2>1 DEF f
  <2>5. \E g : FormOk(g) /\ Show(g)
    <3>1. CASE Show(AfterChange([f EXCEPT !.input = i], f))
      BY <2>4, <3>1, ChangeOk
    <3>2. CASE Show(AfterChange([f EXCEPT !.format = t], f))
      BY <2>4, <3>2, ChangeOk
    <3>3. CASE Show(AfterChange([f EXCEPT !.scope = sc], f))
      BY <2>4, <3>3, ChangeOk
    <3> QED
      BY <2>3, <3>1, <3>2, <3>3
  <2>6. ModalOk(modal')
    BY <2>5, ShowOk
  <2> QED
    BY <1>1, <1>5, <2>6 DEF EditField
<1>6. CASE PressEnter
  <2> DEFINE f == modal.form
  <2>1. FormOk(f) /\ Submit(f)
    BY <1>4, <1>6 DEF PressEnter
  <2> HIDE DEF f
  <2> QED
    BY <1>6, <2>1, SubmitKeeps DEF PressEnter
<1>7. CASE SayYes
  <2> DEFINE f == IF modal.kind = "rerun" THEN [modal.form EXCEPT !.rerun = TRUE]
                  ELSE [modal.form EXCEPT !.overwrite = TRUE, !.said = modal.about]
  <2>1. FormOk(f) /\ Submit(f)
    BY <1>2, <1>7, YesOk DEF SayYes
  <2> HIDE DEF f
  <2> QED
    BY <1>7, <2>1, SubmitKeeps DEF SayYes
<1>8. CASE CancelExport
  <2>1. modal # NoModal => FormOk(modal.form)
    BY <1>2 DEF ModalOk, NoModal, Modal, AskToRunAgain, AskToReplace
  <2>2. modal' = NoModal \/ Show(modal.form)
    BY <1>8 DEF CancelExport
  <2>3. ModalOk(modal')
    BY <1>8, <2>1, <2>2, ShowOk DEF ModalOk, CancelExport
  <2> QED
    BY <1>1, <1>8, <2>3 DEF CancelExport
<1>9. CASE Quick
  <2>1. PICK i \in Inputs \ {""}, t \in Formats :
          LET form == [NewForm(ActiveTab(activeSession)) EXCEPT !.input = i, !.format = t]
          IN  inbox' = [inbox EXCEPT ![activeSession] = Append(@, ExportJob(activeSession, form, TRUE))]
    BY <1>9 DEF Quick
  <2> DEFINE new == NewForm(ActiveTab(activeSession))
             form == [new EXCEPT !.input = i, !.format = t]
             s == activeSession
             j == ExportJob(s, form, TRUE)
  <2>2. FormOk(new) /\ ~new.overwrite
    BY NewFormOk DEF NewForm
  <2> HIDE DEF new
  <2>3. FormOk(form) /\ form.input # ""
    BY <2>2 DEF FormOk
  <2>4. inbox' = [inbox EXCEPT ![s] = Append(@, j)]
    BY <2>1 DEF new
  <2> HIDE DEF form, s
  <2>5. Asked(j)
    BY <2>3, JobAsked DEF Exporting
  <2> HIDE DEF j
  <2>6. /\ expLeft' = [may |-> expLeft'.may, left |-> Left', results |-> expLeft'.results]
        /\ Left \in Nat /\ Left > 0 /\ Left' = Left - 1
    BY <1>9, MayOk DEF Exporting, Quick
  <2>7. UNCHANGED <<outbox, writer, files, temps>> /\ ModalOk(modal')
    BY <1>2, <1>9 DEF Quick
  <2> QED
    BY <2>4, <2>5, <2>6, <2>7, JobSent
<1>10. CASE SwitchSession
  BY <1>1, <1>2, <1>10 DEF SwitchSession
<1> QED
  BY <1>3, <1>5, <1>6, <1>7, <1>8, <1>9, <1>10

-----------------------------------------------------------------------------
(* Answers and results *)

\* What leaves the exports on their way, and the files, alone.
LEMMA OthersKeep ==
  ASSUME Exporting,
         (\E s \in ExpSessions : ResultComes(s)) \/ \E p \in probes : ProbeLooks(p) \/ ProbeAnswered(p)
  PROVE  Exporting'
<1>1. ModalOk(modal) /\ Left \in Nat
      /\ expLeft = [may |-> expLeft.may, left |-> Left, results |-> expLeft.results]
  BY DEF Exporting, Typed
<1>2. CASE \E s \in ExpSessions : ResultComes(s)
  <2> DEFINE rest == Tail(expLeft.results)
             l == Left
  <2>1. expLeft' = [expLeft EXCEPT !.results = rest] /\ UNCHANGED <<inbox, outbox, writer, files, temps, modal>>
    BY <1>2 DEF ResultComes
  <2>2. expLeft = [may |-> expLeft.may, left |-> l, results |-> expLeft.results] /\ l \in Nat
    BY <1>1
  <2> HIDE DEF rest, l
  <2>3. expLeft' = [may |-> expLeft.may, left |-> l, results |-> rest]
    BY <2>1, <2>2
  <2>4. /\ expLeft' = [may |-> expLeft'.may, left |-> Left', results |-> expLeft'.results]
        /\ Left' = l
    BY <2>3 DEF Left
  <2> QED
    BY <1>1, <2>1, <2>2, <2>4, Quiet DEF l
<1>3. ASSUME NEW p \in probes, ProbeLooks(p) \/ ProbeAnswered(p) PROVE Exporting'
  <2>1. UNCHANGED <<inbox, outbox, writer, files, temps, expLeft>>
    BY <1>3 DEF ProbeLooks, ProbeAnswered
  <2>2. \/ modal' = modal
        \/ HasForm /\ \E x : modal' = [modal EXCEPT !.form.probe = x]
    BY <1>3 DEF ProbeLooks, ProbeAnswered
  <2>3. ASSUME NEW x, HasForm, modal' = [modal EXCEPT !.form.probe = x] PROVE ModalOk(modal')
    <3>1. modal = Modal("form", modal.form) /\ FormOk(modal.form)
      BY <1>1, <2>3 DEF HasForm, ModalOk, NoModal, Modal, AskToRunAgain, AskToReplace
    <3> DEFINE f == modal.form
               g == [f EXCEPT !.probe = x]
    <3>2. modal' = Modal("form", g)
      BY <2>3, <3>1 DEF Modal
    <3>3. FormOk(g)
      BY <3>1, MarksOk
    <3> HIDE DEF g
    <3> QED
      BY <3>2, <3>3 DEF ModalOk, Modal
  <2>4. ModalOk(modal')
    BY <1>1, <2>2, <2>3
  <2>5. Left' = Left
    BY <2>1 DEF Left
  <2> QED
    BY <1>1, <2>1, <2>4, <2>5, Quiet
<1> QED
  BY <1>2, <1>3

\* An answer is one of those that may come, at the end or taken from the front.
LEMMA Answered ==
  ASSUME outbox \in [ExpSessions -> Seq(AnswerSet)], NEW s, NEW a \in AnswerSet
  PROVE  /\ [outbox EXCEPT ![s] = Append(outbox[s], a)] \in [ExpSessions -> Seq(AnswerSet)]
         /\ s \in ExpSessions /\ outbox[s] # <<>> =>
              /\ Head(outbox[s]) \in AnswerSet
              /\ [outbox EXCEPT ![s] = Tail(outbox[s])] \in [ExpSessions -> Seq(AnswerSet)]
<1> DEFINE S == AnswerSet
           q == outbox[s]
<1>1. ASSUME s \in ExpSessions PROVE q \in Seq(S)
  BY <1>1
<1>2. a \in S
  OBVIOUS
<1> HIDE DEF S, q
<1>3. ASSUME s \in ExpSessions
      PROVE  Append(q, a) \in Seq(S) /\ (q # <<>> => Head(q) \in S /\ Tail(q) \in Seq(S))
  BY <1>1, <1>2, <1>3
<1> DEFINE r == Append(q, a)
           h == Head(q)
           t == Tail(q)
<1> HIDE DEF r, h, t
<1>4. ASSUME s \in ExpSessions
      PROVE  r \in Seq(S) /\ (q # <<>> => h \in S /\ t \in Seq(S))
  BY <1>3, <1>4 DEF r, h, t
<1>5. [outbox EXCEPT ![s] = r] \in [ExpSessions -> Seq(S)]
  BY <1>4 DEF S
<1>6. s \in ExpSessions /\ q # <<>> =>
        h \in S /\ [outbox EXCEPT ![s] = t] \in [ExpSessions -> Seq(S)]
  BY <1>4 DEF S
<1> QED
  BY <1>5, <1>6 DEF S, q, r, h, t

\* The dialog that waits closes, keeps its fields, or asks now.
LEMMA HearKeeps ==
  ASSUME Exporting, NEW s \in ExpSessions, HearExport(s)
  PROVE  Exporting'
<1>1. /\ Typed /\ ModalOk(modal) /\ outbox \in [ExpSessions -> Seq(AnswerSet)] /\ outbox[s] # <<>>
      /\ outbox' = [outbox EXCEPT ![s] = Tail(outbox[s])]
      /\ UNCHANGED <<inbox, writer, files, temps, expLeft>>
  BY DEF Exporting, Typed, HearExport
<1> DEFINE a == Head(outbox[s])
           f == modal.form
           p == [f EXCEPT !.pending = FALSE]
           g == [p EXCEPT !.misled = @ \/ a.target # Target(p)]
<1>2. a \in AnswerSet /\ outbox' \in [ExpSessions -> Seq(AnswerSet)]
  <2>1. \E x : x \in AnswerSet
    <3>1. outbox[s] \in Seq(AnswerSet) /\ outbox[s] # <<>>
      BY <1>1
    <3> DEFINE S == AnswerSet
               q == outbox[s]
    <3>2. q \in Seq(S) /\ q # <<>>
      BY <3>1
    <3> HIDE DEF S, q
    <3>3. Head(q) \in S
      BY <3>2
    <3> QED
      BY <3>3 DEF S
  <2> QED
    BY <1>1, <2>1, Answered
<1>3. \/ modal' = modal \/ modal' = NoModal
      \/ HasForm /\ modal' = Modal("form", p)
      \/ HasForm /\ modal' = AskToReplace(g, a.target)
  BY <1>2 DEF HearExport, AnswerSet
<1>4. HasForm => FormOk(f)
  BY <1>1 DEF HasForm, ModalOk, NoModal, Modal, AskToRunAgain, AskToReplace
<1>5. a.target \in Targets
  BY <1>2 DEF AnswerSet
<1> HIDE DEF a, f
<1>6. ASSUME HasForm PROVE FormOk(p) /\ FormOk(g) /\ (g.misled \/ a.target = Target(g))
  <2>1. FormOk(p)
    BY <1>4, <1>6, MarksOk
  <2> HIDE DEF p
  <2> QED
    BY <2>1, MisledOk
<1> HIDE DEF p, g
<1>7. ModalOk(modal')
  <2>1. CASE HasForm /\ modal' = Modal("form", p)
    BY <1>6, <2>1 DEF ModalOk, Modal
  <2>2. CASE HasForm /\ modal' = AskToReplace(g, a.target)
    <3> DEFINE m == AskToReplace(g, a.target)
    <3>1. m = AskToReplace(m.form, m.about) /\ m.form = g /\ m.about = a.target
      BY DEF AskToReplace
    <3> HIDE DEF m
    <3>2. FormOk(m.form) /\ (m.form.misled \/ m.about = Target(m.form)) /\ m.about \in Targets
      BY <1>5, <1>6, <2>2, <3>1
    <3>3. ModalOk(m)
      BY <3>1, <3>2, Zenon DEF ModalOk
    <3> QED
      BY <2>2, <3>3 DEF m
  <2> QED
    BY <1>1, <1>3, <2>1, <2>2 DEF ModalOk
<1>8. Typed' /\ Left' = Left
  BY <1>1, <1>2 DEF Typed, Left
<1>9. TempsOk' /\ Apart' /\ Spared' /\ (\A t \in ExpSessions : WriterOk(writer[t]))'
  <2>1. inbox' = inbox /\ writer' = writer /\ files' = files /\ temps' = temps
    BY <1>1
  <2>2. TempsOk'
    BY <2>1 DEF Exporting, TempsOk, IsTempOf
  <2>3. Apart' /\ Spared'
    BY <2>1 DEF Exporting, Apart, Spared
  <2>4. (\A t \in ExpSessions : WriterOk(writer[t]))'
    BY <2>1 DEF Exporting
  <2> QED
    BY <2>2, <2>3, <2>4
<1>10. LiveJobs' = LiveJobs
  BY <1>1 DEF LiveJobs, Queued, AtWork
<1>11. Numbers'
  BY <1>1, <1>8, <1>10 DEF Exporting, Numbers, JobOk, Beyond
<1> QED
  BY <1>7, <1>8, <1>9, <1>11 DEF Exporting

-----------------------------------------------------------------------------
(* The worker *)

\* A writer that goes on, or stops, with the job it has.
LEMMA SameJobs ==
  ASSUME Exporting, UNCHANGED <<inbox, files, expLeft>>,
         \A t \in ExpSessions : writer'[t] # NoWriter =>
           writer[t] # NoWriter /\ writer'[t].job = writer[t].job
  PROVE  Apart' /\ Numbers' /\ Spared'
<1>1. Left' = Left
  BY DEF Left
<1>2. \A j \in LiveJobs' : j \in LiveJobs
  BY DEF LiveJobs, Queued, AtWork
<1>3. Numbers'
  BY <1>1, <1>2 DEF Exporting, Numbers, JobOk, Beyond
<1>4. Apart'
  BY DEF Exporting, Apart
<1>5. Spared'
  BY DEF Exporting, Spared
<1> QED
  BY <1>3, <1>4, <1>5

\* What a writer is.
LEMMA WriterIs ==
  ASSUME Typed, NEW s \in ExpSessions
  PROVE  /\ writer[s] \in WriterSet
         /\ writer[s].step = "idle" <=> writer[s] = NoWriter
         /\ HasTemp(writer[s]) => writer[s] # NoWriter
         /\ writer[s] # NoWriter =>
              writer[s] \in [step : {"creates", "writes", "renames"}, job : JobSet, taken : 0..Batches,
                             streamed : 0..Batches, query : {"running", "ok", "failed"}]
BY DEF Typed, WriterSet, NoWriter, HasTemp

\* The temporary file of a writer.
LEMMA TempIs ==
  ASSUME Exporting, NEW s \in ExpSessions, HasTemp(writer[s])
  PROVE  /\ TempOf(writer[s]) \in temps /\ TempOf(writer[s]) \in TempSet
         /\ TempOf(writer[s]).of = writer[s].job.n /\ ~TempOf(writer[s]).abandoned
         /\ \A t \in temps : t.of = writer[s].job.n /\ ~t.abandoned => t = TempOf(writer[s])
         /\ writer[s].step = "renames" => TempOf(writer[s]).batches = Batches
<1> DEFINE n == writer[s].job.n
           TT == temps
<1>1. PICK u \in TT : /\ u.of = n /\ ~u.abandoned
                      /\ \A t \in TT : t.of = n /\ ~t.abandoned => t = u
                      /\ writer[s].step = "renames" => u.batches = Batches
  BY DEF Exporting, TempsOk, IsTempOf
<1>2. u \in TempSet
  BY DEF Exporting, Typed
<1>3. TempOf(writer[s]) = CHOOSE t \in TT : t.of = n /\ ~t.abandoned
  BY DEF TempOf
<1> HIDE DEF n, TT
<1>4. TempOf(writer[s]) = u
  BY <1>1, <1>3
<1> QED
  BY <1>1, <1>2, <1>4 DEF n, TT

\* No other writer has its number.
LEMMA OthersDiffer ==
  ASSUME Exporting, NEW s \in ExpSessions, NEW t \in ExpSessions, s # t,
         writer[s] # NoWriter, writer[t] # NoWriter
  PROVE  writer[s].job.n # writer[t].job.n
BY DEF Exporting, Apart

\* The rows taken in so far are in its file, or some of them.
LEMMA HoldingKeeps ==
  ASSUME Exporting, NEW s \in ExpSessions, HasTemp(writer[s]), NEW m \in Nat, NEW w,
         w \in WriterSet, HasTemp(w), w.job = writer[s].job, w.step = "renames" => m = Batches,
         writer' = [writer EXCEPT ![s] = w], temps' = Holding(TempOf(writer[s]), m)
  PROVE  TempsOk' /\ temps' \in SUBSET TempSet
<1> DEFINE u == TempOf(writer[s])
           n == writer[s].job.n
           v == [u EXCEPT !.batches = m]
<1>1. /\ u \in temps /\ u \in TempSet /\ u.of = n /\ ~u.abandoned
      /\ \A t \in temps : t.of = n /\ ~t.abandoned => t = u
  BY TempIs
<1>2. Typed /\ writer \in [ExpSessions -> WriterSet] /\ temps \in SUBSET TempSet
  BY DEF Exporting, Typed
<1>3. temps' = (temps \ {u}) \cup {v}
  BY DEF Holding
<1>4. /\ writer'[s] = w
      /\ \A t \in ExpSessions : t # s => writer'[t] = writer[t]
      /\ \A t \in ExpSessions : t # s /\ HasTemp(writer[t]) => writer[t].job.n # n
  BY <1>2, WriterIs, OthersDiffer
<1> HIDE DEF u, n
<1>5. v \in TempSet /\ v.of = n /\ ~v.abandoned /\ v.batches = m
  BY <1>1 DEF TempSet
<1> HIDE DEF v
<1>6. temps' \in SUBSET TempSet
  BY <1>2, <1>3, <1>5
<1>7. \A t \in temps' : ~t.abandoned =>
        \E q \in ExpSessions : HasTemp(writer'[q]) /\ writer'[q].job.n = t.of
  <2> SUFFICES ASSUME NEW t \in temps', ~t.abandoned
               PROVE  \E q \in ExpSessions : HasTemp(writer'[q]) /\ writer'[q].job.n = t.of
    OBVIOUS
  <2>1. HasTemp(writer'[s]) /\ writer'[s].job.n = n
    BY <1>4 DEF n
  <2>2. CASE t = v
    BY <1>5, <2>1, <2>2
  <2>3. CASE t # v
    <3>1. t \in temps
      BY <1>3, <2>3
    <3>2. PICK q \in ExpSessions : HasTemp(writer[q]) /\ writer[q].job.n = t.of
      BY <3>1 DEF Exporting, TempsOk
    <3>3. HasTemp(writer'[q]) /\ writer'[q].job.n = t.of
      BY <1>4, <2>1, <3>2 DEF n
    <3> QED
      BY <3>3
  <2> QED
    BY <2>2, <2>3
<1>8. ASSUME NEW q \in ExpSessions, HasTemp(writer'[q])
      PROVE  \E x \in temps' : /\ IsTempOf(x, writer'[q].job.n)
                               /\ \A t \in temps' : IsTempOf(t, writer'[q].job.n) => t = x
                               /\ writer'[q].step = "renames" => x.batches = Batches
  <2>1. CASE q = s
    <3>1. writer'[q].job.n = n /\ (writer'[q].step = "renames" => m = Batches)
      BY <1>4, <2>1 DEF n
    <3>2. v \in temps' /\ \A t \in temps' : t.of = n /\ ~t.abandoned => t = v
      BY <1>1, <1>3
    <3> QED
      BY <1>5, <3>1, <3>2 DEF IsTempOf
  <2>2. CASE q # s
    <3>1. writer'[q] = writer[q] /\ writer[q].job.n # n
      BY <1>4, <1>8, <2>2
    <3> DEFINE k == writer[q].job.n
    <3>2. PICK x \in temps : /\ IsTempOf(x, k) /\ \A t \in temps : IsTempOf(t, k) => t = x
                             /\ writer[q].step = "renames" => x.batches = Batches
      BY <1>8, <3>1 DEF Exporting, TempsOk
    <3>3. k # n
      BY <3>1
    <3> HIDE DEF k
    <3>4. x \in temps' /\ \A t \in temps' : IsTempOf(t, k) => t = x
      BY <1>1, <1>3, <1>5, <3>2, <3>3 DEF IsTempOf
    <3> QED
      BY <3>1, <3>2, <3>4 DEF k
  <2> QED
    BY <2>1, <2>2
<1>9. TempsOk'
  BY <1>7, <1>8 DEF TempsOk
<1> QED
  BY <1>6, <1>9

\* A writer goes on with its job.
LEMMA GoesOn ==
  ASSUME Exporting, NEW s \in ExpSessions, writer[s] # NoWriter, UNCHANGED <<modal, inbox, outbox, files, expLeft>>,
         NEW w \in WriterSet, WriterOk(w), w.job = writer[s].job, writer' = [writer EXCEPT ![s] = w],
         TempsOk', temps' \in SUBSET TempSet
  PROVE  Exporting'
<1>1. Typed /\ writer \in [ExpSessions -> WriterSet]
  BY DEF Exporting, Typed
<1>2. Typed' /\ ModalOk(modal') /\ \A t \in ExpSessions : WriterOk(writer'[t])
  BY <1>1 DEF Exporting, Typed, Left
<1>3. \A t \in ExpSessions : writer'[t] # NoWriter =>
        writer[t] # NoWriter /\ writer'[t].job = writer[t].job
  BY <1>1
<1>4. Apart' /\ Numbers' /\ Spared'
  BY <1>3, SameJobs
<1> QED
  BY <1>2, <1>4 DEF Exporting

\* It creates its file: nobody else has one of its number.
LEMMA CreateKeeps ==
  ASSUME Exporting, NEW s \in ExpSessions, Create(s)
  PROVE  Exporting'
<1> DEFINE w == [writer[s] EXCEPT !.step = "writes"]
           v == Temp(writer[s])
           n == writer[s].job.n
<1>1. /\ Typed /\ writer[s].step = "creates" /\ temps' = temps \cup {v}
      /\ writer' = [writer EXCEPT ![s] = w] /\ writer \in [ExpSessions -> WriterSet]
      /\ UNCHANGED <<modal, inbox, outbox, files, expLeft>>
      /\ temps \in SUBSET TempSet
  BY DEF Exporting, Typed, Create
<1>2. writer[s] # NoWriter /\ WriterOk(writer[s]) /\ ~HasTemp(writer[s])
  BY <1>1, WriterIs DEF Exporting, HasTemp
<1>3. /\ w \in WriterSet /\ w.step = "writes" /\ w.job = writer[s].job /\ w.taken = writer[s].taken
      /\ w.streamed = writer[s].streamed /\ w.query = writer[s].query
  <2>1. writer[s] \in [step : {"creates", "writes", "renames"}, job : JobSet, taken : 0..Batches,
                       streamed : 0..Batches, query : {"running", "ok", "failed"}]
    BY <1>1, <1>2, WriterIs
  <2> DEFINE u == writer[s]
             B == 0..Batches
  <2> HIDE DEF u, B
  <2>2. u \in [step : {"creates", "writes", "renames"}, job : JobSet, taken : B,
               streamed : B, query : {"running", "ok", "failed"}]
    BY <2>1 DEF u, B
  <2>3. [u EXCEPT !.step = "writes"] \in
           [step : {"creates", "writes", "renames"}, job : JobSet, taken : B,
            streamed : B, query : {"running", "ok", "failed"}]
    BY <2>2
  <2>4. LET x == [u EXCEPT !.step = "writes"]
        IN  x.step = "writes" /\ x.job = u.job /\ x.taken = u.taken /\ x.streamed = u.streamed
            /\ x.query = u.query
    BY <2>2
  <2> QED
    BY <2>3, <2>4 DEF u, B, WriterSet
<1>4. v.of = n /\ ~v.abandoned /\ v \in TempSet /\ n \in Nat
  <2>1. n \in Nat
    BY <1>1, <1>2, WriterIs DEF JobSet
  <2> QED
    BY <2>1 DEF Temp, TempSet
<1>5. \A t \in ExpSessions : t # s /\ HasTemp(writer[t]) => writer[t].job.n # n
  BY <1>1, <1>2, WriterIs, OthersDiffer
<1>6. \A t \in temps : ~(t.of = n /\ ~t.abandoned)
  BY <1>2, <1>5 DEF Exporting, TempsOk
<1> HIDE DEF v, w
<1>7. WriterOk(w)
  BY <1>2, <1>3 DEF WriterOk
<1>8. writer'[s] = w /\ HasTemp(w) /\ \A t \in ExpSessions : t # s => writer'[t] = writer[t]
  BY <1>1, <1>3 DEF HasTemp
<1>9. \A t \in temps' : ~t.abandoned =>
        \E q \in ExpSessions : HasTemp(writer'[q]) /\ writer'[q].job.n = t.of
  <2> SUFFICES ASSUME NEW t \in temps', ~t.abandoned
               PROVE  \E q \in ExpSessions : HasTemp(writer'[q]) /\ writer'[q].job.n = t.of
    OBVIOUS
  <2>1. CASE t = v
    BY <1>3, <1>4, <1>8, <2>1
  <2>2. CASE t # v
    <3>1. PICK q \in ExpSessions : HasTemp(writer[q]) /\ writer[q].job.n = t.of
      BY <1>1, <2>2 DEF Exporting, TempsOk
    <3> QED
      BY <1>2, <1>8, <3>1
  <2> QED
    BY <2>1, <2>2
<1>10. ASSUME NEW q \in ExpSessions, HasTemp(writer'[q])
       PROVE  \E x \in temps' : /\ IsTempOf(x, writer'[q].job.n)
                                /\ \A t \in temps' : IsTempOf(t, writer'[q].job.n) => t = x
                                /\ writer'[q].step = "renames" => x.batches = Batches
  <2>1. CASE q = s
    <3>1. writer'[q].job.n = n /\ writer'[q].step = "writes"
      BY <1>3, <1>8, <2>1
    <3>2. v \in temps' /\ \A t \in temps' : t.of = n /\ ~t.abandoned => t = v
      BY <1>1, <1>6
    <3> QED
      BY <1>4, <3>1, <3>2 DEF IsTempOf
  <2>2. CASE q # s
    <3> DEFINE k == writer[q].job.n
    <3>1. writer'[q] = writer[q] /\ HasTemp(writer[q]) /\ k # n
      BY <1>5, <1>8, <1>10, <2>2
    <3>2. PICK x \in temps : /\ IsTempOf(x, k) /\ \A t \in temps : IsTempOf(t, k) => t = x
                             /\ writer[q].step = "renames" => x.batches = Batches
      BY <3>1 DEF Exporting, TempsOk
    <3> HIDE DEF k, n
    <3>3. x \in temps' /\ \A t \in temps' : IsTempOf(t, k) => t = x
      BY <1>1, <1>4, <3>1, <3>2 DEF IsTempOf
    <3> QED
      BY <3>1, <3>2, <3>3 DEF k
  <2> QED
    BY <2>1, <2>2
<1>11. TempsOk'
  BY <1>9, <1>10 DEF TempsOk
<1>12. temps' \in SUBSET TempSet
  BY <1>1, <1>4
<1> QED
  BY <1>1, <1>2, <1>3, <1>7, <1>11, <1>12, GoesOn

\* A writer with one thing of it changed: what it took in,
LEMMA WithTaken ==
  ASSUME Typed, NEW s \in ExpSessions, writer[s] # NoWriter, NEW k \in 0..Batches
  PROVE  LET u == writer[s]
             w == [u EXCEPT !.taken = k]
         IN  w \in WriterSet /\ w.step = u.step /\ w.job = u.job
             /\ w.taken = k /\ w.streamed = u.streamed /\ w.query = u.query
<1> DEFINE u == writer[s]
           B == 0..Batches
           W == [step : {"creates", "writes", "renames"}, job : JobSet, taken : B,
                 streamed : B, query : {"running", "ok", "failed"}]
           w == [u EXCEPT !.taken = k]
<1>1. u \in W /\ \A x \in W : x \in WriterSet
  BY WriterIs DEF WriterSet
<1> HIDE DEF u, B
<1>2. w \in W /\ w.step = u.step /\ w.job = u.job
         /\ w.taken = k /\ w.streamed = u.streamed /\ w.query = u.query
  BY <1>1 DEF B
<1> HIDE DEF W, w
<1> QED
  BY <1>1, <1>2 DEF u, w

\* what came,
LEMMA WithStreamed ==
  ASSUME Typed, NEW s \in ExpSessions, writer[s] # NoWriter, NEW k \in 0..Batches
  PROVE  LET u == writer[s]
             w == [u EXCEPT !.streamed = k]
         IN  w \in WriterSet /\ w.step = u.step /\ w.job = u.job
             /\ w.taken = u.taken /\ w.streamed = k /\ w.query = u.query
<1> DEFINE u == writer[s]
           B == 0..Batches
           W == [step : {"creates", "writes", "renames"}, job : JobSet, taken : B,
                 streamed : B, query : {"running", "ok", "failed"}]
           w == [u EXCEPT !.streamed = k]
<1>1. u \in W /\ \A x \in W : x \in WriterSet
  BY WriterIs DEF WriterSet
<1> HIDE DEF u, B
<1>2. w \in W /\ w.step = u.step /\ w.job = u.job
         /\ w.taken = u.taken /\ w.streamed = k /\ w.query = u.query
  BY <1>1 DEF B
<1> HIDE DEF W, w
<1> QED
  BY <1>1, <1>2 DEF u, w

\* how its query stands,
LEMMA WithQuery ==
  ASSUME Typed, NEW s \in ExpSessions, writer[s] # NoWriter,
         NEW q \in {"running", "ok", "failed"}
  PROVE  LET u == writer[s]
             w == [u EXCEPT !.query = q]
         IN  w \in WriterSet /\ w.step = u.step /\ w.job = u.job
             /\ w.taken = u.taken /\ w.streamed = u.streamed /\ w.query = q
<1> DEFINE u == writer[s]
           B == 0..Batches
           W == [step : {"creates", "writes", "renames"}, job : JobSet, taken : B,
                 streamed : B, query : {"running", "ok", "failed"}]
           w == [u EXCEPT !.query = q]
<1>1. u \in W /\ \A x \in W : x \in WriterSet
  BY WriterIs DEF WriterSet
<1> HIDE DEF u, B
<1>2. w \in W /\ w.step = u.step /\ w.job = u.job
         /\ w.taken = u.taken /\ w.streamed = u.streamed /\ w.query = q
  BY <1>1 DEF B
<1> HIDE DEF W, w
<1> QED
  BY <1>1, <1>2 DEF u, w

\* or what it does.
LEMMA WithStep ==
  ASSUME Typed, NEW s \in ExpSessions, writer[s] # NoWriter,
         NEW st \in {"creates", "writes", "renames"}
  PROVE  LET u == writer[s]
             w == [u EXCEPT !.step = st]
         IN  w \in WriterSet /\ w.step = st /\ w.job = u.job
             /\ w.taken = u.taken /\ w.streamed = u.streamed /\ w.query = u.query
<1> DEFINE u == writer[s]
           B == 0..Batches
           W == [step : {"creates", "writes", "renames"}, job : JobSet, taken : B,
                 streamed : B, query : {"running", "ok", "failed"}]
           w == [u EXCEPT !.step = st]
<1>1. u \in W /\ \A x \in W : x \in WriterSet
  BY WriterIs DEF WriterSet
<1> HIDE DEF u, B
<1>2. w \in W /\ w.step = st /\ w.job = u.job
         /\ w.taken = u.taken /\ w.streamed = u.streamed /\ w.query = u.query
  BY <1>1 DEF B
<1> HIDE DEF W, w
<1> QED
  BY <1>1, <1>2 DEF u, w

\* Batches come, or the query ends: only once all came is it well.
LEMMA StreamsKeeps ==
  ASSUME Exporting, NEW s \in ExpSessions, QueryStreams(s)
  PROVE  Exporting'
<1> DEFINE u == writer[s]
<1>1. /\ Typed /\ u.step = "writes" /\ u.query = "running" /\ writer \in [ExpSessions -> WriterSet]
      /\ UNCHANGED <<modal, inbox, outbox, files, expLeft, temps>> /\ temps \in SUBSET TempSet
  BY DEF Exporting, Typed, QueryStreams
<1>2. /\ u # NoWriter /\ WriterOk(u) /\ u.streamed \in 0..Batches /\ u.taken \in 0..Batches
  BY <1>1, WriterIs DEF Exporting
<1>3. ASSUME NEW w \in WriterSet, WriterOk(w), w.job = u.job, w.step = "writes",
             writer' = [writer EXCEPT ![s] = w]
      PROVE  Exporting'
  <2>1. writer'[s] = w /\ \A t \in ExpSessions : t # s => writer'[t] = writer[t]
    BY <1>1, <1>3
  <2>2. \A t \in ExpSessions : /\ HasTemp(writer'[t]) <=> HasTemp(writer[t])
                               /\ HasTemp(writer[t]) => writer'[t].job = writer[t].job
                               /\ writer'[t].step = "renames" => writer[t].step = "renames"
    BY <1>1, <1>3, <2>1 DEF HasTemp
  <2>3. TempsOk'
    BY <1>1, <2>2 DEF Exporting, TempsOk, IsTempOf
  <2> QED
    BY <1>1, <1>2, <1>3, <2>3, GoesOn
<1>4. \/ u.streamed < Batches /\ u.streamed = u.taken
         /\ writer' = [writer EXCEPT ![s] = [u EXCEPT !.streamed = u.streamed + 1]]
      \/ u.streamed = Batches /\ writer' = [writer EXCEPT ![s] = [u EXCEPT !.query = "ok"]]
      \/ writer' = [writer EXCEPT ![s] = [u EXCEPT !.query = "failed"]]
  BY DEF QueryStreams
<1>5. CASE u.streamed < Batches /\ u.streamed = u.taken
           /\ writer' = [writer EXCEPT ![s] = [u EXCEPT !.streamed = u.streamed + 1]]
  <2> DEFINE k == u.streamed + 1
             w == [u EXCEPT !.streamed = k]
  <2>1. k \in 0..Batches /\ u.taken <= k
    BY <1>2, <1>5, BatchesAssumption
  <2> HIDE DEF k
  <2>2. /\ w \in WriterSet /\ w.step = u.step /\ w.job = u.job /\ w.taken = u.taken
        /\ w.streamed = k /\ w.query = u.query
    BY <1>1, <1>2, <2>1, WithStreamed
  <2>3. writer' = [writer EXCEPT ![s] = w]
    BY <1>5 DEF k
  <2> HIDE DEF w
  <2>4. WriterOk(w)
    BY <1>1, <2>1, <2>2 DEF WriterOk
  <2> QED
    BY <1>1, <1>3, <2>2, <2>3, <2>4
<1>6. ASSUME NEW q \in {"ok", "failed"}, q = "ok" => u.streamed = Batches,
             writer' = [writer EXCEPT ![s] = [u EXCEPT !.query = q]]
      PROVE  Exporting'
  <2> DEFINE w == [u EXCEPT !.query = q]
  <2>1. 0 \in 0..Batches /\ q \in {"running", "ok", "failed"}
    BY <1>6, BatchesAssumption
  <2>2. /\ w \in WriterSet /\ w.step = u.step /\ w.job = u.job /\ w.taken = u.taken
        /\ w.streamed = u.streamed /\ w.query = q
    BY <1>1, <1>2, <2>1, WithQuery
  <2>3. writer' = [writer EXCEPT ![s] = w]
    BY <1>6
  <2> HIDE DEF w
  <2>4. WriterOk(w)
    BY <1>1, <1>2, <1>6, <2>2 DEF WriterOk
  <2> QED
    BY <1>1, <1>3, <2>2, <2>3, <2>4
<1> QED
  BY <1>4, <1>5, <1>6

\* A batch is taken in.
LEMMA TakeBatchKeeps ==
  ASSUME Exporting, NEW s \in ExpSessions, TakeBatch(s)
  PROVE  Exporting'
<1> DEFINE u == writer[s]
           k == u.taken + 1
           w == [u EXCEPT !.taken = k]
<1>1. /\ Typed /\ u.step = "writes" /\ u.taken < u.streamed /\ writer \in [ExpSessions -> WriterSet]
      /\ UNCHANGED <<modal, inbox, outbox, files, expLeft>>
      /\ writer' = [writer EXCEPT ![s] = w]
  BY DEF Exporting, Typed, TakeBatch
<1>2. /\ u # NoWriter /\ WriterOk(u) /\ HasTemp(u) /\ u.streamed \in 0..Batches /\ u.taken \in 0..Batches
  BY <1>1, WriterIs DEF Exporting, HasTemp
<1>3. k \in 0..Batches /\ k <= u.streamed
  BY <1>1, <1>2, BatchesAssumption
<1>4. PICK m \in TempOf(u).batches..k : temps' = Holding(TempOf(u), m)
  BY DEF TakeBatch
<1>5. m \in Nat
  <2>1. TempOf(u).batches \in Nat
    BY <1>2, TempIs DEF TempSet
  <2> QED
    BY <1>2, <2>1
<1> HIDE DEF k
<1>6. /\ w \in WriterSet /\ w.step = u.step /\ w.job = u.job /\ w.taken = k
      /\ w.streamed = u.streamed /\ w.query = u.query
  BY <1>1, <1>2, <1>3, WithTaken
<1> HIDE DEF w
<1>7. WriterOk(w) /\ HasTemp(w) /\ w.step # "renames"
  BY <1>1, <1>2, <1>3, <1>6 DEF WriterOk, HasTemp
<1>8. TempsOk' /\ temps' \in SUBSET TempSet
  BY <1>1, <1>2, <1>4, <1>5, <1>6, <1>7, HoldingKeeps
<1> QED
  BY <1>1, <1>2, <1>6, <1>7, <1>8, GoesOn

\* All of them are in its file, and all there were.
LEMMA FinishKeeps ==
  ASSUME Exporting, NEW s \in ExpSessions, FinishFile(s)
  PROVE  Exporting'
<1> DEFINE u == writer[s]
           w == [u EXCEPT !.step = "renames"]
<1>1. /\ Typed /\ u.step = "writes" /\ u.query = "ok" /\ u.taken = u.streamed
      /\ writer \in [ExpSessions -> WriterSet]
      /\ UNCHANGED <<modal, inbox, outbox, files, expLeft>>
      /\ writer' = [writer EXCEPT ![s] = w] /\ temps' = Holding(TempOf(u), u.taken)
  BY DEF Exporting, Typed, FinishFile, Complete, Flushed
<1>2. /\ u # NoWriter /\ WriterOk(u) /\ HasTemp(u) /\ u.streamed \in 0..Batches /\ u.taken \in 0..Batches
  BY <1>1, WriterIs DEF Exporting, HasTemp
<1>3. u.taken = Batches /\ u.taken \in Nat /\ 0 \in 0..Batches
  BY <1>1, <1>2, BatchesAssumption DEF WriterOk
<1>4. /\ w \in WriterSet /\ w.step = "renames" /\ w.job = u.job /\ w.taken = u.taken
      /\ w.streamed = u.streamed /\ w.query = u.query
  BY <1>1, <1>2, <1>3, WithStep
<1> DEFINE m == u.taken
<1>5. temps' = Holding(TempOf(u), m) /\ m = Batches /\ m \in Nat
  BY <1>1, <1>3
<1> HIDE DEF w, m
<1>6. WriterOk(w) /\ HasTemp(w)
  BY <1>1, <1>2, <1>3, <1>4 DEF WriterOk, HasTemp
<1>7. TempsOk' /\ temps' \in SUBSET TempSet
  BY <1>1, <1>2, <1>4, <1>5, <1>6, HoldingKeeps
<1> QED
  BY <1>1, <1>2, <1>4, <1>6, <1>7, GoesOn

\* A writer that ends leaves no file behind, and takes none of the others'.
LEMMA Ends ==
  ASSUME Exporting, NEW s \in ExpSessions, writer[s] # NoWriter,
         writer' = [writer EXCEPT ![s] = NoWriter],
         \A t \in temps' : t \in temps /\ (~t.abandoned => t.of # writer[s].job.n),
         \A t \in temps : t.of # writer[s].job.n => t \in temps'
  PROVE  /\ TempsOk' /\ temps' \in SUBSET TempSet /\ writer' \in [ExpSessions -> WriterSet]
         /\ \A t \in ExpSessions : WriterOk(writer'[t])
         /\ \A t \in ExpSessions : writer'[t] # NoWriter =>
              t # s /\ writer[t] # NoWriter /\ writer'[t] = writer[t]
<1> DEFINE n == writer[s].job.n
<1>1. Typed /\ writer \in [ExpSessions -> WriterSet] /\ temps \in SUBSET TempSet
  BY DEF Exporting, Typed
<1>2. writer'[s] = NoWriter /\ \A t \in ExpSessions : t # s => writer'[t] = writer[t]
  BY <1>1
<1>3. temps' \in SUBSET TempSet /\ writer' \in [ExpSessions -> WriterSet]
  BY <1>1 DEF WriterSet
<1>4. \A t \in ExpSessions : WriterOk(writer'[t])
  BY <1>2 DEF Exporting, WriterOk
<1>5. ~HasTemp(NoWriter)
  BY DEF HasTemp, NoWriter
<1>6. \A t \in ExpSessions : HasTemp(writer'[t]) =>
        t # s /\ writer'[t] = writer[t] /\ HasTemp(writer[t]) /\ writer[t].job.n # n
  BY <1>1, <1>2, <1>5, WriterIs, OthersDiffer
<1>7. \A t \in temps' : ~t.abandoned =>
        \E q \in ExpSessions : HasTemp(writer'[q]) /\ writer'[q].job.n = t.of
  <2> SUFFICES ASSUME NEW t \in temps', ~t.abandoned
               PROVE  \E q \in ExpSessions : HasTemp(writer'[q]) /\ writer'[q].job.n = t.of
    OBVIOUS
  <2>1. PICK q \in ExpSessions : HasTemp(writer[q]) /\ writer[q].job.n = t.of
    BY DEF Exporting, TempsOk
  <2>2. q # s
    BY <2>1
  <2> QED
    BY <1>2, <2>1, <2>2
<1>8. ASSUME NEW q \in ExpSessions, HasTemp(writer'[q])
      PROVE  \E x \in temps' : /\ IsTempOf(x, writer'[q].job.n)
                               /\ \A t \in temps' : IsTempOf(t, writer'[q].job.n) => t = x
                               /\ writer'[q].step = "renames" => x.batches = Batches
  <2> DEFINE k == writer[q].job.n
  <2>1. writer'[q] = writer[q] /\ HasTemp(writer[q]) /\ k # n
    BY <1>6, <1>8
  <2>2. PICK x \in temps : /\ IsTempOf(x, k) /\ \A t \in temps : IsTempOf(t, k) => t = x
                           /\ writer[q].step = "renames" => x.batches = Batches
    BY <2>1 DEF Exporting, TempsOk
  <2> HIDE DEF k
  <2>3. x \in temps' /\ \A t \in temps' : IsTempOf(t, k) => t = x
    BY <2>1, <2>2 DEF IsTempOf
  <2> QED
    BY <2>1, <2>2, <2>3 DEF k
<1>9. TempsOk'
  BY <1>7, <1>8 DEF TempsOk
<1> QED
  BY <1>2, <1>3, <1>4, <1>9

\* Its file is put in place: that of no other export, and none that was there
\* when another was asked for.
LEMMA RenameKeeps ==
  ASSUME Exporting, NEW s \in ExpSessions, Rename(s)
  PROVE  Exporting'
<1> DEFINE u == writer[s]
           job == u.job
           n == job.n
           f == TempOf(u)
           new == [of |-> f.of, batches |-> f.batches]
<1>1. /\ Typed /\ u.step = "renames" /\ writer \in [ExpSessions -> WriterSet]
      /\ files' = [files EXCEPT ![job.target] = new] /\ temps' = temps \ {f}
      /\ writer' = [writer EXCEPT ![s] = NoWriter]
      /\ UNCHANGED <<modal, inbox, expLeft>> /\ files \in [Targets -> FileSet]
      /\ outbox' = [outbox EXCEPT ![s] = Append(outbox[s], Answer("exported", job))]
  BY DEF Exporting, Typed, Rename, Answers
<1>2. u # NoWriter /\ HasTemp(u) /\ job \in JobSet /\ n \in Nat
  BY <1>1, WriterIs DEF HasTemp, JobSet
<1>3. /\ f \in temps /\ f \in TempSet /\ f.of = n /\ ~f.abandoned /\ f.batches = Batches
      /\ \A t \in temps : t.of = n /\ ~t.abandoned => t = f
  BY <1>1, <1>2, TempIs
<1>4. /\ TempsOk' /\ temps' \in SUBSET TempSet /\ writer' \in [ExpSessions -> WriterSet]
      /\ \A t \in ExpSessions : WriterOk(writer'[t])
      /\ \A t \in ExpSessions : writer'[t] # NoWriter =>
           t # s /\ writer[t] # NoWriter /\ writer'[t] = writer[t]
  BY <1>1, <1>2, <1>3, Ends
<1>5. new \in FileSet /\ new.of = n /\ files' \in [Targets -> FileSet]
  <2>1. new \in FileSet /\ new.of = n
    BY <1>2, <1>3 DEF FileSet
  <2> HIDE DEF new
  <2> QED
    BY <1>1, <2>1
<1>6. outbox' \in [ExpSessions -> Seq(AnswerSet)]
  <2>1. Answer("exported", job) \in AnswerSet
    BY <1>2 DEF Answer, AnswerSet, JobSet
  <2> QED
    BY <1>1, <2>1, Answered DEF Typed
<1>7. Typed' /\ Left' = Left
  BY <1>1, <1>4, <1>5, <1>6 DEF Typed, Left
<1>8. \A j \in LiveJobs' : j \in LiveJobs /\ j.n # n
  <2>1. \A j \in Queued' : j \in Queued /\ j.n # n
    BY <1>1, <1>2 DEF Queued, Exporting, Apart
  <2>2. \A j \in AtWork' : j \in AtWork /\ j.n # n
    BY <1>2, <1>4, OthersDiffer DEF AtWork
  <2> QED
    BY <2>1, <2>2 DEF LiveJobs
<1>9. job \in LiveJobs
  BY <1>2 DEF LiveJobs, AtWork
<1>10. \A t \in Targets : files'[t] = files[t] \/ files'[t].of = n
  BY <1>1, <1>5
<1> HIDE DEF new
<1>11. \A t \in Targets : Beyond(files'[t].of)
  BY <1>2, <1>9, <1>10 DEF Exporting, Numbers, Beyond, JobOk
<1>12. Numbers'
  <2>1. \A j \in LiveJobs' : JobOk(j)'
    BY <1>7, <1>8 DEF Exporting, Numbers, JobOk, Beyond
  <2>2. \A t \in Targets : Beyond(files[t].of)'
    BY <1>7, <1>11 DEF Beyond
  <2>3. \A j \in LiveJobs' : \A t \in Targets : files'[t].of # j.n
    BY <1>8, <1>10 DEF Exporting, Numbers
  <2>4. \A j, k \in LiveJobs' : j.stood.of # k.n
    BY <1>8 DEF Exporting, Numbers
  <2> QED
    BY <2>1, <2>2, <2>3, <2>4 DEF Numbers
<1>13. Apart'
  BY <1>1, <1>4 DEF Exporting, Apart
<1>14. Spared'
  <2> SUFFICES ASSUME NEW t \in ExpSessions, writer'[t] # NoWriter, ~writer'[t].job.overwrite
               PROVE  LET j == writer'[t].job IN files'[j.target] # j.stood \/ j.stood = Nothing
    BY DEF Spared
  <2> DEFINE j == writer'[t].job
  <2>1. writer[t] # NoWriter /\ writer'[t] = writer[t] /\ j = writer[t].job
    BY <1>4
  <2>2. j \in JobSet /\ j.target \in Targets
    BY <1>1, <2>1, WriterIs DEF JobSet
  <2>3. j \in LiveJobs
    BY <2>1, <2>2 DEF LiveJobs, AtWork
  <2>4. j.stood.of # n
    BY <1>9, <2>3 DEF Exporting, Numbers
  <2>5. files[j.target] # j.stood \/ j.stood = Nothing
    BY <2>1 DEF Exporting, Spared
  <2> HIDE DEF j
  <2> QED
    BY <1>10, <2>2, <2>4, <2>5 DEF j
<1> QED
  BY <1>1, <1>4, <1>7, <1>12, <1>13, <1>14 DEF Exporting

\* It stops, and its file goes.
LEMMA StopsKeeps ==
  ASSUME Exporting, NEW s \in ExpSessions, WriterStops(s)
  PROVE  Exporting'
<1> DEFINE job == writer[s].job
<1>1. /\ Typed /\ writer[s] # NoWriter /\ temps' = {t \in temps : t.of # job.n}
      /\ writer' = [writer EXCEPT ![s] = NoWriter]
      /\ UNCHANGED <<modal, inbox, files, expLeft>>
      /\ outbox' = [outbox EXCEPT ![s] = Append(outbox[s], Answer("failed", job))]
  BY DEF Exporting, Typed, WriterStops, Answers
<1>2. job \in JobSet
  BY <1>1, WriterIs
<1>3. /\ TempsOk' /\ temps' \in SUBSET TempSet /\ writer' \in [ExpSessions -> WriterSet]
      /\ \A t \in ExpSessions : WriterOk(writer'[t])
      /\ \A t \in ExpSessions : writer'[t] # NoWriter =>
           t # s /\ writer[t] # NoWriter /\ writer'[t] = writer[t]
  BY <1>1, Ends
<1>4. outbox' \in [ExpSessions -> Seq(AnswerSet)]
  <2>1. Answer("failed", job) \in AnswerSet
    BY <1>2 DEF Answer, AnswerSet, JobSet
  <2> QED
    BY <1>1, <2>1, Answered DEF Typed
<1>5. Typed'
  BY <1>1, <1>3, <1>4 DEF Typed, Left
<1>6. Apart' /\ Numbers' /\ Spared'
  BY <1>1, <1>3, SameJobs
<1> QED
  BY <1>1, <1>3, <1>5, <1>6 DEF Exporting

\* The front of a worker's queue is taken.
LEMMA Taken ==
  ASSUME inbox \in [ExpSessions -> Seq(JobSet)], NEW s \in ExpSessions, inbox[s] # <<>>,
         inbox' = [inbox EXCEPT ![s] = Tail(inbox[s])]
  PROVE  /\ inbox' \in [ExpSessions -> Seq(JobSet)]
         /\ Head(inbox[s]) \in JobSet /\ Head(inbox[s]) = inbox[s][1] /\ 1 \in DOMAIN inbox[s]
         /\ \A t \in ExpSessions : t # s => inbox'[t] = inbox[t]
         /\ \A i \in DOMAIN inbox'[s] : /\ i \in Nat /\ i + 1 \in DOMAIN inbox[s] /\ i + 1 # 1
                                        /\ inbox'[s][i] = inbox[s][i + 1]
<1> DEFINE q == inbox[s]
           S == JobSet
           r == inbox'[s]
<1>1. q \in Seq(S) /\ q # <<>> /\ r = Tail(q)
  OBVIOUS
<1> HIDE DEF q, S, r
<1>2. /\ r \in Seq(S) /\ Head(q) \in S /\ Head(q) = q[1] /\ 1 \in DOMAIN q
      /\ \A i \in DOMAIN r : i \in Nat /\ i + 1 \in DOMAIN q /\ i + 1 # 1 /\ r[i] = q[i + 1]
  BY <1>1
<1>3. \A t \in ExpSessions : t # s => inbox'[t] = inbox[t]
  OBVIOUS
<1>4. inbox' \in [ExpSessions -> Seq(JobSet)]
  BY <1>2 DEF S, r
<1> QED
  BY <1>2, <1>3, <1>4 DEF q, S, r

\* A worker that is idle takes an export: without leave, only where no file is.
LEMMA TakeKeeps ==
  ASSUME Exporting, NEW s \in ExpSessions, TakeExport(s)
  PROVE  Exporting'
<1> DEFINE job == Head(inbox[s])
<1>1. /\ Typed /\ writer[s] = NoWriter /\ inbox[s] # <<>>
      /\ inbox' = [inbox EXCEPT ![s] = Tail(inbox[s])]
      /\ UNCHANGED <<modal, files, temps, expLeft>>
      /\ inbox \in [ExpSessions -> Seq(JobSet)] /\ writer \in [ExpSessions -> WriterSet]
      /\ outbox \in [ExpSessions -> Seq(AnswerSet)]
  BY DEF Exporting, Typed, TakeExport
<1>2. /\ inbox' \in [ExpSessions -> Seq(JobSet)] /\ job \in JobSet /\ job = inbox[s][1]
      /\ 1 \in DOMAIN inbox[s]
      /\ \A t \in ExpSessions : t # s => inbox'[t] = inbox[t]
      /\ \A i \in DOMAIN inbox'[s] : /\ i \in Nat /\ i + 1 \in DOMAIN inbox[s] /\ i + 1 # 1
                                     /\ inbox'[s][i] = inbox[s][i + 1]
  BY <1>1, Taken
<1> HIDE DEF job
<1>3. /\ \A t, u \in ExpSessions : \A i \in DOMAIN inbox'[t], j \in DOMAIN inbox'[u] :
           inbox'[t][i].n = inbox'[u][j].n => t = u /\ i = j
      /\ \A t \in ExpSessions : \A i \in DOMAIN inbox'[t] :
           /\ inbox'[t][i].n # job.n
           /\ \A u \in ExpSessions : writer[u] # NoWriter => writer[u].job.n # inbox'[t][i].n
      /\ \A u \in ExpSessions : writer[u] # NoWriter => writer[u].job.n # job.n
  <2>1. \A t \in ExpSessions : \A i \in DOMAIN inbox'[t] :
          \E k \in DOMAIN inbox[t] : /\ inbox'[t][i] = inbox[t][k] /\ ~(t = s /\ k = 1)
                                     /\ k = IF t = s THEN i + 1 ELSE i
    BY <1>2
  <2>2. ASSUME NEW t \in ExpSessions, NEW u \in ExpSessions, NEW i \in DOMAIN inbox'[t],
               NEW j \in DOMAIN inbox'[u], inbox'[t][i].n = inbox'[u][j].n
        PROVE  t = u /\ i = j
    <3>1. PICK k \in DOMAIN inbox[t] : inbox'[t][i] = inbox[t][k] /\ k = IF t = s THEN i + 1 ELSE i
      BY <2>1
    <3>2. PICK l \in DOMAIN inbox[u] : inbox'[u][j] = inbox[u][l] /\ l = IF u = s THEN j + 1 ELSE j
      BY <2>1
    <3>3. t = u /\ k = l
      BY <2>2, <3>1, <3>2 DEF Exporting, Apart
    <3>4. t = s => i \in Nat /\ j \in Nat
      BY <1>2, <3>3
    <3> QED
      BY <3>1, <3>2, <3>3, <3>4
  <2>3. ASSUME NEW t \in ExpSessions, NEW i \in DOMAIN inbox'[t]
        PROVE  /\ inbox'[t][i].n # job.n
               /\ \A u \in ExpSessions : writer[u] # NoWriter => writer[u].job.n # inbox'[t][i].n
    <3>1. PICK k \in DOMAIN inbox[t] : inbox'[t][i] = inbox[t][k] /\ ~(t = s /\ k = 1)
      BY <2>1
    <3> QED
      BY <1>2, <3>1 DEF Exporting, Apart
  <2>4. \A u \in ExpSessions : writer[u] # NoWriter => writer[u].job.n # job.n
    BY <1>2 DEF Exporting, Apart
  <2> QED
    BY <2>2, <2>3, <2>4
<1>4. job \in LiveJobs /\ \A j \in Queued' : j \in Queued
  <2>1. \A j \in Queued' : j \in Queued
    BY <1>2 DEF Queued
  <2> QED
    BY <1>2, <2>1 DEF LiveJobs, Queued
<1>5. /\ Stands(job) => /\ outbox' = [outbox EXCEPT ![s] = Append(outbox[s], Answer("exists", job))]
                        /\ writer' = writer
      /\ ~Stands(job) => /\ outbox' = outbox
                         /\ writer' = [writer EXCEPT ![s] =
                              [step |-> "creates", job |-> job, taken |-> 0,
                               streamed |-> IF job.fetched THEN Batches ELSE 0,
                               query |-> IF job.fetched THEN "ok" ELSE "running"]]
  BY DEF TakeExport, job
<1>6. Left' = Left
  BY <1>1 DEF Left
<1>7. ASSUME LiveJobs' \subseteq LiveJobs PROVE Numbers'
  BY <1>1, <1>6, <1>7 DEF Exporting, Numbers, JobOk, Beyond
<1>8. CASE Stands(job)
  <2>1. outbox' \in [ExpSessions -> Seq(AnswerSet)]
    <3>1. Answer("exists", job) \in AnswerSet
      BY <1>2 DEF Answer, AnswerSet, JobSet
    <3> DEFINE a == Answer("exists", job)
    <3>2. a \in AnswerSet /\ outbox' = [outbox EXCEPT ![s] = Append(outbox[s], a)]
      BY <1>5, <1>8, <3>1
    <3> HIDE DEF a
    <3> QED
      BY ONLY <1>1, <3>2, Answered
  <2>2. writer' = writer
    BY <1>5, <1>8
  <2>3. Typed'
    BY <1>1, <1>2, <1>6, <2>1, <2>2 DEF Typed
  <2>4. LiveJobs' \subseteq LiveJobs
    BY <1>4, <2>2 DEF LiveJobs, AtWork
  <2>5. Apart'
    BY <1>3, <2>2 DEF Exporting, Apart
  <2>6. TempsOk'
    BY <1>1, <2>2 DEF Exporting, TempsOk, IsTempOf
  <2>7. Spared' /\ ModalOk(modal') /\ \A t \in ExpSessions : WriterOk(writer'[t])
    BY <1>1, <2>2 DEF Exporting, Spared
  <2> QED
    BY <1>7, <2>3, <2>4, <2>5, <2>6, <2>7 DEF Exporting
<1>9. CASE ~Stands(job)
  <2> DEFINE n == IF job.fetched THEN Batches ELSE 0
             q == IF job.fetched THEN "ok" ELSE "running"
             w == [step |-> "creates", job |-> job, taken |-> 0, streamed |-> n, query |-> q]
  <2>1. n \in 0..Batches /\ 0 \in 0..Batches /\ q \in {"running", "ok", "failed"}
        /\ (q = "ok" => n = Batches) /\ 0 <= n
    BY BatchesAssumption
  <2>2. writer' = [writer EXCEPT ![s] = w] /\ outbox' = outbox
    BY <1>5, <1>9
  <2> HIDE DEF n, q
  <2>3. /\ w \in WriterSet /\ w.job = job /\ w.step = "creates" /\ w # NoWriter /\ WriterOk(w)
        /\ ~HasTemp(w)
    BY <1>2, <2>1 DEF WriterSet, NoWriter, WriterOk, HasTemp
  <2> HIDE DEF w
  <2>4. writer'[s] = w /\ \A t \in ExpSessions : t # s => writer'[t] = writer[t]
    BY <1>1, <2>2
  <2>5. Typed'
    BY <1>1, <1>2, <1>6, <2>2, <2>3 DEF Typed
  <2>6. LiveJobs' \subseteq LiveJobs
    BY <1>4, <2>3, <2>4 DEF LiveJobs, AtWork
  <2>7. Apart'
    BY <1>3, <2>3, <2>4 DEF Exporting, Apart
  <2>8. TempsOk'
    <3>1. ~HasTemp(writer[s])
      BY <1>1 DEF HasTemp, NoWriter
    <3>2. \A t \in ExpSessions : /\ HasTemp(writer'[t]) <=> HasTemp(writer[t])
                                 /\ HasTemp(writer[t]) => writer'[t] = writer[t]
      BY <2>3, <2>4, <3>1
    <3>3. temps' = temps
      BY <1>1
    <3>4. TempsOk
      BY DEF Exporting
    <3>5. \A t \in temps : ~t.abandoned =>
            \E u \in ExpSessions : HasTemp(writer'[u]) /\ writer'[u].job.n = t.of
      <4> SUFFICES ASSUME NEW t \in temps, ~t.abandoned
                   PROVE  \E u \in ExpSessions : HasTemp(writer'[u]) /\ writer'[u].job.n = t.of
        OBVIOUS
      <4>1. PICK u \in ExpSessions : HasTemp(writer[u]) /\ writer[u].job.n = t.of
        BY <3>4 DEF TempsOk
      <4> QED
        BY <3>2, <4>1
    <3>6. \A t \in ExpSessions : HasTemp(writer'[t]) =>
            \E u \in temps : /\ IsTempOf(u, writer'[t].job.n)
                             /\ \A v \in temps : IsTempOf(v, writer'[t].job.n) => v = u
                             /\ writer'[t].step = "renames" => u.batches = Batches
      BY <3>2, <3>4 DEF TempsOk
    <3> QED
      BY <3>3, <3>5, <3>6 DEF TempsOk, IsTempOf, HasTemp
  <2>9. Spared'
    <3>1. ~job.overwrite => files[job.target] = Nothing
      BY <1>9 DEF Stands
    <3> QED
      BY <1>1, <2>3, <2>4, <3>1 DEF Exporting, Spared
  <2>10. ModalOk(modal') /\ \A t \in ExpSessions : WriterOk(writer'[t])
    BY <1>1, <2>3, <2>4 DEF Exporting
  <2> QED
    BY <1>7, <2>5, <2>6, <2>7, <2>8, <2>9, <2>10 DEF Exporting
<1> QED
  BY <1>8, <1>9

\* Another program's files are none of those that stood there before.
LEMMA OutsideKeeps ==
  ASSUME Exporting, Outside
  PROVE  Exporting'
<1> DEFINE l == Left
<1>1. PICK t \in Targets :
        files' = [files EXCEPT ![t] = IF files[t] = Nothing THEN Foreign(l) ELSE Nothing]
  BY DEF Outside, Left
<1>2. /\ Typed /\ expLeft' = [may |-> expLeft'.may, left |-> Left', results |-> expLeft'.results]
      /\ l \in Nat /\ l > 0 /\ Left' = l - 1 /\ Left' \in Nat /\ Left' < l
  BY MayOk DEF Exporting, Outside
<1>3. UNCHANGED <<modal, inbox, writer, outbox, temps>>
  BY DEF Outside
<1>4. Foreign(l) \in FileSet /\ Foreign(l).of = 0 - l /\ Nothing \in FileSet /\ Nothing.of = 0
  BY <1>2 DEF Foreign, Whole, FileSet, Nothing
<1> HIDE DEF l
<1>5. /\ files' \in [Targets -> FileSet]
      /\ \A u \in Targets : files'[u] = files[u] \/ files'[u] = Nothing \/ files'[u].of = 0 - l
  BY <1>1, <1>2, <1>4 DEF Typed
<1>6. Typed'
  BY <1>2, <1>3, <1>5 DEF Typed
<1>7. LiveJobs' = LiveJobs
  BY <1>3 DEF LiveJobs, Queued, AtWork
<1>8. \A j \in LiveJobs : j \in JobSet /\ JobOk(j) /\ j.stood.of \in Int /\ j.n \in Nat
  <2>1. \A j \in LiveJobs : j \in JobSet /\ JobOk(j)
    BY DEF LiveJobs, Queued, AtWork, Exporting, Numbers
  <2>2. \A f \in FileSet : f.of \in Int
    BY DEF FileSet, Nothing
  <2> QED
    BY <2>1, <2>2 DEF JobSet
<1>9. \A j \in LiveJobs : JobOk(j)' /\ j.stood.of # 0 - l /\ j.n > l
  <2> SUFFICES ASSUME NEW j \in LiveJobs PROVE JobOk(j)' /\ j.stood.of # 0 - l /\ j.n > l
    OBVIOUS
  <2>1. Beyond(j.stood.of) /\ j.stood.of \in Int /\ j.n > l /\ j.n \in Nat
        /\ (j.overwrite => j.misled \/ j.said = j.target)
    BY <1>8 DEF JobOk, l
  <2>2. Beyond(j.stood.of)' /\ j.stood.of # 0 - l
    BY <1>2, <2>1 DEF Beyond, l
  <2>3. j.n > Left'
    BY <1>2, <2>1
  <2> QED
    BY <2>1, <2>2, <2>3 DEF JobOk
<1>10. \A u \in Targets : Beyond(files[u].of)'
  <2> SUFFICES ASSUME NEW u \in Targets PROVE Beyond(files[u].of)'
    OBVIOUS
  <2>1. Beyond(files[u].of) /\ files[u].of \in Int
    BY <1>2 DEF Exporting, Numbers, Typed, FileSet, Nothing
  <2>2. CASE files'[u] = files[u]
    BY <1>2, <2>1, <2>2 DEF Beyond, l
  <2>3. CASE files'[u] = Nothing \/ files'[u].of = 0 - l
    BY <1>2, <1>4, <2>3 DEF Beyond
  <2> QED
    BY <1>5, <2>2, <2>3
<1>11. Numbers'
  <2>1. \A j \in LiveJobs' : JobOk(j)'
    BY <1>7, <1>9
  <2>2. \A u \in Targets : Beyond(files[u].of)'
    BY <1>10
  <2>3. \A j \in LiveJobs' : \A u \in Targets : files'[u].of # j.n
    <3> SUFFICES ASSUME NEW j \in LiveJobs, NEW u \in Targets PROVE files'[u].of # j.n
      BY <1>7
    <3>1. j.n \in Nat /\ j.n > l /\ files[u].of # j.n
      BY <1>8, <1>9 DEF Exporting, Numbers
    <3> QED
      BY <1>2, <1>4, <1>5, <3>1
  <2>4. \A j, k \in LiveJobs' : j.stood.of # k.n
    BY <1>7 DEF Exporting, Numbers
  <2> QED
    BY <2>1, <2>2, <2>3, <2>4 DEF Numbers
<1>12. Spared'
  <2> SUFFICES ASSUME NEW s \in ExpSessions, writer[s] # NoWriter, ~writer[s].job.overwrite
               PROVE  LET j == writer[s].job IN files'[j.target] # j.stood \/ j.stood = Nothing
    BY <1>3 DEF Spared
  <2> DEFINE j == writer[s].job
  <2>1. j \in JobSet /\ j.target \in Targets
    BY <1>2, WriterIs DEF JobSet
  <2>2. j \in LiveJobs
    BY <2>1 DEF LiveJobs, AtWork
  <2>3. j.stood.of # 0 - l
    BY <1>9, <2>2
  <2>4. files[j.target] # j.stood \/ j.stood = Nothing
    BY DEF Exporting, Spared
  <2> HIDE DEF j
  <2> QED
    BY <1>5, <2>1, <2>3, <2>4 DEF j
<1>13. /\ TempsOk' /\ Apart' /\ ModalOk(modal') /\ \A s \in ExpSessions : WriterOk(writer'[s])
  <2>1. inbox' = inbox /\ writer' = writer /\ temps' = temps /\ modal' = modal
    BY <1>3
  <2>2. TempsOk'
    BY <2>1 DEF Exporting, TempsOk, IsTempOf
  <2>3. Apart'
    BY <2>1 DEF Exporting, Apart
  <2> QED
    BY <2>1, <2>2, <2>3 DEF Exporting
<1> QED
  BY <1>6, <1>11, <1>12, <1>13 DEF Exporting

\* The app is killed: nothing is under way, and no temporary file is anyone's.
LEMMA KilledKeeps ==
  ASSUME Exporting, Killed
  PROVE  Exporting'
<1>1. /\ Typed /\ expLeft' = [may |-> expLeft'.may, left |-> Left', results |-> expLeft'.results]
      /\ Left \in Nat /\ Left' \in Nat /\ Left' <= Left
  BY MayOk DEF Exporting, Killed
<1>2. /\ inbox' = [s \in ExpSessions |-> <<>>] /\ outbox' = [s \in ExpSessions |-> <<>>]
      /\ writer' = [s \in ExpSessions |-> NoWriter] /\ files' = files /\ modal' = NoModal
      /\ temps' = {[t EXCEPT !.abandoned = TRUE] : t \in temps}
  BY DEF Killed
<1>3. inbox' \in [ExpSessions -> Seq(JobSet)] /\ outbox' \in [ExpSessions -> Seq(AnswerSet)]
  BY <1>2
<1>4. writer' \in [ExpSessions -> WriterSet] /\ files' \in [Targets -> FileSet]
  BY <1>1, <1>2 DEF Typed, WriterSet
<1>5. \A t \in temps' : t \in TempSet /\ t.abandoned
  BY <1>1, <1>2 DEF Typed, TempSet
<1>6. Typed'
  BY <1>1, <1>3, <1>4, <1>5 DEF Typed
<1>7. \A s \in ExpSessions : writer'[s] = NoWriter /\ ~HasTemp(writer'[s]) /\ DOMAIN inbox'[s] = {}
  BY <1>2 DEF HasTemp, NoWriter
<1>8. TempsOk'
  <2>1. \A t \in temps' : ~t.abandoned =>
          \E s \in ExpSessions : HasTemp(writer'[s]) /\ writer'[s].job.n = t.of
    BY <1>5
  <2>2. \A s \in ExpSessions : ~HasTemp(writer'[s])
    BY <1>7
  <2> QED
    BY <2>1, <2>2 DEF TempsOk, HasTemp
<1>9. Apart' /\ Spared' /\ (\A s \in ExpSessions : WriterOk(writer'[s])) /\ ModalOk(modal')
  BY <1>2, <1>7 DEF Apart, Spared, WriterOk, ModalOk
<1>10. LiveJobs' = {}
  BY <1>7 DEF LiveJobs, Queued, AtWork
<1>11. \A t \in Targets : Beyond(files[t].of)'
  <2> SUFFICES ASSUME NEW t \in Targets PROVE Beyond(files[t].of)'
    OBVIOUS
  <2>1. Beyond(files[t].of) /\ files[t].of \in Int
    BY <1>1 DEF Exporting, Numbers, Typed, FileSet, Nothing
  <2> QED
    BY <1>1, <1>2, <2>1 DEF Beyond
<1>12. Numbers'
  BY <1>10, <1>11 DEF Numbers
<1> QED
  BY <1>6, <1>8, <1>9, <1>12 DEF Exporting

-----------------------------------------------------------------------------
(* The theorems *)

\* The invariant holds at first,
LEMMA InitExporting == ASSUME ExpInit PROVE Exporting
<1>1. PICK u \in ExpUsers : expLeft = [may |-> u.may, left |-> u.left, results |-> Results]
  BY DEF ExpInit
<1>2. expLeft = [may |-> expLeft.may, left |-> Left, results |-> expLeft.results] /\ Left \in Nat
  BY <1>1, ExpUsersAssumption DEF Left
<1>3. /\ modal = NoModal /\ temps = {} /\ files \in [Targets -> {Nothing, Found}]
      /\ inbox = [s \in ExpSessions |-> <<>>] /\ outbox = [s \in ExpSessions |-> <<>>]
      /\ writer = [s \in ExpSessions |-> NoWriter]
  BY DEF ExpInit
<1>4. Nothing \in FileSet /\ Found \in FileSet /\ Nothing.of = 0 /\ Found.of = 0
  BY DEF FileSet, Nothing, Found, Whole
<1>5. files \in [Targets -> FileSet] /\ \A t \in Targets : files[t].of = 0
  BY <1>3, <1>4
<1>6. inbox \in [ExpSessions -> Seq(JobSet)] /\ outbox \in [ExpSessions -> Seq(AnswerSet)]
  BY <1>3
<1>7. Typed
  BY <1>2, <1>3, <1>5, <1>6 DEF Typed, WriterSet
<1>8. \A s \in ExpSessions : writer[s] = NoWriter /\ ~HasTemp(writer[s]) /\ DOMAIN inbox[s] = {}
  BY <1>3 DEF HasTemp, NoWriter
<1>9. TempsOk /\ Apart /\ Spared /\ (\A s \in ExpSessions : WriterOk(writer[s])) /\ ModalOk(modal)
  BY <1>3, <1>8 DEF TempsOk, Apart, Spared, WriterOk, ModalOk
<1>10. LiveJobs = {}
  BY <1>8 DEF LiveJobs, Queued, AtWork
<1>11. Numbers
  BY <1>5, <1>10 DEF Numbers, Beyond
<1> QED
  BY <1>7, <1>9, <1>11 DEF Exporting

\* and every step keeps it.
LEMMA NextExporting == ASSUME Exporting, [ExpNext]_expVars PROVE Exporting'
<1>1. CASE OpenExport \/ EditField \/ PressEnter \/ SayYes \/ CancelExport \/ Quick \/ SwitchSession
  BY <1>1, DialogKeeps
<1>2. ASSUME NEW s \in ExpSessions, ResultComes(s) PROVE Exporting'
  BY <1>2, OthersKeep
<1>3. CASE \E p \in probes : ProbeLooks(p) \/ ProbeAnswered(p)
  BY <1>3, OthersKeep
<1>4. ASSUME NEW s \in ExpSessions, Writes(s) PROVE Exporting'
  <2>1. CASE TakeExport(s)
    BY <2>1, TakeKeeps
  <2>2. CASE Create(s)
    BY <2>2, CreateKeeps
  <2>3. CASE QueryStreams(s)
    BY <2>3, StreamsKeeps
  <2>4. CASE TakeBatch(s)
    BY <2>4, TakeBatchKeeps
  <2>5. CASE FinishFile(s)
    BY <2>5, FinishKeeps
  <2>6. CASE Rename(s)
    BY <2>6, RenameKeeps
  <2>7. CASE WriterStops(s)
    BY <2>7, StopsKeeps
  <2> QED
    BY <1>4, <2>1, <2>2, <2>3, <2>4, <2>5, <2>6, <2>7 DEF Writes
<1>5. ASSUME NEW s \in ExpSessions, HearExport(s) PROVE Exporting'
  BY <1>5, HearKeeps
<1>6. CASE Outside
  BY <1>6, OutsideKeeps
<1>7. CASE Killed
  BY <1>7, KilledKeeps
<1>8. CASE UNCHANGED expVars
  <2>1. UNCHANGED <<inbox, outbox, writer, files, temps, modal, expLeft>>
    BY <1>8 DEF expVars
  <2>2. ModalOk(modal') /\ Left' = Left /\ Left \in Nat
        /\ expLeft' = [may |-> expLeft'.may, left |-> Left', results |-> expLeft'.results]
    BY <2>1 DEF Exporting, Typed, Left
  <2> QED
    BY <2>1, <2>2, Quiet
<1> QED
  BY <1>1, <1>2, <1>3, <1>4, <1>5, <1>6, <1>7, <1>8 DEF ExpNext

\* It is an invariant of the specification.
THEOREM ExportingHolds == ExpSpec => []Exporting
<1>1. ExpInit => Exporting
  BY InitExporting
<1>2. Exporting /\ [ExpNext]_expVars => Exporting'
  BY NextExporting
<1> QED
  BY <1>1, <1>2, PTL DEF ExpSpec

\* export.rs, exporter.rs:33-60: whatever fails, stops or is killed, and however many
\* exports go to one file, a target holds what was there or a whole export; and a
\* temporary file is there only while its export is, or since the app was killed.
THEOREM FilesAreWhole == ExpSpec => []TargetsAreWhole
<1>1. Exporting => TargetsAreWhole
  <2> SUFFICES ASSUME Exporting PROVE TargetsAreWhole
    OBVIOUS
  <2>1. \A t \in Targets : files[t] = Nothing \/ files[t].batches = Batches
    BY DEF Exporting, Typed, FileSet
  <2>2. \A t \in temps : ~t.abandoned =>
          \E s \in ExpSessions : HasTemp(writer[s]) /\ writer[s].job.n = t.of
    BY DEF Exporting, TempsOk
  <2>3. \A s \in ExpSessions : HasTemp(writer[s]) => writer[s] # NoWriter
    BY DEF HasTemp, NoWriter
  <2> QED
    BY <2>1, <2>2, <2>3 DEF TargetsAreWhole
<1> QED
  BY <1>1, ExportingHolds, PTL

\* db.rs, export.rs: a file that stood there when its export was asked for is replaced
\* only if the user agreed to replace that very file.
THEOREM OnlyAgreedIsReplaced == ExpSpec => ReplacedIfAgreed
<1> DEFINE A == \A s \in ExpSessions :
       LET job == writer[s].job
       IN  writer[s].step = "renames" /\ files'[job.target] # files[job.target]
           /\ files[job.target] = job.stood /\ job.stood # Nothing /\ ~job.misled
             => job.said = job.target
<1>1. Exporting => A
  <2> SUFFICES ASSUME Exporting, NEW s \in ExpSessions, writer[s].step = "renames",
                      files[writer[s].job.target] = writer[s].job.stood,
                      writer[s].job.stood # Nothing, ~writer[s].job.misled
               PROVE  writer[s].job.said = writer[s].job.target
    BY DEF A
  <2>1. writer[s] # NoWriter
    BY DEF NoWriter
  <2>2. writer[s].job.overwrite
    BY <2>1 DEF Exporting, Spared
  <2>3. writer[s].job \in JobSet
    BY <2>1, WriterIs DEF Exporting, Typed
  <2>4. JobOk(writer[s].job)
    BY <2>1, <2>3 DEF Exporting, Numbers, LiveJobs, AtWork
  <2> QED
    BY <2>2, <2>4 DEF JobOk
<1>2. Exporting /\ [ExpNext]_expVars => [A]_expVars
  BY <1>1
<1> QED
  BY <1>2, ExportingHolds, PTL DEF ExpSpec, ReplacedIfAgreed
=============================================================================
