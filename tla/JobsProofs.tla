----------------------------- MODULE JobsProofs -----------------------------
(***************************************************************************)
(* Proofs about the jobs registry, for any set of sessions, any number of  *)
(* finished jobs kept and any number of jobs made.                         *)
(***************************************************************************)
EXTENDS Jobs, TLAPS, FiniteSetTheorems, NaturalsInduction, WellFoundedInduction

(***************************************************************************)
(* The lemmas about the registry's operators.                              *)
(***************************************************************************)

\* A nonempty set of naturals has a least element.
LEMMA LeastElement ==
  ASSUME NEW S \in SUBSET Nat, S # {}
  PROVE  \E least \in S : \A other \in S : least <= other
<1>1. IsWellFoundedOn(OpToRel(<, Nat), Nat)
  BY NatLessThanWellFounded
<1>2. PICK least \in S : \A other \in S : ~(<<other, least>> \in OpToRel(<, Nat))
  BY <1>1, WFMin
<1>3. \A other \in S : ~(other < least)
  BY <1>2 DEF OpToRel
<1> QED
  BY <1>3

\* Of a finite set of naturals, those with fewer than `bound` greater members
\* are at most `bound`.
LEMMA FewLatest ==
  ASSUME NEW S \in SUBSET Nat, IsFiniteSet(S), NEW bound \in Nat
  PROVE  LET Latest == {n \in S : Cardinality({m \in S : m > n}) < bound}
         IN  IsFiniteSet(Latest) /\ Cardinality(Latest) <= bound
<1> DEFINE Above(n) == {m \in S : m > n}
           Latest == {n \in S : Cardinality(Above(n)) < bound}
<1>1. IsFiniteSet(Latest)
  BY FS_Subset
<1>2. CASE Latest = {}
  <2>1. Cardinality(Latest) = 0
    BY <1>2, FS_EmptySet
  <2> HIDE DEF Latest
  <2>2. IsFiniteSet(Latest) /\ Cardinality(Latest) <= bound
    BY <1>1, <2>1
  <2> QED
    BY <2>2 DEF Latest
<1>3. CASE Latest # {}
  <2>1. PICK least \in Latest : \A other \in Latest : least <= other
    BY <1>3, LeastElement
  <2>2. IsFiniteSet(Above(least)) /\ Cardinality(Above(least)) \in Nat
    BY FS_Subset, FS_CardinalityType
  <2>3. Latest \ {least} \subseteq Above(least)
    <3>1. ASSUME NEW other \in Latest \ {least}
          PROVE  other \in S /\ other > least
      <4>1. other \in Nat /\ least \in Nat /\ other \in S
        OBVIOUS
      <4>2. least <= other /\ other # least
        BY <2>1
      <4> QED
        BY <4>1, <4>2
    <3> QED
      BY <3>1
  <2>4. Cardinality(Latest \ {least}) <= Cardinality(Above(least))
    BY <2>2, <2>3, FS_Subset
  <2>5. Cardinality(Latest \ {least}) = Cardinality(Latest) - 1
    BY <1>1, <2>1, FS_RemoveElement
  <2>6. Cardinality(Latest) \in Nat /\ Cardinality(Above(least)) < bound
    BY <1>1, <2>1, FS_CardinalityType
  <2> QED
    BY <1>1, <2>2, <2>4, <2>5, <2>6
<1> QED
  BY <1>2, <1>3

\* What the proofs assume of a registry in which n jobs were made.
Valid(js, n) == /\ js \in [DOMAIN js -> Job]
                /\ DOMAIN js \subseteq 1..n

\* A trim keeps a part of the registry as it is, with every open job in it.
LEMMA TrimKeeps ==
  ASSUME NEW js, NEW n \in Nat, Valid(js, n)
  PROVE  /\ Valid(Trim(js), n)
         /\ DOMAIN Trim(js) \subseteq DOMAIN js
         /\ \A id \in DOMAIN Trim(js) : Trim(js)[id] = js[id]
         /\ DOMAIN js \ Finished(js) \subseteq DOMAIN Trim(js)
         /\ Finished(Trim(js)) = DOMAIN Trim(js) \cap Finished(js)
BY DEF Valid, Trim, Kept, Finished

\* After a trim at most FinishedKept jobs are finished.
LEMMA TrimBounds ==
  ASSUME NEW js, NEW n \in Nat, Valid(js, n)
  PROVE  Cardinality(Finished(Trim(js))) <= FinishedKept
<1> DEFINE F == Finished(js)
           Latest == {id \in F : Cardinality({other \in F : other > id}) < FinishedKept}
<1>1. F \in SUBSET Nat /\ IsFiniteSet(F)
  <2>1. F \subseteq 1..n
    BY DEF Valid, Finished
  <2>2. IsFiniteSet(1..n)
    BY FS_Interval
  <2> QED
    BY <2>1, <2>2, FS_Subset
<1>2. Cardinality(Latest) <= FinishedKept
  <2> HIDE DEF F
  <2> QED
    BY <1>1, FewLatest, FinishedKeptAssumption
<1>3. Finished(Trim(js)) = Latest
  BY DEF Trim, Kept, Finished, FinishedAfter
<1> QED
  BY <1>2, <1>3

\* Changing the state of one job leaves every other field and job alone.
LEMMA SetStateKeeps ==
  ASSUME NEW js, NEW n \in Nat, Valid(js, n), NEW id \in DOMAIN js, NEW state \in JobStates
  PROVE  /\ Valid(SetState(js, id, state), n)
         /\ DOMAIN SetState(js, id, state) = DOMAIN js
         /\ \A other \in DOMAIN js \ {id} : SetState(js, id, state)[other] = js[other]
         /\ SetState(js, id, state)[id].state = state
         /\ SetState(js, id, state)[id].session = js[id].session
BY DEF Valid, SetState, Job

(***************************************************************************)
(* What each call does to the registry.  `Evolves` is what no call may     *)
(* break: a job that stays keeps its session, and stays as it is if it had *)
(* ended.                                                                  *)
(***************************************************************************)
Evolves(js, after) ==
  /\ \A id \in DOMAIN js \cap DOMAIN after :
       /\ after[id].session = js[id].session
       /\ id \in Finished(js) => after[id] = js[id]

\* Of every call but Start and Enqueue: no job is new, and the jobs that run
\* after it ran before it.
NoneStarted(js, after) == /\ DOMAIN after \subseteq DOMAIN js
                          /\ Running(after) \subseteq Running(js)

LEMMA TrimEvolves ==
  ASSUME NEW js, NEW n \in Nat, Valid(js, n)
  PROVE  /\ Valid(Trim(js), n)
         /\ Evolves(js, Trim(js))
         /\ NoneStarted(js, Trim(js))
         /\ Cardinality(Finished(Trim(js))) <= FinishedKept
BY TrimKeeps, TrimBounds DEF Evolves, NoneStarted, Running

LEMMA EndEvolves ==
  ASSUME NEW js, NEW n \in Nat, Valid(js, n), NEW id, NEW state \in FinishedStates
  PROVE  /\ Valid(End(js, id, state), n)
         /\ Evolves(js, End(js, id, state))
         /\ NoneStarted(js, End(js, id, state))
         /\ Cardinality(Finished(End(js, id, state))) <= FinishedKept
<1>1. CASE id \in DOMAIN js \ Finished(js)
  <2> DEFINE set == SetState(js, id, state)
  <2>1. /\ Valid(set, n)
        /\ DOMAIN set = DOMAIN js
        /\ \A other \in DOMAIN js \ {id} : set[other] = js[other]
        /\ set[id].state = state
        /\ set[id].session = js[id].session
    <3>1. state \in JobStates /\ id \in DOMAIN js
      BY <1>1 DEF JobStates
    <3> QED
      BY <3>1, SetStateKeeps
  <2>2. End(js, id, state) = Trim(set)
    BY <1>1 DEF End
  <2> HIDE DEF set
  <2>3. /\ Valid(Trim(set), n)
        /\ Cardinality(Finished(Trim(set))) <= FinishedKept
        /\ DOMAIN Trim(set) \subseteq DOMAIN js
        /\ \A other \in DOMAIN Trim(set) : Trim(set)[other] = set[other]
    BY <2>1, TrimKeeps, TrimBounds
  <2>4. Evolves(js, Trim(set))
    BY <1>1, <2>1, <2>3 DEF Evolves
  <2>5. NoneStarted(js, Trim(set))
    BY <1>1, <2>1, <2>3 DEF NoneStarted, Running, FinishedStates
  <2> QED
    BY <2>2, <2>3, <2>4, <2>5
<1>2. CASE id \notin DOMAIN js \ Finished(js)
  BY <1>2, TrimEvolves DEF End
<1> QED
  BY <1>1, <1>2

LEMMA CloseEvolves ==
  ASSUME NEW js, NEW n \in Nat, Valid(js, n), NEW s,
         Cardinality(Finished(js)) <= FinishedKept
  PROVE  /\ Valid(CloseSession(js, s), n)
         /\ Evolves(js, CloseSession(js, s))
         /\ NoneStarted(js, CloseSession(js, s))
         /\ Cardinality(Finished(CloseSession(js, s))) <= FinishedKept
<1> DEFINE open == JobsOf(js, s) \ Finished(js)
           closed == [id \in DOMAIN js |->
                        IF id \in open THEN [js[id] EXCEPT !.state = "cancelled"]
                                       ELSE js[id]]
<1>1. CASE open = {}
  BY <1>1 DEF CloseSession, Evolves, NoneStarted
<1>2. CASE open # {}
  <2>1. /\ Valid(closed, n)
        /\ Evolves(js, closed)
        /\ NoneStarted(js, closed)
        /\ DOMAIN closed = DOMAIN js
        /\ \A id \in Finished(js) : closed[id] = js[id]
        /\ Finished(js) \subseteq Finished(closed)
    BY DEF Valid, Job, JobStates, FinishedStates, Evolves, NoneStarted, Running,
           Finished, JobsOf
  <2>2. CloseSession(js, s) = Trim(closed)
    BY <1>2 DEF CloseSession
  <2> HIDE DEF closed
  <2>3. /\ Valid(Trim(closed), n)
        /\ Evolves(closed, Trim(closed))
        /\ NoneStarted(closed, Trim(closed))
        /\ Cardinality(Finished(Trim(closed))) <= FinishedKept
        /\ \A id \in DOMAIN Trim(closed) : Trim(closed)[id] = closed[id]
    BY <2>1, TrimEvolves, TrimKeeps
  <2>4. Evolves(js, Trim(closed)) /\ NoneStarted(js, Trim(closed))
    BY <2>1, <2>3 DEF Evolves, NoneStarted
  <2> QED
    BY <2>2, <2>3, <2>4
<1> QED
  BY <1>1, <1>2

(***************************************************************************)
(* The invariant.  Each conjunct of Inv is inductive given TypeOK.         *)
(***************************************************************************)
Inv == TypeOK /\ OneRunning /\ FinishedBounded

LEMMA TypeIsValid == TypeOK => made \in Nat /\ Valid(jobs, made)
BY DEF TypeOK, Valid

\* A call that starts nothing preserves the invariant.
LEMMA QuietCallPreserves ==
  ASSUME Inv, made' = made, Valid(jobs', made), Evolves(jobs, jobs'),
         NoneStarted(jobs, jobs'), Cardinality(Finished(jobs')) <= FinishedKept
  PROVE  Inv'
<1>1. TypeOK'
  BY DEF Inv, TypeOK, Valid
<1>2. OneRunning'
  BY DEF Inv, OneRunning, Evolves, NoneStarted, Running
<1>3. FinishedBounded'
  BY DEF FinishedBounded
<1> QED
  BY <1>1, <1>2, <1>3 DEF Inv

LEMMA EnqueueEvolves ==
  ASSUME Inv, NEW s \in Sessions, NEW kind \in JobKinds, EnqueueJob(s, kind)
  PROVE  Inv' /\ Evolves(jobs, jobs') /\ DOMAIN jobs' = DOMAIN jobs \cup {made'}
<1>1. made \in Nat /\ made' = made + 1 /\ made' \notin DOMAIN jobs
  BY DEF Inv, TypeOK, EnqueueJob
<1>2. /\ DOMAIN jobs' = DOMAIN jobs \cup {made'}
      /\ \A id \in DOMAIN jobs : jobs'[id] = jobs[id]
      /\ jobs'[made'] = [session |-> s, kind |-> kind, state |-> "queued"]
      /\ jobs' \in [DOMAIN jobs' -> Job]
  BY <1>1 DEF EnqueueJob, Enqueue, Inv, TypeOK, Job, JobStates
<1>3. TypeOK'
  BY <1>1, <1>2 DEF Inv, TypeOK
<1>4. Running(jobs') = Running(jobs) /\ Finished(jobs') = Finished(jobs)
  BY <1>1, <1>2 DEF Running, Finished, FinishedStates
<1>5. OneRunning'
  BY <1>2, <1>4 DEF Inv, OneRunning, Running
<1>6. FinishedBounded'
  BY <1>4 DEF Inv, FinishedBounded
<1> QED
  BY <1>2, <1>3, <1>5, <1>6 DEF Inv, Evolves, Finished

LEMMA StartEvolves ==
  ASSUME Inv, NEW id, StartJob(id)
  PROVE  Inv' /\ Evolves(jobs, jobs') /\ DOMAIN jobs' = DOMAIN jobs
<1>1. CASE id \in Queued(jobs) /\ ~SessionRuns(jobs, jobs[id].session)
  <2>1. made \in Nat /\ Valid(jobs, made) /\ id \in DOMAIN jobs
    BY <1>1, TypeIsValid DEF Inv, Queued
  <2>2. jobs' = SetState(jobs, id, "running") /\ made' = made
    BY <1>1 DEF StartJob, Start
  <2>3. /\ Valid(jobs', made)
        /\ DOMAIN jobs' = DOMAIN jobs
        /\ \A other \in DOMAIN jobs \ {id} : jobs'[other] = jobs[other]
        /\ jobs'[id].state = "running"
        /\ jobs'[id].session = jobs[id].session
    BY <2>1, <2>2, SetStateKeeps DEF JobStates
  <2>4. Running(jobs') = Running(jobs) \cup {id} /\ Finished(jobs') = Finished(jobs)
    BY <1>1, <2>1, <2>3 DEF Running, Finished, FinishedStates, Queued
  <2>5. TypeOK'
    BY <2>2, <2>3 DEF Inv, TypeOK, Valid
  <2>6. \A other \in Running(jobs) : jobs[other].session # jobs[id].session
    BY <1>1 DEF SessionRuns, JobsOf, Running
  <2>7. OneRunning'
    BY <2>1, <2>3, <2>4, <2>6 DEF Inv, OneRunning, Running
  <2>8. FinishedBounded'
    BY <2>4 DEF Inv, FinishedBounded
  <2>9. Evolves(jobs, jobs')
    BY <1>1, <2>3 DEF Evolves, Finished, Queued, FinishedStates
  <2> QED
    BY <2>3, <2>5, <2>7, <2>8, <2>9 DEF Inv
<1>2. CASE ~(id \in Queued(jobs) /\ ~SessionRuns(jobs, jobs[id].session))
  <2>1. jobs' = jobs /\ made' = made
    BY <1>2 DEF StartJob, Start
  <2>2. Inv'
    BY <2>1 DEF Inv, TypeOK, OneRunning, FinishedBounded
  <2> QED
    BY <2>1, <2>2 DEF Evolves
<1> QED
  BY <1>1, <1>2

LEMMA EndingCallEvolves ==
  ASSUME Inv, NEW id, FinishJob(id) \/ FailJob(id)
  PROVE  Inv' /\ Evolves(jobs, jobs') /\ DOMAIN jobs' \subseteq DOMAIN jobs
<1>1. made \in Nat /\ Valid(jobs, made)
  BY TypeIsValid DEF Inv
<1>2. PICK state \in FinishedStates : jobs' = End(jobs, id, state) /\ made' = made
  BY DEF FinishJob, FailJob, Finish, Fail, FinishedStates
<1>3. /\ Valid(jobs', made)
      /\ Evolves(jobs, jobs')
      /\ NoneStarted(jobs, jobs')
      /\ Cardinality(Finished(jobs')) <= FinishedKept
  BY <1>1, <1>2, EndEvolves
<1> QED
  BY <1>2, <1>3, QuietCallPreserves DEF NoneStarted

LEMMA CancelEvolves ==
  ASSUME Inv, NEW id, CancelJob(id)
  PROVE  Inv' /\ Evolves(jobs, jobs') /\ DOMAIN jobs' \subseteq DOMAIN jobs
<1>1. made \in Nat /\ Valid(jobs, made) /\ made' = made /\ jobs' = Cancel(jobs, id)
  BY TypeIsValid DEF Inv, CancelJob
<1>2. CASE id \in Queued(jobs)
  <2>1. jobs' = [other \in DOMAIN jobs \ {id} |-> jobs[other]]
    BY <1>1, <1>2 DEF Cancel
  <2>2. Valid(jobs', made) /\ Evolves(jobs, jobs') /\ NoneStarted(jobs, jobs')
    BY <1>1, <2>1 DEF Valid, Evolves, NoneStarted, Running
  <2>3. Finished(jobs') = Finished(jobs)
    BY <1>2, <2>1 DEF Finished, Queued, FinishedStates
  <2> QED
    BY <1>1, <2>2, <2>3, QuietCallPreserves DEF Inv, FinishedBounded, NoneStarted
<1>3. CASE id \notin Queued(jobs) /\ id \in Running(jobs)
  <2>1. jobs' = End(jobs, id, "cancelled")
    BY <1>1, <1>3 DEF Cancel
  <2>2. /\ Valid(jobs', made)
        /\ Evolves(jobs, jobs')
        /\ NoneStarted(jobs, jobs')
        /\ Cardinality(Finished(jobs')) <= FinishedKept
    BY <1>1, <2>1, EndEvolves DEF FinishedStates
  <2> QED
    BY <1>1, <2>2, QuietCallPreserves DEF NoneStarted
<1>4. CASE id \notin Queued(jobs) /\ id \notin Running(jobs)
  <2>1. jobs' = jobs
    BY <1>1, <1>4 DEF Cancel
  <2>2. Evolves(jobs, jobs') /\ NoneStarted(jobs, jobs')
    BY <2>1 DEF Evolves, NoneStarted
  <2> QED
    BY <1>1, <2>1, <2>2, QuietCallPreserves DEF Inv, FinishedBounded
<1> QED
  BY <1>2, <1>3, <1>4

LEMMA CloseCallEvolves ==
  ASSUME Inv, NEW s \in Sessions, Close(s)
  PROVE  Inv' /\ Evolves(jobs, jobs') /\ DOMAIN jobs' \subseteq DOMAIN jobs
<1>1. made \in Nat /\ Valid(jobs, made) /\ Cardinality(Finished(jobs)) <= FinishedKept
  BY TypeIsValid DEF Inv, FinishedBounded
<1>2. jobs' = CloseSession(jobs, s) /\ made' = made
  BY DEF Close
<1>3. /\ Valid(jobs', made)
      /\ Evolves(jobs, jobs')
      /\ NoneStarted(jobs, jobs')
      /\ Cardinality(Finished(jobs')) <= FinishedKept
  BY <1>1, <1>2, CloseEvolves
<1> QED
  BY <1>2, <1>3, QuietCallPreserves DEF NoneStarted

\* Every step keeps the invariant and makes the registry evolve; the only id
\* that is new is that of the job just made.
LEMMA StepEvolves ==
  ASSUME Inv, Next
  PROVE  /\ Inv'
         /\ Evolves(jobs, jobs')
         /\ DOMAIN jobs' \subseteq DOMAIN jobs \cup ({made'} \ 1..made)
<1>1. ASSUME NEW s \in Sessions, NEW kind \in JobKinds, EnqueueJob(s, kind)
      PROVE  /\ Inv' /\ Evolves(jobs, jobs')
             /\ DOMAIN jobs' \subseteq DOMAIN jobs \cup ({made'} \ 1..made)
  <2>1. made' \notin 1..made
    BY <1>1 DEF EnqueueJob, Inv, TypeOK
  <2> QED
    BY <1>1, <2>1, EnqueueEvolves
<1>2. ASSUME NEW id \in 1..made,
             StartJob(id) \/ FinishJob(id) \/ FailJob(id) \/ CancelJob(id)
      PROVE  Inv' /\ Evolves(jobs, jobs') /\ DOMAIN jobs' \subseteq DOMAIN jobs
  BY <1>2, StartEvolves, EndingCallEvolves, CancelEvolves
<1>3. ASSUME NEW s \in Sessions, Close(s)
      PROVE  Inv' /\ Evolves(jobs, jobs') /\ DOMAIN jobs' \subseteq DOMAIN jobs
  BY <1>3, CloseCallEvolves
<1> QED
  BY <1>1, <1>2, <1>3 DEF Next

LEMMA InitInv == Init => Inv
<1> SUFFICES ASSUME Init PROVE Inv
  OBVIOUS
<1>1. jobs = NoJobs /\ made = 0 /\ DOMAIN jobs = {}
  BY DEF Init, NoJobs
<1>2. TypeOK
  BY <1>1 DEF TypeOK, NoJobs
<1>3. OneRunning
  BY <1>1 DEF OneRunning, Running
<1>4. Finished(jobs) = {}
  BY <1>1 DEF Finished
<1>5. Cardinality(Finished(jobs)) = 0
  BY <1>4, FS_EmptySet
<1> QED
  BY <1>2, <1>3, <1>5, FinishedKeptAssumption DEF Inv, FinishedBounded

LEMMA StepPreserves == Inv /\ [Next]_vars => Inv'
<1>1. ASSUME Inv, Next PROVE Inv'
  BY <1>1, StepEvolves
<1>2. ASSUME Inv, UNCHANGED vars PROVE Inv'
  BY <1>2 DEF Inv, TypeOK, OneRunning, FinishedBounded, vars
<1> QED
  BY <1>1, <1>2

(***************************************************************************)
(* The theorems.                                                           *)
(***************************************************************************)

\* The registry is well formed, no session runs two jobs and at most
\* FINISHED_KEPT finished jobs are kept, whatever calls are made in whatever
\* order (`Jobs::start`, `Jobs::end` and `Jobs::trim`).
THEOREM RegistryInvariant == Spec => [](TypeOK /\ OneRunning /\ FinishedBounded)
<1>1. Init => Inv
  BY InitInv
<1>2. Inv /\ [Next]_vars => Inv'
  BY StepPreserves
<1>3. Inv => TypeOK /\ OneRunning /\ FinishedBounded
  BY DEF Inv
<1> QED
  BY <1>1, <1>2, <1>3, PTL DEF Spec

\* A finished job is never changed and a dropped one never comes back
\* (`JobState::is_finished`: "nothing changes it any more").
THEOREM FinishedJobsAreFinal == Spec => FinishedForGood
<1>1. Init => Inv
  BY InitInv
<1>2. Inv /\ [Next]_vars => Inv'
  BY StepPreserves
<1>3. Inv /\ [Next]_vars =>
        [/\ \A id \in Finished(jobs) : id \in DOMAIN jobs' => jobs'[id] = jobs[id]
         /\ \A id \in 1..made : id \notin DOMAIN jobs => id \notin DOMAIN jobs']_vars
  <2>1. ASSUME Inv, Next
        PROVE  /\ \A id \in Finished(jobs) : id \in DOMAIN jobs' => jobs'[id] = jobs[id]
               /\ \A id \in 1..made : id \notin DOMAIN jobs => id \notin DOMAIN jobs'
    BY <2>1, StepEvolves DEF Evolves, Finished
  <2> QED
    BY <2>1
<1> QED
  BY <1>1, <1>2, <1>3, PTL DEF Spec, FinishedForGood
=============================================================================
