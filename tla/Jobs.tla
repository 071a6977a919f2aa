-------------------------------- MODULE Jobs --------------------------------
(***************************************************************************)
(* The jobs registry as a component of its own: any caller may make any    *)
(* call, in any order, with the id of any job ever made, dropped ones      *)
(* included (crates/qry-core/src/jobs.rs).                                 *)
(***************************************************************************)
EXTENDS JobRegistry

CONSTANT MaxMade   \* bound: how many jobs are ever made

VARIABLES
  jobs,  \* the registry
  made   \* how many jobs were made: the last id

vars == <<jobs, made>>

Init == jobs = NoJobs /\ made = 0

\* A new job has the next id.
EnqueueJob(s, kind) ==
  /\ made < MaxMade
  /\ made' = made + 1
  /\ jobs' = Enqueue(jobs, made + 1, s, kind)

StartJob(id)  == jobs' = Start(jobs, id) /\ UNCHANGED made
FinishJob(id) == jobs' = Finish(jobs, id) /\ UNCHANGED made
FailJob(id)   == jobs' = Fail(jobs, id) /\ UNCHANGED made
CancelJob(id) == jobs' = Cancel(jobs, id) /\ UNCHANGED made
Close(s)      == jobs' = CloseSession(jobs, s) /\ UNCHANGED made

Next ==
  \/ \E s \in Sessions, kind \in JobKinds : EnqueueJob(s, kind)
  \/ \E id \in 1..made : StartJob(id) \/ FinishJob(id) \/ FailJob(id) \/ CancelJob(id)
  \/ \E s \in Sessions : Close(s)

Spec == Init /\ [][Next]_vars

-----------------------------------------------------------------------------
(* Properties *)

\* The registry holds jobs made so far, and only those.
TypeOK ==
  /\ made \in Nat
  /\ jobs \in [DOMAIN jobs -> Job]
  /\ DOMAIN jobs \subseteq 1..made

\* However the callers race, a session runs one job at a time: `start` is
\* ignored while another runs (jobs.rs:152).
OneRunning ==
  \A a, b \in Running(jobs) : jobs[a].session = jobs[b].session => a = b

\* At most FINISHED_KEPT finished jobs stay, however many end at once
\* (jobs.rs:231).  OpenNeverTrimmed says it of every step.
FinishedBounded == Cardinality(Finished(jobs)) <= FinishedKept

\* `is_finished`: "nothing changes it any more" (jobs.rs:35).  A finished job
\* stays as it is until it is dropped, and one dropped never comes back.
FinishedForGood ==
  [][/\ \A id \in Finished(jobs) : id \in DOMAIN jobs' => jobs'[id] = jobs[id]
     /\ \A id \in 1..made : id \notin DOMAIN jobs => id \notin DOMAIN jobs']_vars

\* A job that is waiting or running is never trimmed away, whatever ends
\* around it: it leaves the registry by its own cancel, or in the very step
\* that ends it.  However many end at once, at most FINISHED_KEPT finished ones
\* stay (jobs.rs:231), no fewer if one was dropped, and all of them newer than it.
OpenNeverTrimmed ==
  [][/\ Cardinality(Finished(jobs')) <= FinishedKept
     /\ \A gone \in DOMAIN jobs \ DOMAIN jobs' :
          \/ gone \in Queued(jobs) /\ jobs' = [id \in DOMAIN jobs \ {gone} |-> jobs[id]]
          \/ /\ Cardinality(Finished(jobs')) = FinishedKept
             /\ \A kept \in Finished(jobs') : gone < kept]_vars
=============================================================================
