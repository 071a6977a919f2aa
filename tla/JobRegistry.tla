---------------------------- MODULE JobRegistry ----------------------------
(***************************************************************************)
(* The data of crates/qry-core/src/jobs.rs: the registry of every          *)
(* statement the user starts, as a function from job ids to records, and   *)
(* what each call of `Jobs` makes of it.                                   *)
(*                                                                         *)
(* The code keeps the jobs in a deque.  Ids only grow and a new job goes   *)
(* to the back, so the deque's order is the order of the ids and a         *)
(* function on the ids says the same.  Left out: the statement's text, its *)
(* times and its row count, which no property tells apart.                 *)
(***************************************************************************)
EXTENDS Naturals, FiniteSets

CONSTANTS
  Sessions,      \* the sessions jobs belong to
  FinishedKept   \* how many finished jobs are kept (FINISHED_KEPT, 50)

ASSUME FinishedKeptAssumption == FinishedKept \in Nat

JobKinds == {"Query", "FetchMore", "Export"}
FinishedStates == {"done", "failed", "cancelled"}
JobStates == {"queued", "running"} \cup FinishedStates

Job == [session : Sessions, kind : JobKinds, state : JobStates]

\* The registry before anything ran.
NoJobs == [id \in {} |-> id]

Queued(jobs)   == {id \in DOMAIN jobs : jobs[id].state = "queued"}
Running(jobs)  == {id \in DOMAIN jobs : jobs[id].state = "running"}
Finished(jobs) == {id \in DOMAIN jobs : jobs[id].state \in FinishedStates}
JobsOf(jobs, s) == {id \in DOMAIN jobs : jobs[id].session = s}

\* `running`: whether session s runs a job.
SessionRuns(jobs, s) == Running(jobs) \cap JobsOf(jobs, s) # {}

\* `cancelled`, as the reducer asks it of a job that may have been dropped.
IsCancelled(jobs, id) == id \in DOMAIN jobs /\ jobs[id].state = "cancelled"

\* The finished jobs that came after id.
FinishedAfter(jobs, id) == {other \in Finished(jobs) : other > id}

\* The oldest finished jobs go until FinishedKept are left.  A fault: the oldest
\* of all jobs go.
KeptOfAll(jobs) ==
  {id \in DOMAIN jobs : Cardinality({other \in DOMAIN jobs : other > id}) < FinishedKept}

Kept(jobs) ==
  {id \in DOMAIN jobs :
     id \in Finished(jobs) => Cardinality(FinishedAfter(jobs, id)) < FinishedKept}

Trim(jobs) == [id \in Kept(jobs) |-> jobs[id]]

\* A job with id newId waits behind every other.
Enqueue(jobs, newId, s, kind) ==
  [id \in DOMAIN jobs \cup {newId} |->
     IF id = newId THEN [session |-> s, kind |-> kind, state |-> "queued"]
                   ELSE jobs[id]]

SetState(jobs, id, state) == [jobs EXCEPT ![id] = [@ EXCEPT !.state = state]]

\* Only a queued job of a session that runs nothing else starts.  A fault:
\* whatever else runs.
StartAnyway(jobs, id) == IF id \in Queued(jobs) THEN SetState(jobs, id, "running") ELSE jobs

Start(jobs, id) ==
  IF id \in Queued(jobs) /\ ~SessionRuns(jobs, jobs[id].session)
    THEN SetState(jobs, id, "running")
    ELSE jobs

\* An open job takes its last state; the trim is part of every end.  Faults: no
\* trim; a job that has ended ends again.
EndUntrimmed(jobs, id, state) ==
  IF id \in DOMAIN jobs \ Finished(jobs) THEN SetState(jobs, id, state) ELSE jobs
EndAgain(jobs, id, state) ==
  Trim(IF id \in DOMAIN jobs THEN SetState(jobs, id, state) ELSE jobs)

End(jobs, id, state) ==
  Trim(IF id \in DOMAIN jobs \ Finished(jobs) THEN SetState(jobs, id, state) ELSE jobs)

Finish(jobs, id) == End(jobs, id, "done")
Fail(jobs, id)   == End(jobs, id, "failed")

\* A queued job is removed, a running one marked, any other left alone.
Cancel(jobs, id) ==
  IF id \in Queued(jobs) THEN [other \in DOMAIN jobs \ {id} |-> jobs[other]]
  ELSE IF id \in Running(jobs) THEN End(jobs, id, "cancelled")
  ELSE jobs

\* `cancel` on each waiting job of a run that is dropped.
RemoveQueued(jobs, ids) ==
  [id \in DOMAIN jobs \ (ids \cap Queued(jobs)) |-> jobs[id]]

\* The open jobs of s end as cancelled.  The code ends them one by one, each
\* with its trim; the jobs that are left are those one trim leaves, which
\* MCParts!CloseIsOneByOne checks.  A fault: the waiting ones stay.
CloseRunning(jobs, s) ==
  LET open == JobsOf(jobs, s) \cap Running(jobs)
  IN  Trim([id \in DOMAIN jobs |->
              IF id \in open THEN [jobs[id] EXCEPT !.state = "cancelled"] ELSE jobs[id]])

CloseSession(jobs, s) ==
  LET open == JobsOf(jobs, s) \ Finished(jobs)
      closed == [id \in DOMAIN jobs |->
                   IF id \in open THEN [jobs[id] EXCEPT !.state = "cancelled"]
                                  ELSE jobs[id]]
  IN  IF open = {} THEN jobs ELSE Trim(closed)
=============================================================================
