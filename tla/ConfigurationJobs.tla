------------------------- MODULE ConfigurationJobs -------------------------
(***************************************************************************)
(* Configuration jobs of one device (device-management                     *)
(* services/configuration_service.py, tasks.py).  A job is dispatched as a *)
(* task of the ACS, which the device runs when it next informs; the worker *)
(* polls the task, reads the parameters back, and notes what the device    *)
(* should have from now on.  All jobs set the same parameters, raw or as   *)
(* compiled from a profile version.  The calls that ask the ACS, made by   *)
(* requests and by the worker, read a job, wait, and commit: nothing locks *)
(* the row in between.  The others wait for nothing and are one step.      *)
(***************************************************************************)
EXTENDS Naturals, SequencesExt

CONSTANTS
  Jobs,
  Version,   \* the profile version some of the jobs apply
  Raw,       \* the profile of a job with parameters of its own
  MaxTasks,  \* bound on the tasks given to the ACS
  Handlers, NoJob

\* What the constants may be (assumed of their values in FieldServices).
JobsAssumption == MaxTasks \in Nat

VARIABLES
  profile,  \* [Jobs -> Version or Raw], as created
  job,      \* [Jobs -> ConfigurationJob.state]
  misread,  \* jobs whose failure_code is VERIFICATION_FAILED
  acs,      \* tasks of the ACS in the order they were created: job, state
  step,     \* tasks whose ConfigurationStep is DISPATCHED
  history,  \* ghost: the jobs whose tasks the device ran, in order
  desired,  \* DeviceDesiredState rows by compiled_at: profile, value
  verified, \* ghost: the jobs that SUCCEEDED, in order
  call      \* [Handlers -> the call in flight, or Idle]

vars == <<profile, job, misread, acs, step, history, desired, verified, call>>

States == {"DRAFT", "READY", "QUEUED", "WAITING_FOR_INFORM", "DEVICE_ACKNOWLEDGED",
           "SUCCEEDED", "FAILED", "TIMED_OUT", "CANCELLED"}
Idle == [op |-> "idle", job |-> NoJob, task |-> 0, match |-> FALSE]
Calls == [op : {"execute", "acknowledge", "fault", "verify"}, job : Jobs, task : 0..MaxTasks, match : BOOLEAN]

\* The parameters a job sets: a version compiles to the same ones every time.
Value(j) == IF profile[j] = Raw THEN j ELSE profile[j]

\* Every variable stays in its type, and at most one desired row per profile.
TypeOK ==
  /\ profile \in [Jobs -> {Version, Raw}] /\ job \in [Jobs -> States] /\ misread \subseteq Jobs
  /\ acs \in Seq([job : Jobs, state : {"QUEUED", "COMPLETED", "FAULTED"}])
  /\ step \subseteq 1..MaxTasks /\ Len(acs) <= MaxTasks
  /\ history \in Seq(Jobs) /\ verified \in Seq(Jobs)
  /\ desired \in Seq([profile : {Version, Raw}, value : Jobs \cup {Version}])
  /\ \A r, s \in DOMAIN desired : r # s => desired[r].profile # desired[s].profile
  /\ call \in [Handlers -> {Idle} \cup Calls]

Init ==
  /\ profile \in [Jobs -> {Version, Raw}]
  /\ job = [j \in Jobs |-> "DRAFT"] /\ misread = {}
  /\ acs = <<>> /\ step = {} /\ history = <<>>
  /\ desired = <<>> /\ verified = <<>>
  /\ call = [h \in Handlers |-> Idle]

---------------------------------------------------------------------------
\* The device runs its oldest task when it informs, or answers it with a fault.
\* Tasks of jobs that are cancelled or timed out are never deleted.
Inform(t, result) ==
  /\ acs[t].state = "QUEUED" /\ \A u \in 1..(t - 1) : acs[u].state # "QUEUED"
  /\ acs' = [acs EXCEPT ![t].state = result]
  /\ history' = IF result = "COMPLETED" THEN Append(history, acs[t].job) ELSE history
  /\ UNCHANGED <<profile, job, misread, step, desired, verified, call>>

\* The transitions of a call that waits for nothing: approve_job, queue_job,
\* cancel_job, timeout_stale_jobs.
Moves ==
  {<<"DRAFT", "READY">>, <<"READY", "QUEUED">>}
    \cup {"DRAFT", "READY", "QUEUED", "WAITING_FOR_INFORM"} \X {"CANCELLED"}
    \cup {"QUEUED", "WAITING_FOR_INFORM"} \X {"TIMED_OUT"}

Request(j, state) ==
  /\ <<job[j], state>> \in Moves
  /\ job' = [job EXCEPT ![j] = state]
  /\ misread' = IF state = "TIMED_OUT" THEN misread \ {j} ELSE misread
  /\ UNCHANGED <<profile, acs, step, history, desired, verified, call>>

\* The states the others take a job from.
From == [execute |-> {"READY", "QUEUED"}, acknowledge |-> {"WAITING_FOR_INFORM"},
         fault |-> {"QUEUED", "WAITING_FOR_INFORM", "DEVICE_ACKNOWLEDGED"},
         verify |-> {"DEVICE_ACKNOWLEDGED"}]

Start(h, op, j, t, match) ==
  /\ call[h] = Idle /\ job[j] \in From[op]
  /\ call' = [call EXCEPT ![h] = [op |-> op, job |-> j, task |-> t, match |-> match]]
  /\ UNCHANGED <<profile, job, misread, step, history, desired, verified>>

\* execute_job gives the ACS its task before anything is committed.
Execute(h, j) ==
  /\ Len(acs) < MaxTasks
  /\ acs' = Append(acs, [job |-> j, state |-> "QUEUED"])
  /\ Start(h, "execute", j, Len(acs) + 1, FALSE)

\* process_pending_jobs reads the task of a dispatched step.
Poll(h, t) ==
  /\ t \in step /\ UNCHANGED acs
  /\ \/ acs[t].state = "COMPLETED" /\ Start(h, "acknowledge", acs[t].job, t, FALSE)
     \/ acs[t].state = "FAULTED" /\ Start(h, "fault", acs[t].job, t, FALSE)

\* What the device has now, compared with what the job set.
Matches(j) == history # <<>> /\ Value(Last(history)) = Value(j)

\* verify_job reads the parameters back.
Verify(h, j) == UNCHANGED acs /\ Start(h, "verify", j, 0, Matches(j))

\* A raw row that is left alone as well.
Kept_Snapshot(j) ==
  IF \E n \in DOMAIN desired : desired[n].profile = profile[j]
    THEN desired ELSE Append(desired, [profile |-> profile[j], value |-> Value(j)])

\* The desired state after a job: the row of a profile version that has one is
\* left alone; the raw one is brought up to date.
Snapshot(j) ==
  LET row == [profile |-> profile[j], value |-> Value(j)]
      known == {n \in DOMAIN desired : desired[n].profile = profile[j]}
  IN IF known = {} THEN Append(desired, row)
     ELSE IF profile[j] # Raw THEN desired
     ELSE Append(RemoveAt(desired, CHOOSE n \in known : TRUE), row)

\* The state an operation leaves a job in.
Target(c) ==
  CASE c.op = "execute" -> "WAITING_FOR_INFORM"
    [] c.op = "acknowledge" -> "DEVICE_ACKNOWLEDGED"
    [] c.op = "fault" -> "FAILED"
    [] c.op = "verify" -> IF c.match THEN "SUCCEEDED" ELSE "FAILED"

\* The commit writes the state over whatever was committed since it was read.
Commit(h) ==
  LET c == call[h]
      j == c.job
  IN /\ c # Idle
     /\ job' = [job EXCEPT ![j] = Target(c)]
     /\ misread' = CASE c.op = "verify" /\ ~c.match -> misread \cup {j}
                     [] c.op = "fault" -> misread \ {j}
                     [] OTHER -> misread
     /\ step' = CASE c.op = "execute" -> step \cup {c.task}
                  [] c.op = "acknowledge" -> step \ {c.task}
                  [] OTHER -> step
     /\ IF c.op = "verify" /\ c.match
          THEN desired' = Snapshot(j) /\ verified' = Append(verified, j)
          ELSE UNCHANGED <<desired, verified>>
     /\ call' = [call EXCEPT ![h] = Idle]
     /\ UNCHANGED <<profile, acs, history>>

\* The ACS does not answer, or the process dies: the transaction is rolled back,
\* the task it gave to the ACS is not.
Die(h) ==
  /\ call[h] # Idle
  /\ call' = [call EXCEPT ![h] = Idle]
  /\ UNCHANGED <<profile, job, misread, acs, step, history, desired, verified>>

Next ==
  \/ \E t \in DOMAIN acs, result \in {"COMPLETED", "FAULTED"} : Inform(t, result)
  \/ \E j \in Jobs, state \in States : Request(j, state)
  \/ \E h \in Handlers :
       \/ Commit(h) \/ Die(h)
       \/ \E t \in DOMAIN acs : Poll(h, t)
       \/ \E j \in Jobs : Execute(h, j) \/ Verify(h, j)

Spec == Init /\ [][Next]_vars

---------------------------------------------------------------------------
(* Properties *)

\* A job SUCCEEDED only after the device ran a task of its own; one that failed
\* its verification was run over by a task of other parameters, which may be
\* that of a job cancelled or timed out long before (verify_job).
ResultsAreTrue ==
  \A j \in Jobs :
    /\ job[j] = "SUCCEEDED" => Contains(history, j)
    /\ j \in misread =>
         \E m, n \in DOMAIN history :
           m < n /\ history[m] = j /\ Value(history[n]) # Value(j)

\* "so drift detection still works" (configuration_service.py:272): detect_drift
\* compares the device with the parameters of the job verified last, unless
\* this job applied a version that had been applied before.
DriftIsFromLastVerified ==
  verified # <<>> =>
    \/ Last(desired).value = Value(Last(verified))
    \/ /\ profile[Last(verified)] # Raw
       /\ \E n \in 1..(Len(verified) - 1) : profile[verified[n]] = profile[Last(verified)]

\* Both.
OutcomesAreTrue == ResultsAreTrue /\ DriftIsFromLastVerified
============================================================================
