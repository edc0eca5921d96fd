-------------------------- MODULE FirmwareRollout --------------------------
(***************************************************************************)
(* One firmware rollout of the device management service                   *)
(* (services/firmware_service.py): its stages, the deployments queued to   *)
(* them, and the canary decision by which advance_rollout_stages, called   *)
(* by the worker and by the API, goes from one stage to the next.  Every   *)
(* call reads the rollout, its stages and their outcomes and commits the   *)
(* rows it changed later; calls may overlap, and no row carries a version. *)
(***************************************************************************)
EXTENDS Naturals, FiniteSetsExt

CONSTANTS
  StageCount, Deployments, Handlers,
  SuccessPercent, FailurePercent   \* the thresholds, in percent

\* What the constants may be (assumed of their values in FieldServices).
RolloutAssumption ==
  /\ StageCount \in Nat \ {0} /\ IsFiniteSet(Deployments)
  /\ {SuccessPercent, FailurePercent} \subseteq 1..100

VARIABLES
  rows,        \* the rollout and its stages
  deployment,  \* [Deployments -> its stage (0: none) and its state]
  task,        \* [Handlers -> the call in flight: what it read, what it will write]
  early,       \* ghost: a deployment succeeded before its stage was promoted
  raised,      \* ghost: an advance raised, as it will each time it is repeated
  stale        \* ghost: a call committed over rows that were no longer those it read

vars == <<rows, deployment, task, early, raised, stale>>

Stages == 1..StageCount
StageStates == {"ABSENT", "PENDING", "RUNNING", "SUCCEEDED", "PAUSED", "SKIPPED"}
Rows ==
  [rollout : {"DRAFT", "RUNNING", "PAUSED", "COMPLETED", "STOPPED"}, stage : [Stages -> StageStates]]
Failures == {"FAILED", "ROLLED_BACK"}
Operations == {"start", "build", "advance", "pause", "resume", "stop"}
NewRows == [rollout |-> "DRAFT", stage |-> [i \in Stages |-> "ABSENT"]]
Idle == [op |-> "idle", seen |-> NewRows, new |-> NewRows]

\* Every variable stays in its type: no call leaves a rollout READY, nor a
\* deployment between two states.
TypeOK ==
  /\ rows \in Rows
  /\ deployment \in [Deployments -> [stage : 0..StageCount,
       state : {"NONE", "QUEUED", "TRANSFERRING", "SUCCEEDED"} \cup Failures]]
  /\ task \in [Handlers -> [op : Operations \cup {"idle"}, seen : Rows, new : Rows]]
  /\ {early, raised, stale} \subseteq BOOLEAN

Init ==
  /\ rows = NewRows
  /\ deployment = [d \in Deployments |-> [stage |-> 0, state |-> "NONE"]]
  /\ task = [h \in Handlers |-> Idle]
  /\ early = FALSE /\ raised = FALSE /\ stale = FALSE

---------------------------------------------------------------------------
(* Deployments *)

\* queue_deployment: the rollout must run, the stage, if any, need not.
Queue(d, i) ==
  /\ deployment[d].state = "NONE"
  /\ rows.rollout = "RUNNING"
  /\ i # 0 => rows.stage[i] # "ABSENT"
  /\ deployment' = [deployment EXCEPT ![d] = [stage |-> i, state |-> "QUEUED"]]
  /\ UNCHANGED <<rows, task, early, raised, stale>>

\* execute_deployment; when the ACS refuses, the call raises and changes nothing.
Execute(d) ==
  /\ deployment[d].state = "QUEUED"
  /\ deployment' = [deployment EXCEPT ![d].state = "TRANSFERRING"]
  /\ UNCHANGED <<rows, task, early, raised, stale>>

\* An offline device's deployment waits for its inform.
Waiting_Outcomes(s) ==
  CASE s = "QUEUED" -> Failures
    [] s = "TRANSFERRING" -> Failures \cup {"SUCCEEDED", "WAITING_FOR_INFORM"}
    [] OTHER -> {}

\* complete_deployment of a deployment in state s: a transfer that failed, even
\* one that never began, or a device that reports, or does not, the new version;
\* devices that can roll back do.  "Offline" is refused by the transition table.
Outcomes(s) ==
  CASE s = "QUEUED" -> Failures
    [] s = "TRANSFERRING" -> Failures \cup {"SUCCEEDED"}
    [] OTHER -> {}

Complete(d) ==
  \E s \in Outcomes(deployment[d].state) :
    /\ deployment' = [deployment EXCEPT ![d].state = s]
    /\ early' = (early \/ /\ s = "SUCCEEDED" /\ deployment[d].stage # 0
                          /\ rows.stage[deployment[d].stage] = "PENDING")
    /\ UNCHANGED <<rows, task, raised, stale>>

---------------------------------------------------------------------------
(* Advancing *)

Ended(i, states) ==
  Cardinality({d \in Deployments : deployment[d].stage = i /\ deployment[d].state \in states})

\* A decision that needs no sample.
Hasty_Decision(successes, failures) ==
  LET total == successes + failures
  IN IF failures > 0 /\ 100 * failures >= FailurePercent * total THEN "PAUSE"
     ELSE IF 100 * successes >= SuccessPercent * total THEN "COMPLETE"
     ELSE "CONTINUE"

\* canary_passes, with its minimum sample of one.
Decision(successes, failures) ==
  LET total == successes + failures
  IN IF failures > 0 /\ 100 * failures >= FailurePercent * total THEN "PAUSE"
     ELSE IF total > 0 /\ 100 * successes >= SuccessPercent * total THEN "COMPLETE"
     ELSE "CONTINUE"

Verdict(i) == Decision(Ended(i, {"SUCCEEDED"}), Ended(i, Failures))

In(r, s) == {i \in Stages : r.stage[i] = s}

\* The stage an advance looks at first: the one that runs, else the earliest
\* pending one, which it promotes; 0 if there is neither.
Current(r) ==
  IF In(r, "RUNNING") # {} THEN Min(In(r, "RUNNING"))
  ELSE IF In(r, "PENDING") # {} THEN Min(In(r, "PENDING")) ELSE 0

\* The next pending stage is asked of the database, which does not know yet of
\* a stage promoted by this call (autoflush is off): a call that promotes a
\* stage and finds it complete is given that stage again, and SUCCEEDED ->
\* RUNNING is refused.
Raises(r) ==
  /\ r.rollout = "RUNNING" /\ Current(r) # 0
  /\ Verdict(Current(r)) = "COMPLETE"
  /\ \/ In(r, "RUNNING") = {}
     \/ In(r, "PENDING") # {} /\ Verdict(Min(In(r, "PENDING"))) = "COMPLETE"

\* A stage that runs, after the decision about it.
Decided(i) == CASE Verdict(i) = "PAUSE" -> "PAUSED" [] Verdict(i) = "COMPLETE" -> "SUCCEEDED"
                [] OTHER -> "RUNNING"

\* advance_rollout_stages: the current stage is decided; when it is complete the
\* next one is promoted and, being further down the list, decided as well, or,
\* when there is none, the rollout is complete.
Advanced(r) ==
  LET i == Current(r)
      next == In(r, "PENDING") \ {i}
      decided == [r EXCEPT !.stage[i] = Decided(i)]
  IN IF i = 0 \/ Verdict(i) # "COMPLETE" THEN IF i = 0 THEN r ELSE decided
     ELSE IF next = {} THEN [decided EXCEPT !.rollout = "COMPLETED"]
     ELSE [decided EXCEPT !.stage[Min(next)] = Decided(Min(next))]

---------------------------------------------------------------------------
(* Calls *)

Accepts(op) ==
  CASE op = "build" -> In(rows, "ABSENT") = Stages
    [] op = "start" -> rows.rollout \in {"DRAFT", "PAUSED"}
    [] op = "advance" -> rows.rollout = "RUNNING"
    [] op = "pause" -> rows.rollout = "RUNNING"
    [] op = "resume" -> rows.rollout = "PAUSED"
    [] op = "stop" -> rows.rollout \in {"DRAFT", "RUNNING", "PAUSED"}

\* start_rollout passes through READY without committing it.
After(op, r) ==
  CASE op = "build" -> [r EXCEPT !.stage = [i \in Stages |-> "PENDING"]]
    [] op \in {"start", "resume"} -> [r EXCEPT !.rollout = "RUNNING"]
    [] op = "advance" -> Advanced(r)
    [] op = "pause" -> [r EXCEPT !.rollout = "PAUSED"]
    [] op = "stop" -> [rollout |-> "STOPPED", stage |->
         [i \in Stages |-> IF r.stage[i] = "PENDING" THEN "SKIPPED" ELSE r.stage[i]]]

\* A call reads all it needs; an advance that raises rolls back.
Begin(h, op) ==
  /\ task[h] = Idle
  /\ Accepts(op)
  /\ LET fails == op = "advance" /\ Raises(rows)
     IN /\ raised' = (raised \/ fails)
        /\ task' = IF fails THEN task
                   ELSE [task EXCEPT ![h] = [op |-> op, seen |-> rows, new |-> After(op, rows)]]
  /\ UNCHANGED <<rows, deployment, early, stale>>

\* A column is written only when its value differs from the one read.
Column(read, new, now) == IF new = read THEN now ELSE new

Commit(h) ==
  LET t == task[h]
  IN /\ t # Idle
     /\ rows' = [rollout |-> Column(t.seen.rollout, t.new.rollout, rows.rollout),
                 stage |-> [i \in Stages |-> Column(t.seen.stage[i], t.new.stage[i], rows.stage[i])]]
     /\ task' = [task EXCEPT ![h] = Idle]
     /\ stale' = (stale \/ t.seen # rows)
     /\ UNCHANGED <<deployment, early, raised>>

\* After a stale commit nothing is claimed, and the rollout is not followed.
Next ==
  /\ ~stale
  /\ \/ \E d \in Deployments : Execute(d) \/ Complete(d) \/ \E i \in 0..StageCount : Queue(d, i)
     \/ \E h \in Handlers : Commit(h) \/ \E op \in Operations : Begin(h, op)

Spec == Init /\ [][Next]_vars

---------------------------------------------------------------------------
(* Properties *)

\* A bad firmware stays in the stage it was tried in.  Whatever outcomes arrive
\* between the decision of an advance and its commit, and however calls overlap,
\* as long as none committed over rows changed since it read them: one stage
\* runs at a time, stages are entered in order, each after the ones before it
\* were decided; a stage succeeded with a success and was paused with a failure;
\* a rollout is complete only with its last stage, and skips stages only when
\* stopped.  An advance raises (and, being repeated on the same rows, keeps the
\* rollout where it is) only where a deployment succeeded in a stage not yet
\* promoted.
StagesInOrder ==
  ~stale =>
    /\ Cardinality(In(rows, "RUNNING")) <= 1
    /\ \A i, j \in Stages : j < i /\ rows.stage[i] \in {"RUNNING", "SUCCEEDED", "PAUSED"} =>
         rows.stage[j] \in {"SUCCEEDED", "PAUSED"}
    /\ \A i \in In(rows, "SUCCEEDED") : Ended(i, {"SUCCEEDED"}) > 0
    /\ \A i \in In(rows, "PAUSED") : Ended(i, Failures) > 0
    /\ rows.rollout = "COMPLETED" => rows.stage[StageCount] = "SUCCEEDED"
    /\ In(rows, "SKIPPED") # {} => rows.rollout = "STOPPED"
    /\ raised => early
=============================================================================
