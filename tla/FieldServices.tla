--------------------------- MODULE FieldServices ---------------------------
(***************************************************************************)
(* Support tickets (extended), firmware rollouts, remediation intents and  *)
(* configuration jobs, side by side.  They share no state here, so their   *)
(* interleaving adds nothing: in a behaviour only the component named by   *)
(* part moves.                                                             *)
(***************************************************************************)
EXTENDS SupportTickets

CONSTANTS
  Handlers,  \* requests of rollouts and intents
  \* firmware rollouts
  StageCount, Deployments, SuccessPercent, FailurePercent,
  \* remediation intents
  Intents, Users, Limit, Budget, Threshold, Cooldown, Hour, MaxTime, MaxAttempts, Never,
  \* configuration jobs
  Jobs, Version, Raw, MaxTasks, Callers, NoJob

VARIABLES
  part,
  rows, deployment, calls, early, raised, stale,
  level, intent, decisions, killed, now, requests, overlapped,
  profile, job, misread, acs, step, history, desired, verified, exchanges

rolloutVars == <<rows, deployment, calls, early, raised, stale>>
intentVars == <<level, intent, decisions, killed, now, requests, overlapped>>
jobVars == <<profile, job, misread, acs, step, history, desired, verified, exchanges>>
fieldVars == <<part, rolloutVars, intentVars, jobVars, vars>>

Rollout == INSTANCE FirmwareRollout WITH task <- calls

Remedy == INSTANCE RemediationIntents WITH task <- requests

Configure == INSTANCE ConfigurationJobs WITH Handlers <- Callers, call <- exchanges

ASSUME FieldAssumption ==
  Rollout!RolloutAssumption /\ Remedy!IntentsAssumption /\ Configure!JobsAssumption

FieldInit ==
  /\ part \in {"rollout", "remediation", "configuration", "support"}
  /\ Rollout!Init /\ Remedy!Init /\ Configure!Init /\ Init

FieldNext ==
  /\ UNCHANGED part
  /\ \/ part = "rollout" /\ Rollout!Next /\ UNCHANGED <<intentVars, jobVars, vars>>
     \/ part = "remediation" /\ Remedy!Next /\ UNCHANGED <<rolloutVars, jobVars, vars>>
     \/ part = "configuration" /\ Configure!Next /\ UNCHANGED <<rolloutVars, intentVars, vars>>
     \/ part = "support" /\ Next /\ UNCHANGED <<rolloutVars, intentVars, jobVars>>

FieldSpec == FieldInit /\ [][FieldNext]_fieldVars

\* The types of the four components.
FieldTypeOK == Rollout!TypeOK /\ Remedy!TypeOK /\ Configure!TypeOK /\ TypeOK

\* Stages are entered and decided in order (FirmwareRollout).
StagesInOrder == Rollout!StagesInOrder

\* Executions stay within approval, rate, budget and cooldown (RemediationIntents).
ExecutionWithinLimits == Remedy!ExecutionWithinLimits

\* Results are true and drift is measured from the last of them (ConfigurationJobs).
OutcomesAreTrue == Configure!OutcomesAreTrue
=============================================================================
