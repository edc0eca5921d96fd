----------------------------- MODULE SagaEngine -----------------------------
(***************************************************************************)
(* The durable saga engine of the OSS service (saga_engine.py) on one saga *)
(* and its order: what is committed, in which transactions, and what a     *)
(* process that dies between two of them leaves behind.                    *)
(*                                                                         *)
(* A runner is a process inside SagaEngine.advance: the fulfil request     *)
(* that started the saga, a pass of the worker, or a resume request.       *)
(* Nothing locks a saga, so runners may overlap.  Every action is one      *)
(* database transaction, or a read that decides what the runner does next. *)
(***************************************************************************)
EXTENDS Naturals, Sequences, StateMachines, Workflows

CONSTANTS Definitions,  \* workflow type -> sequence of steps (SAGA_BUILDERS)
          Runners,      \* processes that may run the engine on this saga
          Starter,      \* the runner of the request that started the saga
          UndoMayFail,  \* compensations may fail
          MayCancel,    \* the order may be cancelled while the saga runs
          MaxCrashes,   \* bound: processes that die
          MaxResumes    \* bound: resume requests

Step == [changes : BOOLEAN, pausable : BOOLEAN, undoable : BOOLEAN,
         max_attempts : Nat \ {0}, order_state : OrderStates \cup {NoState}]

ASSUME ConstantsAssumption ==
  /\ \A w \in DOMAIN Definitions : Definitions[w] \in Seq(Step)
  /\ Starter \in Runners
  /\ UndoMayFail \in BOOLEAN /\ MayCancel \in BOOLEAN
  /\ MaxCrashes \in Nat /\ MaxResumes \in Nat

VARIABLES workflow,     \* workflow type of the saga
          saga,         \* SagaInstance.state
          step_state,   \* SagaStep.state, by step index
          live,         \* steps whose change outside the saga is in place
          order,        \* Order.state
          intervention, \* an OPEN ManualIntervention exists
          run,          \* where each runner is
          installed,    \* external: the field installation is complete
          crashes, resumes

db == <<saga, step_state, order, intervention>>
env == <<workflow, installed, crashes, resumes>>
vars == <<workflow, saga, step_state, live, order, intervention, run, installed,
          crashes, resumes>>

TERMINAL_SAGA_STATES == {"COMPLETED", "COMPENSATED", "FAILED", "CANCELLED",
                         "MANUAL_INTERVENTION"}

definition == Definitions[workflow]
Indices == 1..Len(definition)

\* Where a runner is: the step it is at, the attempt, whether the last failure
\* was retryable, and the saga state it has set but not committed yet.
Places == {"idle", "load", "scan", "exec", "failed", "retry", "settle", "post", "finish",
           "undo", "undoing", "manual"}
Idle == [pc |-> "idle", at |-> 0, attempt |-> 0, retryable |-> FALSE, unsaved |-> "none"]

TypeOK ==
  /\ workflow \in DOMAIN Definitions
  /\ saga \in SagaStates
  /\ step_state \in [Indices -> StepStates]
  /\ live \subseteq Indices
  /\ order \in OrderStates
  /\ intervention \in BOOLEAN
  /\ run \in [Runners -> [pc : Places, at : Nat, attempt : Nat, retryable : BOOLEAN,
                          unsaved : {"none", "RUNNING", "COMPENSATING"}]]
  /\ installed \in BOOLEAN
  /\ crashes \in Nat /\ resumes \in Nat

\* start: a PENDING saga with PENDING steps, not committed before the first step
\* is, of an order that is READY_FOR_FULFILMENT; the request goes on in advance.
Init ==
  /\ workflow \in DOMAIN Definitions
  /\ saga = "PENDING"
  /\ step_state = [i \in Indices |-> "PENDING"]
  /\ live = {}
  /\ order = "READY_FOR_FULFILMENT"
  /\ intervention = FALSE
  /\ run = [r \in Runners |-> IF r = Starter
              THEN [Idle EXCEPT !.pc = "scan", !.at = 1, !.unsaved = "RUNNING"] ELSE Idle]
  /\ installed = FALSE
  /\ crashes = 0 /\ resumes = 0

\* Mutant: ensure_state writes the target without asking the table.
ensured_unchecked(current, target) == target

\* ensure_state: the legal move, or none.
ensured(current, target) ==
  IF target \in ORDER_TRANSITIONS[current] THEN target ELSE current

\* The saga state a runner sees: its own unsaved change, or the row.
Seen(r) == IF run[r].unsaved = "none" THEN saga ELSE run[r].unsaved

Goto(r, pc) == run' = [run EXCEPT ![r].pc = pc]

\* A commit of runner r writes the saga state it has changed, if it has.
Saved(r, pc, at) ==
  /\ saga' = Seen(r)
  /\ run' = [run EXCEPT ![r].pc = pc, ![r].at = at, ![r].unsaved = "none"]

-----------------------------------------------------------------------------
(* advance                                                                 *)

\* Mutant: the worker looks for PENDING sagas only.
advance_running_sagas_new(r) ==
  /\ run[r].pc = "idle"
  /\ saga = "PENDING"
  /\ run' = [run EXCEPT ![r] = [Idle EXCEPT !.pc = "scan", !.at = 1]]
  /\ UNCHANGED <<db, live, env>>

\* The worker advances the sagas it finds RUNNING.
advance_running_sagas(r) ==
  /\ run[r].pc = "idle"
  /\ saga = "RUNNING"
  /\ run' = [run EXCEPT ![r] = [Idle EXCEPT !.pc = "scan", !.at = 1]]
  /\ UNCHANGED <<db, live, env>>

\* advance of a resumed saga returns when the saga is terminal.
load(r) ==
  /\ run[r].pc = "load"
  /\ run' = [run EXCEPT ![r] =
       IF saga \in TERMINAL_SAGA_STATES THEN Idle
       ELSE [Idle EXCEPT !.pc = "scan", !.at = 1,
                         !.unsaved = IF saga = "PENDING" THEN "RUNNING" ELSE "none"]]
  /\ UNCHANGED <<db, live, env>>

\* The loop over the steps takes the next one it reads as PENDING.
\* Mutant: the loop starts behind the index it was given.
PendingFrom_after(i) == {j \in Indices : j > i /\ step_state[j] = "PENDING"}

PendingFrom(i) == {j \in Indices : j >= i /\ step_state[j] = "PENDING"}

take_step(r) ==
  /\ run[r].pc = "scan"
  /\ \E i \in PendingFrom(run[r].at) :
       /\ \A j \in PendingFrom(run[r].at) : i <= j
       /\ run' = [run EXCEPT ![r].pc = "exec", ![r].at = i, ![r].attempt = 1]
  /\ UNCHANGED <<db, live, env>>

no_step_left(r) ==
  /\ run[r].pc = "scan"
  /\ PendingFrom(run[r].at) = {}
  /\ Goto(r, "finish")
  /\ UNCHANGED <<db, live, env>>

\* One attempt that succeeds: RUNNING and COMPLETED are written in the same
\* transaction, whatever the row has become since the runner read it.
execute_ok(r) ==
  /\ run[r].pc = "exec"
  /\ definition[run[r].at].pausable => installed
  /\ step_state' = [step_state EXCEPT ![run[r].at] = "COMPLETED"]
  /\ live' = IF definition[run[r].at].changes THEN live \cup {run[r].at} ELSE live
  /\ Saved(r, "post", run[r].at)
  /\ UNCHANGED <<order, intervention, env>>

\* One attempt that fails, retryably or not: RUNNING is committed.
execute_fails(r) ==
  /\ run[r].pc = "exec"
  /\ step_state' = [step_state EXCEPT ![run[r].at] = "RUNNING"]
  /\ saga' = Seen(r)
  /\ \E retryable \in BOOLEAN :
       /\ definition[run[r].at].pausable /\ retryable => ~installed
       /\ run' = [run EXCEPT ![r].pc = "failed", ![r].retryable = retryable,
                             ![r].unsaved = "none"]
  /\ UNCHANGED <<live, order, intervention, env>>

\* What a runner decides after a failed attempt.
Exhausted(r) == ~run[r].retryable \/ run[r].attempt >= definition[run[r].at].max_attempts
Pauses(r) == definition[run[r].at].pausable /\ run[r].retryable

pause(r) ==
  /\ run[r].pc = "failed"
  /\ Pauses(r)
  /\ step_state' = [step_state EXCEPT ![run[r].at] = "PENDING"]
  /\ run' = [run EXCEPT ![r] = Idle]
  /\ UNCHANGED <<saga, live, order, intervention, env>>

\* The step fails for good; step_transition raises unless it still is RUNNING.
give_up(r) ==
  /\ run[r].pc = "failed"
  /\ ~Pauses(r)
  /\ Exhausted(r)
  /\ IF "FAILED" \in STEP_TRANSITIONS[step_state[run[r].at]]
     THEN /\ step_state' = [step_state EXCEPT ![run[r].at] = "FAILED"]
          /\ Goto(r, "settle")
     ELSE /\ run' = [run EXCEPT ![r] = Idle]
          /\ UNCHANGED step_state
  /\ UNCHANGED <<saga, live, order, intervention, env>>

retry_step(r) ==
  /\ run[r].pc = "failed"
  /\ ~Pauses(r)
  /\ ~Exhausted(r)
  /\ step_state' = [step_state EXCEPT ![run[r].at] = "PENDING"]
  /\ Goto(r, "retry")
  /\ UNCHANGED <<saga, live, order, intervention, env>>

\* The next attempt re-reads the step: step_transition raises unless it may run.
next_attempt(r) ==
  /\ run[r].pc = "retry"
  /\ run' = IF "RUNNING" \in STEP_TRANSITIONS[step_state[run[r].at]]
            THEN [run EXCEPT ![r].pc = "exec", ![r].attempt = @ + 1]
            ELSE [run EXCEPT ![r] = Idle]
  /\ UNCHANGED <<db, live, env>>

\* A failed step is compensated when another one has run and the workflow has
\* compensations; otherwise the saga goes to an operator.
settle(r) ==
  /\ run[r].pc = "settle"
  /\ LET others == \E i \in Indices \ {run[r].at} : step_state[i] \in {"COMPLETED", "RUNNING"}
         has_compensation == \E i \in Indices : definition[i].undoable
     IN Goto(r, IF others /\ has_compensation THEN "undo" ELSE "manual")
  /\ UNCHANGED <<db, live, env>>

\* After a step: the order is moved along, in a transaction of its own.
post_step(r) ==
  /\ run[r].pc = "post"
  /\ order' = ensured(order, definition[run[r].at].order_state)
  /\ run' = [run EXCEPT ![r].pc = "scan", ![r].at = @ + 1]
  /\ UNCHANGED <<saga, step_state, live, intervention, env>>

\* Mutant: the order is completed, the saga's own state is forgotten.
complete_order_only(r) ==
  /\ run[r].pc = "finish"
  /\ order' = ensured(order, "COMPLETED")
  /\ run' = [run EXCEPT ![r] = Idle]
  /\ UNCHANGED <<saga, step_state, live, intervention, env>>

\* Mutant: the order is left where the last step took it.
complete_saga_only(r) ==
  /\ run[r].pc = "finish"
  /\ saga' = "COMPLETED"
  /\ run' = [run EXCEPT ![r] = Idle]
  /\ UNCHANGED <<order, step_state, live, intervention, env>>

\* The loop has ended: saga_transition("RUNNING", "COMPLETED") is hard-coded, the
\* state of the saga row is not looked at.
complete(r) ==
  /\ run[r].pc = "finish"
  /\ saga' = "COMPLETED"
  /\ order' = ensured(order, "COMPLETED")
  /\ run' = [run EXCEPT ![r] = Idle]
  /\ UNCHANGED <<step_state, live, intervention, env>>
-----------------------------------------------------------------------------
(* compensate                                                              *)

\* Entry: a saga that ended otherwise is left alone, and "COMPLETED" is then
\* taken by advance for the success of the step.
compensate(r) ==
  /\ run[r].pc = "undo"
  /\ run' = CASE saga = "COMPENSATED" -> [run EXCEPT ![r] = Idle]
              [] saga = "COMPLETED"   -> [run EXCEPT ![r].pc = "post"]
              [] saga = "FAILED"      -> [run EXCEPT ![r] = Idle]
              [] saga \in {"PENDING", "RUNNING"} ->
                   [run EXCEPT ![r].pc = "undoing", ![r].at = Len(definition),
                               ![r].unsaved = "COMPENSATING"]
              [] OTHER -> [run EXCEPT ![r].pc = "undoing", ![r].at = Len(definition)]
  /\ UNCHANGED <<db, live, env>>

\* Mutants: completed steps, or the failed one, are not compensated.
Undoable_unfinished(i) == definition[i].undoable /\ step_state[i] \in {"FAILED", "RUNNING"}
Undoable_finished(i) == definition[i].undoable /\ step_state[i] = "COMPLETED"

\* What the loop over the steps, last first, still has to do from index i down.
Undoable(i) == definition[i].undoable /\ step_state[i] \in {"COMPLETED", "FAILED", "RUNNING"}
ToUndo(i) == {j \in Indices : j <= i /\ (step_state[j] = "PENDING" \/ Undoable(j))}

\* Mutant: compensation runs in the order of the steps.
AtStep_forward(r, i) ==
  /\ run[r].pc = "undoing"
  /\ i \in ToUndo(Len(definition))
  /\ \A j \in ToUndo(Len(definition)) : j >= i

\* The loop is at step i: the last of those steps.
AtStep(r, i) ==
  /\ run[r].pc = "undoing"
  /\ i \in ToUndo(run[r].at)
  /\ \A j \in ToUndo(run[r].at) : j <= i

skip_step(r) ==
  /\ \E i \in Indices :
       /\ AtStep(r, i)
       /\ step_state[i] = "PENDING"
       /\ step_state' = [step_state EXCEPT ![i] = "SKIPPED"]
       /\ Saved(r, "undoing", i - 1)
  /\ UNCHANGED <<live, order, intervention, env>>

undo_step(r) ==
  /\ \E i \in Indices :
       /\ AtStep(r, i)
       /\ Undoable(i)
       /\ step_state' = [step_state EXCEPT ![i] = "COMPENSATED"]
       /\ live' = live \ {i}
       /\ Saved(r, "undoing", i - 1)
  /\ UNCHANGED <<order, intervention, env>>

\* Mutant: a failed compensation ends the pass and is not escalated.
undo_fails_unnoticed(r) ==
  /\ UndoMayFail
  /\ \E i \in Indices : AtStep(r, i) /\ Undoable(i)
  /\ run' = [run EXCEPT ![r] = Idle]
  /\ UNCHANGED <<db, live, env>>

undo_fails(r) ==
  /\ UndoMayFail
  /\ \E i \in Indices : AtStep(r, i) /\ Undoable(i)
  /\ Goto(r, "manual")
  /\ UNCHANGED <<db, live, env>>

\* _drive_order_compensation and _drive_order_to_manual.
RolledBack(current) ==
  ensured(ensured(ensured(current, "FAILED"), "COMPENSATING"), "ROLLED_BACK")
ToManual(current) ==
  ensured(ensured(current, "FAILED"), "MANUAL_INTERVENTION_REQUIRED")

compensated(r) ==
  /\ run[r].pc = "undoing"
  /\ ToUndo(run[r].at) = {}
  /\ saga' = "COMPENSATED"
  /\ order' = RolledBack(order)
  /\ run' = [run EXCEPT ![r] = Idle]
  /\ UNCHANGED <<step_state, live, intervention, env>>

\* Mutant: the saga is parked and nobody is told.
mark_manual_intervention_silent(r) ==
  /\ run[r].pc = "manual"
  /\ IF "MANUAL_INTERVENTION" \in SAGA_TRANSITIONS[Seen(r)]
     THEN saga' = "MANUAL_INTERVENTION" /\ order' = ToManual(order)
     ELSE UNCHANGED <<saga, order>>
  /\ run' = [run EXCEPT ![r] = Idle]
  /\ UNCHANGED <<intervention, step_state, live, env>>

\* saga_transition raises for a saga that has ended or is already there.
mark_manual_intervention(r) ==
  /\ run[r].pc = "manual"
  /\ IF "MANUAL_INTERVENTION" \in SAGA_TRANSITIONS[Seen(r)]
     THEN /\ saga' = "MANUAL_INTERVENTION"
          /\ order' = ToManual(order)
          /\ intervention' = TRUE
     ELSE UNCHANGED <<saga, order, intervention>>
  /\ run' = [run EXCEPT ![r] = Idle]
  /\ UNCHANGED <<step_state, live, env>>

-----------------------------------------------------------------------------
(* Operator, maintenance and failures.                                     *)

\* Mutant: resume reopens a saga in any state.
resume_any(r) ==
  /\ run[r].pc = "idle"
  /\ saga # "PENDING"
  /\ resumes < MaxResumes
  /\ resumes' = resumes + 1
  /\ saga' = "RUNNING"
  /\ step_state' = [i \in Indices |->
       IF step_state[i] \in {"FAILED", "PENDING", "RUNNING"} THEN "PENDING" ELSE step_state[i]]
  /\ intervention' = FALSE
  /\ run' = [run EXCEPT ![r] = [Idle EXCEPT !.pc = "load"]]
  /\ UNCHANGED <<workflow, live, order, installed, crashes>>

\* resume: any saga that is committed; it goes on in advance.
resume(r) ==
  /\ run[r].pc = "idle"
  /\ saga # "PENDING"
  /\ resumes < MaxResumes
  /\ resumes' = resumes + 1
  /\ saga' = IF saga \in {"MANUAL_INTERVENTION", "FAILED"} THEN "RUNNING" ELSE saga
  /\ step_state' = [i \in Indices |->
       IF step_state[i] \in {"FAILED", "PENDING", "RUNNING"} THEN "PENDING" ELSE step_state[i]]
  /\ intervention' = FALSE
  /\ run' = [run EXCEPT ![r] = [Idle EXCEPT !.pc = "load"]]
  /\ UNCHANGED <<workflow, live, order, installed, crashes>>

\* requeue_stale: RUNNING steps whose runner is gone when their timeout elapses.
Abandoned == {i \in Indices : step_state[i] = "RUNNING" /\
                \A r \in Runners : ~(run[r].pc = "failed" /\ run[r].at = i)}

requeue_stale ==
  /\ Abandoned # {}
  /\ step_state' = [i \in Indices |-> IF i \in Abandoned THEN "PENDING" ELSE step_state[i]]
  /\ UNCHANGED <<saga, live, order, intervention, run, env>>

\* A process dies: its transaction is rolled back, a compensation it was in may
\* have reached the other service.
Crash(r) ==
  /\ run[r].pc # "idle"
  /\ crashes < MaxCrashes
  /\ crashes' = crashes + 1
  /\ \/ UNCHANGED live
     \/ \E i \in Indices : AtStep(r, i) /\ Undoable(i) /\ live' = live \ {i}
  /\ run' = [run EXCEPT ![r] = Idle]
  /\ UNCHANGED <<db, workflow, installed, resumes>>

\* The field installation completes (workforce service).
Install ==
  /\ ~installed
  /\ installed' = TRUE
  /\ UNCHANGED <<db, live, run, workflow, crashes, resumes>>

\* Somebody cancels the order while its saga runs; nothing tells the saga.
request_cancel ==
  /\ MayCancel
  /\ "CANCELLATION_REQUESTED" \in ORDER_TRANSITIONS[order]
  /\ order' = "CANCELLATION_REQUESTED"
  /\ UNCHANGED <<saga, step_state, live, intervention, run, env>>

\* Everything a runner does between two visits to its idle loop.
Work(r) ==
  \/ load(r) \/ take_step(r) \/ no_step_left(r) \/ execute_ok(r) \/ execute_fails(r)
  \/ pause(r) \/ give_up(r) \/ retry_step(r) \/ next_attempt(r) \/ settle(r)
  \/ post_step(r) \/ complete(r)
  \/ compensate(r) \/ skip_step(r) \/ undo_step(r) \/ undo_fails(r) \/ compensated(r)
  \/ mark_manual_intervention(r)

Next ==
  \/ \E r \in Runners : Work(r) \/ advance_running_sagas(r) \/ resume(r) \/ Crash(r)
  \/ requeue_stale \/ Install \/ request_cancel

Spec == Init /\ [][Next]_vars

\* Processes that are not dead go on, and the worker loop of worker_runner.py
\* comes back to RUNNING sagas and to stale steps.
FairSpec ==
  /\ Spec
  /\ \A r \in Runners : WF_vars(Work(r)) /\ WF_vars(advance_running_sagas(r))
  /\ WF_vars(requeue_stale)

-----------------------------------------------------------------------------
(* Properties.                                                             *)

\* A COMPLETED saga has executed every step: it does not take a step that failed,
\* was skipped or was undone for one that is done (SagaEngine.advance).
CompletedMeansAllDone ==
  saga = "COMPLETED" =>
    \A i \in Indices : step_state[i] = "COMPLETED" /\ (definition[i].changes => i \in live)

\* A COMPENSATED saga leaves none of its changes in place ("every step has an
\* idempotent compensation").
CompensatedLeavesNothing == saga = "COMPENSATED" => live = {}

\* Both: a saga ends with all of its workflow done, or with none of it.
AllOrNothing == CompletedMeansAllDone /\ CompensatedLeavesNothing

\* The order ends as its saga does.
OrderFollowsSaga ==
  /\ saga = "COMPLETED" => order = "COMPLETED"
  /\ saga = "COMPENSATED" => order = "ROLLED_BACK"
  /\ saga = "MANUAL_INTERVENTION" => order = "MANUAL_INTERVENTION_REQUIRED"

\* The saga moves as SAGA_TRANSITIONS allows; COMPLETED and COMPENSATED are final.
SagaMovesAreLegal ==
  [][ saga' # saga => saga' \in SAGA_TRANSITIONS[saga] ]_vars

\* The engine implements SagaContract: all changes in place, or none.
Phase ==
  CASE saga \in {"PENDING", "RUNNING"}  -> "forward"
    [] saga = "COMPENSATING"            -> "backward"
    [] saga = "COMPLETED"               -> "completed"
    [] saga = "COMPENSATED"             -> "rolled back"
    [] saga = "MANUAL_INTERVENTION"     -> "parked"
    [] OTHER                            -> "failed"

Contract == INSTANCE SagaContract WITH
  plan <- {i \in Indices : definition[i].changes}, done <- live, phase <- Phase

\* With one runner that does not die and compensations that work, every step of
\* the engine is a step of the contract or changes nothing it sees.
ImplementsContract == Contract!Spec

\* Every step that has a compensation is compensated or skipped in a COMPENSATED
\* saga, whatever crashes, resumes and requeues came before.
CompensatedMeansUndone ==
  saga = "COMPENSATED" =>
    \A i \in Indices : definition[i].undoable => step_state[i] \in {"COMPENSATED", "SKIPPED"}

\* An order is COMPLETED only by a saga that is: no crash, cancel or resume
\* completes an order whose saga is still open or was rolled back.
CompletedOrderHasCompletedSaga == order = "COMPLETED" => saga = "COMPLETED"

\* A saga in MANUAL_INTERVENTION has an OPEN intervention for an operator to find.
ParkedHasIntervention == saga = "MANUAL_INTERVENTION" => intervention

\* Once the installation is done a RUNNING saga does not stay RUNNING: it ends,
\* is parked for an operator, or is being compensated.
RunningSettles == <>installed => (saga = "RUNNING" ~> saga # "RUNNING")

\* A compensation that has begun comes to an end, as long as the process that runs
\* it does not die: nothing takes a COMPENSATING saga up again
\* (advance_running_sagas selects RUNNING sagas only).
CompensationEnds ==
  [](crashes = 0) =>
    (saga = "COMPENSATING" ~> saga \in {"COMPENSATED", "MANUAL_INTERVENTION"})
=============================================================================
