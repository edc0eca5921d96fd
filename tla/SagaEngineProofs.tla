-------------------------- MODULE SagaEngineProofs --------------------------
(***************************************************************************)
(* What holds of the saga engine for every workflow, every number of       *)
(* crashes and resumes and, where no premise says otherwise, every number  *)
(* of runners.                                                             *)
(***************************************************************************)
EXTENDS SagaEngine, TLAPS

Position == [pc : Places, at : Nat, attempt : Nat, retryable : BOOLEAN,
             unsaved : {"none", "RUNNING", "COMPENSATING"}]

---------------------------------------------------------------------------
(* Types *)

\* TypeOK, with a name for the type of a position.
TypeParts ==
  /\ workflow \in DOMAIN Definitions
  /\ saga \in SagaStates
  /\ step_state \in [Indices -> StepStates]
  /\ live \subseteq Indices
  /\ order \in OrderStates
  /\ intervention \in BOOLEAN
  /\ run \in [Runners -> Position]
  /\ installed \in BOOLEAN
  /\ crashes \in Nat /\ resumes \in Nat

\* From taking a step until it has moved the order, or undoes the saga, a runner
\* is at a step.
AtOne == {"exec", "failed", "retry", "settle", "undo", "post"}
Placed == \A r \in Runners : run[r].pc \in AtOne => run[r].at \in Indices

LEMMA TypeIsParts == TypeOK <=> TypeParts
BY DEF TypeOK, TypeParts, Position

\* The tables are closed: a move leads to a state of the table.
LEMMA Closed ==
  /\ \A s \in OrderStates : ORDER_TRANSITIONS[s] \subseteq OrderStates
  /\ "COMPLETED" \in OrderStates
BY DEF OrderStates, ORDER_TRANSITIONS

\* ensure_state moves the order to the target or leaves it.
LEMMA Ensured ==
  ASSUME NEW current \in OrderStates, NEW target
  PROVE  ensured(current, target) \in OrderStates /\ ensured(current, target) \in {current, target}
BY Closed DEF ensured

LEMMA States ==
  /\ {"PENDING", "RUNNING", "COMPLETED", "COMPENSATED", "COMPENSATING", "MANUAL_INTERVENTION", "FAILED"}
       \subseteq SagaStates
  /\ {"PENDING", "RUNNING", "COMPLETED", "FAILED", "COMPENSATED", "SKIPPED"} = StepStates
BY DEF SagaStates, SAGA_TRANSITIONS, StepStates, STEP_TRANSITIONS

\* The steps of a saga are counted.
LEMMA Steps ==
  ASSUME TypeParts
  PROVE  Len(definition) \in Nat /\ Indices \subseteq Nat \ {0}
BY ConstantsAssumption DEF TypeParts, definition, Indices

\* The changes that the actions make to where a runner is.
LEMMA Moves ==
  ASSUME TypeParts, NEW r \in Runners, NEW pc \in Places
  PROVE  /\ Idle \in Position
         /\ [run EXCEPT ![r] = Idle] \in [Runners -> Position]
         /\ [run EXCEPT ![r] = [Idle EXCEPT !.pc = pc]] \in [Runners -> Position]
         /\ [run EXCEPT ![r].pc = pc] \in [Runners -> Position]
         /\ [run EXCEPT ![r].pc = pc, ![r].at = @ + 1] \in [Runners -> Position]
         /\ [run EXCEPT ![r].pc = pc, ![r].attempt = @ + 1] \in [Runners -> Position]
<1>1. run \in [Runners -> Position]
  BY DEF TypeParts
<1>2. Idle \in Position
  BY DEF Idle, Position, Places
<1>3. [run EXCEPT ![r] = Idle] \in [Runners -> Position]
  BY <1>1, <1>2
<1>4. [run EXCEPT ![r] = [Idle EXCEPT !.pc = pc]] \in [Runners -> Position]
  BY <1>1, <1>2 DEF Position, Idle
<1>5. [run EXCEPT ![r].pc = pc] \in [Runners -> Position]
  BY <1>1, <1>2 DEF Position
<1>6. [run EXCEPT ![r].pc = pc, ![r].at = @ + 1] \in [Runners -> Position]
  <2>1. run[r].at + 1 \in Nat /\ run[r] \in Position
    BY <1>1 DEF Position
  <2>2. [run[r] EXCEPT !.pc = pc, !.at = run[r].at + 1] \in Position
    BY <2>1 DEF Position
  <2>3. [run EXCEPT ![r].pc = pc, ![r].at = @ + 1]
          = [run EXCEPT ![r] = [run[r] EXCEPT !.pc = pc, !.at = run[r].at + 1]]
    BY <1>1, <2>1 DEF Position
  <2> QED
    BY <1>1, <2>2, <2>3
<1>7. [run EXCEPT ![r].pc = pc, ![r].attempt = @ + 1] \in [Runners -> Position]
  <2>1. run[r].attempt + 1 \in Nat /\ run[r] \in Position
    BY <1>1 DEF Position
  <2>2. [run[r] EXCEPT !.pc = pc, !.attempt = run[r].attempt + 1] \in Position
    BY <2>1 DEF Position
  <2>3. [run EXCEPT ![r].pc = pc, ![r].attempt = @ + 1]
          = [run EXCEPT ![r] = [run[r] EXCEPT !.pc = pc, !.attempt = run[r].attempt + 1]]
    BY <1>1, <2>1 DEF Position
  <2> QED
    BY <1>1, <2>2, <2>3
<1> QED
  BY <1>2, <1>3, <1>4, <1>5, <1>6, <1>7

LEMMA MovesTo ==
  ASSUME TypeParts, NEW r \in Runners,
         NEW pc \in Places, NEW at \in Nat
  PROVE  /\ [run EXCEPT ![r] = [Idle EXCEPT !.pc = pc, !.at = at]] \in [Runners -> Position]
         /\ [run EXCEPT ![r].pc = pc, ![r].at = at] \in [Runners -> Position]
         /\ [run EXCEPT ![r].pc = pc, ![r].at = at, ![r].attempt = 1] \in [Runners -> Position]
<1>1. run \in [Runners -> Position]
  BY DEF TypeParts
<1>2. Idle \in Position
  BY DEF Idle, Position, Places
<1>3. [run EXCEPT ![r] = [Idle EXCEPT !.pc = pc, !.at = at]] \in [Runners -> Position]
  BY <1>1, <1>2 DEF Position, Idle
<1>4. [run EXCEPT ![r].pc = pc, ![r].at = at] \in [Runners -> Position]
  BY <1>1, <1>2 DEF Position
<1>5. [run EXCEPT ![r].pc = pc, ![r].at = at, ![r].attempt = 1] \in [Runners -> Position]
  BY <1>1, <1>2 DEF Position
<1> QED
  BY <1>2, <1>3, <1>4, <1>5

LEMMA MovesWith ==
  ASSUME TypeParts, NEW r \in Runners,
         NEW pc \in Places, NEW at \in Nat, NEW retryable \in BOOLEAN,
         NEW unsaved \in {"none", "RUNNING", "COMPENSATING"}
  PROVE  /\ [run EXCEPT ![r] = [Idle EXCEPT !.pc = pc, !.at = at, !.unsaved = unsaved]] \in [Runners -> Position]
         /\ [run EXCEPT ![r].pc = pc, ![r].at = at, ![r].unsaved = unsaved] \in [Runners -> Position]
         /\ [run EXCEPT ![r].pc = pc, ![r].retryable = retryable, ![r].unsaved = unsaved] \in [Runners -> Position]
<1>1. run \in [Runners -> Position]
  BY DEF TypeParts
<1>2. Idle \in Position
  BY DEF Idle, Position, Places
<1>3. [run EXCEPT ![r] = [Idle EXCEPT !.pc = pc, !.at = at, !.unsaved = unsaved]] \in [Runners -> Position]
  BY <1>1, <1>2 DEF Position, Idle
<1>4. [run EXCEPT ![r].pc = pc, ![r].at = at, ![r].unsaved = unsaved] \in [Runners -> Position]
  BY <1>1, <1>2 DEF Position
<1>5. [run EXCEPT ![r].pc = pc, ![r].retryable = retryable, ![r].unsaved = unsaved] \in [Runners -> Position]
  BY <1>1, <1>2 DEF Position
<1> QED
  BY <1>2, <1>3, <1>4, <1>5

\* A commit of a runner leaves a saga state and a position.
LEMMA SavedType ==
  ASSUME TypeParts, NEW r \in Runners, NEW pc \in Places, NEW at \in Nat, Saved(r, pc, at)
  PROVE  saga' \in SagaStates /\ run' \in [Runners -> Position]
<1>1. Seen(r) \in SagaStates
  <2>1. run[r].unsaved \in {"none", "RUNNING", "COMPENSATING"}
    BY DEF TypeParts, Position
  <2> QED
    BY <2>1, States DEF Seen, TypeParts
<1> QED
  BY <1>1, MovesWith DEF Saved

\* advance keeps the types.
LEMMA AdvanceType ==
  ASSUME TypeParts, Placed, NEW r \in Runners,
         \/ load(r) \/ take_step(r) \/ no_step_left(r) \/ execute_ok(r) \/ execute_fails(r)
         \/ pause(r) \/ give_up(r) \/ retry_step(r) \/ next_attempt(r) \/ settle(r)
         \/ post_step(r) \/ complete(r) \/ advance_running_sagas(r)
  PROVE  TypeParts'
<1> USE States, Steps
<1>0. /\ TypeParts /\ run[r] \in Position
      /\ {"idle", "load", "scan", "exec", "failed", "retry", "settle", "post", "finish",
          "undo", "undoing", "manual"} = Places
  BY DEF TypeParts, Places
<1>1. CASE load(r) \/ advance_running_sagas(r)
  <2>1. run' \in [Runners -> Position]
    <3>1. CASE run' = [run EXCEPT ![r] = Idle]
      BY <1>0, <3>1, Moves
    <3>2. CASE run' = [run EXCEPT ![r] = [Idle EXCEPT !.pc = "scan", !.at = 1]]
      BY <1>0, <3>2, MovesTo
    <3>3. ASSUME NEW u \in {"none", "RUNNING"},
                 run' = [run EXCEPT ![r] = [Idle EXCEPT !.pc = "scan", !.at = 1, !.unsaved = u]]
          PROVE  run' \in [Runners -> Position]
      <4>1. u \in {"none", "RUNNING", "COMPENSATING"} /\ "scan" \in Places /\ 1 \in Nat /\ TRUE \in BOOLEAN
        BY DEF Places
      <4> QED
        BY <4>1, <3>3, MovesWith
    <3> QED
      BY <1>1, <3>1, <3>2, <3>3 DEF load, advance_running_sagas
  <2> QED
    BY <1>0, <1>1, <2>1 DEF load, advance_running_sagas, TypeParts, db, env, Indices, definition
<1>2. CASE take_step(r)
  <2>1. run' \in [Runners -> Position]
    <3>1. PICK i \in Indices : run' = [run EXCEPT ![r].pc = "exec", ![r].at = i, ![r].attempt = 1]
      BY <1>2 DEF take_step, PendingFrom
    <3> QED
      BY <1>0, <3>1, MovesTo
  <2> QED
    BY <1>0, <1>2, <2>1 DEF take_step, TypeParts, db, env, Indices, definition
<1>3. CASE no_step_left(r) \/ settle(r)
  <2>1. run' \in [Runners -> Position]
    <3>1. PICK pc \in Places : run' = [run EXCEPT ![r].pc = pc]
      BY <1>0, <1>3 DEF no_step_left, settle, Goto
    <3> QED
      BY <3>1, Moves
  <2> QED
    BY <1>0, <1>3, <2>1 DEF no_step_left, settle, TypeParts, db, env, Indices, definition
<1>4. CASE execute_ok(r)
  <2>1. saga' \in SagaStates /\ run' \in [Runners -> Position]
    BY <1>0, <1>4, SavedType DEF execute_ok, Position
  <2>2. step_state' \in [Indices -> StepStates]
    BY <1>0, <1>4 DEF execute_ok, TypeParts
  <2>3. live' \subseteq Indices
    <3>1. run[r].at \in Indices
      BY <1>4 DEF execute_ok, Placed, AtOne
    <3> QED
      BY <1>0, <1>4, <3>1 DEF execute_ok, TypeParts
  <2> QED
    BY <1>0, <1>4, <2>1, <2>2, <2>3 DEF execute_ok, TypeParts, env, Indices, definition
<1>5. CASE execute_fails(r)
  <2>1. saga' \in SagaStates
    BY <1>0, <1>5 DEF execute_fails, TypeParts, Seen, Position
  <2>2. run' \in [Runners -> Position]
    <3>1. PICK retryable \in BOOLEAN :
            run' = [run EXCEPT ![r].pc = "failed", ![r].retryable = retryable, ![r].unsaved = "none"]
      BY <1>5 DEF execute_fails
    <3> QED
      BY <1>0, <3>1, MovesWith, ZenonT(30)
  <2>3. step_state' \in [Indices -> StepStates]
    BY <1>0, <1>5 DEF execute_fails, TypeParts
  <2> QED
    BY <1>0, <1>5, <2>1, <2>2, <2>3 DEF execute_fails, TypeParts, env, Indices, definition
<1>6. CASE pause(r) \/ give_up(r) \/ retry_step(r)
  <2>1. run' \in [Runners -> Position]
    <3>1. CASE run' = [run EXCEPT ![r] = Idle]
      BY <1>0, <3>1, Moves
    <3>2. CASE run' = [run EXCEPT ![r].pc = "settle"]
      BY <1>0, <3>2, Moves
    <3>3. CASE run' = [run EXCEPT ![r].pc = "retry"]
      BY <1>0, <3>3, Moves
    <3> QED
      BY <1>6, <3>1, <3>2, <3>3 DEF pause, give_up, retry_step, Goto
  <2>2. step_state' \in [Indices -> StepStates]
    BY <1>0, <1>6 DEF pause, give_up, retry_step, TypeParts
  <2> QED
    BY <1>0, <1>6, <2>1, <2>2 DEF pause, give_up, retry_step, TypeParts, env, Indices, definition
<1>7. CASE next_attempt(r)
  <2>1. run' \in [Runners -> Position]
    BY <1>0, <1>7, Moves DEF next_attempt
  <2> QED
    BY <1>0, <1>7, <2>1 DEF next_attempt, TypeParts, db, env, Indices, definition
<1>8. CASE post_step(r)
  <2>1. run' \in [Runners -> Position]
    BY <1>0, <1>8, Moves DEF post_step
  <2>2. order' \in OrderStates
    BY <1>0, <1>8, Ensured DEF post_step, TypeParts
  <2> QED
    BY <1>0, <1>8, <2>1, <2>2 DEF post_step, TypeParts, env, Indices, definition
<1>9. CASE complete(r)
  <2>1. run' \in [Runners -> Position]
    BY <1>0, <1>9, Moves DEF complete
  <2>2. order' \in OrderStates
    BY <1>0, <1>9, Ensured DEF complete, TypeParts
  <2> QED
    BY <1>0, <1>9, <2>1, <2>2 DEF complete, TypeParts, env, Indices, definition
<1> QED
  BY <1>1, <1>2, <1>3, <1>4, <1>5, <1>6, <1>7, <1>8, <1>9

\* So does compensate.
LEMMA CompensateType ==
  ASSUME TypeParts, NEW r \in Runners,
         \/ compensate(r) \/ skip_step(r) \/ undo_step(r) \/ undo_fails(r) \/ compensated(r)
         \/ mark_manual_intervention(r)
  PROVE  TypeParts'
<1> USE States, Steps
<1>0. /\ TypeParts /\ run[r] \in Position
      /\ {"idle", "load", "scan", "exec", "failed", "retry", "settle", "post", "finish",
          "undo", "undoing", "manual"} = Places
  BY DEF TypeParts, Places
<1>1. CASE compensate(r)
  <2>1. run' \in [Runners -> Position]
    <3>1. CASE run' = [run EXCEPT ![r] = Idle]
      BY <1>0, <3>1, Moves
    <3>4. CASE run' = [run EXCEPT ![r].pc = "post"]
      BY <1>0, <3>4, Moves
    <3>2. CASE run' = [run EXCEPT ![r].pc = "undoing", ![r].at = Len(definition),
                                  ![r].unsaved = "COMPENSATING"]
      BY <1>0, <3>2, MovesWith
    <3>3. CASE run' = [run EXCEPT ![r].pc = "undoing", ![r].at = Len(definition)]
      BY <1>0, <3>3, MovesTo
    <3> QED
      BY <1>1, <3>1, <3>2, <3>3, <3>4 DEF compensate
  <2> QED
    BY <1>0, <1>1, <2>1 DEF compensate, TypeParts, db, env, Indices, definition
<1>2. CASE skip_step(r) \/ undo_step(r)
  <2>1. PICK i \in Indices : /\ step_state' \in {[step_state EXCEPT ![i] = "SKIPPED"],
                                                  [step_state EXCEPT ![i] = "COMPENSATED"]}
                             /\ Saved(r, "undoing", i - 1)
                             /\ live' \in {live, live \ {i}}
    BY <1>2 DEF skip_step, undo_step
  <2>2. i - 1 \in Nat
    BY <2>1
  <2>3. saga' \in SagaStates /\ run' \in [Runners -> Position]
    BY <1>0, <2>1, <2>2, SavedType
  <2>4. step_state' \in [Indices -> StepStates] /\ live' \subseteq Indices
    BY <1>0, <2>1 DEF TypeParts
  <2> QED
    BY <1>0, <1>2, <2>3, <2>4 DEF skip_step, undo_step, TypeParts, env, Indices, definition
<1>3. CASE undo_fails(r)
  <2>1. run' \in [Runners -> Position]
    BY <1>0, <1>3, Moves DEF undo_fails, Goto
  <2> QED
    BY <1>0, <1>3, <2>1 DEF undo_fails, TypeParts, db, env, Indices, definition
<1>4. CASE compensated(r) \/ mark_manual_intervention(r)
  <2>1. run' \in [Runners -> Position]
    <3>1. run' = [run EXCEPT ![r] = Idle]
      BY <1>4 DEF compensated, mark_manual_intervention
    <3> QED
      BY <1>0, <3>1, Moves
  <2>2. RolledBack(order) \in OrderStates /\ ToManual(order) \in OrderStates
    BY <1>0, Ensured DEF RolledBack, ToManual, TypeParts
  <2> QED
    BY <1>0, <1>4, <2>1, <2>2
    DEF compensated, mark_manual_intervention, TypeParts, env, Indices, definition
<1> QED
  BY <1>1, <1>2, <1>3, <1>4

\* And what operators, maintenance, customers and crashes do.
LEMMA OutsideType ==
  ASSUME TypeParts,
         \/ \E r \in Runners : resume(r) \/ Crash(r)
         \/ requeue_stale \/ Install \/ request_cancel
  PROVE  TypeParts'
<1> USE States, Steps
<1>0. TypeParts /\ "load" \in Places
  BY DEF TypeParts, Places
<1>1. ASSUME NEW r \in Runners, resume(r) PROVE TypeParts'
  <2>1. run' \in [Runners -> Position]
    BY <1>0, <1>1, Moves DEF resume
  <2>2. step_state' \in [Indices -> StepStates] /\ saga' \in SagaStates
    BY <1>0, <1>1 DEF resume, TypeParts
  <2>3. Indices' = Indices
    BY <1>1 DEF resume, Indices, definition
  <2>4. intervention' = FALSE /\ resumes' = resumes + 1 /\ resumes \in Nat
    BY <1>0, <1>1 DEF resume, TypeParts
  <2>5. resumes' \in Nat
    BY <2>4
  <2>6. UNCHANGED <<workflow, live, order, installed, crashes>>
    BY <1>1 DEF resume
  <2> QED
    BY <1>0, <2>1, <2>2, <2>3, <2>4, <2>5, <2>6 DEF TypeParts
<1>2. ASSUME NEW r \in Runners, Crash(r) PROVE TypeParts'
  <2>1. run' \in [Runners -> Position]
    BY <1>0, <1>2, Moves DEF Crash
  <2>2. live' \subseteq Indices
    BY <1>0, <1>2 DEF Crash, TypeParts
  <2> QED
    BY <1>0, <1>2, <2>1, <2>2 DEF Crash, TypeParts, db, Indices, definition
<1>3. CASE requeue_stale
  BY <1>0, <1>3 DEF requeue_stale, TypeParts, env, Indices, definition
<1>4. CASE Install
  BY <1>0, <1>4 DEF Install, TypeParts, db, Indices, definition
<1>5. CASE request_cancel
  <2>1. "CANCELLATION_REQUESTED" \in OrderStates
    BY <1>0, <1>5, Closed DEF request_cancel, TypeParts
  <2> QED
    BY <1>0, <1>5, <2>1 DEF request_cancel, TypeParts, env, Indices, definition
<1> QED
  BY <1>1, <1>2, <1>3, <1>4, <1>5

\* A step is only executed, or retried, by a runner that took it.
LEMMA PlacedStep ==
  ASSUME TypeParts, Placed, [Next]_vars
  PROVE  Placed'
<1>0. Indices' = Indices
  BY DEF Next, vars, env, Work, load, take_step, no_step_left, execute_ok, execute_fails, pause, give_up,
    retry_step, next_attempt, settle, post_step, complete, compensate, skip_step, undo_step, undo_fails,
    compensated, mark_manual_intervention, advance_running_sagas, resume, Crash, requeue_stale,
    Install, request_cancel, Indices, definition
<1>1. CASE UNCHANGED run
  BY <1>0, <1>1 DEF Placed
<1>2. ASSUME NEW r \in Runners, Work(r) \/ advance_running_sagas(r) \/ resume(r) \/ Crash(r)
      PROVE  Placed'
  <2>0. run \in [Runners -> Position] /\ Idle.pc = "idle"
    BY DEF TypeParts, Idle
  <2>1. run' = [run EXCEPT ![r] = run'[r]]
    BY <1>2, <2>0 DEF Work, load, take_step, no_step_left, execute_ok, execute_fails, pause, give_up,
      retry_step, next_attempt, settle, post_step, complete, compensate, skip_step, undo_step, undo_fails,
      compensated, mark_manual_intervention, advance_running_sagas, resume, Crash, Saved, Goto
  <2>2. run'[r].pc \in AtOne => run'[r].at \in Indices
    <3>0. run[r] \in Position
      BY <2>0
    <3>1. CASE load(r) \/ advance_running_sagas(r) \/ resume(r) \/ Crash(r)
      <4>1. run'[r].pc \in {"idle", "load", "scan"}
        BY <2>0, <3>1 DEF load, advance_running_sagas, resume, Crash, Idle
      <4> QED
        BY <4>1 DEF AtOne
    <3>2. CASE take_step(r)
      BY <2>0, <3>0, <3>2 DEF take_step, PendingFrom, Position, AtOne
    <3>3. CASE no_step_left(r) \/ settle(r) \/ post_step(r) \/ complete(r)
      BY <2>0, <3>0, <3>3 DEF no_step_left, settle, post_step, complete, Goto, Placed, Position, AtOne
    <3>4. CASE execute_ok(r)
      BY <2>0, <3>0, <3>4 DEF execute_ok, Saved, Placed, Position, AtOne
    <3>5. CASE execute_fails(r)
      BY <2>0, <3>0, <3>5 DEF execute_fails, Placed, Position, AtOne
    <3>6. CASE pause(r) \/ give_up(r) \/ retry_step(r)
      BY <2>0, <3>0, <3>6 DEF pause, give_up, retry_step, Goto, Placed, Position, AtOne
    <3>7. CASE next_attempt(r)
      BY <2>0, <3>0, <3>7 DEF next_attempt, Placed, Position, AtOne
    <3>8. CASE compensate(r) \/ undo_fails(r) \/ compensated(r) \/ mark_manual_intervention(r)
      BY <2>0, <3>0, <3>8 DEF compensate, undo_fails, compensated, mark_manual_intervention, Goto, Placed, Position, AtOne
    <3>9. CASE skip_step(r) \/ undo_step(r)
      <4>1. PICK i \in Indices : Saved(r, "undoing", i - 1)
        BY <3>9 DEF skip_step, undo_step
      <4> QED
        BY <2>0, <3>0, <4>1 DEF Saved, Position, AtOne
    <3> QED
      BY <1>2, <3>1, <3>2, <3>3, <3>4, <3>5, <3>6, <3>7, <3>8, <3>9 DEF Work
  <2> QED
    BY <1>0, <2>0, <2>1, <2>2 DEF Placed
<1>3. CASE UNCHANGED vars \/ requeue_stale \/ Install \/ request_cancel
  BY <1>3, <1>1 DEF vars, requeue_stale, Install, request_cancel
<1> QED
  BY <1>2, <1>3 DEF Next

LEMMA TypeStep ==
  ASSUME TypeParts, Placed, [Next]_vars
  PROVE  TypeParts'
<1>1. CASE UNCHANGED vars
  BY <1>1 DEF vars, TypeParts, Indices, definition
<1>2. CASE \E r \in Runners : Work(r) \/ advance_running_sagas(r)
  BY <1>2, AdvanceType, CompensateType DEF Work
<1>3. CASE (\E r \in Runners : resume(r) \/ Crash(r)) \/ requeue_stale \/ Install \/ request_cancel
  BY <1>3, OutsideType
<1> QED
  BY <1>1, <1>2, <1>3 DEF Next

LEMMA TypeInit == Init => TypeParts /\ Placed
<1> SUFFICES ASSUME Init PROVE TypeParts /\ Placed
  OBVIOUS
<1>1. run \in [Runners -> Position]
  <2>1. Idle \in Position /\ [Idle EXCEPT !.pc = "scan", !.at = 1, !.unsaved = "RUNNING"] \in Position
    BY DEF Idle, Position, Places
  <2> QED
    BY <2>1 DEF Init
<1> QED
  BY <1>1, States DEF Init, TypeParts, Placed, AtOne, Idle, OrderStates, ORDER_TRANSITIONS

\* Whatever workflows, runners, crashes and resumes there are, every row keeps a
\* state of its table.
THEOREM Types == Spec => []TypeOK
<1>1. TypeParts /\ Placed /\ [Next]_vars => TypeParts' /\ Placed'
  BY TypeStep, PlacedStep
<1> QED
  BY <1>1, TypeInit, TypeIsParts, PTL DEF Spec

---------------------------------------------------------------------------
(* A parked saga has an intervention, for any number of runners. *)

\* What a runner commits as the saga's state is the row's, RUNNING or COMPENSATING.
LEMMA SeenStates ==
  ASSUME TypeParts, NEW r \in Runners
  PROVE  Seen(r) \in {saga, "RUNNING", "COMPENSATING"}
<1>1. run[r].unsaved \in {"none", "RUNNING", "COMPENSATING"}
  BY DEF TypeParts, Position
<1> QED
  BY <1>1 DEF Seen

LEMMA ParkedStep ==
  ASSUME TypeParts, ParkedHasIntervention, [Next]_vars
  PROVE  ParkedHasIntervention'
<1> USE DEF ParkedHasIntervention
<1>1. ASSUME NEW r \in Runners, execute_ok(r) \/ execute_fails(r) \/ skip_step(r) \/ undo_step(r)
      PROVE  saga' \in {saga, "RUNNING", "COMPENSATING"} /\ intervention' = intervention
  BY <1>1, SeenStates DEF execute_ok, execute_fails, skip_step, undo_step, Saved
<1>2. ASSUME NEW r \in Runners,
             \/ load(r) \/ take_step(r) \/ no_step_left(r) \/ pause(r) \/ give_up(r) \/ retry_step(r)
             \/ next_attempt(r) \/ settle(r) \/ post_step(r) \/ compensate(r) \/ undo_fails(r)
             \/ advance_running_sagas(r) \/ Crash(r)
      PROVE  UNCHANGED <<saga, intervention>>
  BY <1>2 DEF load, take_step, no_step_left, pause, give_up, retry_step, next_attempt, settle,
    post_step, compensate, undo_fails, advance_running_sagas, Crash, db
<1>3. ASSUME NEW r \in Runners,
             complete(r) \/ compensated(r) \/ mark_manual_intervention(r) \/ resume(r)
      PROVE  ParkedHasIntervention'
  BY <1>3 DEF complete, compensated, mark_manual_intervention, resume
<1>4. CASE requeue_stale \/ Install \/ request_cancel \/ UNCHANGED vars
  BY <1>4 DEF requeue_stale, Install, request_cancel, db, vars
<1> QED
  BY <1>1, <1>2, <1>3, <1>4 DEF Next, Work

\* However runners overlap, crash and are resumed, an operator finds every parked
\* saga by its open intervention.
THEOREM ParkedIsVisible == Spec => []ParkedHasIntervention
<1>1. Init => ParkedHasIntervention
  BY DEF Init, ParkedHasIntervention
<1>2. TypeParts /\ Placed /\ ParkedHasIntervention /\ [Next]_vars
        => TypeParts' /\ Placed' /\ ParkedHasIntervention'
  BY TypeStep, PlacedStep, ParkedStep
<1> QED
  BY <1>1, <1>2, TypeInit, PTL DEF Spec

---------------------------------------------------------------------------
(* One runner at a time. *)

Solo == Runners = {Starter}

\* No workflow completes the order by a step.
NoStepCompletes ==
  \A w \in DOMAIN Definitions : \A i \in 1..Len(Definitions[w]) :
    Definitions[w][i].order_state # "COMPLETED"

Concluded == saga \in {"COMPLETED", "COMPENSATED"}
Undone(i) == definition[i].undoable => step_state[i] \in {"COMPENSATED", "SKIPPED"}

\* A saga that is completed or compensated has no runner with anything left to
\* write; and a compensation leaves undone what it has passed.
SoloInv ==
  /\ Concluded => run[Starter].pc \in {"idle", "load"} /\ run[Starter].unsaved = "none"
  /\ run[Starter].pc = "undoing" => \A i \in Indices : i > run[Starter].at => Undone(i)
  /\ CompletedOrderHasCompletedSaga
  /\ CompensatedMeansUndone

AllInv == TypeParts /\ Placed /\ SoloInv

\* The last two conjuncts, as they are used.
LEMMA SoloFacts ==
  ASSUME AllInv
  PROVE  /\ order = "COMPLETED" => saga = "COMPLETED"
         /\ saga = "COMPENSATED" => \A i \in Indices : Undone(i)
BY DEF AllInv, SoloInv, CompletedOrderHasCompletedSaga, CompensatedMeansUndone, Undone

\* A runner that works on the saga keeps it from being concluded.
LEMMA Busy ==
  ASSUME Solo, AllInv, NEW r \in Runners, run[r].pc \notin {"idle", "load"}
  PROVE  /\ r = Starter /\ ~Concluded /\ order # "COMPLETED"
         /\ Seen(r) \notin {"COMPLETED", "COMPENSATED"}
<1>1. r = Starter
  BY DEF Solo
<1>2. ~Concluded /\ order # "COMPLETED"
  BY <1>1, SoloFacts DEF AllInv, SoloInv, Concluded
<1> QED
  BY <1>1, <1>2, SeenStates DEF AllInv, Concluded

\* Such a runner, as long as it does not end the saga, keeps the invariant.
LEMMA BusyStep ==
  ASSUME Solo, AllInv, NEW r \in Runners, run[r].pc \notin {"idle", "load"},
         saga' \notin {"COMPLETED", "COMPENSATED"}, order' # "COMPLETED",
         run'[r].pc # "undoing"
  PROVE  SoloInv'
<1>1. r = Starter
  BY DEF Solo
<1>2. ~Concluded' /\ CompletedOrderHasCompletedSaga' /\ CompensatedMeansUndone'
  BY DEF Concluded, CompletedOrderHasCompletedSaga, CompensatedMeansUndone
<1>3. run'[Starter].pc = "undoing" => \A i \in Indices' : i > run'[Starter].at => Undone(i)'
  BY <1>1 DEF AllInv, SoloInv, Undone, definition, Indices
<1> QED
  BY <1>2, <1>3 DEF SoloInv

\* A step that changes no row but the intervention and leaves no runner undoing.
LEMMA QuietStep ==
  ASSUME AllInv, UNCHANGED <<saga, order, workflow, step_state>>,
         run'[Starter].pc # "undoing",
         Concluded => run'[Starter].pc \in {"idle", "load"} /\ run'[Starter].unsaved = "none"
  PROVE  SoloInv'
<1>1. Indices' = Indices /\ definition' = definition
  BY DEF Indices, definition
<1> QED
  BY <1>1 DEF AllInv, SoloInv, Concluded, CompletedOrderHasCompletedSaga, CompensatedMeansUndone

LEMMA SoloAdvance ==
  ASSUME Solo, NoStepCompletes, AllInv, NEW r \in Runners,
         \/ load(r) \/ take_step(r) \/ no_step_left(r) \/ execute_ok(r) \/ execute_fails(r)
         \/ pause(r) \/ give_up(r) \/ retry_step(r) \/ next_attempt(r) \/ settle(r)
         \/ post_step(r) \/ complete(r) \/ advance_running_sagas(r)
  PROVE  SoloInv'
<1>0. r = Starter /\ run \in [Runners -> Position] /\ run[r] \in Position
  BY DEF Solo, AllInv, TypeParts
<1>i. Idle.pc = "idle" /\ Idle.unsaved = "none"
  BY DEF Idle
<1>1. CASE load(r) \/ advance_running_sagas(r)
  <2>1. UNCHANGED <<saga, order, workflow, step_state>>
    BY <1>1 DEF load, advance_running_sagas, db, env
  <2>2. run'[r].pc \in {"idle", "scan"} /\ (Concluded => run'[r] = Idle)
    <3>1. CASE load(r)
      <4>1. Concluded => saga \in TERMINAL_SAGA_STATES
        BY DEF Concluded, TERMINAL_SAGA_STATES
      <4>2. CASE saga \in TERMINAL_SAGA_STATES
        BY <1>0, <1>i, <3>1, <4>2 DEF load
      <4>3. CASE saga \notin TERMINAL_SAGA_STATES
        BY <1>0, <3>1, <4>1, <4>3 DEF load, Idle
      <4> QED
        BY <4>2, <4>3
    <3>2. CASE advance_running_sagas(r)
      <4>1. run'[r] = [Idle EXCEPT !.pc = "scan", !.at = 1] /\ saga = "RUNNING"
        BY <1>0, <3>2 DEF advance_running_sagas
      <4> QED
        BY <4>1 DEF Concluded, Idle
    <3> QED
      BY <1>1, <3>1, <3>2
  <2> QED
    BY <1>0, <1>i, <2>1, <2>2, QuietStep
<1>2. CASE take_step(r) \/ no_step_left(r) \/ next_attempt(r) \/ settle(r)
  <2>1. UNCHANGED <<saga, order, workflow, step_state>>
    BY <1>2 DEF take_step, no_step_left, next_attempt, settle, db, env
  <2>2. run[r].pc \notin {"idle", "load"}
    BY <1>2 DEF take_step, no_step_left, next_attempt, settle
  <2>3. run'[r].pc # "undoing"
    <3>1. CASE take_step(r)
      <4>1. PICK i : run' = [run EXCEPT ![r].pc = "exec", ![r].at = i, ![r].attempt = 1]
        BY <3>1 DEF take_step
      <4> QED
        BY <1>0, <4>1 DEF Position
    <3>2. CASE no_step_left(r) \/ settle(r)
      BY <1>0, <3>2 DEF no_step_left, settle, Goto, Position
    <3>3. CASE next_attempt(r)
      BY <1>0, <1>i, <3>3 DEF next_attempt, Position
    <3> QED
      BY <1>2, <3>1, <3>2, <3>3
  <2> QED
    BY <1>0, <2>1, <2>2, <2>3, Busy, QuietStep
<1>3. CASE execute_ok(r) \/ execute_fails(r) \/ pause(r) \/ give_up(r) \/ retry_step(r)
  <2>1. run[r].pc \notin {"idle", "load"}
    BY <1>3 DEF execute_ok, execute_fails, pause, give_up, retry_step
  <2>2. saga' \in {saga, Seen(r)} /\ order' = order
    BY <1>3 DEF execute_ok, execute_fails, pause, give_up, retry_step, Saved
  <2>3. run'[r].pc # "undoing"
    <3>1. CASE execute_ok(r)
      BY <1>0, <3>1 DEF execute_ok, Saved, Position
    <3>2. CASE execute_fails(r)
      <4>1. PICK retryable : run' = [run EXCEPT ![r].pc = "failed", ![r].retryable = retryable,
                                                ![r].unsaved = "none"]
        BY <3>2 DEF execute_fails
      <4> QED
        BY <1>0, <4>1 DEF Position
    <3>3. CASE pause(r) \/ give_up(r) \/ retry_step(r)
      BY <1>0, <1>i, <3>3 DEF pause, give_up, retry_step, Goto, Position
    <3> QED
      BY <1>3, <3>1, <3>2, <3>3
  <2>4. saga' \notin {"COMPLETED", "COMPENSATED"} /\ order' # "COMPLETED"
    BY <2>1, <2>2, Busy DEF Concluded
  <2> QED
    BY <2>1, <2>3, <2>4, BusyStep
<1>4. CASE post_step(r)
  <2>1. run[r].pc = "post" /\ run[r].at \in Indices
    BY <1>4 DEF post_step, AllInv, Placed, AtOne
  <2>2. definition[run[r].at].order_state # "COMPLETED"
    BY <2>1 DEF NoStepCompletes, AllInv, TypeParts, definition, Indices
  <2>3. order' # "COMPLETED" /\ saga' = saga
    BY <1>4, <2>1, <2>2, Busy, Ensured DEF post_step, AllInv, TypeParts
  <2>4. run'[r].pc = "scan"
    BY <1>0, <1>4 DEF post_step, Position
  <2>5. saga' \notin {"COMPLETED", "COMPENSATED"}
    BY <2>1, <2>3, Busy DEF Concluded
  <2> QED
    BY <2>1, <2>3, <2>4, <2>5, BusyStep
<1>5. CASE complete(r)
  <2>1. saga' = "COMPLETED" /\ run'[Starter] = Idle
    BY <1>0, <1>5 DEF complete
  <2> QED
    BY <1>i, <2>1 DEF SoloInv, Concluded, CompletedOrderHasCompletedSaga, CompensatedMeansUndone
<1> QED
  BY <1>1, <1>2, <1>3, <1>4, <1>5

\* The pass over the steps, last first.
LEMMA UndoStep ==
  ASSUME Solo, AllInv, NEW r \in Runners, skip_step(r) \/ undo_step(r)
  PROVE  SoloInv'
<1>1. PICK i \in Indices :
        /\ AtStep(r, i)
        /\ step_state' = [step_state EXCEPT ![i] = "SKIPPED"]
             \/ step_state' = [step_state EXCEPT ![i] = "COMPENSATED"]
        /\ Saved(r, "undoing", i - 1)
  BY DEF skip_step, undo_step
<1>2. run[r].pc = "undoing" /\ UNCHANGED <<order, workflow>>
  BY <1>1 DEF AtStep, skip_step, undo_step, env
<1>3. r = Starter /\ order' # "COMPLETED" /\ saga' \notin {"COMPLETED", "COMPENSATED"}
  BY <1>1, <1>2, Busy DEF Saved
<1>4. Indices' = Indices /\ definition' = definition
  BY <1>2 DEF Indices, definition
<1>5. run'[Starter].at = i - 1
  BY <1>1, <1>3 DEF Saved, AllInv, TypeParts, Position
<1>6. ASSUME NEW j \in Indices, j > i - 1 PROVE Undone(j)'
  <2>0. i \in Nat /\ j \in Nat /\ run[r].at \in Nat /\ step_state \in [Indices -> StepStates]
    BY Steps DEF AllInv, TypeParts, Position
  <2>1. CASE j = i
    BY <1>1, <1>4, <2>0, <2>1 DEF Undone
  <2>2. CASE j > run[r].at /\ j # i
    BY <1>1, <1>2, <1>3, <1>4, <2>0, <2>2 DEF Undone, AllInv, SoloInv
  <2>3. CASE j <= run[r].at /\ j # i
    <3>1. j \notin ToUndo(run[r].at)
      BY <1>1, <1>6, <2>0, <2>3 DEF AtStep, ToUndo
    <3>2. step_state[j] # "PENDING" /\ ~Undoable(j)
      BY <2>3, <3>1 DEF ToUndo
    <3>3. Undone(j)
      BY <2>0, <3>2, States DEF Undoable, Undone
    <3> QED
      BY <1>1, <1>4, <2>0, <2>3, <3>3 DEF Undone
  <2> QED
    BY <2>0, <2>1, <2>2, <2>3
<1> QED
  BY <1>3, <1>4, <1>5, <1>6
  DEF SoloInv, Concluded, CompletedOrderHasCompletedSaga, CompensatedMeansUndone

LEMMA SoloCompensate ==
  ASSUME Solo, AllInv, NEW r \in Runners,
         compensate(r) \/ undo_fails(r) \/ compensated(r) \/ mark_manual_intervention(r)
  PROVE  SoloInv'
<1>0. r = Starter /\ run \in [Runners -> Position] /\ run[r] \in Position
  BY DEF Solo, AllInv, TypeParts
<1>i. Idle.pc = "idle" /\ Idle.unsaved = "none"
  BY DEF Idle
<1>n. run[r].pc \notin {"idle", "load"}
  BY DEF compensate, undo_fails, compensated, mark_manual_intervention, AtStep
<1>b. ~Concluded /\ order # "COMPLETED" /\ Seen(r) \notin {"COMPLETED", "COMPENSATED"}
  BY <1>n, Busy
<1>1. CASE compensate(r)
  <2>1. UNCHANGED <<saga, order, workflow, step_state>>
    BY <1>1 DEF compensate, db, env
  <2>2. CASE run'[r].pc # "undoing"
    BY <1>0, <1>b, <2>1, <2>2, QuietStep
  <2>3. CASE run'[r].pc = "undoing"
    <3>1. run'[r].at = Len(definition)
      BY <1>0, <1>b, <1>i, <1>1, <2>3 DEF compensate, Concluded, Position
    <3>2. Indices' = Indices /\ definition' = definition
      BY <2>1 DEF Indices, definition
    <3>3. \A i \in Indices : ~(i > Len(definition))
      BY Steps DEF Indices, AllInv
    <3> QED
      BY <1>0, <1>b, <2>1, <3>1, <3>2, <3>3
      DEF SoloInv, Concluded, CompletedOrderHasCompletedSaga, CompensatedMeansUndone
  <2> QED
    BY <2>2, <2>3
<1>2. CASE undo_fails(r)
  <2>1. UNCHANGED <<saga, order, workflow, step_state>> /\ run'[r].pc = "manual"
    BY <1>0, <1>2 DEF undo_fails, Goto, db, env, Position
  <2> QED
    BY <1>0, <1>b, <2>1, QuietStep
<1>3. CASE compensated(r)
  <2>1. saga' = "COMPENSATED" /\ run'[Starter] = Idle /\ UNCHANGED <<workflow, step_state>>
    BY <1>0, <1>3 DEF compensated, env
  <2>2. order' # "COMPLETED"
    BY <1>b, <1>3, Ensured DEF compensated, RolledBack, AllInv, TypeParts
  <2>3. \A i \in Indices : Undone(i)
    <3> SUFFICES ASSUME NEW i \in Indices PROVE Undone(i)
      OBVIOUS
    <3>0. i \in Nat /\ run[r].at \in Nat /\ step_state \in [Indices -> StepStates] /\ run[r].pc = "undoing"
      BY <1>3, Steps DEF AllInv, TypeParts, Position, compensated
    <3>1. CASE i > run[r].at
      BY <1>0, <3>0, <3>1 DEF AllInv, SoloInv
    <3>2. CASE i <= run[r].at
      <4>1. step_state[i] # "PENDING" /\ ~Undoable(i)
        BY <1>3, <3>2 DEF compensated, ToUndo
      <4> QED
        BY <3>0, <4>1, States DEF Undoable, Undone
    <3> QED
      BY <3>0, <3>1, <3>2
  <2>4. Indices' = Indices /\ definition' = definition
    BY <2>1 DEF Indices, definition
  <2> QED
    BY <1>i, <2>1, <2>2, <2>3, <2>4
    DEF SoloInv, Concluded, Undone, CompletedOrderHasCompletedSaga, CompensatedMeansUndone
<1>4. CASE mark_manual_intervention(r)
  <2>1. order' # "COMPLETED"
    BY <1>b, <1>4, Ensured DEF mark_manual_intervention, ToManual, AllInv, TypeParts
  <2>2. saga' \in {saga, "MANUAL_INTERVENTION"} /\ run'[r].pc = "idle"
    BY <1>0, <1>i, <1>4 DEF mark_manual_intervention
  <2>3. saga' \notin {"COMPLETED", "COMPENSATED"}
    BY <1>b, <2>2 DEF Concluded
  <2> QED
    BY <1>n, <2>1, <2>2, <2>3, BusyStep
<1> QED
  BY <1>1, <1>2, <1>3, <1>4

LEMMA SoloOutside ==
  ASSUME Solo, AllInv,
         \/ \E r \in Runners : resume(r) \/ Crash(r)
         \/ requeue_stale \/ Install \/ request_cancel \/ UNCHANGED vars
  PROVE  SoloInv'
<1>0. run \in [Runners -> Position] /\ Starter \in Runners
  BY ConstantsAssumption DEF AllInv, TypeParts
<1>i. Idle.pc = "idle" /\ Idle.unsaved = "none"
  BY DEF Idle
<1>1. ASSUME NEW r \in Runners, resume(r) PROVE SoloInv'
  <2>1. run'[Starter] = [Idle EXCEPT !.pc = "load"]
    BY <1>0, <1>1 DEF resume, Solo
  <2>2. run'[Starter].pc = "load" /\ run'[Starter].unsaved = "none"
    BY <2>1 DEF Idle
  <2>3. UNCHANGED <<workflow, order>> /\ Indices' = Indices /\ definition' = definition
    BY <1>1 DEF resume, Indices, definition
  <2>4. Concluded' => saga' = saga
    BY <1>1 DEF resume, Concluded
  <2>5. saga = "COMPLETED" => saga' = saga
    BY <1>1 DEF resume
  <2>6. ASSUME saga' = "COMPENSATED", NEW i \in Indices PROVE Undone(i)'
    <3>1. Undone(i)
      BY <2>4, <2>6, SoloFacts DEF Concluded
    <3> QED
      BY <1>1, <2>3, <3>1 DEF resume, Undone
  <2> QED
    BY <2>2, <2>3, <2>4, <2>5, <2>6, SoloFacts
    DEF SoloInv, Undone, CompletedOrderHasCompletedSaga, CompensatedMeansUndone
<1>2. ASSUME NEW r \in Runners, Crash(r) PROVE SoloInv'
  <2>1. UNCHANGED <<saga, order, workflow, step_state>> /\ run'[Starter] = Idle
    BY <1>0, <1>2 DEF Crash, db, Solo
  <2> QED
    BY <1>i, <2>1, QuietStep
<1>3. CASE requeue_stale
  <2>1. UNCHANGED <<saga, order, run, workflow>>
    BY <1>3 DEF requeue_stale, env
  <2>2. Indices' = Indices /\ definition' = definition
    BY <2>1 DEF Indices, definition
  <2>3. \A i \in Indices : Undone(i) => Undone(i)'
    BY <1>3, <2>2 DEF requeue_stale, Abandoned, Undone
  <2> QED
    BY <2>1, <2>2, <2>3, SoloFacts
    DEF AllInv, SoloInv, Concluded, Undone, CompletedOrderHasCompletedSaga, CompensatedMeansUndone
<1>4. CASE Install \/ request_cancel \/ UNCHANGED vars
  <2>1. UNCHANGED <<saga, run, workflow, step_state>> /\ (order' = order \/ order' = "CANCELLATION_REQUESTED")
    BY <1>4 DEF Install, request_cancel, db, env, vars
  <2>2. Indices' = Indices /\ definition' = definition
    BY <2>1 DEF Indices, definition
  <2> QED
    BY <2>1, <2>2
    DEF AllInv, SoloInv, Concluded, Undone, CompletedOrderHasCompletedSaga, CompensatedMeansUndone
<1> QED
  BY <1>1, <1>2, <1>3, <1>4

LEMMA SoloStep ==
  ASSUME Solo, NoStepCompletes, AllInv, [Next]_vars
  PROVE  AllInv'
<1>1. TypeParts' /\ Placed'
  BY TypeStep, PlacedStep DEF AllInv
<1>2. SoloInv'
  BY SoloAdvance, UndoStep, SoloCompensate, SoloOutside DEF Next, Work
<1> QED
  BY <1>1, <1>2 DEF AllInv

LEMMA SoloInit ==
  ASSUME Init
  PROVE  AllInv
<1>1. run[Starter].pc = "scan"
  BY ConstantsAssumption DEF Init, Idle
<1> QED
  BY <1>1, TypeInit DEF Init, AllInv, SoloInv, Concluded, CompletedOrderHasCompletedSaga,
    CompensatedMeansUndone

\* With one runner at a time, whatever crashes, failing compensations, resumes and
\* cancellations come: an order is COMPLETED only with its saga.
THEOREM OrderCompletesWithSaga ==
  ASSUME Solo, NoStepCompletes
  PROVE  Spec => []CompletedOrderHasCompletedSaga
<1>1. AllInv /\ [Next]_vars => AllInv'
  BY SoloStep
<1>2. AllInv => CompletedOrderHasCompletedSaga
  BY DEF AllInv, SoloInv
<1>3. Init => AllInv
  BY SoloInit
<1> QED
  BY <1>1, <1>2, <1>3, PTL DEF Spec

\* And every step of a COMPENSATED saga that can be undone was undone or never ran.
THEOREM CompensatedIsUndone ==
  ASSUME Solo, NoStepCompletes
  PROVE  Spec => []CompensatedMeansUndone
<1>1. AllInv /\ [Next]_vars => AllInv'
  BY SoloStep
<1>2. AllInv => CompensatedMeansUndone
  BY DEF AllInv, SoloInv
<1>3. Init => AllInv
  BY SoloInit
<1> QED
  BY <1>1, <1>2, <1>3, PTL DEF Spec

---------------------------------------------------------------------------
(***************************************************************************)
(* The saga engine implements SagaContract, for every workflow whose       *)
(* changes can be undone and every number of resumes, as long as one       *)
(* runner at a time works on the saga, does not die in the middle of it    *)
(* and the compensations it calls succeed.                                 *)
(***************************************************************************)
\* Every change of a workflow but that of its last step has a compensation: no
\* step comes behind the last one to fail and ask for it.
ChangesUndoable ==
  \A w \in DOMAIN Definitions : \A i \in 1..Len(Definitions[w]) :
    Definitions[w][i].changes /\ i < Len(Definitions[w]) => Definitions[w][i].undoable

\* Nothing goes wrong but the steps themselves.
Calm == Solo /\ NoStepCompletes /\ ChangesUndoable /\ MaxCrashes = 0 /\ ~UndoMayFail

\* Where the one runner is.
place == run[Starter].pc
here == run[Starter].at
Done(i) == step_state[i] = "COMPLETED"

\* The saga as the row has it and as the runner sees it, by what the runner does.
SagaByPlace ==
  /\ place \in {"scan", "exec", "finish"} =>
       saga \in {"PENDING", "RUNNING"} /\ Seen(Starter) = "RUNNING"
  /\ place \in {"failed", "retry", "settle", "post", "undo", "manual"} =>
       saga = "RUNNING" /\ Seen(Starter) = "RUNNING"
  /\ place = "undoing" => saga \in {"RUNNING", "COMPENSATING"} /\ Seen(Starter) = "COMPENSATING"
  /\ place = "load" => saga \in {"RUNNING", "COMPLETED", "COMPENSATED"}
  /\ place = "idle" => saga \in {"RUNNING", "COMPLETED", "COMPENSATED", "MANUAL_INTERVENTION"}

\* The changes in place are those of the completed steps.
LiveIsDone == \A i \in Indices : i \in live <=> definition[i].changes /\ Done(i)

\* Before it turns back the saga has completed its first steps and no others; one
\* step at most is neither completed nor still to do, the one the runner is at.
Odd(i) ==
  \/ i = here /\ place = "failed" /\ step_state[i] = "RUNNING"
  \/ i = here /\ place \in {"settle", "undo", "manual"} /\ step_state[i] = "FAILED"
  \/ saga = "MANUAL_INTERVENTION" /\ step_state[i] = "FAILED"

Forward ==
  /\ \A i, j \in Indices : i < j /\ Done(j) => Done(i)
  /\ \A i \in Indices : step_state[i] \in {"PENDING", "COMPLETED"} \/ Odd(i)
  /\ place \in {"exec", "retry"} => step_state[here] = "PENDING"
  /\ place = "failed" => step_state[here] = "RUNNING"
  /\ place = "settle" => step_state[here] = "FAILED"
  /\ place = "post" => Done(here)
  /\ place \in {"scan", "exec", "failed", "retry", "settle"} =>
       \A i \in Indices : i < here => Done(i)
  /\ place = "finish" \/ saga = "COMPLETED" => \A i \in Indices : Done(i)

\* What is in place when it turns back can be undone, and there is something to do.
Backward ==
  /\ place \in {"undo", "undoing"} => \A i \in live : definition[i].undoable
  /\ place = "undo" => ToUndo(Len(definition)) # {}
  /\ place = "undoing" /\ saga = "RUNNING" => ToUndo(here) # {}
  /\ place = "manual" \/ saga = "COMPENSATED" => live = {}

Progress ==
  /\ SagaByPlace
  /\ LiveIsDone
  /\ place # "undoing" /\ saga # "COMPENSATED" => Forward
  /\ Backward

Mapped == [Contract!Next]_(Contract!contractVars)

\* The premises of every step.
Before == Calm /\ AllInv /\ Progress

---------------------------------------------------------------------------
(* What the steps have in common *)

LEMMA Facts ==
  ASSUME Before
  PROVE  /\ run \in [Runners -> Position] /\ Starter \in Runners /\ run[Starter] \in Position
         /\ Runners = {Starter}
         /\ place \in Places /\ here \in Nat
         /\ step_state \in [Indices -> StepStates]
         /\ Len(definition) \in Nat /\ Indices = 1..Len(definition) /\ live \subseteq Indices
BY ConstantsAssumption, Steps
DEF Before, Calm, Solo, AllInv, TypeParts, place, here, Position, Indices

LEMMA CompensatesAll ==
  ASSUME Before, NEW i \in Indices, definition[i].changes, i < Len(definition)
  PROVE  definition[i].undoable
BY DEF Before, Calm, ChangesUndoable, AllInv, TypeParts, definition, Indices

LEMMA Phases ==
  /\ saga \in {"PENDING", "RUNNING"} => Phase = "forward"
  /\ saga = "COMPENSATING" => Phase = "backward"
  /\ saga = "COMPLETED" => Phase = "completed"
  /\ saga = "COMPENSATED" => Phase = "rolled back"
  /\ saga = "MANUAL_INTERVENTION" => Phase = "parked"
BY DEF Phase

\* A step that changes nothing the contract sees.
LEMMA Stutters ==
  ASSUME UNCHANGED <<workflow, live>>, Phase' = Phase
  PROVE  Mapped
BY DEF Mapped, Contract!contractVars, Indices, definition

LEMMA SameWorkflow ==
  ASSUME UNCHANGED workflow
  PROVE  Indices' = Indices /\ definition' = definition
BY DEF Indices, definition

\* As long as no step is completed or undone.
LEMMA SameDone ==
  ASSUME Before, UNCHANGED <<workflow, live>>, \A i \in Indices : Done(i)' = Done(i)
  PROVE  /\ LiveIsDone'
         /\ place # "undoing" /\ saga # "COMPENSATED" =>
              \A i, j \in Indices' : i < j /\ Done(j)' => Done(i)'
<1>1. Indices' = Indices /\ definition' = definition
  BY SameWorkflow
<1> QED
  BY <1>1 DEF Before, Progress, LiveIsDone, Forward

---------------------------------------------------------------------------
(* advance *)

\* A runner starts, or goes on with, the loop over the steps.
LEMMA LoopMaps ==
  ASSUME Before,
         \/ load(Starter) \/ advance_running_sagas(Starter)
         \/ take_step(Starter) \/ no_step_left(Starter)
  PROVE  Progress' /\ Mapped
<1> USE Facts
<1>1. UNCHANGED <<saga, step_state, live, workflow>> /\ Indices' = Indices /\ definition' = definition
  BY SameWorkflow DEF load, advance_running_sagas, take_step, no_step_left, db, env
<1>2. Phase' = Phase /\ \A i \in Indices : Done(i)' = Done(i)
  BY <1>1 DEF Phase, Done
<1>3. Mapped /\ LiveIsDone'
  BY <1>1, <1>2, Stutters, SameDone
<1>i. Idle.pc = "idle" /\ Idle.unsaved = "none"
  BY DEF Idle
<1>4. CASE load(Starter) \/ advance_running_sagas(Starter)
  <2>1. place \in {"load", "idle"}
    BY <1>4 DEF load, advance_running_sagas, place
  <2>2. saga \in {"RUNNING", "COMPLETED", "COMPENSATED"}
    BY <1>4 DEF Before, Progress, SagaByPlace, load, advance_running_sagas, place
  <2>3. CASE saga = "RUNNING"
    <3>1. run' = [run EXCEPT ![Starter] = [Idle EXCEPT !.pc = "scan", !.at = 1, !.unsaved = "none"]]
          \/ run' = [run EXCEPT ![Starter] = [Idle EXCEPT !.pc = "scan", !.at = 1]]
      BY <1>4, <2>3 DEF load, advance_running_sagas, TERMINAL_SAGA_STATES
    <3>2. place' = "scan" /\ here' = 1 /\ run'[Starter].unsaved = "none"
      BY <3>1 DEF place, here, Idle
    <3>3. Forward'
      BY <1>1, <2>1, <2>3, <3>2 DEF Before, Progress, Forward, Odd, Done
    <3> QED
      BY <1>1, <1>3, <2>3, <3>2, <3>3 DEF Progress, SagaByPlace, Backward, Seen
  <2>4. CASE saga # "RUNNING"
    <3>1. place' = "idle" /\ saga' = saga
      BY <1>1, <1>4, <1>i, <2>2, <2>4 DEF load, advance_running_sagas, TERMINAL_SAGA_STATES, place
    <3>2. saga = "COMPLETED" => Forward'
      BY <1>1, <2>1, <3>1 DEF Before, Progress, Forward, Odd, Done
    <3> QED
      BY <1>1, <1>3, <2>2, <2>4, <3>1, <3>2 DEF Before, Progress, SagaByPlace, Backward
  <2> QED
    BY <2>3, <2>4
<1>5. CASE take_step(Starter)
  <2>1. PICK i \in PendingFrom(here) :
          /\ \A j \in PendingFrom(here) : i <= j
          /\ run' = [run EXCEPT ![Starter].pc = "exec", ![Starter].at = i, ![Starter].attempt = 1]
    BY <1>5 DEF take_step, here
  <2>2. place = "scan" /\ place' = "exec" /\ here' = i /\ run'[Starter].unsaved = run[Starter].unsaved
    BY <1>5, <2>1 DEF take_step, place, here, Position
  <2>3. i \in Indices /\ i >= here /\ step_state[i] = "PENDING"
    BY <2>1 DEF PendingFrom
  <2>4. ASSUME NEW j \in Indices, j < i PROVE Done(j)
    <3>1. CASE j < here
      BY <2>2, <3>1 DEF Before, Progress, SagaByPlace, Forward
    <3>2. CASE j >= here
      <4>1. step_state[j] # "PENDING"
        BY <2>1, <2>3, <2>4, <3>2 DEF PendingFrom
      <4> QED
        BY <2>2, <4>1 DEF Before, Progress, SagaByPlace, Forward, Odd, Done
    <3> QED
      BY <3>1, <3>2
  <2>5. Forward'
    BY <1>1, <2>2, <2>3, <2>4 DEF Before, Progress, SagaByPlace, Forward, Odd, Done
  <2> QED
    BY <1>1, <1>3, <2>2, <2>5 DEF Before, Progress, SagaByPlace, Backward, Seen
<1>6. CASE no_step_left(Starter)
  <2>1. place = "scan" /\ place' = "finish" /\ run'[Starter].unsaved = run[Starter].unsaved
    BY <1>6 DEF no_step_left, Goto, place, Position
  <2>2. \A i \in Indices : Done(i)
    <3> SUFFICES ASSUME NEW i \in Indices PROVE Done(i)
      OBVIOUS
    <3>1. CASE i < here
      BY <2>1, <3>1 DEF Before, Progress, SagaByPlace, Forward
    <3>2. CASE i >= here
      <4>1. step_state[i] # "PENDING"
        BY <1>6, <3>2 DEF no_step_left, PendingFrom, here
      <4> QED
        BY <2>1, <4>1 DEF Before, Progress, SagaByPlace, Forward, Odd, Done
    <3> QED
      BY <3>1, <3>2
  <2>3. Forward'
    BY <1>1, <2>1, <2>2 DEF Before, Progress, SagaByPlace, Forward, Odd, Done
  <2> QED
    BY <1>1, <1>3, <2>1, <2>3 DEF Before, Progress, SagaByPlace, Backward, Seen
<1> QED
  BY <1>4, <1>5, <1>6

\* A step is executed: the change it makes is the next one of the plan.
LEMMA ExecuteMaps ==
  ASSUME Before, execute_ok(Starter)
  PROVE  Progress' /\ Mapped
<1> USE Facts
<1>1. UNCHANGED workflow /\ Indices' = Indices /\ definition' = definition
  BY SameWorkflow DEF execute_ok, env
<1>2. place = "exec" /\ here \in Indices /\ step_state[here] = "PENDING" /\ saga \in {"PENDING", "RUNNING"}
  BY DEF execute_ok, place, here, Before, Progress, SagaByPlace, Forward, AllInv, Placed, AtOne
<1>3. place' = "post" /\ here' = here /\ saga' = "RUNNING" /\ run'[Starter].unsaved = "none"
  BY <1>2 DEF execute_ok, Saved, place, here, Position, Before, Progress, SagaByPlace
<1>4. /\ step_state' = [step_state EXCEPT ![here] = "COMPLETED"]
      /\ live' = IF definition[here].changes THEN live \cup {here} ELSE live
  BY DEF execute_ok, here
<1>5. Forward /\ LiveIsDone
  BY <1>2 DEF Before, Progress
<1>6. \A i \in Indices : Done(i)' <=> i = here \/ Done(i)
  BY <1>1, <1>4 DEF Done
<1>7. LiveIsDone'
  BY <1>1, <1>4, <1>5, <1>6 DEF LiveIsDone
<1>8. Forward'
  <2>1. \A i, j \in Indices : i < j /\ Done(j)' => Done(i)'
    BY <1>2, <1>5, <1>6 DEF Forward
  <2>2. \A i \in Indices : step_state'[i] \in {"PENDING", "COMPLETED"}
    BY <1>2, <1>4, <1>5 DEF Forward, Odd
  <2>3. Done(here)'
    BY <1>2, <1>3, <1>6
  <2> QED
    BY <1>1, <1>3, <2>1, <2>2, <2>3 DEF Forward
<1>9. Progress'
  BY <1>3, <1>7, <1>8 DEF Progress, SagaByPlace, Backward, Seen
<1>10. Phase = "forward" /\ Phase' = "forward"
  BY <1>2, <1>3 DEF Phase
<1>11. CASE definition[here].changes
  <2>1. \A j \in Indices : definition[j].changes => (j < here <=> j \in live)
    <3>1. \A j \in Indices : j < here => Done(j)
      BY <1>2, <1>5 DEF Forward
    <3>2. \A j \in Indices : Done(j) => j < here
      <4> SUFFICES ASSUME NEW j \in Indices, Done(j), ~(j < here) PROVE FALSE
        OBVIOUS
      <4>1. j # here
        BY <1>2 DEF Done
      <4>2. here < j
        BY <4>1
      <4>3. Done(here)
        BY <1>2, <1>5, <4>2 DEF Forward
      <4> QED
        BY <1>2, <4>3 DEF Done
    <3> QED
      BY <1>5, <3>1, <3>2 DEF LiveIsDone
  <2>2. Contract!Perform(here)
    BY <1>1, <1>4, <1>10, <1>11, <2>1 DEF Contract!Perform
  <2> QED
    BY <1>2, <1>9, <1>11, <2>2 DEF Mapped, Contract!Next
<1>12. CASE ~definition[here].changes
  BY <1>1, <1>4, <1>9, <1>10, <1>12, Stutters
<1> QED
  BY <1>9, <1>11, <1>12

\* A failed attempt, and what becomes of it.
LEMMA FailMaps ==
  ASSUME Before,
         \/ execute_fails(Starter) \/ pause(Starter) \/ give_up(Starter)
         \/ retry_step(Starter) \/ next_attempt(Starter)
  PROVE  Progress' /\ Mapped
<1> USE Facts
<1>1. UNCHANGED <<live, workflow>> /\ Indices' = Indices /\ definition' = definition
  BY SameWorkflow DEF execute_fails, pause, give_up, retry_step, next_attempt, db, env
<1>2. place \in {"exec", "failed", "retry"} /\ here \in Indices /\ saga \in {"PENDING", "RUNNING"}
  BY DEF execute_fails, pause, give_up, retry_step, next_attempt, place, here, Before, Progress,
    SagaByPlace, AllInv, Placed, AtOne
<1>3. Forward /\ step_state[here] \in {"PENDING", "RUNNING"} /\ Seen(Starter) = "RUNNING"
  BY <1>2 DEF Before, Progress, SagaByPlace, Forward
<1>4. saga' \in {saga, "RUNNING"}
  BY <1>3 DEF execute_fails, pause, give_up, retry_step, next_attempt, db
<1>5. \E s \in {"PENDING", "RUNNING", "FAILED"} : step_state' = [step_state EXCEPT ![here] = s]
  <2>1. CASE step_state' = step_state
    BY <1>2, <1>3, <2>1
  <2> QED
    BY <2>1 DEF execute_fails, pause, give_up, retry_step, next_attempt, here, db
<1>6. \A i \in Indices : /\ Done(i)' = Done(i)
                         /\ i # here => step_state'[i] = step_state[i]
                         /\ i # here => step_state[i] \in {"PENDING", "COMPLETED"}
  BY <1>1, <1>2, <1>3, <1>5 DEF Done, Forward, Odd
<1>7. Mapped /\ LiveIsDone' /\ \A i, j \in Indices' : i < j /\ Done(j)' => Done(i)'
  <2>1. Phase' = Phase
    BY <1>2, <1>4, Phases DEF Phase
  <2> QED
    BY <1>1, <1>2, <1>6, <2>1, Stutters, SameDone
<1>8. \A i \in Indices : i < here => Done(i)
  BY <1>2, <1>3 DEF Forward
<1>i. Idle.pc = "idle" /\ Idle.unsaved = "none"
  BY DEF Idle
<1>9. CASE execute_fails(Starter)
  <2>1. PICK retryable : run' = [run EXCEPT ![Starter].pc = "failed", ![Starter].retryable = retryable,
                                            ![Starter].unsaved = "none"]
    BY <1>9 DEF execute_fails
  <2>2. place' = "failed" /\ here' = here /\ run'[Starter].unsaved = "none"
    BY <2>1 DEF place, here, Position
  <2>3. saga' = "RUNNING" /\ step_state'[here] = "RUNNING"
    BY <1>2, <1>3, <1>9 DEF execute_fails, here
  <2>4. Forward'
    BY <1>1, <1>6, <1>7, <1>8, <2>2, <2>3 DEF Forward, Odd, Done
  <2> QED
    BY <1>7, <2>2, <2>3, <2>4 DEF Progress, SagaByPlace, Backward, Seen
<1>10. CASE pause(Starter)
  <2>1. place = "failed" /\ place' = "idle" /\ run'[Starter].unsaved = "none"
    BY <1>10, <1>i DEF pause, place
  <2>2. saga = "RUNNING" /\ saga' = "RUNNING" /\ step_state'[here] = "PENDING"
    BY <1>2, <1>10, <2>1 DEF pause, here, Before, Progress, SagaByPlace
  <2>3. Forward'
    BY <1>1, <1>6, <1>7, <2>1, <2>2 DEF Forward, Odd, Done
  <2> QED
    BY <1>7, <2>1, <2>2, <2>3 DEF Progress, SagaByPlace, Backward, Seen
<1>11. CASE give_up(Starter)
  <2>1. place = "failed" /\ saga = "RUNNING" /\ saga' = "RUNNING"
    BY <1>11 DEF give_up, place, Before, Progress, SagaByPlace
  <2>2. "FAILED" \in STEP_TRANSITIONS[step_state[here]]
    BY <2>1 DEF STEP_TRANSITIONS, Before, Progress, Forward
  <2>3. place' = "settle" /\ here' = here /\ run'[Starter].unsaved = run[Starter].unsaved
    BY <1>11, <2>2 DEF give_up, Goto, place, here, Position
  <2>4. step_state'[here] = "FAILED"
    BY <1>2, <1>11, <2>2 DEF give_up, here
  <2>5. Forward'
    BY <1>1, <1>6, <1>7, <1>8, <2>1, <2>3, <2>4 DEF Forward, Odd, Done
  <2> QED
    BY <1>3, <1>7, <2>1, <2>3, <2>5 DEF Progress, SagaByPlace, Backward, Seen
<1>12. CASE retry_step(Starter)
  <2>1. place = "failed" /\ saga = "RUNNING" /\ saga' = "RUNNING"
    BY <1>12 DEF retry_step, place, Before, Progress, SagaByPlace
  <2>2. place' = "retry" /\ here' = here /\ run'[Starter].unsaved = run[Starter].unsaved
    BY <1>12 DEF retry_step, Goto, place, here, Position
  <2>3. step_state'[here] = "PENDING"
    BY <1>2, <1>12 DEF retry_step, here
  <2>4. Forward'
    BY <1>1, <1>6, <1>7, <1>8, <2>1, <2>2, <2>3 DEF Forward, Odd, Done
  <2> QED
    BY <1>3, <1>7, <2>1, <2>2, <2>4 DEF Progress, SagaByPlace, Backward, Seen
<1>13. CASE next_attempt(Starter)
  <2>1. place = "retry" /\ saga = "RUNNING" /\ saga' = "RUNNING" /\ step_state' = step_state
    BY <1>13 DEF next_attempt, db, place, Before, Progress, SagaByPlace
  <2>2. \/ place' = "exec" /\ here' = here /\ run'[Starter].unsaved = run[Starter].unsaved
        \/ place' = "idle" /\ run'[Starter].unsaved = "none"
    BY <1>13, <1>i DEF next_attempt, place, here, Position
  <2>3. step_state[here] = "PENDING"
    BY <2>1 DEF Before, Progress, Forward
  <2>4. Forward'
    BY <1>1, <1>6, <1>7, <1>8, <2>1, <2>2, <2>3 DEF Forward, Odd, Done
  <2> QED
    BY <1>3, <1>7, <2>1, <2>2, <2>4 DEF Progress, SagaByPlace, Backward, Seen
<1> QED
  BY <1>9, <1>10, <1>11, <1>12, <1>13

\* After the step; and the end.
LEMMA FinishMaps ==
  ASSUME Before, post_step(Starter) \/ complete(Starter)
  PROVE  Progress' /\ Mapped
<1> USE Facts
<1>1. UNCHANGED <<step_state, live, workflow>> /\ Indices' = Indices /\ definition' = definition
  BY SameWorkflow DEF post_step, complete, env
<1>2. \A i \in Indices : Done(i)' = Done(i)
  BY <1>1 DEF Done
<1>3. LiveIsDone'
  BY <1>1, <1>2, SameDone
<1>4. CASE post_step(Starter)
  <2>1. place = "post" /\ here \in Indices /\ saga = "RUNNING" /\ saga' = "RUNNING"
    BY <1>4 DEF post_step, place, here, Before, Progress, SagaByPlace, AllInv, Placed, AtOne
  <2>2. place' = "scan" /\ here' = here + 1 /\ run'[Starter].unsaved = run[Starter].unsaved
    BY <1>4 DEF post_step, place, here, Position
  <2>3. Forward /\ Seen(Starter) = "RUNNING"
    BY <2>1 DEF Before, Progress, SagaByPlace
  <2>4. \A i \in Indices : i < here + 1 => Done(i)
    <3> SUFFICES ASSUME NEW i \in Indices, i < here + 1 PROVE Done(i)
      OBVIOUS
    <3>1. i = here \/ i < here
      OBVIOUS
    <3> QED
      BY <2>1, <2>3, <3>1 DEF Forward
  <2>5. Forward'
    BY <1>1, <2>1, <2>2, <2>3, <2>4 DEF Forward, Odd, Done
  <2>6. Mapped
    BY <1>1, <2>1, Phases, Stutters DEF Phase
  <2> QED
    BY <1>3, <2>1, <2>2, <2>3, <2>5, <2>6 DEF Progress, SagaByPlace, Backward, Seen
<1>5. CASE complete(Starter)
  <2>1. place = "finish" /\ saga \in {"PENDING", "RUNNING"} /\ saga' = "COMPLETED"
    BY <1>5 DEF complete, place, Before, Progress, SagaByPlace
  <2>2. place' = "idle"
    BY <1>5 DEF complete, place, Idle
  <2>3. \A i \in Indices : Done(i)
    BY <2>1 DEF Before, Progress, Forward
  <2>4. Forward'
    BY <1>1, <2>2, <2>3 DEF Forward, Odd, Done
  <2>5. Progress'
    BY <1>3, <2>1, <2>2, <2>4 DEF Progress, SagaByPlace, Backward
  <2>6. live = {i \in Indices : definition[i].changes}
    BY <2>3 DEF Before, Progress, LiveIsDone
  <2>7. Phase = "forward" /\ Phase' = "completed"
    BY <2>1 DEF Phase
  <2>8. Contract!Succeed
    BY <1>1, <2>6, <2>7 DEF Contract!Succeed
  <2> QED
    BY <2>5, <2>8 DEF Mapped, Contract!Next
<1> QED
  BY <1>4, <1>5

---------------------------------------------------------------------------
(* compensate *)

\* A step has failed for good: whether to undo the others.
LEMMA SettleMaps ==
  ASSUME Before, settle(Starter)
  PROVE  Progress' /\ Mapped
<1> USE Facts
<1>1. UNCHANGED <<saga, step_state, live, workflow>> /\ Indices' = Indices /\ definition' = definition
  BY SameWorkflow DEF settle, db, env
<1>2. place = "settle" /\ here \in Indices /\ saga = "RUNNING" /\ Seen(Starter) = "RUNNING"
  BY DEF settle, place, here, Before, Progress, SagaByPlace, AllInv, Placed, AtOne
<1>3. Forward /\ LiveIsDone /\ step_state[here] = "FAILED"
  BY <1>2 DEF Before, Progress, Forward
<1>4. place' \in {"undo", "manual"} /\ here' = here /\ run'[Starter].unsaved = run[Starter].unsaved
  BY DEF settle, Goto, place, here, Position
<1>5. \A i \in live : i < here /\ Done(i) /\ definition[i].undoable
  <2> SUFFICES ASSUME NEW i \in live PROVE i < here /\ Done(i) /\ definition[i].undoable
    OBVIOUS
  <2>1. i \in Indices /\ definition[i].changes /\ Done(i)
    BY <1>3 DEF LiveIsDone
  <2>2. i < here
    <3>1. i # here /\ ~Done(here)
      BY <1>3, <2>1 DEF Done
    <3>2. ~(here < i)
      BY <1>2, <1>3, <2>1, <3>1 DEF Forward
    <3> QED
      BY <2>1, <3>1, <3>2
  <2> QED
    BY <1>2, <2>1, <2>2, CompensatesAll
<1>6. place' = "undo" => ToUndo(Len(definition)) # {}
  <2> SUFFICES ASSUME place' = "undo" PROVE ToUndo(Len(definition)) # {}
    OBVIOUS
  <2>1. PICK i \in Indices : definition[i].undoable
    BY DEF settle, Goto, place, Position
  <2>2. step_state[i] \in {"PENDING", "COMPLETED", "RUNNING", "FAILED"}
    BY <1>3 DEF Forward, Odd
  <2>3. i \in ToUndo(Len(definition))
    BY <2>1, <2>2 DEF ToUndo, Undoable
  <2> QED
    BY <2>3
<1>7. place' = "manual" => live = {}
  <2> SUFFICES ASSUME place' = "manual", NEW i \in live PROVE FALSE
    OBVIOUS
  <2>1. i \in Indices /\ i # here /\ step_state[i] = "COMPLETED" /\ definition[i].undoable
    BY <1>2, <1>5 DEF Done
  <2>2. place' = "undo"
    BY <2>1 DEF settle, Goto, place, here, Position
  <2> QED
    BY <2>2
<1>8. Forward'
  BY <1>1, <1>2, <1>3, <1>4 DEF Forward, Odd, Done
<1>9. LiveIsDone' /\ Mapped
  <2>1. Phase' = Phase /\ \A i \in Indices : Done(i)' = Done(i)
    BY <1>1 DEF Phase, Done
  <2> QED
    BY <1>1, <2>1, SameDone, Stutters
<1>10. Seen(Starter)' = "RUNNING"
  BY <1>1, <1>2, <1>4 DEF Seen
<1>11. SagaByPlace' /\ Backward'
  <2>1. ToUndo(Len(definition))' = ToUndo(Len(definition))
    BY <1>1 DEF ToUndo, Undoable
  <2> QED
    BY <1>1, <1>2, <1>4, <1>5, <1>6, <1>7, <1>10, <2>1 DEF SagaByPlace, Backward
<1> QED
  BY <1>8, <1>9, <1>11 DEF Progress

\* compensate begins.
LEMMA TurnMaps ==
  ASSUME Before, compensate(Starter)
  PROVE  Progress' /\ Mapped
<1> USE Facts
<1>1. UNCHANGED <<saga, step_state, live, workflow>> /\ Indices' = Indices /\ definition' = definition
  BY SameWorkflow DEF compensate, db, env
<1>2. place = "undo" /\ saga = "RUNNING"
  BY DEF compensate, place, Before, Progress, SagaByPlace
<1>3. place' = "undoing" /\ here' = Len(definition) /\ run'[Starter].unsaved = "COMPENSATING"
  BY <1>2 DEF compensate, place, here, Position
<1>4. LiveIsDone' /\ Mapped
  <2>1. Phase' = Phase /\ \A i \in Indices : Done(i)' = Done(i)
    BY <1>1 DEF Phase, Done
  <2> QED
    BY <1>1, <2>1, SameDone, Stutters
<1>5. ToUndo(Len(definition))' = ToUndo(Len(definition))
  BY <1>1 DEF ToUndo, Undoable
<1>6. ToUndo(here)' = ToUndo(Len(definition))
  BY <1>1, <1>3 DEF ToUndo, Undoable
<1>7. Backward'
  BY <1>1, <1>2, <1>3, <1>6 DEF Backward, Before, Progress
<1> QED
  BY <1>1, <1>2, <1>3, <1>4, <1>7 DEF Progress, SagaByPlace, Seen

\* The pass over the steps has undone every change behind the one it is at.
LEMMA PassedUndone ==
  ASSUME Before, place = "undoing", NEW i \in live
  PROVE  i \in Indices /\ i <= here /\ Done(i) /\ Undoable(i) /\ i \in ToUndo(here)
<1>1. i \in Indices /\ Done(i) /\ definition[i].undoable
  BY Facts DEF Before, Progress, LiveIsDone, Backward
<1>2. i <= here
  <2>1. ~Undone(i)
    BY <1>1 DEF Undone, Done
  <2>2. ~(i > here)
    BY <1>1, <2>1 DEF Before, AllInv, SoloInv, place, here
  <2> QED
    BY <1>1, <2>2, Facts
<1> QED
  BY <1>1, <1>2 DEF Undoable, ToUndo, Done

\* One step is undone or skipped.
LEMMA UndoMaps ==
  ASSUME Before, skip_step(Starter) \/ undo_step(Starter)
  PROVE  Progress' /\ Mapped
<1> USE Facts
<1>1. UNCHANGED workflow /\ Indices' = Indices /\ definition' = definition
  BY SameWorkflow DEF skip_step, undo_step, env
<1>2. PICK i \in Indices :
        /\ AtStep(Starter, i)
        /\ Saved(Starter, "undoing", i - 1)
        /\ \/ step_state[i] = "PENDING" /\ step_state' = [step_state EXCEPT ![i] = "SKIPPED"] /\ live' = live
           \/ step_state' = [step_state EXCEPT ![i] = "COMPENSATED"] /\ live' = live \ {i}
  BY DEF skip_step, undo_step
<1>3. place = "undoing" /\ saga \in {"RUNNING", "COMPENSATING"} /\ Seen(Starter) = "COMPENSATING"
  BY <1>2 DEF AtStep, place, Before, Progress, SagaByPlace
<1>4. place' = "undoing" /\ saga' = "COMPENSATING" /\ run'[Starter].unsaved = "none"
  BY <1>2, <1>3 DEF Saved, place, Position
<1>5. i \notin live => live' = live
  BY <1>2
<1>6. i \in live => step_state' = [step_state EXCEPT ![i] = "COMPENSATED"] /\ live' = live \ {i}
  <2>1. i \in live => step_state[i] # "PENDING"
    BY DEF Before, Progress, LiveIsDone, Done
  <2> QED
    BY <1>2, <2>1
<1>7. LiveIsDone'
  <2>1. \A j \in Indices : Done(j)' <=> j # i /\ Done(j)
    BY <1>1, <1>2 DEF Done
  <2>2. \A j \in Indices : j \in live' <=> j # i /\ j \in live
    BY <1>2, <1>6 DEF Before, Progress, LiveIsDone, Done
  <2> QED
    BY <1>1, <2>1, <2>2 DEF Before, Progress, LiveIsDone
<1>8. Progress'
  <2>1. \A j \in live' : definition[j].undoable
    BY <1>2, <1>3 DEF Before, Progress, Backward
  <2> QED
    BY <1>1, <1>4, <1>7, <2>1 DEF Progress, SagaByPlace, Backward, Seen
<1>9. Phase \in {"forward", "backward"} /\ Phase' = "backward"
  BY <1>3, <1>4 DEF Phase
<1>10. {j \in Indices : definition[j].changes}' = {j \in Indices : definition[j].changes}
  BY <1>1
<1>11. CASE i \in live
  <2>1. \A j \in live : j <= i
    <3> SUFFICES ASSUME NEW j \in live PROVE j <= i
      OBVIOUS
    <3>1. j \in ToUndo(here)
      BY <1>3, PassedUndone
    <3> QED
      BY <1>2, <3>1 DEF AtStep, here
  <2>2. Contract!Undo(i)
    BY <1>6, <1>9, <1>10, <1>11, <2>1 DEF Contract!Undo
  <2>3. i \in {j \in Indices : definition[j].changes}
    BY <1>11 DEF Before, Progress, LiveIsDone
  <2> QED
    BY <1>8, <2>2, <2>3 DEF Mapped, Contract!Next
<1>12. CASE i \notin live /\ Phase = "forward"
  <2>1. Contract!TurnBack
    BY <1>5, <1>9, <1>10, <1>12 DEF Contract!TurnBack
  <2> QED
    BY <1>8, <2>1 DEF Mapped, Contract!Next
<1>13. CASE i \notin live /\ Phase = "backward"
  BY <1>1, <1>5, <1>8, <1>9, <1>13, Stutters
<1> QED
  BY <1>9, <1>11, <1>12, <1>13

\* The pass is over; or the saga goes to an operator.
LEMMA ConcludeMaps ==
  ASSUME Before, compensated(Starter) \/ mark_manual_intervention(Starter)
  PROVE  Progress' /\ Mapped
<1> USE Facts
<1>1. UNCHANGED <<step_state, live, workflow>> /\ Indices' = Indices /\ definition' = definition
  BY SameWorkflow DEF compensated, mark_manual_intervention, env
<1>2. LiveIsDone'
  <2>1. \A i \in Indices : Done(i)' = Done(i)
    BY <1>1 DEF Done
  <2> QED
    BY <1>1, <2>1, SameDone
<1>3. place' = "idle"
  BY DEF compensated, mark_manual_intervention, place, Idle
<1>4. CASE compensated(Starter)
  <2>1. place = "undoing" /\ ToUndo(here) = {} /\ saga' = "COMPENSATED"
    BY <1>4 DEF compensated, place, here
  <2>2. saga = "COMPENSATING"
    BY <2>1 DEF Before, Progress, SagaByPlace, Backward
  <2>3. live = {}
    BY <2>1, PassedUndone
  <2>4. Progress'
    BY <1>1, <1>2, <1>3, <2>1, <2>3 DEF Progress, SagaByPlace, Backward
  <2>5. Phase = "backward" /\ Phase' = "rolled back"
    BY <2>1, <2>2 DEF Phase
  <2>6. Contract!RollBack
    BY <1>1, <2>3, <2>5 DEF Contract!RollBack
  <2> QED
    BY <2>4, <2>6 DEF Mapped, Contract!Next
<1>5. CASE mark_manual_intervention(Starter)
  <2>1. place = "manual" /\ saga = "RUNNING" /\ Seen(Starter) = "RUNNING"
    BY <1>5 DEF mark_manual_intervention, place, Before, Progress, SagaByPlace
  <2>2. "MANUAL_INTERVENTION" \in SAGA_TRANSITIONS[Seen(Starter)]
    BY <2>1 DEF SAGA_TRANSITIONS
  <2>3. saga' = "MANUAL_INTERVENTION"
    BY <1>5, <2>2 DEF mark_manual_intervention
  <2>4. live = {} /\ Forward
    BY <2>1 DEF Before, Progress, Backward
  <2>5. Forward'
    BY <1>1, <1>3, <2>1, <2>3, <2>4 DEF Forward, Odd, Done
  <2>6. Progress'
    BY <1>1, <1>2, <1>3, <2>3, <2>4, <2>5 DEF Progress, SagaByPlace, Backward
  <2>7. Phase = "forward" /\ Phase' = "parked"
    BY <2>1, <2>3 DEF Phase
  <2>8. Contract!Park
    BY <1>1, <2>4, <2>7 DEF Contract!Park
  <2> QED
    BY <2>6, <2>8 DEF Mapped, Contract!Next
<1> QED
  BY <1>4, <1>5

---------------------------------------------------------------------------
(* What comes from outside *)

\* An operator resumes the saga.
LEMMA ResumeMaps ==
  ASSUME Before, resume(Starter)
  PROVE  Progress' /\ Mapped
<1> USE Facts
<1>1. UNCHANGED <<live, workflow>> /\ Indices' = Indices /\ definition' = definition
  BY SameWorkflow DEF resume
<1>2. place = "idle" /\ saga \in {"RUNNING", "COMPLETED", "COMPENSATED", "MANUAL_INTERVENTION"}
  BY DEF resume, place, Before, Progress, SagaByPlace
<1>3. place' = "load" /\ run'[Starter].unsaved = "none"
  BY DEF resume, place, Idle
<1>4. saga' = IF saga = "MANUAL_INTERVENTION" THEN "RUNNING" ELSE saga
  BY <1>2 DEF resume
<1>5. \A i \in Indices :
        step_state'[i] = IF step_state[i] \in {"FAILED", "PENDING", "RUNNING"} THEN "PENDING" ELSE step_state[i]
  BY DEF resume
<1>6. \A i \in Indices : Done(i)' = Done(i)
  BY <1>1, <1>5 DEF Done
<1>7. LiveIsDone'
  BY <1>1, <1>6, SameDone
<1>8. saga # "COMPENSATED" => Forward'
  <2> SUFFICES ASSUME saga # "COMPENSATED" PROVE Forward'
    OBVIOUS
  <2>1. Forward
    BY <1>2 DEF Before, Progress
  <2>2. \A i \in Indices : step_state'[i] \in {"PENDING", "COMPLETED"}
    BY <1>5, <2>1 DEF Forward, Odd
  <2>3. \A i, j \in Indices : i < j /\ Done(j)' => Done(i)'
    BY <1>6, <2>1 DEF Forward
  <2>4. saga' = "COMPLETED" => \A i \in Indices : Done(i)'
    BY <1>4, <1>6, <2>1 DEF Forward
  <2> QED
    BY <1>1, <1>3, <2>2, <2>3, <2>4 DEF Forward
<1>9. Progress'
  BY <1>1, <1>2, <1>3, <1>4, <1>7, <1>8 DEF Before, Progress, SagaByPlace, Backward
<1>10. CASE saga = "MANUAL_INTERVENTION"
  <2>1. Phase = "parked" /\ Phase' = "forward"
    BY <1>4, <1>10 DEF Phase
  <2>2. Contract!Unpark
    BY <1>1, <2>1 DEF Contract!Unpark
  <2> QED
    BY <1>9, <2>2 DEF Mapped, Contract!Next
<1>11. CASE saga # "MANUAL_INTERVENTION"
  <2>1. Phase' = Phase
    BY <1>4, <1>11 DEF Phase
  <2> QED
    BY <1>1, <1>9, <2>1, Stutters
<1> QED
  BY <1>10, <1>11

\* Maintenance finds no step to requeue before the saga turns back: the runner of
\* a RUNNING step is alive.
LEMMA OutsideMaps ==
  ASSUME Before, requeue_stale \/ Install \/ request_cancel \/ UNCHANGED vars
  PROVE  Progress' /\ Mapped
<1> USE Facts
<1>1. UNCHANGED <<saga, live, run, workflow>> /\ Indices' = Indices /\ definition' = definition
  BY SameWorkflow DEF requeue_stale, Install, request_cancel, vars, env, db
<1>2. place' = place /\ here' = here /\ Seen(Starter)' = Seen(Starter)
  BY <1>1 DEF place, here, Seen
<1>3. \A i \in Indices : \/ step_state'[i] = step_state[i]
                         \/ i \in Abandoned /\ step_state[i] = "RUNNING" /\ step_state'[i] = "PENDING"
  BY DEF requeue_stale, Install, request_cancel, vars, db, Abandoned
<1>4. \A i \in Indices : Done(i)' = Done(i)
  BY <1>1, <1>3 DEF Done
<1>5. LiveIsDone' /\ Mapped
  <2>1. Phase' = Phase
    BY <1>1 DEF Phase
  <2> QED
    BY <1>1, <1>4, <2>1, SameDone, Stutters
<1>6. ASSUME place # "undoing", saga # "COMPENSATED" PROVE Forward'
  <2>1. Forward
    BY <1>6 DEF Before, Progress
  <2>2. \A i \in Indices : step_state'[i] = step_state[i]
    <3> SUFFICES ASSUME NEW i \in Indices, i \in Abandoned, step_state[i] = "RUNNING" PROVE FALSE
      BY <1>3
    <3>1. i = here /\ place = "failed"
      BY <2>1 DEF Forward, Odd
    <3> QED
      BY <3>1 DEF Abandoned, place, here
  <2>3. step_state' = step_state
    BY <2>2 DEF requeue_stale, Install, request_cancel, vars, db
  <2> QED
    BY <1>1, <1>2, <2>1, <2>3 DEF Forward, Odd, Done
<1>7. \A i \in Nat : ToUndo(i) \subseteq ToUndo(i)'
  BY <1>1, <1>3 DEF ToUndo, Undoable
<1>8. Backward'
  <2>1. place = "undo" => ToUndo(Len(definition))' # {}
    BY <1>1, <1>7 DEF Before, Progress, Backward
  <2>2. place = "undoing" /\ saga = "RUNNING" => ToUndo(here)' # {}
    BY <1>2, <1>7 DEF Before, Progress, Backward
  <2> QED
    BY <1>1, <1>2, <2>1, <2>2 DEF Before, Progress, Backward
<1>9. SagaByPlace'
  BY <1>1, <1>2 DEF Before, Progress, SagaByPlace
<1> QED
  BY <1>1, <1>2, <1>5, <1>6, <1>8, <1>9 DEF Progress

---------------------------------------------------------------------------
(* The theorems *)

LEMMA ProgressStep ==
  ASSUME Before, [Next]_vars
  PROVE  Progress' /\ Mapped
<1>1. ASSUME NEW r \in Runners PROVE r = Starter /\ ~Crash(r) /\ ~undo_fails(r)
  <2>1. r = Starter
    BY Facts
  <2>2. ~Crash(r)
    <3>1. MaxCrashes = 0 /\ crashes \in Nat
      BY DEF Before, Calm, AllInv, TypeParts
    <3> QED
      BY <3>1 DEF Crash
  <2> QED
    BY <2>1, <2>2 DEF undo_fails, Before, Calm
<1>2. ASSUME NEW r \in Runners, Work(r) PROVE Progress' /\ Mapped
  <2>1. r = Starter /\ ~undo_fails(r)
    BY <1>1
  <2> QED
    BY <1>2, <2>1, LoopMaps, ExecuteMaps, FailMaps, FinishMaps, SettleMaps, TurnMaps, UndoMaps, ConcludeMaps
    DEF Work
<1>3. ASSUME NEW r \in Runners, advance_running_sagas(r) \/ resume(r) \/ Crash(r) PROVE Progress' /\ Mapped
  BY <1>1, <1>3, LoopMaps, ResumeMaps
<1> QED
  BY <1>2, <1>3, OutsideMaps DEF Next

LEMMA ProgressInit ==
  ASSUME Init
  PROVE  Progress /\ Contract!Init
<1>1. run[Starter] = [Idle EXCEPT !.pc = "scan", !.at = 1, !.unsaved = "RUNNING"]
  BY ConstantsAssumption DEF Init
<1>2. place = "scan" /\ here = 1 /\ Seen(Starter) = "RUNNING"
  BY <1>1 DEF place, here, Seen, Idle
<1>3. Indices \subseteq Nat \ {0}
  BY TypeInit, Steps
<1>4. saga = "PENDING" /\ live = {} /\ \A i \in Indices : step_state[i] = "PENDING"
  BY DEF Init
<1>5. Forward
  BY <1>2, <1>3, <1>4 DEF Forward, Odd, Done
<1>6. Progress
  BY <1>2, <1>4, <1>5 DEF Progress, SagaByPlace, LiveIsDone, Backward, Done
<1>7. Phase = "forward"
  BY <1>4 DEF Phase
<1>8. Contract!Init
  BY <1>3, <1>4, <1>7 DEF Contract!Init
<1> QED
  BY <1>6, <1>8

LEMMA ProgressAlways ==
  ASSUME Calm
  PROVE  Spec => [](AllInv /\ Progress)
<1>1. Init => AllInv /\ Progress
  BY SoloInit, ProgressInit
<1>2. AllInv /\ Progress /\ [Next]_vars => AllInv' /\ Progress'
  BY SoloStep, ProgressStep DEF Before, Calm
<1> QED
  BY <1>1, <1>2, PTL DEF Spec

\* A saga whose runner stays alive and whose compensations work ends with all the
\* changes of its workflow in place or with none, however its steps fail and
\* however often it is paused, parked, resumed or its order cancelled.
THEOREM SagaIsAtomic ==
  ASSUME Calm
  PROVE  Spec => []AllOrNothing
<1>1. AllInv /\ Progress => AllOrNothing
  <2> SUFFICES ASSUME AllInv, Progress PROVE AllOrNothing
    OBVIOUS
  <2>1. CompletedMeansAllDone
    <3> SUFFICES ASSUME saga = "COMPLETED", NEW i \in Indices
                 PROVE  step_state[i] = "COMPLETED" /\ (definition[i].changes => i \in live)
      BY DEF CompletedMeansAllDone
    <3>1. place # "undoing" /\ Done(i)
      BY DEF Progress, SagaByPlace, Forward
    <3> QED
      BY <3>1 DEF Progress, LiveIsDone, Done
  <2>2. CompensatedLeavesNothing
    BY DEF Progress, Backward, CompensatedLeavesNothing
  <2> QED
    BY <2>1, <2>2 DEF AllOrNothing
<1> QED
  BY <1>1, ProgressAlways, PTL

\* Such a saga does what SagaContract says, step for step: its changes are made in
\* the order of the workflow and undone last first, it is completed with all of
\* them, rolled back with none, and parked only before it has made one.
THEOREM EngineImplementsContract ==
  ASSUME Calm
  PROVE  Spec => ImplementsContract
<1>1. Init => AllInv /\ Progress /\ Contract!Init
  BY SoloInit, ProgressInit
<1>2. AllInv /\ Progress /\ [Next]_vars
        => AllInv' /\ Progress' /\ [Contract!Next]_(Contract!contractVars)
  BY SoloStep, ProgressStep DEF Before, Calm, Mapped
<1> QED
  BY <1>1, <1>2, PTL DEF Spec, ImplementsContract, Contract!Spec

---------------------------------------------------------------------------
(***************************************************************************)
(* How the saga and its order move, under the same premises.               *)
(***************************************************************************)
NoEmptyWorkflow == \A w \in DOMAIN Definitions : Definitions[w] # << >>

\* A saga that is not committed yet has done nothing.
Fresh == saga = "PENDING" => \A i \in Indices : ~Done(i)

\* What each action makes of the saga.
LEMMA SagaMoves ==
  ASSUME Before, Fresh, NoEmptyWorkflow, [Next]_vars
  PROVE  /\ saga' # saga => saga' \in SAGA_TRANSITIONS[saga]
         /\ Fresh'
<1> USE Facts
<1>t. /\ SAGA_TRANSITIONS["PENDING"] = {"RUNNING", "CANCELLED"}
      /\ {"COMPLETED", "COMPENSATING", "MANUAL_INTERVENTION"} \subseteq SAGA_TRANSITIONS["RUNNING"]
      /\ "COMPENSATED" \in SAGA_TRANSITIONS["COMPENSATING"]
      /\ "RUNNING" \in SAGA_TRANSITIONS["MANUAL_INTERVENTION"]
  BY DEF SAGA_TRANSITIONS
<1>w. workflow' = workflow /\ Indices' = Indices
  <2>1. workflow' = workflow
    BY DEF Next, Work, load, take_step, no_step_left, execute_ok, execute_fails, pause, give_up,
      retry_step, next_attempt, settle, post_step, complete, compensate, skip_step, undo_step,
      undo_fails, compensated, mark_manual_intervention, advance_running_sagas, resume, Crash,
      requeue_stale, Install, request_cancel, env, vars
  <2> QED BY <2>1, SameWorkflow
<1>f. ASSUME saga' # "PENDING" PROVE Fresh'
  BY <1>f DEF Fresh
<1>q. ASSUME saga' = saga, \A i \in Indices : Done(i)' => Done(i) \/ saga # "PENDING" PROVE Fresh'
  BY <1>q, <1>w DEF Fresh
<1>1. ASSUME NEW r \in Runners PROVE r = Starter /\ ~Crash(r) /\ ~undo_fails(r)
  <2>1. MaxCrashes = 0 /\ crashes \in Nat
    BY DEF Before, Calm, AllInv, TypeParts
  <2> QED
    BY <2>1 DEF Crash, undo_fails, Before, Calm
<1>2. CASE execute_ok(Starter) \/ execute_fails(Starter)
  <2>1. saga \in {"PENDING", "RUNNING"} /\ saga' = "RUNNING"
    BY <1>2 DEF execute_ok, execute_fails, Saved, place, Before, Progress, SagaByPlace
  <2> QED BY <2>1, <1>t, <1>f
<1>3. CASE complete(Starter)
  <2>1. place = "finish" /\ saga' = "COMPLETED" /\ saga \in {"PENDING", "RUNNING"}
    BY <1>3 DEF complete, place, Before, Progress, SagaByPlace
  <2>2. \A i \in Indices : Done(i)
    BY <2>1 DEF Before, Progress, SagaByPlace, Forward
  <2>3. 1 \in Indices
    <3>1. definition \in Seq(Step) /\ definition # << >>
      BY ConstantsAssumption DEF Before, AllInv, TypeParts, definition, NoEmptyWorkflow
    <3> QED BY <3>1 DEF Indices
  <2>4. saga = "RUNNING"
    BY <2>1, <2>2, <2>3 DEF Fresh
  <2> QED BY <2>1, <2>4, <1>t, <1>f
<1>4. CASE skip_step(Starter) \/ undo_step(Starter)
  <2>1. place = "undoing"
    BY <1>4 DEF skip_step, undo_step, AtStep, place
  <2>2. saga \in {"RUNNING", "COMPENSATING"} /\ saga' = "COMPENSATING"
    BY <1>4, <2>1 DEF skip_step, undo_step, Saved, Before, Progress, SagaByPlace
  <2> QED BY <2>2, <1>t, <1>f
<1>5. CASE compensated(Starter)
  <2>1. place = "undoing" /\ ToUndo(here) = {} /\ saga' = "COMPENSATED"
    BY <1>5 DEF compensated, place, here
  <2>2. saga = "COMPENSATING"
    BY <2>1 DEF Before, Progress, SagaByPlace, Backward
  <2> QED BY <2>1, <2>2, <1>t, <1>f
<1>6. CASE mark_manual_intervention(Starter)
  <2>1. saga = "RUNNING" /\ saga' \in {saga, "MANUAL_INTERVENTION"}
    BY <1>6 DEF mark_manual_intervention, place, Before, Progress, SagaByPlace
  <2> QED BY <2>1, <1>t, <1>f
<1>7. CASE resume(Starter)
  <2>1. saga \in {"RUNNING", "COMPLETED", "COMPENSATED", "MANUAL_INTERVENTION"}
    BY <1>7 DEF resume, place, Before, Progress, SagaByPlace
  <2> QED BY <1>7, <2>1, <1>t, <1>f DEF resume
<1>8. CASE load(Starter) \/ take_step(Starter) \/ no_step_left(Starter) \/ next_attempt(Starter)
           \/ settle(Starter) \/ post_step(Starter) \/ compensate(Starter)
           \/ advance_running_sagas(Starter) \/ Install \/ request_cancel \/ UNCHANGED vars
  <2>1. saga' = saga /\ step_state' = step_state
    BY <1>8 DEF load, take_step, no_step_left, next_attempt, settle, post_step, compensate,
      advance_running_sagas, Install, request_cancel, db, vars
  <2> QED BY <2>1, <1>q DEF Done
<1>9. CASE pause(Starter) \/ give_up(Starter) \/ retry_step(Starter)
  <2>1. place = "failed" /\ saga' = saga
    BY <1>9 DEF pause, give_up, retry_step, place
  <2>2. saga = "RUNNING"
    BY <2>1 DEF Before, Progress, SagaByPlace
  <2> QED BY <2>1, <2>2, <1>f
<1>10. CASE requeue_stale
  <2>1. \A i \in Indices : Done(i)' => Done(i)
    BY <1>10, <1>w DEF requeue_stale, Done
  <2> QED BY <1>10, <2>1, <1>q DEF requeue_stale
<1> QED
  BY <1>1, <1>2, <1>3, <1>4, <1>5, <1>6, <1>7, <1>8, <1>9, <1>10 DEF Next, Work

\* No runner writes a saga state that SAGA_TRANSITIONS does not lead to, though
\* complete, compensated and execute do not ask the table.
THEOREM SagaMovesLegally ==
  ASSUME Calm, NoEmptyWorkflow
  PROVE  Spec => SagaMovesAreLegal
<1>1. Init => Fresh
  BY DEF Init, Fresh, Done
<1>2. AllInv /\ Progress /\ Fresh /\ [Next]_vars => Fresh'
  BY SagaMoves DEF Before
<1>3. AllInv /\ Progress /\ Fresh /\ [Next]_vars
        => [saga' # saga => saga' \in SAGA_TRANSITIONS[saga]]_vars
  BY SagaMoves DEF Before
<1> QED
  BY <1>1, <1>2, <1>3, ProgressAlways, PTL DEF Spec, SagaMovesAreLegal

---------------------------------------------------------------------------
(* The order ends as its saga does. *)

Early == {"READY_FOR_FULFILMENT", "RESOURCE_RESERVATION", "FIELD_INSTALLATION_PENDING",
          "MANUAL_INTERVENTION_REQUIRED"}
Walk == Early \cup {"PROVISIONING", "VERIFYING"}

Target(i) == definition[i].order_state

\* The steps walk the order along a path of ORDER_TRANSITIONS: some step leads to
\* VERIFYING, each such step comes after one that leads to PROVISIONING, and a
\* failure has something to compensate.  True of every workflow but relocation.
WalksTheOrder ==
  \A w \in DOMAIN Definitions :
    LET steps == Definitions[w] IN
      /\ \A i \in 1..Len(steps) :
           /\ steps[i].order_state \in Walk \cup {NoState}
           /\ steps[i].order_state = "VERIFYING" =>
                \E j \in 1..(i - 1) : steps[j].order_state = "PROVISIONING"
      /\ \E i \in 1..Len(steps) : steps[i].order_state = "VERIFYING"
      /\ \E i \in 1..Len(steps) : steps[i].undoable

\* Nobody cancels the order under its saga.
Undisturbed == Calm /\ WalksTheOrder /\ ~MayCancel

\* A step that is completed and whose order state has been ensured.
Posted(i) == Done(i) /\ ~(place = "post" /\ here = i)

NothingDone == place = "manual" \/ saga = "MANUAL_INTERVENTION" => \A i \in Indices : ~Done(i)

\* How far the order is: at least where the posted steps have taken it.
Ahead ==
  saga \in {"PENDING", "RUNNING"} /\ place # "undoing" =>
    \A i \in Indices : Posted(i) =>
      /\ Target(i) = "PROVISIONING" => order \in {"PROVISIONING", "VERIFYING"}
      /\ Target(i) = "VERIFYING" => order = "VERIFYING"

OrderByPlace ==
  /\ saga \in {"PENDING", "RUNNING", "COMPENSATING"} => order \in Walk
  /\ Ahead
  /\ NothingDone
  /\ OrderFollowsSaga

\* The moves of the order that ensure_state, compensation and parking make.
LEMMA OrderMoves ==
  /\ \A s \in Walk : RolledBack(s) = "ROLLED_BACK" /\ ToManual(s) = "MANUAL_INTERVENTION_REQUIRED"
  /\ ensured("VERIFYING", "COMPLETED") = "COMPLETED"
  /\ \A s \in Early : ensured(s, "PROVISIONING") = "PROVISIONING"
  /\ ensured("PROVISIONING", "VERIFYING") = "VERIFYING"
  /\ \A t \in Walk : ensured("VERIFYING", t) = "VERIFYING"
  /\ \A t \in Walk : ensured("PROVISIONING", t) \in {"PROVISIONING", "VERIFYING"}
  /\ \A s \in Walk : \A t \in Walk : ensured(s, t) \in Walk
  /\ \A s \in Walk : ensured(s, NoState) = s
BY DEF Walk, Early, RolledBack, ToManual, ensured, ORDER_TRANSITIONS, NoState

\* What the premise says of the workflow of this saga.
LEMMA Targets ==
  ASSUME Before, Undisturbed
  PROVE  /\ \A i \in Indices : Target(i) \in Walk \cup {NoState}
         /\ \A i \in Indices : Target(i) = "VERIFYING" =>
              \E j \in Indices : j < i /\ Target(j) = "PROVISIONING"
         /\ \E i \in Indices : Target(i) = "VERIFYING"
         /\ \E i \in Indices : definition[i].undoable
<1>1. workflow \in DOMAIN Definitions /\ Len(definition) \in Nat
  BY Facts DEF Before, AllInv, TypeParts
<1>2. /\ \A i \in Indices : definition[i].order_state \in Walk \cup {NoState}
      /\ \A i \in Indices : definition[i].order_state = "VERIFYING" =>
           \E j \in 1..(i - 1) : definition[j].order_state = "PROVISIONING"
      /\ \E i \in Indices : definition[i].order_state = "VERIFYING"
      /\ \E i \in Indices : definition[i].undoable
  BY <1>1 DEF Undisturbed, WalksTheOrder, definition, Indices
<1>3. \A i \in Indices : \A j \in 1..(i - 1) : j \in Indices /\ j < i
  BY <1>1 DEF Indices
<1> QED BY <1>2, <1>3 DEF Target

\* A step that leaves the order where it is, and the saga open if it was.
LEMMA OrderStays ==
  ASSUME Before, OrderByPlace, UNCHANGED <<workflow, order>>, NothingDone',
         \/ saga' = saga
         \/ /\ saga \in {"PENDING", "RUNNING", "COMPENSATING"}
            /\ saga' \in {"PENDING", "RUNNING", "COMPENSATING"},
         saga' \in {"PENDING", "RUNNING"} /\ place' # "undoing" =>
           saga \in {"PENDING", "RUNNING"} /\ place # "undoing",
         \A i \in Indices : place' # "undoing" /\ Posted(i)' => Posted(i)
  PROVE  OrderByPlace'
<1>1. Indices' = Indices /\ definition' = definition
  BY SameWorkflow
<1>2. Ahead'
  BY <1>1 DEF OrderByPlace, Ahead, Target
<1> QED
  BY <1>2 DEF OrderByPlace, OrderFollowsSaga

LEMMA OrderInForward ==
  ASSUME Before, Undisturbed, OrderByPlace,
         \/ load(Starter) \/ take_step(Starter) \/ no_step_left(Starter) \/ next_attempt(Starter)
         \/ advance_running_sagas(Starter)
  PROVE  OrderByPlace'
<1> USE Facts
<1>1. UNCHANGED <<workflow, order, saga, step_state>> /\ Indices' = Indices /\ definition' = definition
  BY SameWorkflow DEF load, take_step, no_step_left, next_attempt, advance_running_sagas, db, env
<1>2. /\ place \in {"load", "scan", "retry", "idle"}
      /\ place' \in {"scan", "exec", "finish", "idle"}
  <2>1. place \in {"load", "scan", "retry", "idle"}
    BY DEF load, take_step, no_step_left, next_attempt, advance_running_sagas, place
  <2>2. CASE load(Starter) \/ advance_running_sagas(Starter)
    <3>1. CASE run' = [run EXCEPT ![Starter] = Idle]
      BY <2>1, <3>1 DEF place, Idle
    <3>2. CASE run' # [run EXCEPT ![Starter] = Idle]
      <4>1. CASE advance_running_sagas(Starter)
        BY <2>1, <4>1 DEF advance_running_sagas, place, Idle
      <4>2. CASE load(Starter)
        <5>1. run' = [run EXCEPT ![Starter] = [Idle EXCEPT !.pc = "scan", !.at = 1,
                        !.unsaved = IF saga = "PENDING" THEN "RUNNING" ELSE "none"]]
          BY <3>2, <4>2 DEF load
        <5>2. place' = "scan"
          BY <5>1 DEF place, Idle
        <5> QED BY <2>1, <5>2
      <4> QED BY <2>2, <4>1, <4>2
    <3> QED BY <3>1, <3>2
  <2>3. CASE take_step(Starter)
    <3>1. PICK i \in Indices :
            run' = [run EXCEPT ![Starter].pc = "exec", ![Starter].at = i, ![Starter].attempt = 1]
      BY <2>3 DEF take_step, PendingFrom
    <3>2. place' = "exec"
      BY <3>1 DEF place, Position
    <3> QED BY <2>1, <3>2
  <2>5. CASE no_step_left(Starter)
    BY <2>5 DEF no_step_left, Goto, place, Position
  <2>4. CASE next_attempt(Starter)
    BY <2>4 DEF next_attempt, place, Idle, Position
  <2> QED BY <2>1, <2>2, <2>3, <2>4, <2>5
<1>3. \A i \in Indices : Posted(i)' => Posted(i)
  BY <1>1, <1>2 DEF Posted, Done
<1>4. NothingDone'
  BY <1>1, <1>2 DEF OrderByPlace, NothingDone, Done
<1> QED
  BY <1>1, <1>2, <1>3, <1>4, OrderStays

LEMMA OrderInStep ==
  ASSUME Before, Undisturbed, OrderByPlace,
         \/ execute_ok(Starter) \/ execute_fails(Starter) \/ pause(Starter) \/ give_up(Starter)
         \/ retry_step(Starter)
  PROVE  OrderByPlace'
<1> USE Facts
<1>1. UNCHANGED <<workflow, order>> /\ Indices' = Indices /\ definition' = definition
  BY SameWorkflow DEF execute_ok, execute_fails, pause, give_up, retry_step, env
<1>2. place \in {"exec", "failed"} /\ saga \in {"PENDING", "RUNNING"}
  BY DEF execute_ok, execute_fails, pause, give_up, retry_step, place, Before, Progress, SagaByPlace
<1>3. /\ place' \in {"post", "failed", "idle", "settle", "retry"}
      /\ saga' = "RUNNING"
  <2>1. CASE execute_ok(Starter)
    BY <2>1, <1>2 DEF execute_ok, Saved, place, Position, Before, Progress, SagaByPlace
  <2>2. CASE execute_fails(Starter)
    <3>1. place = "exec" /\ saga' = Seen(Starter)
      BY <2>2 DEF execute_fails, place
    <3>2. saga' = "RUNNING"
      BY <3>1 DEF Before, Progress, SagaByPlace
    <3>3. place' = "failed"
      <4>1. PICK retryable \in BOOLEAN :
              run' = [run EXCEPT ![Starter].pc = "failed", ![Starter].retryable = retryable,
                                 ![Starter].unsaved = "none"]
        BY <2>2 DEF execute_fails
      <4> QED BY <4>1 DEF place, Position
    <3> QED BY <3>2, <3>3
  <2>3. CASE pause(Starter) \/ give_up(Starter) \/ retry_step(Starter)
    <3>1. saga' = saga /\ saga = "RUNNING"
      BY <2>3 DEF pause, give_up, retry_step, place, Before, Progress, SagaByPlace
    <3>2. place' \in {"idle", "settle", "retry"}
      BY <2>3 DEF pause, give_up, retry_step, Goto, place, Idle, Position
    <3> QED BY <3>1, <3>2
  <2> QED BY <2>1, <2>2, <2>3
<1>4. \A i \in Indices : Posted(i)' => Posted(i)
  <2>1. CASE execute_ok(Starter)
    <3>1. place' = "post" /\ here' = here
      BY <2>1 DEF execute_ok, Saved, place, here, Position
    <3>2. \A i \in Indices : Done(i)' => Done(i) \/ i = here
      BY <1>1, <2>1 DEF execute_ok, Done, here
    <3> QED BY <1>2, <3>1, <3>2 DEF Posted
  <2>2. CASE ~execute_ok(Starter)
    <3>1. \A i \in Indices : Done(i)' => Done(i)
      BY <1>1, <2>2 DEF execute_fails, pause, give_up, retry_step, Done
    <3> QED BY <1>2, <3>1 DEF Posted
  <2> QED BY <2>1, <2>2
<1>5. NothingDone'
  BY <1>3 DEF NothingDone
<1> QED
  BY <1>1, <1>2, <1>3, <1>4, <1>5, OrderStays

\* A saga that has done something is not parked: it has something to compensate.
LEMMA OrderAtSettle ==
  ASSUME Before, Undisturbed, OrderByPlace, settle(Starter)
  PROVE  OrderByPlace'
<1> USE Facts
<1>1. UNCHANGED <<workflow, order, saga, step_state>> /\ Indices' = Indices /\ definition' = definition
  BY SameWorkflow DEF settle, db, env
<1>2. place = "settle" /\ saga = "RUNNING" /\ step_state[here] = "FAILED"
  BY DEF settle, place, Before, Progress, SagaByPlace, Forward
<1>3. place' \in {"undo", "manual"}
  BY DEF settle, Goto, place, Position
<1>4. ASSUME place' = "manual", NEW i \in Indices PROVE ~Done(i)
  <2>1. ~ \E j \in Indices \ {here} : step_state[j] \in {"COMPLETED", "RUNNING"}
    BY <1>4, Targets DEF settle, Goto, place, here, Position
  <2> QED BY <1>2, <2>1 DEF Done
<1>5. NothingDone'
  BY <1>1, <1>2, <1>4 DEF NothingDone, Done
<1>6. \A i \in Indices : Posted(i)' => Posted(i)
  BY <1>1, <1>2, <1>3 DEF Posted, Done
<1> QED
  BY <1>1, <1>2, <1>3, <1>5, <1>6, OrderStays

\* post_step takes the order along.
LEMMA OrderAtPost ==
  ASSUME Before, Undisturbed, OrderByPlace, post_step(Starter)
  PROVE  OrderByPlace'
<1> USE Facts
<1>1. UNCHANGED <<workflow, saga, step_state>> /\ Indices' = Indices /\ definition' = definition
  BY SameWorkflow DEF post_step, env
<1>2. place = "post" /\ saga = "RUNNING" /\ here \in Indices
  BY DEF post_step, place, here, Before, Progress, SagaByPlace, AllInv, Placed, AtOne
<1>3. Forward
  BY <1>2 DEF Before, Progress
<1>4. order' = ensured(order, Target(here)) /\ place' = "scan"
  BY DEF post_step, Target, place, here, Position
<1>5. order \in Walk /\ Target(here) \in Walk \cup {NoState}
  BY <1>2, Targets DEF OrderByPlace
<1>6. order' \in Walk
  BY <1>4, <1>5, OrderMoves
<1>7. \A i \in Indices : Posted(i)' => Posted(i) \/ i = here
  BY <1>1, <1>2, <1>4 DEF Posted, Done
<1>8. /\ order = "VERIFYING" => order' = "VERIFYING"
      /\ order = "PROVISIONING" => order' \in {"PROVISIONING", "VERIFYING"}
  BY <1>4, <1>5, OrderMoves
<1>9. Target(here) = "PROVISIONING" => order' \in {"PROVISIONING", "VERIFYING"}
  BY <1>4, <1>5, <1>8, OrderMoves DEF Walk
<1>10. Target(here) = "VERIFYING" => order' = "VERIFYING"
  <2> SUFFICES ASSUME Target(here) = "VERIFYING" PROVE order' = "VERIFYING"
    OBVIOUS
  <2>1. PICK j \in Indices : j < here /\ Target(j) = "PROVISIONING"
    BY <1>2, Targets
  <2>2. Posted(j)
    BY <1>2, <1>3, <2>1 DEF Forward, Posted
  <2>3. order \in {"PROVISIONING", "VERIFYING"}
    BY <1>2, <2>1, <2>2 DEF OrderByPlace, Ahead
  <2> QED BY <1>4, <1>8, <2>3, OrderMoves
<1>11. Ahead'
  BY <1>1, <1>2, <1>4, <1>7, <1>8, <1>9, <1>10 DEF OrderByPlace, Ahead, Target
<1>12. NothingDone'
  BY <1>1, <1>2, <1>4 DEF NothingDone
<1> QED
  BY <1>1, <1>2, <1>6, <1>11, <1>12 DEF OrderByPlace, OrderFollowsSaga

\* The ends of the saga.
LEMMA OrderAtEnd ==
  ASSUME Before, Undisturbed, OrderByPlace,
         complete(Starter) \/ compensated(Starter) \/ mark_manual_intervention(Starter)
  PROVE  OrderByPlace'
<1> USE Facts
<1>1. UNCHANGED <<workflow, step_state>> /\ Indices' = Indices /\ definition' = definition
  BY SameWorkflow DEF complete, compensated, mark_manual_intervention, env
<1>2. place' = "idle"
  BY DEF complete, compensated, mark_manual_intervention, place, Idle
<1>3. CASE complete(Starter)
  <2>1. place = "finish" /\ saga \in {"PENDING", "RUNNING"} /\ saga' = "COMPLETED"
    BY <1>3 DEF complete, place, Before, Progress, SagaByPlace
  <2>2. PICK i \in Indices : Target(i) = "VERIFYING"
    BY Targets
  <2>3. Posted(i)
    BY <2>1 DEF Posted, Before, Progress, Forward
  <2>4. order = "VERIFYING"
    BY <2>1, <2>2, <2>3 DEF OrderByPlace, Ahead
  <2>5. order' = "COMPLETED"
    BY <1>3, <2>4, OrderMoves DEF complete
  <2> QED
    BY <1>2, <2>1, <2>5 DEF OrderByPlace, Ahead, NothingDone, OrderFollowsSaga
<1>4. CASE compensated(Starter)
  <2>1. place = "undoing" /\ saga \in {"RUNNING", "COMPENSATING"} /\ saga' = "COMPENSATED"
    BY <1>4 DEF compensated, place, Before, Progress, SagaByPlace
  <2>2. order' = "ROLLED_BACK"
    BY <1>4, <2>1, OrderMoves DEF compensated, OrderByPlace
  <2> QED
    BY <1>2, <2>1, <2>2 DEF OrderByPlace, Ahead, NothingDone, OrderFollowsSaga
<1>5. CASE mark_manual_intervention(Starter)
  <2>1. place = "manual" /\ saga = "RUNNING" /\ Seen(Starter) = "RUNNING"
    BY <1>5 DEF mark_manual_intervention, place, Before, Progress, SagaByPlace
  <2>2. "MANUAL_INTERVENTION" \in SAGA_TRANSITIONS[Seen(Starter)]
    BY <2>1 DEF SAGA_TRANSITIONS
  <2>3. saga' = "MANUAL_INTERVENTION" /\ order' = "MANUAL_INTERVENTION_REQUIRED"
    BY <1>5, <2>1, <2>2, OrderMoves DEF mark_manual_intervention, OrderByPlace
  <2>4. \A i \in Indices' : ~Done(i)'
    BY <1>1, <2>1 DEF OrderByPlace, NothingDone, Done
  <2> QED
    BY <2>3, <2>4 DEF OrderByPlace, Ahead, NothingDone, OrderFollowsSaga
<1> QED
  BY <1>3, <1>4, <1>5

\* Compensation leaves the order alone until its end.
LEMMA OrderInUndo ==
  ASSUME Before, Undisturbed, OrderByPlace,
         compensate(Starter) \/ skip_step(Starter) \/ undo_step(Starter)
  PROVE  OrderByPlace'
<1> USE Facts
<1>1. UNCHANGED <<workflow, order>> /\ Indices' = Indices /\ definition' = definition
  BY SameWorkflow DEF compensate, skip_step, undo_step, db, env
<1>2. place \in {"undo", "undoing"} /\ saga \in {"RUNNING", "COMPENSATING"}
  BY DEF compensate, skip_step, undo_step, AtStep, place, Before, Progress, SagaByPlace
<1>3. place' = "undoing" /\ saga' \in {"RUNNING", "COMPENSATING"}
  <2>1. CASE compensate(Starter)
    <3>1. saga = "RUNNING" /\ saga' = saga
      BY <2>1 DEF compensate, db, place, Before, Progress, SagaByPlace
    <3>2. run' = [run EXCEPT ![Starter].pc = "undoing", ![Starter].at = Len(definition),
                             ![Starter].unsaved = "COMPENSATING"]
      BY <2>1, <3>1 DEF compensate
    <3> QED BY <3>1, <3>2 DEF place, Position
  <2>2. CASE skip_step(Starter) \/ undo_step(Starter)
    <3>1. place = "undoing" /\ saga' = Seen(Starter)
      BY <2>2 DEF skip_step, undo_step, AtStep, Saved, place
    <3>2. PICK i \in Indices : Saved(Starter, "undoing", i - 1)
      BY <2>2 DEF skip_step, undo_step
    <3>4. place' = "undoing"
      BY <3>2 DEF Saved, place, Position
    <3>3. Seen(Starter) = "COMPENSATING"
      BY <3>1 DEF Before, Progress, SagaByPlace
    <3> QED BY <3>1, <3>3, <3>4
  <2> QED BY <2>1, <2>2
<1>4. NothingDone'
  BY <1>3 DEF NothingDone
<1> QED
  BY <1>1, <1>2, <1>3, <1>4, OrderStays

\* An operator resumes, maintenance runs, the installation completes.
LEMMA OrderOutside ==
  ASSUME Before, Undisturbed, OrderByPlace,
         resume(Starter) \/ requeue_stale \/ Install \/ request_cancel \/ UNCHANGED vars
  PROVE  OrderByPlace'
<1> USE Facts
<1>1. UNCHANGED <<workflow, order>> /\ Indices' = Indices /\ definition' = definition
  <2>1. UNCHANGED <<workflow, order>>
    BY DEF resume, requeue_stale, Install, request_cancel, db, env, vars, Undisturbed
  <2> QED BY <2>1, SameWorkflow
<1>2. \A i \in Indices : Done(i)' => Done(i)
  BY <1>1 DEF resume, requeue_stale, Install, request_cancel, db, vars, Done
<1>3. CASE resume(Starter)
  <2>1. /\ place = "idle" /\ saga \in {"RUNNING", "COMPLETED", "COMPENSATED", "MANUAL_INTERVENTION"}
        /\ place' = "load"
        /\ saga' = IF saga = "MANUAL_INTERVENTION" THEN "RUNNING" ELSE saga
    BY <1>3 DEF resume, place, Before, Progress, SagaByPlace, Idle
  <2>2. NothingDone'
    BY <2>1 DEF NothingDone
  <2>3. CASE saga = "MANUAL_INTERVENTION"
    <3>1. order' = "MANUAL_INTERVENTION_REQUIRED" /\ saga' = "RUNNING"
      BY <1>1, <2>1, <2>3 DEF OrderByPlace, OrderFollowsSaga
    <3>2. \A i \in Indices : ~Done(i)'
      BY <1>2, <2>3 DEF OrderByPlace, NothingDone
    <3>3. Ahead'
      BY <1>1, <3>2 DEF Ahead, Posted
    <3> QED
      BY <2>2, <3>1, <3>3 DEF OrderByPlace, OrderFollowsSaga, Walk, Early
  <2>4. CASE saga # "MANUAL_INTERVENTION"
    <3>1. saga' = saga /\ \A i \in Indices : Posted(i)' => Posted(i)
      BY <1>2, <2>1, <2>4 DEF Posted
    <3> QED BY <1>1, <2>1, <2>2, <3>1, OrderStays
  <2> QED BY <2>3, <2>4
<1>4. CASE requeue_stale \/ Install \/ request_cancel \/ UNCHANGED vars
  <2>1. saga' = saga /\ place' = place /\ here' = here
    BY <1>4 DEF requeue_stale, Install, request_cancel, db, vars, place, here
  <2>2. NothingDone'
    BY <1>1, <1>2, <2>1 DEF OrderByPlace, NothingDone
  <2>3. \A i \in Indices : Posted(i)' => Posted(i)
    BY <1>2, <2>1 DEF Posted
  <2> QED BY <1>1, <2>1, <2>2, <2>3, OrderStays
<1> QED
  BY <1>3, <1>4

LEMMA OrderStep ==
  ASSUME Before, Undisturbed, OrderByPlace, [Next]_vars
  PROVE  OrderByPlace'
<1>1. ASSUME NEW r \in Runners PROVE r = Starter /\ ~Crash(r) /\ ~undo_fails(r)
  <2>1. MaxCrashes = 0 /\ crashes \in Nat
    BY DEF Before, Calm, AllInv, TypeParts
  <2> QED
    BY <2>1, Facts DEF Crash, undo_fails, Before, Calm
<1>2. ASSUME NEW r \in Runners, Work(r) \/ advance_running_sagas(r) \/ resume(r)
      PROVE  OrderByPlace'
  <2>1. r = Starter /\ ~undo_fails(r)
    BY <1>1
  <2> QED
    BY <1>2, <2>1, OrderInForward, OrderInStep, OrderAtSettle, OrderAtPost, OrderAtEnd, OrderInUndo,
      OrderOutside
    DEF Work
<1> QED
  BY <1>1, <1>2, OrderOutside DEF Next

\* As long as nobody cancels the order and no process dies, a completed saga leaves a
\* COMPLETED order, a compensated one a ROLLED_BACK order and a parked one an order
\* that waits for an operator: none of the moves that ensure_state skips as illegal
\* is one that the saga needed.
THEOREM OrderEndsWithSaga ==
  ASSUME Undisturbed
  PROVE  Spec => []OrderFollowsSaga
<1>1. Calm
  BY DEF Undisturbed
<1>2. Init => OrderByPlace
  BY DEF Init, OrderByPlace, Ahead, NothingDone, OrderFollowsSaga, Posted, Done, Walk, Early, place, Idle
<1>3. AllInv /\ Progress /\ OrderByPlace /\ [Next]_vars => OrderByPlace'
  BY <1>1, OrderStep DEF Before
<1>4. OrderByPlace => OrderFollowsSaga
  BY DEF OrderByPlace
<1> QED
  BY <1>1, <1>2, <1>3, <1>4, ProgressAlways, PTL DEF Spec
=============================================================================
