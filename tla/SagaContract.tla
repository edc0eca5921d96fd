---------------------------- MODULE SagaContract ----------------------------
(***************************************************************************)
(* What a saga promises: the changes of its plan are made in order, and it *)
(* ends either with all of them in place or, after undoing them last       *)
(* first, with none.  An operator may park it before it has made a change. *)
(***************************************************************************)
EXTENDS Naturals

VARIABLES plan,   \* the steps that change something, by index
          done,   \* those whose change is in place
          phase

contractVars == <<plan, done, phase>>

Init ==
  /\ plan \subseteq Nat
  /\ done = {}
  /\ phase = "forward"

Perform(i) ==
  /\ phase = "forward"
  /\ \A j \in plan : j < i <=> j \in done
  /\ done' = done \cup {i}
  /\ UNCHANGED <<plan, phase>>

Succeed ==
  /\ phase = "forward"
  /\ done = plan
  /\ phase' = "completed"
  /\ UNCHANGED <<plan, done>>

\* The saga turns back; the last change in place may be undone at once.
Undo(i) ==
  /\ phase \in {"forward", "backward"}
  /\ \A j \in done : j <= i
  /\ done' = done \ {i}
  /\ phase' = "backward"
  /\ UNCHANGED plan

TurnBack ==
  /\ phase = "forward"
  /\ phase' = "backward"
  /\ UNCHANGED <<plan, done>>

RollBack ==
  /\ phase = "backward"
  /\ done = {}
  /\ phase' = "rolled back"
  /\ UNCHANGED <<plan, done>>

Park ==
  /\ phase = "forward"
  /\ done = {}
  /\ phase' = "parked"
  /\ UNCHANGED <<plan, done>>

Unpark ==
  /\ phase = "parked"
  /\ phase' = "forward"
  /\ UNCHANGED <<plan, done>>

Next ==
  \/ \E i \in plan : Perform(i) \/ Undo(i)
  \/ Succeed \/ TurnBack \/ RollBack \/ Park \/ Unpark

Spec == Init /\ [][Next]_contractVars
=============================================================================
