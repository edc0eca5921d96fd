---------------------------- MODULE DunningCases ----------------------------
(***************************************************************************)
(* One dunning case of the BSS service (app/revenue/dunning.py): opened    *)
(* for an overdue billing account, advanced through the stages of its      *)
(* policy version by a scheduler, and paused, resumed or resolved by       *)
(* staff.  Each request reads the row, decides, and commits the columns it *)
(* changed; requests may overlap, and no column carries a version.         *)
(***************************************************************************)
EXTENDS Naturals, Sequences

CONSTANTS
  Stages,   \* the action_type of each stage, by stage_order
  Handlers

ASSUME StagesAssumption == Stages \in Seq({"REMIND", "RESTRICT", "SUSPEND"}) /\ Stages # <<>>

VARIABLES
  case,        \* the DunningCase row: status, suspended, stage, next (next_due_at)
  actions,     \* [stage -> DunningAction rows]
  suspensions, \* [stage -> billing.suspension_required.v1 events]
  task,        \* [Handlers -> operation and the row it read]
  overlapped   \* ghost: a request committed while another had read the row

vars == <<case, actions, suspensions, task, overlapped>>

Orders == 1..Len(Stages)
Cases ==
  [status : {"ABSENT", "OPEN", "PAUSED", "RESOLVED", "CLOSED"}, suspended : BOOLEAN,
   stage : 0..Len(Stages), next : {"null", "past", "future"}]
Operations == {"advance", "pause", "resume", "resolve"}
NoCase == [status |-> "ABSENT", suspended |-> FALSE, stage |-> 0, next |-> "null"]
Idle == [op |-> "idle", seen |-> NoCase]

\* Every variable stays in its type.
TypeOK ==
  /\ case \in Cases
  /\ actions \in [Orders -> Nat] /\ suspensions \in [Orders -> Nat]
  /\ task \in [Handlers -> [op : Operations \cup {"idle"}, seen : Cases]]
  /\ overlapped \in BOOLEAN

Init ==
  /\ case = NoCase
  /\ actions = [i \in Orders |-> 0] /\ suspensions = actions
  /\ task = [h \in Handlers |-> Idle]
  /\ overlapped = FALSE

---------------------------------------------------------------------------
\* open_dunning_case: one case per account and policy version, ever; its first
\* stage is due at once.
Open ==
  /\ case.status = "ABSENT"
  /\ case' = [case EXCEPT !.status = "OPEN", !.next = "past"]
  /\ UNCHANGED <<actions, suspensions, task, overlapped>>

\* The delay of the next stage has passed.
Tick ==
  /\ case.next = "future"
  /\ case' = [case EXCEPT !.next = "past"]
  /\ UNCHANGED <<actions, suspensions, task, overlapped>>

DUNNING_CASE_TRANSITIONS ==
  [ABSENT |-> {}, OPEN |-> {"PAUSED", "RESOLVED", "CLOSED"},
   PAUSED |-> {"OPEN", "RESOLVED", "CLOSED"}, RESOLVED |-> {}, CLOSED |-> {"OPEN"}]

\* A case without a due date counts as due.
Due(c) == c.status = "OPEN" /\ ~c.suspended /\ c.next # "future" /\ c.stage < Len(Stages)

\* The requests that go on after reading the case; the others change nothing.
Accepts(op, c) ==
  CASE op = "advance" -> Due(c)
    [] op = "pause" -> "PAUSED" \in DUNNING_CASE_TRANSITIONS[c.status]
    [] op = "resume" -> "OPEN" \in DUNNING_CASE_TRANSITIONS[c.status]
    [] op = "resolve" -> "RESOLVED" \in DUNNING_CASE_TRANSITIONS[c.status]

\* Once requests overlapped nothing is claimed, and no request is followed.
Begin(h, op) ==
  /\ task[h] = Idle /\ ~overlapped
  /\ Accepts(op, case)
  /\ task' = [task EXCEPT ![h] = [op |-> op, seen |-> case]]
  /\ UNCHANGED <<case, actions, suspensions, overlapped>>

\* An advance that leaves the stage to be counted by the next one.
Stuck_Advanced(c) ==
  LET i == c.stage + 1
      closed == Stages[i] = "SUSPEND"
  IN [c EXCEPT !.stage = IF closed THEN @ ELSE i,
               !.status = IF closed THEN "CLOSED" ELSE @,
               !.next = IF closed \/ i = Len(Stages) THEN "null" ELSE "future"]

\* advance_dunning_case: the next stage, the end of the case after SUSPEND, and
\* the date of the stage after it, if there is one and the case is still open.
Advanced(c) ==
  LET i == c.stage + 1
      closed == Stages[i] = "SUSPEND"
  IN [c EXCEPT !.stage = i,
               !.status = IF closed THEN "CLOSED" ELSE @,
               !.next = IF closed \/ i = Len(Stages) THEN "null" ELSE "future"]

\* The row a request makes of the one it read.
After(op, c) ==
  CASE op = "advance" -> Advanced(c)
    [] op = "pause" -> [c EXCEPT !.status = "PAUSED", !.suspended = TRUE]
    [] op = "resume" -> [c EXCEPT !.status = "OPEN", !.suspended = FALSE, !.next = "past"]
    [] op = "resolve" -> [c EXCEPT !.status = "RESOLVED"]

\* A column is written only when its value differs from the one read.
Column(read, new, now) == IF new = read THEN now ELSE new

\* The commit; an advance adds the action and, for RESTRICT and SUSPEND, the
\* event that asks OSS for a suspension.
Commit(h) ==
  LET t == task[h]
      new == After(t.op, t.seen)
      acted == {i \in {new.stage} : t.op = "advance"}
  IN /\ t # Idle
     /\ case' = [f \in DOMAIN case |-> Column(t.seen[f], new[f], case[f])]
     /\ actions' = [i \in Orders |-> IF i \in acted THEN actions[i] + 1 ELSE actions[i]]
     /\ suspensions' = [i \in Orders |->
          IF i \in acted /\ Stages[i] # "REMIND" THEN suspensions[i] + 1 ELSE suspensions[i]]
     /\ task' = [task EXCEPT ![h] = Idle]
     /\ overlapped' = (overlapped \/ \E g \in Handlers \ {h} : task[g] # Idle)

Next ==
  \/ Open \/ Tick
  \/ \E h \in Handlers : Commit(h) \/ \E op \in Operations : Begin(h, op)

Spec == Init /\ [][Next]_vars

---------------------------------------------------------------------------
(* Properties *)

\* "Run the next due dunning stage (idempotent, schedule-aware)"
\* (dunning.py:128).  Unless two requests overlapped, whatever was paused,
\* resumed, even from CLOSED, or resolved: each stage up to the current one
\* ran exactly once and no later one, a suspension was asked for once by each
\* stage that says so, and a case is CLOSED by its SUSPEND stage alone.
StagesRunOnce ==
  ~overlapped =>
    /\ \A i \in Orders :
         /\ actions[i] = IF i <= case.stage THEN 1 ELSE 0
         /\ suspensions[i] = IF Stages[i] = "REMIND" THEN 0 ELSE actions[i]
    /\ case.status = "CLOSED" => case.stage > 0 /\ Stages[case.stage] = "SUSPEND"
=============================================================================
