------------------------ MODULE RemediationIntents ------------------------
(***************************************************************************)
(* The remediation intents of one policy of the intelligence service       *)
(* (services/remediation_service.py, domain/remediation.py): requested,    *)
(* approved or rejected by people, executed behind a kill switch, a budget,*)
(* an hourly rate, a cooldown and a circuit breaker.  A request reads the  *)
(* intents, decides, and commits the columns it changed; requests overlap, *)
(* and no row carries a version.                                           *)
(***************************************************************************)
EXTENDS Naturals, FiniteSets

CONSTANTS
  Intents, Users, Handlers,
  Limit,      \* rate_limit_per_hour
  Budget,     \* action_budget
  Threshold,  \* of the circuit breaker
  Cooldown, Hour, MaxTime,  \* in ticks
  MaxAttempts,              \* bound on the executions of an intent that are followed
  Never       \* a null date, a null user

\* What the constants may be (assumed of their values in FieldServices).
IntentsAssumption ==
  /\ IsFiniteSet(Intents) /\ Never \notin Nat \cup Users
  /\ {Limit, Budget, Threshold, Cooldown, Hour, MaxTime, MaxAttempts} \subseteq Nat

VARIABLES
  level,      \* autonomy level of the policy: L2 needs an approval, L3 none
  intent,     \* [Intents -> the RemediationIntent row]
  decisions,  \* [Intents -> {<<approver, decision>>}], RemediationApproval
  killed,     \* an enabled KillSwitch row, of the tenant or global
  now,
  task,       \* [Handlers -> operation, intent, approver, and what it read]
  overlapped  \* ghost: a commit over a row, or an execution over one, it had not read

vars == <<level, intent, decisions, killed, now, task, overlapped>>

States == {"ABSENT", "PENDING", "APPROVED", "REJECTED", "STARTED", "COMPLETED", "FAILED", "COMPENSATED"}
Dates == 0..MaxTime
Row == [state : States, by : Users \cup {Never}, attempt : 0..MaxAttempts,
        budget : 0..MaxAttempts, requested : Dates, executed : Dates \cup {Never}]
Operations == {"approve", "reject", "execute", "complete", "fail", "compensate"}
NoIntent == [state |-> "ABSENT", by |-> Never, attempt |-> 0, budget |-> 0, requested |-> 0, executed |-> Never]
Idle == [op |-> "idle"]
Calls == [op : Operations, i : Intents, user : Users \cup {Never}, seen : Row,
          executions : [Intents -> 0..MaxAttempts]]

\* Every variable stays in its type.
TypeOK ==
  /\ level \in {"L2", "L3"}
  /\ intent \in [Intents -> Row]
  /\ decisions \in [Intents -> SUBSET (Users \X {"APPROVED", "REJECTED"})]
  /\ killed \in BOOLEAN /\ overlapped \in BOOLEAN
  /\ now \in Dates
  /\ task \in [Handlers -> {Idle} \cup Calls]

Init ==
  /\ level \in {"L2", "L3"}
  /\ intent = [i \in Intents |-> NoIntent]
  /\ decisions = [i \in Intents |-> {}]
  /\ killed = FALSE /\ now = 0 /\ overlapped = FALSE
  /\ task = [h \in Handlers |-> Idle]

---------------------------------------------------------------------------
\* Ticks up to MaxTime.
Tick ==
  /\ now < MaxTime /\ now' = now + 1
  /\ UNCHANGED <<level, intent, decisions, killed, task, overlapped>>

\* set_kill_switch
Toggle == killed' = ~killed /\ UNCHANGED <<level, intent, decisions, now, task, overlapped>>

\* create_remediation_intent: one intent per idempotency key, ever.
Create(i, u) ==
  /\ ~killed /\ intent[i] = NoIntent
  /\ intent' = [intent EXCEPT ![i] = [@ EXCEPT !.state = "PENDING", !.by = u, !.requested = now]]
  /\ UNCHANGED <<level, decisions, killed, now, task, overlapped>>

\* The intents requested within the hour, in one of these states: what
\* _hourly_executions and _recent_failures count.
Recent(states) == {i \in Intents : intent[i].state \in states /\ now - intent[i].requested <= Hour}

\* Gates whose rate counts what is finished only.
Lenient_Gates(i) ==
  /\ ~killed
  /\ intent[i].budget < Budget
  /\ Cardinality(Recent({"COMPLETED"})) < Limit
  /\ \A j \in Intents : intent[j].executed # Never => now - intent[j].executed >= Cooldown
  /\ Cardinality(Recent({"FAILED"})) < Threshold

\* The gates of execute_intent.
Gates(i) ==
  /\ ~killed
  /\ intent[i].budget < Budget
  /\ Cardinality(Recent({"STARTED", "COMPLETED"})) < Limit
  /\ \A j \in Intents : intent[j].executed # Never => now - intent[j].executed >= Cooldown
  /\ Cardinality(Recent({"FAILED"})) < Threshold

\* What a request asks of the intent; an L3 intent is executed in any state.
Accepts(op, i, u) ==
  CASE op = "approve" -> intent[i].state = "PENDING" /\ level = "L2" /\ intent[i].by # u
    [] op = "reject" -> intent[i].state = "PENDING"
    [] op = "execute" ->
         /\ intent[i].state # "ABSENT" /\ (level = "L2" => intent[i].state = "APPROVED")
         /\ intent[i].attempt < MaxAttempts /\ Gates(i)
    [] OTHER -> intent[i].state = "STARTED"

\* The executions so far, of each intent.
Executions == [i \in Intents |-> intent[i].attempt]

Begin(h, op, i, u) ==
  /\ task[h] = Idle
  /\ op \in {"approve", "reject"} <=> u # Never
  /\ Accepts(op, i, u)
  /\ task' = [task EXCEPT ![h] =
       [op |-> op, i |-> i, user |-> u, seen |-> intent[i], executions |-> Executions]]
  /\ UNCHANGED <<level, intent, decisions, killed, now, overlapped>>

After(op, r) ==
  CASE op = "approve" -> [r EXCEPT !.state = "APPROVED"]
    [] op = "reject" -> [r EXCEPT !.state = "REJECTED"]
    [] op = "execute" -> [r EXCEPT !.state = "STARTED", !.attempt = @ + 1, !.executed = now]
    [] op = "complete" -> [r EXCEPT !.state = "COMPLETED", !.budget = @ + 1]
    [] op = "fail" -> [r EXCEPT !.state = "FAILED"]
    [] op = "compensate" -> [r EXCEPT !.state = "COMPENSATED"]

\* A column is written only when its value differs from the one read.
Column(read, new, current) == IF new = read THEN current ELSE new

\* One approval row per intent and approver: a second one fails at the commit.
Unique(t) ==
  t.op \in {"approve", "reject"} => \A d \in decisions[t.i] : d[1] # t.user

Fail(h) ==
  /\ task[h] # Idle /\ ~Unique(task[h])
  /\ task' = [task EXCEPT ![h] = Idle]
  /\ UNCHANGED <<level, intent, decisions, killed, now, overlapped>>

Commit(h) ==
  /\ task[h] # Idle /\ Unique(task[h])
  /\ LET t == task[h]
         read == t.seen
         new == After(t.op, read)
         verdict == [approve |-> "APPROVED", reject |-> "REJECTED"]
     IN /\ intent' = [intent EXCEPT ![t.i] = [f \in DOMAIN @ |-> Column(read[f], new[f], @[f])]]
        /\ decisions' = [decisions EXCEPT ![t.i] =
             @ \cup {<<t.user, verdict[op]>> : op \in {t.op} \cap DOMAIN verdict}]
        /\ overlapped' =
             \/ overlapped \/ intent[t.i] # read
             \/ t.op = "execute" /\ Executions # t.executions
  /\ task' = [task EXCEPT ![h] = Idle]
  /\ UNCHANGED <<level, killed, now>>

\* Once requests overlapped nothing is claimed, and the intents are not followed.
Next ==
  /\ ~overlapped
  /\ \/ Tick \/ Toggle
     \/ \E i \in Intents, u \in Users : Create(i, u)
     \/ \E i \in Intents, u \in Users \cup {Never}, h \in Handlers, op \in Operations : Begin(h, op, i, u)
     \/ \E h \in Handlers : Commit(h) \/ Fail(h)

Spec == Init /\ [][Next]_vars

---------------------------------------------------------------------------
(* Properties *)

\* "Any operational action must materialize as a RemediationIntent that passes
\* policy evaluation and (for L2+) approval" (domain/remediation.py:4).  Unless
\* a request committed over an intent changed since it read it, or an execution
\* over another it had not read: an L2 intent was executed at most once, on the
\* only decision taken about it, an approval by someone other than its
\* requester; a rejected one never; what is started or completed of the hour's
\* requests is within the rate, completions within the budget, and two intents
\* were executed a cooldown apart, whatever else was committed between the gates
\* of an execution and its own commit.
ExecutionWithinLimits ==
  ~overlapped =>
    /\ \A i \in Intents : level = "L2" /\ intent[i].attempt > 0 =>
         /\ intent[i].attempt = 1 /\ intent[i].state # "REJECTED"
         /\ \E u \in Users \ {intent[i].by} : decisions[i] = {<<u, "APPROVED">>}
    /\ Cardinality(Recent({"STARTED", "COMPLETED"})) <= Limit
    /\ \A i \in Intents : intent[i].budget <= Budget
    /\ \A i, j \in Intents :
         i # j /\ Never \notin {intent[i].executed, intent[j].executed} =>
           \/ intent[i].executed >= intent[j].executed + Cooldown
           \/ intent[j].executed >= intent[i].executed + Cooldown
=============================================================================
