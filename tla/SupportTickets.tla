--------------------------- MODULE SupportTickets ---------------------------
(***************************************************************************)
(* A ticket of the support service and its SLA clock                       *)
(* (services/ticket_service.py, domain/sla/engine.py): every command moves *)
(* the ticket and pauses, resumes, completes or restarts the clock in one  *)
(* transaction, while the worker evaluates clocks in a long transaction of *)
(* its own: it reads them all and commits after the last one.  Commands on *)
(* one ticket follow each other; the evaluation overlaps them.             *)
(***************************************************************************)
EXTENDS Naturals

CONSTANTS
  PauseStates,  \* pause_on_states of the SLA policy
  Nothing       \* no evaluation under way

VARIABLES
  policy,     \* reopen_policy of the SLA policy
  ticket,     \* status
  sla,        \* the TicketSLA row: status; paused, risk and breach: paused_at, at_risk_at, breach_at are set
  reading,    \* the row the evaluation read
  warnings,   \* ticket.sla_at_risk events
  breaches,   \* ticket.sla_breached events
  disturbed   \* ghost: the clock was set by something other than the ticket's moves

vars == <<policy, ticket, sla, reading, warnings, breaches, disturbed>>

\* The table, without PENDING_INTERNAL_TEAM, PENDING_VENDOR and
\* PENDING_BILLING_ACTION, which no command asks for.
Waiting == {"IN_PROGRESS", "PENDING_CUSTOMER", "ESCALATED", "RESOLVED", "REOPENED"}
Open == {"IN_PROGRESS", "PENDING_CUSTOMER", "PENDING_FIELD_VISIT", "PENDING_OSS_ORDER",
         "ESCALATED", "RESOLVED", "CANCELLED", "DUPLICATE"}
TICKET_TRANSITIONS ==
  [NEW |-> Open \cup {"TRIAGE", "ASSIGNED"},
   TRIAGE |-> Open \cup {"ASSIGNED", "REOPENED"},
   ASSIGNED |-> Open,
   IN_PROGRESS |-> (Open \ {"IN_PROGRESS"}) \cup {"REOPENED"},
   PENDING_CUSTOMER |-> (Waiting \ {"PENDING_CUSTOMER"}) \cup {"CANCELLED", "DUPLICATE"},
   PENDING_FIELD_VISIT |-> Waiting,
   PENDING_OSS_ORDER |-> Waiting,
   ESCALATED |-> {"IN_PROGRESS", "ASSIGNED", "TRIAGE", "PENDING_CUSTOMER", "RESOLVED", "REOPENED", "CANCELLED"},
   RESOLVED |-> {"CLOSED", "REOPENED", "CANCELLED", "DUPLICATE"},
   CLOSED |-> {"REOPENED"},
   REOPENED |-> (Open \ {"PENDING_FIELD_VISIT", "PENDING_OSS_ORDER"}) \cup {"TRIAGE", "ASSIGNED"},
   CANCELLED |-> {},
   DUPLICATE |-> {"REOPENED"}]
Statuses == DOMAIN TICKET_TRANSITIONS
Clocks ==
  [status : {"ACTIVE", "AT_RISK", "BREACHED", "PAUSED", "COMPLETED"},
   paused : BOOLEAN, risk : BOOLEAN, breach : BOOLEAN]

\* States to pause in are some of those a ticket waits or works in.
ASSUME PauseStatesAssumption ==
  /\ PauseStates \subseteq {"ASSIGNED", "PENDING_CUSTOMER", "PENDING_FIELD_VISIT", "PENDING_OSS_ORDER"}
  /\ Nothing \notin Clocks

\* Every variable stays in its type.
TypeOK ==
  /\ policy \in {"RESTART", "CONTINUE"}
  /\ ticket \in Statuses
  /\ sla \in Clocks
  /\ reading = Nothing \/ reading \in Clocks
  /\ warnings \in Nat /\ breaches \in Nat /\ disturbed \in BOOLEAN

\* create_ticket
Init ==
  /\ policy \in {"RESTART", "CONTINUE"}
  /\ ticket = "NEW"
  /\ sla = [status |-> "ACTIVE", paused |-> FALSE, risk |-> FALSE, breach |-> FALSE]
  /\ reading = Nothing
  /\ warnings = 0 /\ breaches = 0 /\ disturbed = FALSE

---------------------------------------------------------------------------
\* The states the commands ask for a ticket in state s: assign, transfer_queue,
\* accept, request_customer_info, escalate, link_oss_order, link_workforce_job,
\* resolve, close (auto_close_resolved calls it too), reopen, cancel, duplicate.
Asked(s) ==
  {t \in Statuses :
     CASE t = "ASSIGNED" -> s \in {"NEW", "TRIAGE", "REOPENED", "ASSIGNED", "IN_PROGRESS"}
       [] t = "TRIAGE" -> s = "REOPENED"
       [] t \in {"IN_PROGRESS", "PENDING_CUSTOMER", "ESCALATED"} -> TRUE
       [] t \in {"PENDING_OSS_ORDER", "PENDING_FIELD_VISIT"} ->
            s \in {"NEW", "ASSIGNED", "IN_PROGRESS", "REOPENED"}
       [] t = "RESOLVED" -> s \notin {"CLOSED", "CANCELLED", "DUPLICATE"}
       [] t = "CLOSED" -> s = "RESOLVED"
       [] t = "REOPENED" -> s \in {"RESOLVED", "CLOSED", "DUPLICATE"}
       [] t \in {"CANCELLED", "DUPLICATE"} -> s \notin {"CLOSED", "CANCELLED"}
       [] OTHER -> FALSE}

\* A clock that is resumed by every move out of a pause state.
Careless_Clock(s, t, c) ==
  IF s \notin PauseStates /\ t \in PauseStates /\ c.status # "COMPLETED" /\ ~(c.status = "PAUSED" /\ c.paused)
  THEN [c EXCEPT !.status = "PAUSED", !.paused = TRUE]
  ELSE IF s \in PauseStates /\ c.status = "PAUSED" /\ c.paused
  THEN [c EXCEPT !.status = "ACTIVE", !.paused = FALSE]
  ELSE c

\* _apply_sla_state_effect: pause_sla on the way into the pause states,
\* resume_sla on the way out, neither between two of them.
Clock(s, t, c) ==
  IF s \notin PauseStates /\ t \in PauseStates /\ c.status # "COMPLETED" /\ ~(c.status = "PAUSED" /\ c.paused)
  THEN [c EXCEPT !.status = "PAUSED", !.paused = TRUE]
  ELSE IF s \in PauseStates /\ t \notin PauseStates /\ c.status = "PAUSED" /\ c.paused
  THEN [c EXCEPT !.status = "ACTIVE", !.paused = FALSE]
  ELSE c

\* What the command does to the clock after the move to t.
Concluded(t, c) ==
  CASE t = "RESOLVED" -> IF c.status = "BREACHED" THEN c ELSE [c EXCEPT !.status = "COMPLETED"]
    [] t \in {"CLOSED", "CANCELLED", "DUPLICATE"} -> [c EXCEPT !.status = "COMPLETED"]
    [] t = "REOPENED" ->
         [c EXCEPT !.status = "ACTIVE", !.paused = IF policy = "RESTART" THEN FALSE ELSE @]
    [] OTHER -> c

Move(t) ==
  /\ t \in Asked(ticket) \cap TICKET_TRANSITIONS[ticket]
  /\ ticket' = t
  /\ sla' = Concluded(t, Clock(ticket, t, sla))
  /\ UNCHANGED <<policy, reading, warnings, breaches, disturbed>>

\* change_priority and apply_sla_override look at no state: the first puts a clock
\* that is not paused back to ACTIVE, the second any clock.
Reset(kind) ==
  /\ sla' = IF kind = "priority" /\ sla.paused THEN sla ELSE [sla EXCEPT !.status = "ACTIVE"]
  /\ disturbed' = (disturbed \/ (sla.status \in {"COMPLETED", "PAUSED"} /\ sla' # sla)
                     \/ (sla.status = "BREACHED" /\ ticket = "RESOLVED"))
  /\ UNCHANGED <<policy, ticket, reading, warnings, breaches>>

\* evaluate_sla_deadlines reads the clocks to evaluate; evaluate_sla looks no
\* further at a paused one.
Read ==
  /\ reading = Nothing
  /\ sla.status \in {"ACTIVE", "AT_RISK", "PAUSED"} /\ ~sla.paused
  /\ reading' = sla
  /\ UNCHANGED <<policy, ticket, sla, warnings, breaches, disturbed>>

\* evaluate_sla on the row read, and the commit: a breach or a risk not yet
\* recorded is, in the columns it concerns, whatever the row has become.  Where
\* the deadlines are is the business calendar's affair.
Evaluate ==
  /\ reading # Nothing
  /\ \E verdict \in {"fine", "risk", "over"} :
       LET breach == verdict = "over" /\ ~reading.breach
           risk == verdict = "risk" /\ ~reading.risk
       IN /\ sla' = [sla EXCEPT !.status = IF breach THEN "BREACHED" ELSE IF risk THEN "AT_RISK" ELSE @,
                                !.breach = @ \/ breach, !.risk = @ \/ risk]
          /\ breaches' = IF breach THEN breaches + 1 ELSE breaches
          /\ warnings' = IF risk THEN warnings + 1 ELSE warnings
          /\ disturbed' = (disturbed \/ (reading # sla /\ (breach \/ risk)))
  /\ reading' = Nothing
  /\ UNCHANGED <<policy, ticket>>

Next ==
  \/ \E t \in Statuses : Move(t)
  \/ \E kind \in {"priority", "override"} : Reset(kind)
  \/ Read \/ Evaluate

Spec == Init /\ [][Next]_vars

---------------------------------------------------------------------------
(* Properties *)

\* The clock of a ticket follows its state, and "events and escalations fire
\* exactly once" (engine.py:253): a breach and a risk are announced once in the
\* life of a ticket, however its clock was paused, restarted or overwritten.
\* Unless a priority change or an override restarted a clock that was completed,
\* paused or breached at the end, or an evaluation committed over a row changed
\* since it read it: the clock stands exactly while the ticket is in a pause
\* state, through any sequence of commands, is completed (or stays breached, on
\* a RESOLVED ticket) exactly when the ticket has ended, and a BREACHED or
\* AT_RISK one has its date.
ClockFollowsTicket ==
  /\ breaches = IF sla.breach THEN 1 ELSE 0
  /\ warnings = IF sla.risk THEN 1 ELSE 0
  /\ ~disturbed =>
       /\ sla.paused <=> ticket \in PauseStates
       /\ sla.paused <=> sla.status = "PAUSED"
       /\ \/ ticket \in {"CLOSED", "CANCELLED", "DUPLICATE"} /\ sla.status = "COMPLETED"
          \/ ticket = "RESOLVED" /\ sla.status \in {"COMPLETED", "BREACHED"}
          \/ ticket \notin {"RESOLVED", "CLOSED", "CANCELLED", "DUPLICATE"} /\ sla.status # "COMPLETED"
       /\ sla.status = "BREACHED" => sla.breach
       /\ sla.status = "AT_RISK" => sla.risk
=============================================================================
