--------------------------- MODULE RadiusCommands ---------------------------
(***************************************************************************)
(* CoA and Disconnect commands for the sessions of one NAS (aaa-service    *)
(* main.py, workers.py, events.py, network_control/control_actions.py).    *)
(* A request stores a RadiusCommand QUEUED and an outbox event in one      *)
(* commit; the command worker hears of the command by consuming the event, *)
(* sends it and writes the outcome on the command and on its session.      *)
(* Commands of control actions belong to a ControlAction row, whose        *)
(* outcome is reported by another endpoint.  Accounting packets keep       *)
(* writing the status of the same sessions.                                *)
(***************************************************************************)
EXTENDS Naturals, FiniteSets

CONSTANTS
  Sessions,
  Commands,      \* idempotency keys
  SessionOf,     \* [Commands -> Sessions]
  Disconnects,   \* the commands of type DISCONNECT; the others are COA
  Actions,       \* the commands created by create_control_action
  Workers,       \* processes that run process_radius_command
  Scheduler,     \* TRUE: something calls process_radius_command on its own
  Unnamed        \* the event names no command

\* What the constants may be (assumed of their values in AaaServices).
CommandsAssumption ==
  IsFiniteSet(Workers) /\ SessionOf \in [Commands -> Sessions] /\ Unnamed \notin Commands

VARIABLES
  session,   \* ActiveSession.status
  command,   \* RadiusCommand.status, or "ABSENT"
  attempts,  \* RadiusCommand.attempts
  action,    \* ControlAction.status, or "ABSENT"
  request,   \* commands whose *.requested.v1 event is still to be consumed
  taking,    \* [Workers -> command read as QUEUED, or Unnamed]
  sending,   \* [Workers -> command being sent, or Unnamed]
  acked,     \* ghost: sessions a Disconnect-ACK arrived for
  silent     \* ghost: sessions a command to the NAS went unanswered for

vars == <<session, command, attempts, action, request, taking, sending, acked, silent>>

Outcomes == {"ACKNOWLEDGED", "NAK", "TIMED_OUT", "FAILED"}
ActionOutcomes == {"ACK", "NAK", "TIMEOUT"}
SessionStatus ==
  {"ACTIVE", "STOPPED", "STALE", "DISCONNECT_REQUESTED", "DISCONNECT_ACKNOWLEDGED",
   "DISCONNECT_TIMED_OUT"}

\* Every variable stays in its type; a command is never sent more often than
\* there are workers to take it at once, whatever AAA_COMMAND_MAX_ATTEMPTS.
TypeOK ==
  /\ session \in [Sessions -> SessionStatus]
  /\ command \in [Commands -> Outcomes \cup {"ABSENT", "QUEUED", "SENDING"}]
  /\ attempts \in [Commands -> 0..Cardinality(Workers)]
  /\ action \in [Actions -> ActionOutcomes \cup {"ABSENT", "PENDING"}]
  /\ request \subseteq Commands
  /\ taking \in [Workers -> Commands \cup {Unnamed}]
  /\ sending \in [Workers -> Commands \cup {Unnamed}]
  /\ {acked, silent} \subseteq SUBSET Sessions

Init ==
  /\ session = [s \in Sessions |-> "ACTIVE"]
  /\ command = [c \in Commands |-> "ABSENT"]
  /\ attempts = [c \in Commands |-> 0]
  /\ action = [c \in Actions |-> "ABSENT"]
  /\ request = {} /\ acked = {} /\ silent = {}
  /\ taking = [w \in Workers |-> Unnamed]
  /\ sending = [w \in Workers |-> Unnamed]

---------------------------------------------------------------------------
(* Requests *)

\* disconnect, coa_session and create_control_action: an idempotency key that
\* exists creates nothing.  Only the disconnect endpoint marks the session,
\* and it does so whatever the session's status.
Create(c) ==
  /\ command[c] = "ABSENT"
  /\ command' = [command EXCEPT ![c] = "QUEUED"]
  /\ request' = request \cup {c}
  /\ action' = [a \in Actions |-> IF a = c THEN "PENDING" ELSE action[a]]
  /\ session' = [session EXCEPT ![SessionOf[c]] =
       IF c \in Disconnects \ Actions THEN "DISCONNECT_REQUESTED" ELSE @]
  /\ UNCHANGED <<attempts, taking, sending, acked, silent>>

\* record_outcome: the first outcome of an action stands.
RecordOutcome(c, outcome) ==
  /\ c \in Actions /\ action[c] = "PENDING"
  /\ action' = [action EXCEPT ![c] = outcome]
  /\ UNCHANGED <<session, command, attempts, request, taking, sending, acked, silent>>

\* retry: PENDING again from any state; the command is not queued again, and
\* the limit counts attempts nothing increments.
Retry(c) ==
  /\ c \in Actions /\ action[c] # "ABSENT"
  /\ action' = [action EXCEPT ![c] = "PENDING"]
  /\ UNCHANGED <<session, command, attempts, request, taking, sending, acked, silent>>

\* An accounting packet, or a stale check, writes the session's status.
Account(s) ==
  /\ \E next \in {"ACTIVE", "STOPPED", "STALE"} :
       /\ next = "STALE" => session[s] \in {"ACTIVE", "DISCONNECT_REQUESTED"}
       /\ session' = [session EXCEPT ![s] = next]
  /\ UNCHANGED <<command, attempts, action, request, taking, sending, acked, silent>>

---------------------------------------------------------------------------
(* process_radius_command *)

\* A select that takes commands up again after a failure.
Resend_Pick(w, c) ==
  /\ taking[w] = Unnamed /\ sending[w] = Unnamed
  /\ command[c] \in {"QUEUED", "FAILED"}
  /\ taking' = [taking EXCEPT ![w] = c]

\* The select: QUEUED commands only, so attempts < maximum never decides.
Pick(w, c) ==
  /\ taking[w] = Unnamed /\ sending[w] = Unnamed
  /\ command[c] = "QUEUED"
  /\ taking' = [taking EXCEPT ![w] = c]

\* SENDING is committed without a look at the row: two workers may both have
\* read it QUEUED.
Take(w) ==
  LET c == taking[w] IN
  /\ c # Unnamed
  /\ command' = [command EXCEPT ![c] = "SENDING"]
  /\ attempts' = [attempts EXCEPT ![c] = @ + 1]
  /\ taking' = [taking EXCEPT ![w] = Unnamed]
  /\ sending' = [sending EXCEPT ![w] = c]
  /\ UNCHANGED <<session, action, request, acked, silent>>

\* Any acknowledgement taken for a disconnect.
AnyAck_SessionAfter(c, outcome, now) ==
  IF outcome = "ACKNOWLEDGED" THEN "DISCONNECT_ACKNOWLEDGED"
  ELSE IF outcome = "TIMED_OUT" THEN "DISCONNECT_TIMED_OUT"
  ELSE now

\* What a command's outcome makes of its session.  A CoA that timed out counts
\* as a disconnect that did.
SessionAfter(c, outcome, now) ==
  IF c \in Disconnects /\ outcome = "ACKNOWLEDGED" THEN "DISCONNECT_ACKNOWLEDGED"
  ELSE IF outcome = "TIMED_OUT" THEN "DISCONNECT_TIMED_OUT"
  ELSE now

\* The answer of the NAS, its silence, or no way to send (FAILED).
Send(w, outcome) ==
  LET c == sending[w]
      s == SessionOf[c]
  IN /\ c # Unnamed
     /\ command' = [command EXCEPT ![c] = outcome]
     /\ session' = [session EXCEPT ![s] = SessionAfter(c, outcome, @)]
     /\ acked' = acked \cup {t \in {s} : outcome = "ACKNOWLEDGED" /\ c \in Disconnects}
     /\ silent' = silent \cup {t \in {s} : outcome = "TIMED_OUT"}
     /\ sending' = [sending EXCEPT ![w] = Unnamed]
     /\ UNCHANGED <<attempts, action, request, taking>>

\* A worker dies: a command it was sending stays SENDING, for nothing takes a
\* SENDING command.
Die(w) ==
  /\ taking[w] # Unnamed \/ sending[w] # Unnamed
  /\ taking' = [taking EXCEPT ![w] = Unnamed]
  /\ sending' = [sending EXCEPT ![w] = Unnamed]
  /\ UNCHANGED <<session, command, attempts, action, request, acked, silent>>

---------------------------------------------------------------------------
(* Delivery *)

\* The command an event names.  Its payload is built from command.id before
\* the flush that gives the command an id, or, for a control action, has no
\* command_id at all.
CommandInEvent(c) == Unnamed

\* consume_command_once: an event that names no command is "invalid" and is
\* acknowledged.
Consume(w, c) ==
  /\ c \in request
  /\ request' = request \ {c}
  /\ IF CommandInEvent(c) = Unnamed THEN UNCHANGED taking ELSE Pick(w, CommandInEvent(c))
  /\ UNCHANGED <<session, command, attempts, action, sending, acked, silent>>

\* process_radius_command without a command id takes a QUEUED one (the
\* oldest; the order is abstracted).
Schedule(w, c) ==
  /\ Scheduler
  /\ Pick(w, c)
  /\ UNCHANGED <<session, command, attempts, action, request, sending, acked, silent>>

---------------------------------------------------------------------------
Next ==
  \/ \E c \in Commands :
       \/ Create(c) \/ Retry(c)
       \/ \E outcome \in ActionOutcomes : RecordOutcome(c, outcome)
  \/ \E s \in Sessions : Account(s)
  \/ \E w \in Workers :
       \/ Take(w) \/ Die(w)
       \/ \E c \in Commands : Consume(w, c) \/ Schedule(w, c)
       \/ \E outcome \in Outcomes : Send(w, outcome)

Spec == Init /\ [][Next]_vars

---------------------------------------------------------------------------
(* Properties *)

\* "A queue acknowledgement is never a session stop" (workers.py:223): a
\* session is only shown as disconnected, or as not answering, after the NAS
\* acknowledged a Disconnect of it, or let a command for it go unanswered,
\* however packets, retries and the workers interleave.
DisconnectedByNas ==
  \A s \in Sessions :
    /\ session[s] = "DISCONNECT_ACKNOWLEDGED" => s \in acked
    /\ session[s] = "DISCONNECT_TIMED_OUT" => s \in silent

\* "queued commands fail safely and visibly" (worker_runner.py:4): a queued
\* command is taken up and gets an outcome, or is left SENDING by a dead worker.
CommandsAreTaken == \A c \in Commands : command[c] = "QUEUED" ~> command[c] # "QUEUED"
=============================================================================
