--------------------------- MODULE OrderAggregate ---------------------------
(***************************************************************************)
(* One order of the OSS service as the database sees it: the row of        *)
(* oss_orders (state, aggregate_version) beside its append-only stream in  *)
(* oss_order_events, written by any number of concurrent sessions - the    *)
(* API requests of main.py and the passes of the saga engine.              *)
(*                                                                         *)
(* A session loads the row, validates its transitions in memory against    *)
(* that copy and commits later; between the two, other sessions commit.    *)
(* What protects the order is the unique (order_id, aggregate_version) of  *)
(* the event stream: OrderRepository.append inserts version + 1 and the    *)
(* loser of a race gets ConcurrencyConflict.  Starting a saga, however,    *)
(* reads the order's state without writing the row.                        *)
(*                                                                         *)
(* events[i] is the order state after the i-th event, so events is the     *)
(* history of the order.                                                   *)
(***************************************************************************)
EXTENDS Naturals, Sequences, StateMachines

CONSTANTS Sessions,   \* database sessions that may be open on the order
          MaxEvents,  \* bound: events beyond which no session is opened
          MaxSagas    \* bound: sagas started for the order

ASSUME BoundsAssumption == MaxEvents \in Nat /\ MaxSagas \in Nat

VARIABLES row,      \* the oss_orders row: [state, version]
          events,   \* the oss_order_events stream, one order state per event
          sagas,    \* number of sagas committed for this order
          session   \* what each open session has read and staged

vars == <<row, events, sagas, session>>

Kinds == {"command", "saga", "fulfil"}

\* A closed session.  An open one remembers the version it loaded, the states
\* it moves the order through (staged[1] is the state it loaded), the targets
\* it has still to try, and whether an illegal target raises or is skipped.
Closed == [open |-> FALSE, kind |-> "command", strict |-> TRUE, version |-> 0,
           staged |-> <<>>, todo |-> <<>>]

Last(s) == s[Len(s)]
Held(p) == Last(session[p].staged)

TypeOK ==
  /\ row \in [state : OrderStates, version : Nat]
  /\ events \in Seq(OrderStates)
  /\ sagas \in Nat
  /\ session \in [Sessions -> [open : BOOLEAN, kind : Kinds, strict : BOOLEAN,
                               version : Nat, staged : Seq(OrderStates),
                               todo : Seq(OrderStates)]]

\* create_order: a DRAFT row with the event oss.order.created.v1.
Init ==
  /\ row = [state |-> "DRAFT", version |-> 1]
  /\ events = <<"DRAFT">>
  /\ sagas = 0
  /\ session = [p \in Sessions |-> Closed]

-----------------------------------------------------------------------------
(* Opening a session: repo.load and the guards the command checks first.   *)

Open(p, kind, strict, targets) ==
  /\ ~session[p].open
  /\ row.version < MaxEvents
  /\ session' = [session EXCEPT ![p] =
       [open |-> TRUE, kind |-> kind, strict |-> strict, version |-> row.version,
        staged |-> <<row.state>>, todo |-> targets]]
  /\ UNCHANGED <<row, events, sagas>>

Command(p, target) == Open(p, "command", TRUE, <<target>>)

submit(p) == row.state # "SUBMITTED" /\ Command(p, "SUBMITTED")

\* validate_order opens the validation of a SUBMITTED order ...
validate(p) == row.state = "SUBMITTED" /\ Command(p, "VALIDATING")

\* ... and, after the CRM and BSS checks, settles it from VALIDATING (or from a
\* VALIDATION_FAILED order somebody validates again).
settle_validation(p) ==
  /\ row.state \in {"VALIDATING", "VALIDATION_FAILED"}
  /\ \E outcome \in {"VALIDATION_FAILED", "PAYMENT_PENDING", "READY_FOR_FULFILMENT"} :
       Command(p, outcome)

approve_payment(p) == Command(p, "READY_FOR_FULFILMENT")

cancel(p) ==
  Command(p, IF row.state = "DRAFT" THEN "CANCELLED" ELSE "CANCELLATION_REQUESTED")

retry(p) == Command(p, "SUBMITTED")

resume(p) ==
  /\ row.state \in {"MANUAL_INTERVENTION_REQUIRED", "FAILED", "CANCELLATION_REQUESTED"}
  /\ Command(p, "SUBMITTED")

compensate(p) == Command(p, "COMPENSATING")

\* ensure_state, called by a saga that was committed for this order: a reached
\* or terminal state is left alone, an illegal target is skipped.
SagaTargets == {"RESOURCE_RESERVATION", "FIELD_INSTALLATION_PENDING",
                "PROVISIONING", "VERIFYING", "COMPLETED"}

ensure_state(p) ==
  /\ sagas > 0
  /\ \E target \in SagaTargets : Open(p, "saga", FALSE, <<target>>)

drive_order_compensation(p) ==
  /\ sagas > 0
  /\ Open(p, "saga", FALSE, <<"FAILED", "COMPENSATING", "ROLLED_BACK">>)

drive_order_to_manual(p) ==
  /\ sagas > 0
  /\ Open(p, "saga", FALSE, <<"FAILED", "MANUAL_INTERVENTION_REQUIRED">>)

\* Mutant: start_workflow without its READY_FOR_FULFILMENT check.
fulfil_unchecked(p) ==
  /\ sagas < MaxSagas
  /\ Open(p, "fulfil", TRUE, <<>>)

\* start_workflow: the order was READY_FOR_FULFILMENT when the session read it.
fulfil(p) ==
  /\ row.state = "READY_FOR_FULFILMENT"
  /\ sagas < MaxSagas
  /\ Open(p, "fulfil", TRUE, <<>>)

-----------------------------------------------------------------------------
(* Working in an open session.                                             *)

\* Mutant: a transition is legal from any state that is not terminal.
Legal_unless_terminal(current, target) == ~order_terminal(current)

\* order_transition: the target is one the table lists for the current state.
Legal(current, target) == target \in ORDER_TRANSITIONS[current]

\* One transition in memory: order_transition checks it against the state this
\* session holds, repo.append flushes the event.
Stage(p) ==
  LET target == Head(session[p].todo) IN
  /\ session[p].open
  /\ session[p].todo # <<>>
  /\ session' =
       IF Legal(Held(p), target)
       THEN [session EXCEPT ![p].staged = Append(@, target), ![p].todo = Tail(@)]
       ELSE IF session[p].strict
       THEN [session EXCEPT ![p] = Closed]            \* ValueError: 422
       ELSE [session EXCEPT ![p].todo = Tail(@)]      \* ensure_state returns
  /\ UNCHANGED <<row, events, sagas>>

Ready(p) == session[p].open /\ session[p].todo = <<>>
Writes(p) == Len(session[p].staged) > 1

\* Mutant: the unique constraint on (order_id, aggregate_version) is missing.
Current_unchecked(p) == TRUE

\* The unique (order_id, aggregate_version): nobody appended since the load.
Current(p) == Len(events) = session[p].version

\* Mutant: append raises the version once for a session with several events.
Commit_single_version(p) ==
  /\ Ready(p)
  /\ Writes(p)
  /\ Current(p)
  /\ events' = events \o Tail(session[p].staged)
  /\ row' = [state |-> Held(p), version |-> session[p].version + 1]
  /\ session' = [session EXCEPT ![p] = Closed]
  /\ UNCHANGED sagas

Commit(p) ==
  /\ Ready(p)
  /\ Writes(p)
  /\ Current(p)
  /\ events' = events \o Tail(session[p].staged)
  /\ row' = [state |-> Held(p),
             version |-> session[p].version + Len(session[p].staged) - 1]
  /\ session' = [session EXCEPT ![p] = Closed]
  /\ UNCHANGED sagas

\* ConcurrencyConflict: the transaction is rolled back.
Conflict(p) ==
  /\ Ready(p)
  /\ Writes(p)
  /\ ~Current(p)
  /\ session' = [session EXCEPT ![p] = Closed]
  /\ UNCHANGED <<row, events, sagas>>

\* The session staged nothing: a fulfil commits its saga, any other just ends.
Finish(p) ==
  /\ Ready(p)
  /\ ~Writes(p)
  /\ sagas' = IF session[p].kind = "fulfil" THEN sagas + 1 ELSE sagas
  /\ session' = [session EXCEPT ![p] = Closed]
  /\ UNCHANGED <<row, events>>

\* The process dies, or the client goes away, before the commit.
Abort(p) ==
  /\ session[p].open
  /\ session' = [session EXCEPT ![p] = Closed]
  /\ UNCHANGED <<row, events, sagas>>

Next == \E p \in Sessions :
  \/ submit(p) \/ validate(p) \/ settle_validation(p) \/ approve_payment(p)
  \/ cancel(p) \/ retry(p) \/ resume(p) \/ compensate(p)
  \/ ensure_state(p) \/ drive_order_compensation(p) \/ drive_order_to_manual(p)
  \/ fulfil(p)
  \/ Stage(p) \/ Commit(p) \/ Conflict(p) \/ Finish(p) \/ Abort(p)

Spec == Init /\ [][Next]_vars

-----------------------------------------------------------------------------
(* Properties.                                                             *)

\* The history is a path of the transition table, whatever the sessions read
\* and however late they commit (OrderRepository.append).
LegalHistory ==
  \A i \in 1..(Len(events) - 1) : Legal(events[i], events[i + 1])

\* The row is the projection of its event stream: the state of the last event
\* under the version that counts them (OrderService.transition).
RowIsProjection ==
  /\ row.version = Len(events)
  /\ row.state = Last(events)

\* A completed order was made ready for fulfilment earlier in its history: no
\* interleaving of commands and saga passes completes an unvalidated order.
CompletedWasReady ==
  \A i \in 1..Len(events) : events[i] = "COMPLETED" =>
    \E j \in 1..i : events[j] = "READY_FOR_FULFILMENT"

\* COMPLETED, ROLLED_BACK and CANCELLED are final, and the event stream only
\* grows at its end ("immutable, append-only event stream").
HistoryIsFinal ==
  [][ /\ order_terminal(row.state) => row' = row
      /\ \A i \in 1..Len(events) : i \in 1..Len(events') /\ events'[i] = events[i] ]_vars
-----------------------------------------------------------------------------
(* The inductive invariant: what a session holds is a legal continuation of *)
(* the prefix of the history it loaded.                                    *)

ReadyInHistory == \E j \in 1..Len(events) : events[j] = "READY_FOR_FULFILMENT"

SessionOK(p) ==
  session[p].open =>
    /\ session[p].version \in 1..Len(events)
    /\ Len(session[p].staged) >= 1
    /\ session[p].staged[1] = events[session[p].version]
    /\ \A i \in 1..(Len(session[p].staged) - 1) :
         Legal(session[p].staged[i], session[p].staged[i + 1])
    /\ session[p].kind = "saga" => ReadyInHistory
    /\ session[p].kind # "saga" =>
         /\ \A i \in 2..Len(session[p].staged) : session[p].staged[i] # "COMPLETED"
         /\ \A i \in 1..Len(session[p].todo) : session[p].todo[i] # "COMPLETED"
    /\ session[p].kind = "fulfil" =>
         /\ session[p].staged = <<"READY_FOR_FULFILMENT">>
         /\ session[p].todo = <<>>

\* Every open session stages a legal continuation of a prefix of the history, and
\* sagas exist only where the history holds READY_FOR_FULFILMENT: the strengthening
\* that makes LegalHistory, RowIsProjection and CompletedWasReady inductive.
IInv ==
  /\ TypeOK
  /\ LegalHistory
  /\ RowIsProjection
  /\ CompletedWasReady
  /\ Len(events) >= 1
  /\ sagas > 0 => ReadyInHistory
  /\ \A p \in Sessions : SessionOK(p)

=============================================================================
