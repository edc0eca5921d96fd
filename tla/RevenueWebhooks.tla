-------------------------- MODULE RevenueWebhooks --------------------------
(***************************************************************************)
(* Gateway webhooks of the BSS service (app/revenue/webhooks.py) for one   *)
(* payment: events that say it was captured, and one event for each refund *)
(* the gateway made.  The gateway delivers an event until it is answered   *)
(* 200, in any order, also twice at once.  receive_webhook stores the      *)
(* event, flushes, and dispatches it in the same transaction; a refund     *)
(* event whose refund no row shows creates a refund, and that calls the    *)
(* gateway.  Staff request refunds here and in the gateway's dashboard.    *)
(* Every refund is of one unit of the payment.                             *)
(***************************************************************************)
EXTENDS Naturals, FiniteSets

CONSTANTS
  Captures,     \* external_event_id of the events that say it was captured
  Amount,       \* of the payment; no gateway refunds more
  MaxRequests,  \* bound on the refunds staff request here
  Handlers, None,
  InDashboard, OnRequest  \* why the gateway made a refund

Refunds == 1..Amount     \* refund ids, in the order the gateway gives them
Events == Captures \cup Refunds

\* What the constants may be (assumed of their values in MoneyServices).
WebhooksAssumption ==
  /\ Amount \in Nat \ {0} /\ MaxRequests \in Nat
  /\ Captures \cap Refunds = {} /\ None \notin Events
  /\ InDashboard \notin Refunds /\ OnRequest \notin Refunds

VARIABLES
  webhook,   \* GatewayWebhook.status, or "ABSENT"
  booked,    \* committed transactions of the payment
  rows,      \* gateway_refund_id of the committed refund rows
  made,      \* how many refunds the gateway made
  cause,     \* [Refunds -> why, or the refund whose event caused it]
  requests,
  task,      \* [Handlers -> the transaction in flight, or Idle]
  late,      \* ghost: refunds whose event arrived before their row was committed
  dead       \* ghost: refunds whose transaction died after the gateway made them

vars == <<webhook, booked, rows, made, cause, requests, task, late, dead>>

Idle == [step |-> "idle", event |-> None, refund |-> None]

\* Every variable stays in its type; at most one transaction at a time has
\* stored an event.
TypeOK ==
  /\ webhook \in [Events -> {"ABSENT", "INVALID_SIGNATURE", "RECEIVED", "PROCESSED"}]
  /\ booked \in Nat /\ rows \subseteq Refunds /\ made \in 0..Amount /\ requests \in 0..MaxRequests
  /\ cause \in [Refunds -> {None, InDashboard, OnRequest} \cup Refunds]
  /\ task \in [Handlers -> [step : {"idle", "stored", "insert", "commit"},
                            event : Events \cup {None}, refund : Refunds \cup {None}]]
  /\ \A g, h \in Handlers : g # h /\ task[g].event = task[h].event => task[g].event = None
  /\ late \subseteq Refunds /\ dead \subseteq Refunds

Init ==
  /\ webhook = [e \in Events |-> "ABSENT"]
  /\ booked = 0 /\ rows = {} /\ made = 0 /\ requests = 0
  /\ cause = [r \in Refunds |-> None]
  /\ task = [h \in Handlers |-> Idle]
  /\ late = {} /\ dead = {}

---------------------------------------------------------------------------
\* The gateway makes its next refund.
Refund(why) ==
  /\ made < Amount
  /\ made' = made + 1
  /\ cause' = [cause EXCEPT ![made + 1] = why]

\* A refund made in the gateway's dashboard.
Dashboard ==
  /\ Refund(InDashboard)
  /\ UNCHANGED <<webhook, booked, rows, requests, task, late, dead>>

\* What refundable_amount leaves, from the rows committed.
Available == Amount - Cardinality(rows)

\* create_refund without approval, and complete_refund: the gateway is called
\* before anything is committed.
RequestRefund(h) ==
  /\ task[h] = Idle
  /\ booked > 0 /\ Available > 0 /\ requests < MaxRequests
  /\ Refund(OnRequest)
  /\ requests' = requests + 1
  /\ task' = [task EXCEPT ![h] = [Idle EXCEPT !.step = "commit", !.refund = made + 1]]
  /\ UNCHANGED <<webhook, booked, rows, late, dead>>

---------------------------------------------------------------------------
\* A deduplication by the idempotency key of the transaction alone.
Partial_Known(e) == webhook[e] = "PROCESSED" /\ e \in Captures

\* An event seen before is answered from its row, RECEIVED ones included.
Known(e) == webhook[e] # "ABSENT"

\* A delivery that dispatches before it flushes the row of its event.
Racing_Deliver(h, e) ==
  /\ task[h] = Idle
  /\ e \in Captures \cup 1..made
  /\ ~Known(e)
  /\ task' = [task EXCEPT ![h] = [Idle EXCEPT !.step = "stored", !.event = e]]
  /\ late' = late \cup ({e} \cap (Refunds \ rows))
  /\ UNCHANGED <<webhook, booked, rows, made, cause, requests, dead>>

\* receive_webhook up to the flush.  The unique (tenant, event) makes a second
\* delivery wait for the first transaction; if that commits, the second fails
\* and the next delivery is answered from the row.
Deliver(h, e) ==
  /\ task[h] = Idle
  /\ e \in Captures \cup 1..made
  /\ ~Known(e)
  /\ \A g \in Handlers : task[g].event # e
  /\ task' = [task EXCEPT ![h] = [Idle EXCEPT !.step = "stored", !.event = e]]
  /\ late' = late \cup ({e} \cap (Refunds \ rows))
  /\ UNCHANGED <<webhook, booked, rows, made, cause, requests, dead>>

\* A delivery whose signature does not verify is stored under its event's id.
BadSignature(e) ==
  /\ ~Known(e)
  /\ \A g \in Handlers : task[g].event # e
  /\ webhook' = [webhook EXCEPT ![e] = "INVALID_SIGNATURE"]
  /\ UNCHANGED <<booked, rows, made, cause, requests, task, late, dead>>

\* The transaction of h ends with its event in a status.  A ValueError commits too:
\* the event stays RECEIVED and the answer is 400.
Close(h, status) ==
  /\ webhook' = [webhook EXCEPT ![task[h].event] = status]
  /\ task' = [task EXCEPT ![h] = Idle]

\* capture_payment: the payment is looked up by its external_ref, and refused
\* if a transaction of another event shows it (or for its intent, currency or
\* amount).
DispatchCapture(h) ==
  /\ task[h].step = "stored" /\ task[h].event \in Captures
  /\ \/ Close(h, "RECEIVED")
     \/ /\ booked = 0
        /\ task' = [task EXCEPT ![h].step = "insert"]
        /\ UNCHANGED webhook
  /\ UNCHANGED <<booked, rows, made, cause, requests, late, dead>>

\* The insert waits for another one of the same external_ref, and fails, with
\* all of its transaction, once that is committed.
Insert(h) ==
  /\ task[h].step = "insert"
  /\ \A g \in Handlers \ {h} : ~(task[g].step = "commit" /\ task[g].event \in Captures)
  /\ task' = [task EXCEPT ![h] = IF booked > 0 THEN Idle ELSE [@ EXCEPT !.step = "commit"]]
  /\ UNCHANGED <<webhook, booked, rows, made, cause, requests, late, dead>>

\* complete_refund_from_webhook.  Nothing to do without a transaction or with a
\* row of this refund; nothing possible without an amount left; otherwise the
\* gateway is asked for the refund, another one to it.  An error of the gateway
\* rolls back.
DispatchRefund(h) ==
  LET r == task[h].event IN
  /\ task[h].step = "stored" /\ r \in Refunds
  /\ IF booked = 0 \/ r \in rows THEN Close(h, "PROCESSED") /\ UNCHANGED <<made, cause>>
     ELSE IF Available = 0 THEN Close(h, "RECEIVED") /\ UNCHANGED <<made, cause>>
     ELSE IF made = Amount
     THEN task' = [task EXCEPT ![h] = Idle] /\ UNCHANGED <<webhook, made, cause>>
     ELSE /\ Refund(r)
          /\ task' = [task EXCEPT ![h].step = "commit", ![h].refund = made + 1]
          /\ UNCHANGED webhook
  /\ UNCHANGED <<booked, rows, requests, late, dead>>

\* The commit of a capture, or of a refund with the id the gateway gave it.
Commit(h) ==
  LET t == task[h] IN
  /\ t.step = "commit"
  /\ webhook' = [e \in Events |-> IF e = t.event THEN "PROCESSED" ELSE webhook[e]]
  /\ booked' = IF t.event \in Captures THEN booked + 1 ELSE booked
  /\ rows' = rows \cup ({t.refund} \ {None})
  /\ task' = [task EXCEPT ![h] = Idle]
  /\ UNCHANGED <<made, cause, requests, late, dead>>

\* The process dies: the transaction leaves nothing, the gateway keeps what it did.
Die(h) ==
  /\ task[h] # Idle
  /\ task' = [task EXCEPT ![h] = Idle]
  /\ dead' = dead \cup ({task[h].refund} \ {None})
  /\ UNCHANGED <<webhook, booked, rows, made, cause, requests, late>>

Next ==
  \/ Dashboard
  \/ \E h \in Handlers :
       \/ RequestRefund(h)
       \/ \E e \in Events : Deliver(h, e) \/ BadSignature(e)
       \/ DispatchCapture(h) \/ Insert(h) \/ DispatchRefund(h) \/ Commit(h) \/ Die(h)

Spec == Init /\ [][Next]_vars

---------------------------------------------------------------------------
(* Properties *)

RepeatsOf(r) == {x \in 1..made : cause[x] = r}

\* "deduplicated; never reprocesses the financial effect" (webhooks.py:57).
\* However deliveries repeat, overlap and die: the payment is booked once, by
\* the one event that is PROCESSED; every refund the service asked of the
\* gateway is on a row, about to be, or its transaction died; and an event
\* makes the service ask for a further refund at most once, and not at all if
\* a row showed its refund when it arrived.
EffectsOnce ==
  /\ booked = Cardinality({e \in Captures : webhook[e] = "PROCESSED"}) /\ booked <= 1
  /\ \A r \in 1..made :
       /\ cause[r] # InDashboard =>
            r \in rows \cup dead \/ \E h \in Handlers : task[h].refund = r
       /\ Cardinality(RepeatsOf(r) \ dead) <= 1
       /\ r \notin late => RepeatsOf(r) = {}
=============================================================================
