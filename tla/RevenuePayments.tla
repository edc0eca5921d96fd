--------------------------- MODULE RevenuePayments ---------------------------
(***************************************************************************)
(* The payment core of the BSS service (app/revenue): payments confirmed   *)
(* by a gateway or posted by hand are allocated to the invoices of one     *)
(* billing account, oldest due date first; what is left becomes credit;    *)
(* refunds reverse allocations; a settled account is reported eligible for *)
(* restoration.                                                            *)
(*                                                                         *)
(* Every request runs in a READ COMMITTED session without row versions: it *)
(* checks, later reads the rows it computes with, and later writes back    *)
(* absolute values of the attributes it changed.  Requests that compute    *)
(* with money (capture, post, refund) are three steps here, begin, load    *)
(* and commit; the others read and write in one statement's reach and are  *)
(* one step.  A request that dies before its commit has written nothing:   *)
(* it is one that takes no further step.                                   *)
(***************************************************************************)
EXTENDS Integers, FiniteSetsExt, Sums

CONSTANTS NumInvoices, Total,             \* invoices in due_date order; total_amount
          Intents, IntentAmount, Prepaid, \* Prepaid: created with allow_overpayment
          Captures, Manuals,              \* external_ref of gateway and manual payments
          Amount, KeyOf, IntentOf,        \* of a payment; a manual one has no intent row
          Reviewed,                       \* manual payments that require approval
          RefundRefs, RefundOf, RefundAmount, \* refund_reference, payment, amount
          Sessions,
          ForeignKeys,                    \* does the database enforce foreign keys?
          None

Invoices == 1..NumInvoices
Payments == Captures \cup Manuals

ASSUME RevenueAssumption ==
  /\ NumInvoices \in Nat /\ Total \in [Invoices -> Nat \ {0}]
  /\ IntentAmount \in [Intents -> Nat \ {0}] /\ Prepaid \subseteq Intents
  /\ Amount \in [Payments -> Nat \ {0}]
  /\ IntentOf \in [Payments -> Intents \cup {None}] /\ None \notin Intents
  /\ \A c \in Captures : IntentOf[c] # None
  /\ \A m \in Manuals : IntentOf[m] = None
  /\ IsFiniteSet(Payments) /\ IsFiniteSet(RefundRefs)
  /\ Captures \cap Manuals = {} /\ Reviewed \subseteq Manuals
  /\ RefundOf \in [RefundRefs -> Payments] /\ RefundAmount \in [RefundRefs -> Nat \ {0}]
  /\ ForeignKeys \in BOOLEAN

VARIABLES invoice,      \* status and paid_amount of an invoice row
          credit,       \* credit_balance of the account
          hold,         \* is CHARGEBACK among the account's holds?
          intent,       \* status of a payment intent
          txns,         \* external_ref of the transaction rows
          alloc,        \* amount of the allocation row of a payment to an invoice
          reversed,     \* amount of the reversal row of that allocation
          refund,       \* status of a refund
          refunded,     \* of a payment: amounts of its PAYMENT_REFUND journal entries
          manual,       \* status of a manual payment
          restorations, \* billing.restoration_eligible.v1 events published
          session,      \* what each open request has read
          overwritten   \* history: a commit replaced a value it had not read

books == <<invoice, credit, hold, txns, alloc, reversed, refund, refunded>>
vars == <<books, intent, manual, restorations, session, overwritten>>

Open == {"ISSUED", "PARTIALLY_PAID", "OVERDUE"}
InvoiceStates == Open \cup {"NONE", "PAID"}
IntentStates == {"NONE", "CREATED", "PENDING", "PARTIALLY_PAID", "PAID"}
RefundStates == {"NONE", "PENDING", "COMPLETED"}

MANUAL_PAYMENT_TRANSITIONS == [
  NONE |-> {"DRAFT"},
  DRAFT |-> {"SUBMITTED", "CANCELLED", "REJECTED"},
  SUBMITTED |-> {"UNDER_REVIEW", "APPROVED", "REJECTED", "CANCELLED"},
  UNDER_REVIEW |-> {"APPROVED", "REJECTED", "SUBMITTED"},
  APPROVED |-> {"POSTED", "REJECTED"},
  POSTED |-> {"REVERSED"},
  REJECTED |-> {}, REVERSED |-> {}, CANCELLED |-> {}]
ManualStates == DOMAIN MANUAL_PAYMENT_TRANSITIONS

\* A request: what it works on (a payment or a refund), the status it read of
\* that row's intent, manual payment or refund, and the rows it loaded.
Idle == [op |-> "idle", on |-> None, seen |-> "NONE", loaded |-> FALSE,
         invoice |-> <<>>, credit |-> 0, hold |-> FALSE]

Init ==
  /\ invoice = [i \in Invoices |-> [status |-> "NONE", paid |-> 0]]
  /\ credit = 0 /\ hold = FALSE /\ txns = {}
  /\ intent = [p \in Intents |-> "NONE"]
  /\ alloc = [t \in Payments |-> [i \in Invoices |-> 0]]
  /\ reversed = alloc
  /\ refund = [r \in RefundRefs |-> "NONE"]
  /\ refunded = [t \in Payments |-> 0]
  /\ manual = [m \in Manuals |-> "NONE"]
  /\ restorations = 0 /\ overwritten = FALSE
  /\ session = [s \in Sessions |-> Idle]

-----------------------------------------------------------------------------
(* Invoices, intents and holds: one step each. *)

\* What is due on an invoice row.
Due(row, i) == IF row.status \in Open THEN Total[i] - row.paid ELSE 0
server_side_payable == SumOver([i \in Invoices |-> Due(invoice[i], i)], Invoices)

create_invoice(i) ==
  /\ invoice[i].status = "NONE"
  /\ invoice' = [invoice EXCEPT ![i].status = "ISSUED"]
  /\ UNCHANGED <<credit, hold, txns, alloc, reversed, refund, refunded, intent, manual,
                 restorations, session, overwritten>>

create_payment_intent(p) ==
  /\ intent[p] = "NONE"
  /\ p \in Prepaid \/ IntentAmount[p] <= server_side_payable
  /\ intent' = [intent EXCEPT ![p] = "CREATED"]
  /\ UNCHANGED <<books, manual, restorations, session, overwritten>>

\* Only a CREATED intent changes; only this handler changes a CREATED intent.
start_hosted_checkout(p) ==
  /\ intent[p] = "CREATED"
  /\ intent' = [intent EXCEPT ![p] = "PENDING"]
  /\ UNCHANGED <<books, manual, restorations, session, overwritten>>

create_chargeback(t) ==
  /\ t \in txns /\ ~hold
  /\ hold' = TRUE
  /\ UNCHANGED <<invoice, credit, txns, alloc, reversed, refund, refunded, intent, manual,
                 restorations, session, overwritten>>
-----------------------------------------------------------------------------
(* Manual payments before and after posting. *)

manual_to(m, status) ==
  /\ manual' = [manual EXCEPT ![m] = status]
  /\ UNCHANGED <<books, intent, restorations, session, overwritten>>

create_manual_payment(m) == manual[m] = "NONE" /\ manual_to(m, "DRAFT")

submit_manual_payment(m) ==
  /\ "SUBMITTED" \in MANUAL_PAYMENT_TRANSITIONS[manual[m]]
  /\ manual_to(m, IF m \in Reviewed THEN "UNDER_REVIEW" ELSE "SUBMITTED")

approve_manual_payment(m) ==
  /\ "APPROVED" \in MANUAL_PAYMENT_TRANSITIONS[manual[m]]
  /\ manual_to(m, "APPROVED")

reject_manual_payment(m) ==
  /\ "REJECTED" \in MANUAL_PAYMENT_TRANSITIONS[manual[m]]
  /\ manual_to(m, "REJECTED")

\* Mutant: reversed before it is posted.
reverse_manual_payment_early(m) == manual[m] \in {"APPROVED", "POSTED"} /\ manual_to(m, "REVERSED")

\* Only the status: allocations and ledger stay as they are.
reverse_manual_payment(m) == manual[m] = "POSTED" /\ manual_to(m, "REVERSED")
-----------------------------------------------------------------------------
(* Requests that compute with money: begin, load, commit. *)

begin(s, op, x, status) ==
  /\ session[s] = Idle
  /\ session' = [session EXCEPT ![s] = [Idle EXCEPT !.op = op, !.on = x, !.seen = status]]
  /\ UNCHANGED <<books, intent, manual, restorations, overwritten>>

\* No transaction has this idempotency key or reference, and the intent may take it.
capture_payment(s, t) ==
  /\ intent[IntentOf[t]] \notin {"NONE", "PAID"}
  /\ \A u \in txns : u # t /\ KeyOf[u] # KeyOf[t]
  /\ Amount[t] <= IntentAmount[IntentOf[t]]
  /\ begin(s, "capture", t, intent[IntentOf[t]])

post_manual_payment(s, m) == manual[m] = "APPROVED" /\ begin(s, "post", m, "APPROVED")

refundable_amount(t) ==
  Amount[t] - SumOver(RefundAmount, {r \in RefundRefs : RefundOf[r] = t /\ refund[r] # "NONE"})

create_refund(s, r) ==
  /\ RefundOf[r] \in txns
  /\ RefundAmount[r] <= refundable_amount(RefundOf[r])
  /\ refund[r] = "NONE"
  /\ \/ begin(s, "refund", r, "NONE")
     \/ begin(s, "request", r, "NONE")  \* requires_approval: no money moves yet

approve_refund(s, r) == refund[r] = "PENDING" /\ begin(s, "refund", r, "PENDING")

\* The account and the invoice rows as they are now; they stay in the identity map.
load(s) ==
  /\ session[s].op \in {"capture", "post", "refund"} /\ ~session[s].loaded
  /\ session' = [session EXCEPT ![s].loaded = TRUE, ![s].invoice = invoice,
                                ![s].credit = credit, ![s].hold = hold]
  /\ UNCHANGED <<books, intent, manual, restorations, overwritten>>

\* derive_invoice_status: a row with nothing paid keeps the status it has.
derive_invoice_status(status, i, paid) ==
  CASE paid >= Total[i] -> "PAID"
    [] paid > 0 /\ paid < Total[i] -> "PARTIALLY_PAID"
    [] OTHER -> status

\* The row after an UPDATE of the attributes that differ from what was read.
Written(row, read, i, paid) ==
  LET status == derive_invoice_status(read.status, i, paid)
  IN  [status |-> IF status = read.status THEN row.status ELSE status, paid |-> paid]

SaveInvoices(q, delta) ==
  invoice' = [i \in Invoices |->
    IF delta[i] = 0 THEN invoice[i]
    ELSE Written(invoice[i], q.invoice[i], i, q.invoice[i].paid + delta[i])]

Stale(q, delta) == \E i \in Invoices : delta[i] # 0 /\ invoice[i] # q.invoice[i]

\* Mutant: what is due is not looked at.
Allocation_undue(rows, amount) ==
  [i \in Invoices |-> IF rows[i].status \in Open THEN amount ELSE 0]

\* What allocate_payment gives each invoice: the oldest due first, until the
\* amount is spent.
Allocation(rows, amount) ==
  [i \in Invoices |->
    LET before == SumOver([j \in Invoices |-> Due(rows[j], j)], 1..(i - 1))
    IN  Min({Due(rows[i], i), Max({0, amount - before})})]

\* The constraints of bss_payment_transactions: external_ref is unique and
\* payment_intent_id refers to an intent.
Insertable(t) == t \notin txns /\ (ForeignKeys => IntentOf[t] \in Intents)

\* Mutant: payable of the rows loaded before the allocation.
PayableSeen_loaded(q, delta) ==
  SumOver([i \in Invoices |-> Due(q.invoice[i], i) - delta[i]], Invoices)

\* payable as the session sees it after its flush: the rows open now, with the
\* amounts it loaded where it loaded them.
PayableSeen(q, delta) ==
  SumOver([i \in Invoices |->
    IF q.invoice[i].status \in Open /\ invoice'[i].status \in Open
    THEN Total[i] - q.invoice[i].paid - delta[i]
    ELSE Due(invoice'[i], i)], Invoices)

\* Mutant: the rest replaces the credit.
allocate_payment_last_rest(q, amount) ==
  LET given == Allocation(q.invoice, amount)
      rest == amount - SumOver(given, Invoices)
  IN  /\ alloc' = [alloc EXCEPT ![q.on] = given]
      /\ SaveInvoices(q, given)
      /\ credit' = IF rest > 0 THEN rest ELSE credit
      /\ overwritten' = (overwritten \/ Stale(q, given) \/ (rest > 0 /\ credit # q.credit))
      /\ restorations' = restorations +
           (IF PayableSeen(q, given) <= 0 /\ ~q.hold THEN 1 ELSE 0)

allocate_payment(q, amount) ==
  LET given == Allocation(q.invoice, amount)
      rest == amount - SumOver(given, Invoices)
  IN  /\ alloc' = [alloc EXCEPT ![q.on] = given]
      /\ SaveInvoices(q, given)
      /\ credit' = IF rest > 0 THEN q.credit + rest ELSE credit
      /\ overwritten' = (overwritten \/ Stale(q, given) \/ (rest > 0 /\ credit # q.credit))
      /\ restorations' = restorations +
           (IF PayableSeen(q, given) <= 0 /\ ~q.hold THEN 1 ELSE 0)

\* The intent after a capture of t that read its status as seen.
captured_intent(t, seen) ==
  CASE seen \notin {"PENDING", "PARTIALLY_PAID"} -> intent[IntentOf[t]]
    [] Amount[t] >= IntentAmount[IntentOf[t]] /\ seen \in {"PENDING", "PARTIALLY_PAID"} -> "PAID"
    [] OTHER -> IF seen = "PARTIALLY_PAID" THEN intent[IntentOf[t]] ELSE "PARTIALLY_PAID"

commit_payment(s) ==
  LET q == session[s] IN
  /\ q.op \in {"capture", "post"} /\ q.loaded /\ Insertable(q.on)
  /\ txns' = txns \cup {q.on}
  /\ allocate_payment(q, Amount[q.on])
  /\ intent' = IF q.op = "post" THEN intent
               ELSE [intent EXCEPT ![IntentOf[q.on]] = captured_intent(q.on, q.seen)]
  /\ manual' = IF q.op = "capture" THEN manual ELSE [manual EXCEPT ![q.on] = "POSTED"]
  /\ session' = [session EXCEPT ![s] = Idle]
  /\ UNCHANGED <<hold, reversed, refund, refunded>>

request_refund(s) ==
  LET q == session[s] IN
  /\ q.op = "request" /\ refund[q.on] = "NONE"
  /\ refund' = [refund EXCEPT ![q.on] = "PENDING"]
  /\ session' = [session EXCEPT ![s] = Idle]
  /\ UNCHANGED <<invoice, credit, hold, txns, alloc, reversed, refunded, intent, manual,
                 restorations, overwritten>>

\* Mutant: only one allocation is reversed.
Reversals_one(t, amount) ==
  {take \in [Invoices -> 0..amount] :
    \E i \in Invoices : /\ take[i] = Min({amount, alloc[t][i]})
                       /\ \A j \in Invoices \ {i} : take[j] = 0}

\* _reverse_allocations walks the allocations of one payment, which share their
\* created_at, until the amount is spent: all but one are reversed in full or
\* not at all.
Reversals(t, amount) ==
  {take \in [Invoices -> 0..amount] :
    /\ \A i \in Invoices : take[i] <= alloc[t][i]
    /\ Cardinality({i \in Invoices : take[i] \notin {0, alloc[t][i]}}) <= 1
    /\ SumOver(take, Invoices) = Min({amount, SumOver(alloc[t], Invoices)})}

\* Mutant: the constraint is missing.
Reversible_always(t, take) == TRUE

\* uq_bss_allocation: an allocation has at most one reversal.
Reversible(t, take) == \A i \in Invoices : take[i] > 0 => reversed[t][i] = 0

complete_refund(s) ==
  LET q == session[s]
      t == RefundOf[q.on]
  IN
  /\ q.op = "refund" /\ q.loaded
  /\ q.seen = "NONE" => refund[q.on] = "NONE"   \* uq_bss_refund_ref
  /\ \E take \in Reversals(t, RefundAmount[q.on]) :
       LET delta == [i \in Invoices |-> -take[i]] IN
       /\ Reversible(t, take)
       /\ reversed' = [reversed EXCEPT ![t] = [i \in Invoices |-> @[i] + take[i]]]
       /\ SaveInvoices(q, delta)
       /\ overwritten' = (overwritten \/ Stale(q, delta))
  /\ refund' = [refund EXCEPT ![q.on] = "COMPLETED"]
  /\ refunded' = [refunded EXCEPT ![t] = @ + RefundAmount[q.on]]
  /\ session' = [session EXCEPT ![s] = Idle]
  /\ UNCHANGED <<credit, hold, txns, alloc, intent, manual, restorations>>

\* An IntegrityError rolls the request back.
Refused(q) ==
  \/ q.op \in {"capture", "post"} /\ q.loaded /\ ~Insertable(q.on)
  \/ q.op = "request" /\ refund[q.on] # "NONE"
  \/ /\ q.op = "refund" /\ q.loaded
     /\ \/ q.seen = "NONE" /\ refund[q.on] # "NONE"
        \/ \E take \in Reversals(RefundOf[q.on], RefundAmount[q.on]) :
             ~Reversible(RefundOf[q.on], take)

roll_back(s) ==
  /\ Refused(session[s])
  /\ session' = [session EXCEPT ![s] = Idle]
  /\ UNCHANGED <<books, intent, manual, restorations, overwritten>>
-----------------------------------------------------------------------------
Request(s) ==
  \/ \E t \in Captures : capture_payment(s, t)
  \/ \E m \in Manuals : post_manual_payment(s, m)
  \/ \E r \in RefundRefs : create_refund(s, r) \/ approve_refund(s, r)
  \/ load(s) \/ commit_payment(s) \/ request_refund(s) \/ complete_refund(s)
  \/ roll_back(s)

Next ==
  \/ \E i \in Invoices : create_invoice(i)
  \/ \E p \in Intents : create_payment_intent(p) \/ start_hosted_checkout(p)
  \/ \E t \in Payments : create_chargeback(t)
  \/ \E m \in Manuals : \/ create_manual_payment(m) \/ submit_manual_payment(m)
                        \/ approve_manual_payment(m) \/ reject_manual_payment(m)
                        \/ reverse_manual_payment(m)
  \/ \E s \in Sessions : Request(s)

Spec == Init /\ [][Next]_vars
-----------------------------------------------------------------------------
TypeOK ==
  /\ invoice \in [Invoices -> [status : InvoiceStates, paid : Int]]
  /\ \A i \in Invoices : invoice[i].paid <= Total[i]
  /\ credit \in Nat /\ hold \in BOOLEAN /\ overwritten \in BOOLEAN
  /\ intent \in [Intents -> IntentStates]
  /\ txns \subseteq Payments
  /\ alloc \in [Payments -> [Invoices -> Nat]] /\ reversed \in [Payments -> [Invoices -> Nat]]
  /\ refund \in [RefundRefs -> RefundStates] /\ refunded \in [Payments -> Nat]
  /\ manual \in [Manuals -> ManualStates]
  /\ restorations \in Nat
  /\ \A s \in Sessions : session[s].op \in {"idle", "capture", "post", "refund", "request"}

\* The stored balances are projections of the payment rows: unless a commit
\* overwrote a row that had changed since it was read, an invoice has been paid
\* what its allocations less their reversals say, and the account's credit is
\* what its payments did not allocate (allocate_payment, _reverse_allocations).
BooksBalance ==
  ~overwritten =>
    /\ \A i \in Invoices : invoice[i].paid =
         SumOver([t \in Payments |-> alloc[t][i] - reversed[t][i]], Payments)
    /\ credit = SumOver([t \in Payments |-> Amount[t] - SumOver(alloc[t], Invoices)], txns)

FullyAllocated(t) == SumOver(alloc[t], Invoices) = Amount[t]

\* create_refund and approve_refund check in one moment and write in another:
\* two refunds can both pass refundable_amount, one refund can be approved
\* twice. A payment that went to invoices in full is still never refunded
\* beyond its amount, because each completion needs allocations that have no
\* reversal row yet (complete_refund, uq_bss_allocation).
RefundsWithinPayment ==
  \A t \in Payments : FullyAllocated(t) => refunded[t] <= Amount[t]

\* What the journal says was refunded of a fully allocated payment is what its
\* invoices lost, even when refunds race (_reverse_allocations).
RefundsAreReversals ==
  \A t \in Payments : FullyAllocated(t) => SumOver(reversed[t], Invoices) = refunded[t]

\* Both.
RefundsAddUp == RefundsWithinPayment /\ RefundsAreReversals

\* A posted or reversed manual payment has its transaction, whatever other
\* approvals, rejections and postings of it overlap (post_manual_payment).
PostedHasTransaction == \A m \in Manuals : manual[m] \in {"POSTED", "REVERSED"} => m \in txns

\* billing.restoration_eligible.v1 is published only by a step after which no
\* invoice of the account is open, however stale the rows the request computed
\* with (evaluate_restoration); CRM and AAA restore service on this event.
RestorationMeansSettled ==
  [][restorations' # restorations =>
       \A i \in Invoices : invoice'[i].status \notin Open]_vars
=============================================================================
