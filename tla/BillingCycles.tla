--------------------------- MODULE BillingCycles ---------------------------
(***************************************************************************)
(* Recurring invoices of the BSS service (app/billing_cycles.py,           *)
(* app/main.py): the scheduler, every few minutes, and staff, at any time, *)
(* run run_due_billing, which makes one invoice for each schedule that is  *)
(* due.  A run is one transaction under an advisory lock, its schedules    *)
(* locked FOR UPDATE SKIP LOCKED.  The invoices are then paid, set overdue *)
(* and patched by requests that read the row and write it later.           *)
(***************************************************************************)
EXTENDS Naturals, FiniteSets

CONSTANTS
  Accounts,
  Suffix,      \* [Accounts -> the last 24 characters of the account code]
  Cycles,      \* cycle_days of the plans
  Start,       \* next_invoice_at of a new schedule
  MaxTime,     \* bound on the clock
  Amount,      \* of an invoice
  MaxRequests, \* bound on the payments, patches and invoices made by hand
  Handlers, Nobody

\* What the constants may be (assumed of their values in MoneyServices).
BillingAssumption ==
  /\ Cycles \subseteq Nat \ {0} /\ Cycles # {} /\ Start \in Nat /\ MaxTime \in Nat
  /\ Start <= MaxTime /\ MaxRequests \in Nat
  /\ Amount \in Nat \ {0} /\ Nobody \notin Accounts

VARIABLES
  now,
  schedule,  \* [Accounts -> next_invoice_at, cycle_days]
  invoice,   \* [invoice numbers -> row, or NoInvoice]
  paid,      \* [invoice numbers -> sum of the committed payments]
  requests,
  task,      \* [Handlers -> the transaction in flight, or Idle]
  skipped,   \* ghost: periods of an account whose number was taken
  overlapped \* ghost: invoices written by two requests that overlapped

vars == <<now, schedule, invoice, paid, requests, task, skipped, overlapped>>

\* INV-<tail of the code>-<first day of the period>
Numbers == {Suffix[a] : a \in Accounts} \X (Start..MaxTime)
Number(a, s) == <<Suffix[a], s.next>>

NoInvoice == [owner |-> Nobody, days |-> 0, due |-> 0, status |-> "ABSENT"]
Statuses == {"ABSENT", "issued", "partially_paid", "paid", "overdue", "void"}
Idle == [op |-> "idle", rows |-> {}, free |-> {}, number |-> Nobody, seen |-> NoInvoice,
         amount |-> 0, target |-> "-"]
Targets == {"paid", "partially_paid", "overdue", "void"}

\* Every variable stays in its type, and one run at a time holds the lock.
TypeOK ==
  /\ now \in Start..MaxTime /\ requests \in 0..MaxRequests
  /\ schedule \in [Accounts -> [next : Nat, cycle : Cycles]]
  /\ invoice \in [Numbers -> [owner : Accounts \cup {Nobody}, days : Nat, due : 0..Amount, status : Statuses]]
  /\ paid \in [Numbers -> Nat]
  /\ \A h \in Handlers :
       /\ task[h].op \in {"idle", "run", "pay", "patch", "refresh"}
       /\ task[h].free \subseteq task[h].rows /\ task[h].rows \subseteq Accounts
       /\ task[h].op \in {"pay", "patch", "refresh"} => task[h].number \in Numbers
  /\ Cardinality({h \in Handlers : task[h].op = "run"}) <= 1
  /\ skipped \subseteq Accounts \X Nat /\ overlapped \subseteq Numbers

Init ==
  /\ now = Start /\ requests = 0
  /\ schedule \in [Accounts -> [next : {Start}, cycle : Cycles]]
  /\ invoice = [n \in Numbers |-> NoInvoice]
  /\ paid = [n \in Numbers |-> 0]
  /\ task = [h \in Handlers |-> Idle]
  /\ skipped = {} /\ overlapped = {}

---------------------------------------------------------------------------
Tick ==
  /\ now < MaxTime
  /\ now' = now + 1
  /\ UNCHANGED <<schedule, invoice, paid, requests, task, skipped, overlapped>>

\* The rows a run has locked until it ends.
Locked(a) == \E h \in Handlers : task[h].op = "run" /\ a \in task[h].rows

\* update_billing_plan: the new cycle counts from the next invoice on.
ChangePlan(a, c) ==
  /\ ~Locked(a) /\ c # schedule[a].cycle
  /\ schedule' = [schedule EXCEPT ![a].cycle = c]
  /\ UNCHANGED <<now, invoice, paid, requests, task, skipped, overlapped>>

\* create_invoice with a number of the caller's choice.
CreateInvoice(n) ==
  /\ invoice[n] = NoInvoice /\ requests < MaxRequests
  /\ invoice' = [invoice EXCEPT ![n] = [NoInvoice EXCEPT !.due = Amount, !.status = "issued"]]
  /\ requests' = requests + 1
  /\ UNCHANGED <<now, schedule, paid, task, skipped, overlapped>>

---------------------------------------------------------------------------
\* The schedules a run may take: those of an inactive plan are failures, a run
\* may be for one tenant, takes 1000 at most, and none that another transaction
\* has locked.
Due == {a \in Accounts : schedule[a].next <= now}

\* run_due_billing up to its commit, by the one run that gets the lock.  The
\* others get an invoice where their number is free, and are advanced in any
\* case.
RunBegin(h, rows) ==
  /\ task[h] = Idle /\ rows # {} /\ rows \subseteq Due
  /\ \A g \in Handlers : task[g].op # "run"
  /\ task' = [task EXCEPT ![h] = [Idle EXCEPT !.op = "run", !.rows = rows,
       !.free = {a \in rows : invoice[Number(a, schedule[a])] = NoInvoice}]]
  /\ UNCHANGED <<now, schedule, invoice, paid, requests, skipped, overlapped>>

\* An advance from today, not from the period just billed.
Late_Advanced(s) == [s EXCEPT !.next = now + s.cycle]

\* The next period starts where the billed one ends.
Advanced(s) == [s EXCEPT !.next = @ + s.cycle]

\* invoice_number is unique: were the number taken since, or by two of the
\* run's own invoices, the run fails as a whole and is rolled back.
RunCommit(h) ==
  LET t == task[h]
      N(a) == Number(a, schedule[a])
      fails == \/ \E a \in t.free : invoice[N(a)] # NoInvoice
               \/ \E a, b \in t.free : a # b /\ N(a) = N(b)
  IN /\ t.op = "run"
     /\ \/ /\ fails /\ UNCHANGED <<schedule, invoice, skipped>>
        \/ /\ ~fails
           /\ schedule' = [a \in Accounts |-> IF a \in t.rows THEN Advanced(schedule[a]) ELSE schedule[a]]
           /\ invoice' = [n \in Numbers |->
                IF \E a \in t.free : N(a) = n
                  THEN LET a == CHOOSE b \in t.free : N(b) = n
                       IN [owner |-> a, days |-> schedule[a].cycle, due |-> Amount, status |-> "issued"]
                  ELSE invoice[n]]
           /\ skipped' = skipped \cup UNION {
                {<<a, d>> : d \in schedule[a].next..(schedule[a].next + schedule[a].cycle - 1)}
                  : a \in t.rows \ t.free}
     /\ task' = [task EXCEPT ![h] = Idle]
     /\ UNCHANGED <<now, paid, requests, overlapped>>

---------------------------------------------------------------------------
\* A request reads the row of its invoice.
Take(h, op, n, amount, target) ==
  /\ task[h] = Idle
  /\ task' = [task EXCEPT ![h] = [Idle EXCEPT !.op = op, !.number = n, !.seen = invoice[n],
                                             !.amount = amount, !.target = target]]
  /\ UNCHANGED <<now, schedule, invoice, paid, skipped, overlapped>>

\* record_payment: the amount is compared with the balance, the status is not
\* looked at.
PayBegin(h, n, amount) ==
  /\ invoice[n] # NoInvoice /\ amount <= invoice[n].due
  /\ requests < MaxRequests /\ requests' = requests + 1
  /\ Take(h, "pay", n, amount, "-")

PatchTransitions ==
  [ABSENT |-> {}, issued |-> {"overdue", "void"}, partially_paid |-> {"paid", "overdue"},
   overdue |-> {"partially_paid", "paid", "void"}, paid |-> {}, void |-> {}]

\* update_invoice
PatchBegin(h, n, target) ==
  /\ target \in PatchTransitions[invoice[n].status]
  /\ requests < MaxRequests /\ requests' = requests + 1
  /\ Take(h, "patch", n, 0, target)

\* refresh_overdue_invoices, for one of the invoices it selects; their due date
\* may have passed at any time.
RefreshBegin(h, n) ==
  /\ invoice[n].status \in {"issued", "partially_paid"} /\ invoice[n].due > 0
  /\ UNCHANGED requests
  /\ Take(h, "refresh", n, 0, "overdue")

\* The row a request makes of the one it read.
After(t) ==
  IF t.op = "pay"
  THEN [t.seen EXCEPT !.due = @ - t.amount,
                      !.status = IF t.seen.due = t.amount THEN "paid" ELSE "partially_paid"]
  ELSE [t.seen EXCEPT !.status = t.target]

\* A column is written only when its value differs from the one read.
Column(read, new, current) == IF new = read THEN current ELSE new

Write(h) ==
  LET t == task[h]
      n == t.number
      new == After(t)
  IN /\ t.op \in {"pay", "patch", "refresh"}
     /\ invoice' = [invoice EXCEPT ![n] = [f \in DOMAIN NoInvoice |-> Column(t.seen[f], new[f], invoice[n][f])]]
     /\ paid' = IF t.op = "pay" THEN [paid EXCEPT ![n] = @ + t.amount] ELSE paid
     /\ overlapped' = overlapped \cup (IF invoice[n] # t.seen THEN {n} ELSE {})
     /\ task' = [task EXCEPT ![h] = Idle]
     /\ UNCHANGED <<now, schedule, requests, skipped>>

\* The process dies, or the database refuses: everything is rolled back.
Die(h) ==
  /\ task[h] # Idle
  /\ task' = [task EXCEPT ![h] = Idle]
  /\ UNCHANGED <<now, schedule, invoice, paid, requests, skipped, overlapped>>

Next ==
  \/ Tick
  \/ \E a \in Accounts, c \in Cycles : ChangePlan(a, c)
  \/ \E n \in Numbers : CreateInvoice(n)
  \/ \E h \in Handlers :
       \/ RunCommit(h) \/ Write(h) \/ Die(h)
       \/ \E rows \in SUBSET Due : RunBegin(h, rows)
       \/ \E n \in Numbers :
            \/ \E amount \in 1..Amount : PayBegin(h, n, amount)
            \/ \E target \in Targets : PatchBegin(h, n, target)
            \/ RefreshBegin(h, n)

Spec == Init /\ [][Next]_vars

---------------------------------------------------------------------------
(* Properties *)

\* "Idempotent recurring invoice generation" (billing_cycles.py:1).  However
\* late, often and concurrently runs are made, fail or die, plans are retired
\* and changed: each day of an account up to its next invoice is billed by
\* exactly one of its invoices, or by none if the number of its period was
\* taken, by hand or by an account whose code ends the same.
EachDayBilledOnce ==
  \A a \in Accounts : \A d \in Start..(schedule[a].next - 1) :
    Cardinality({n \in Numbers : invoice[n].owner = a /\ n[2] <= d /\ d < n[2] + invoice[n].days})
      = IF <<a, d>> \in skipped THEN 0 ELSE 1

\* An invoice is due by what its payments leave (record_payment), and is PAID
\* once they leave nothing, whatever is patched and refreshed in between, unless
\* one of these wrote the row while another had read it.
DueIsUnpaid ==
  \A n \in Numbers \ overlapped : invoice[n] # NoInvoice =>
    /\ invoice[n].due + paid[n] = Amount
    /\ invoice[n].due = 0 => invoice[n].status = "paid"

\* Both.
InvoicesAddUp == EachDayBilledOnce /\ DueIsUnpaid
============================================================================
