----------------------- MODULE RevenuePaymentsProofs ------------------------
(***************************************************************************)
(* What holds of payments for any number of invoices, payments, refunds    *)
(* and overlapping requests.                                               *)
(***************************************************************************)
EXTENDS RevenuePayments, SumFacts, TLAPS

\* A request, whatever it has loaded: a record with these two fields.
Requested(q) ==
  /\ q = [f \in DOMAIN q |-> q[f]] /\ {"op", "on"} \subseteq DOMAIN q
  /\ q.op = "post" => q.on \in Manuals

\* Manual payments keep a state of their table, and a request posts only one.
ManualOK ==
  /\ manual \in [Manuals -> ManualStates]
  /\ session = [s \in Sessions |-> session[s]]
  /\ \A s \in Sessions : Requested(session[s])

PostInv == ManualOK /\ PostedHasTransaction

\* The table is closed.
LEMMA ManualTable ==
  /\ {"NONE", "DRAFT", "SUBMITTED", "UNDER_REVIEW", "APPROVED", "REJECTED", "POSTED", "REVERSED"}
       \subseteq ManualStates
  /\ {"POSTED", "REVERSED"} \cap {"NONE", "DRAFT", "SUBMITTED", "UNDER_REVIEW", "APPROVED", "REJECTED"} = {}
BY DEF ManualStates, MANUAL_PAYMENT_TRANSITIONS

\* A step that touches neither manual payments nor the transactions, and leaves
\* the requests what they were.
LEMMA Elsewhere ==
  ASSUME PostInv, manual' = manual, txns \subseteq txns',
         \/ session' = session
         \/ \E s \in Sessions : \E q : Requested(q) /\ session' = [session EXCEPT ![s] = q]
  PROVE  PostInv'
<1>1. session' = [s \in Sessions |-> session'[s]] /\ \A s \in Sessions : Requested(session'[s])
  BY DEF PostInv, ManualOK
<1> QED
  BY <1>1 DEF PostInv, ManualOK, PostedHasTransaction, Requested

LEMMA IdleRequested == Requested(Idle)
BY DEF Idle, Requested

\* A manual payment moves to a state that needs no transaction, or is reversed
\* after it was posted.
LEMMA ManualMoves ==
  ASSUME PostInv, NEW m \in Manuals,
         \/ create_manual_payment(m) \/ submit_manual_payment(m)
         \/ approve_manual_payment(m) \/ reject_manual_payment(m)
         \/ reverse_manual_payment(m)
  PROVE  PostInv'
<1>1. UNCHANGED <<txns, session>>
  BY DEF create_manual_payment, submit_manual_payment, approve_manual_payment,
    reject_manual_payment, reverse_manual_payment, manual_to, books
<1>2. CASE reverse_manual_payment(m)
  BY <1>1, <1>2, ManualTable
  DEF reverse_manual_payment, manual_to, PostInv, ManualOK, PostedHasTransaction, Requested
<1>3. CASE ~reverse_manual_payment(m)
  <2>1. PICK status \in {"DRAFT", "SUBMITTED", "UNDER_REVIEW", "APPROVED", "REJECTED"} :
          manual' = [manual EXCEPT ![m] = status]
    BY <1>3 DEF create_manual_payment, submit_manual_payment, approve_manual_payment,
      reject_manual_payment, manual_to
  <2> QED
    BY <1>1, <2>1, ManualTable DEF PostInv, ManualOK, PostedHasTransaction, Requested
<1> QED
  BY <1>2, <1>3

\* A request begins with what it read, and loads rows.
LEMMA Beginning ==
  ASSUME PostInv, NEW s \in Sessions,
         \/ \E t \in Captures : capture_payment(s, t)
         \/ \E m \in Manuals : post_manual_payment(s, m)
         \/ \E r \in RefundRefs : create_refund(s, r) \/ approve_refund(s, r)
         \/ load(s)
  PROVE  PostInv'
<1>0. session = [x \in Sessions |-> session[x]] /\ Requested(session[s])
  BY DEF PostInv, ManualOK
<1>1. CASE load(s)
  <2> DEFINE q == [session[s] EXCEPT !.loaded = TRUE, !.invoice = invoice, !.credit = credit, !.hold = hold]
  <2>1. Requested(q)
    <3>1. q.op = session[s].op /\ q.on = session[s].on /\ DOMAIN q = DOMAIN session[s]
          /\ q = [f \in DOMAIN q |-> q[f]]
      BY <1>0 DEF Requested
    <3> QED
      BY <1>0, <3>1 DEF Requested
  <2>2. session' = [session EXCEPT ![s] = q]
    BY <1>0, <1>1 DEF load, Requested
  <2>3. manual' = manual /\ txns' = txns
    BY <1>1 DEF load, books
  <2> HIDE DEF q
  <2> QED
    BY <2>1, <2>2, <2>3, Elsewhere
<1>2. CASE ~load(s)
  <2>1. PICK op, x, status : begin(s, op, x, status) /\ (op = "post" => x \in Manuals)
    BY <1>2 DEF capture_payment, post_manual_payment, create_refund, approve_refund
  <2>2. Requested([Idle EXCEPT !.op = op, !.on = x, !.seen = status])
    <3> DEFINE q == [Idle EXCEPT !.op = op, !.on = x, !.seen = status]
    <3>1. q.op = op /\ q.on = x /\ DOMAIN q = DOMAIN Idle /\ q = [f \in DOMAIN q |-> q[f]]
      BY DEF Idle
    <3>2. Requested(q)
      BY <2>1, <3>1, IdleRequested DEF Requested
    <3> QED
      BY <3>2
  <2>3. manual' = manual /\ txns' = txns
    BY <2>1 DEF begin, books
  <2> QED
    BY <2>1, <2>2, <2>3, Elsewhere DEF begin
<1> QED
  BY <1>1, <1>2

\* The commit of a payment, with its transaction; the others post nothing.
LEMMA Ending ==
  ASSUME PostInv, NEW s \in Sessions,
         commit_payment(s) \/ request_refund(s) \/ complete_refund(s) \/ roll_back(s)
  PROVE  PostInv'
<1>0. session' = [session EXCEPT ![s] = Idle]
  BY DEF commit_payment, request_refund, complete_refund, roll_back
<1>1. CASE commit_payment(s) /\ session[s].op = "capture"
  <2>1. manual' = manual /\ txns \subseteq txns'
    BY <1>1 DEF commit_payment
  <2> QED
    BY <1>0, <2>1, Elsewhere, IdleRequested
<1>2. CASE commit_payment(s) /\ session[s].op # "capture"
  <2>1. /\ session[s].on \in Manuals
        /\ txns' = txns \cup {session[s].on}
        /\ manual' = [manual EXCEPT ![session[s].on] = "POSTED"]
    BY <1>2 DEF commit_payment, PostInv, ManualOK, Requested
  <2>2. session' = [x \in Sessions |-> session'[x]] /\ \A x \in Sessions : Requested(session'[x])
    BY <1>0, IdleRequested DEF PostInv, ManualOK
  <2> QED
    BY <2>1, <2>2, ManualTable DEF PostInv, ManualOK, PostedHasTransaction, Requested
<1>3. CASE request_refund(s) \/ complete_refund(s) \/ roll_back(s)
  <2>1. manual' = manual /\ txns' = txns
    BY <1>3 DEF request_refund, complete_refund, roll_back, books
  <2> QED
    BY <1>0, <2>1, Elsewhere, IdleRequested
<1> QED
  BY <1>1, <1>2, <1>3

\* However approvals, rejections, reversals and postings overlap, a manual payment
\* is POSTED or REVERSED only with its transaction.
THEOREM PostedIsBooked == Spec => []PostedHasTransaction
<1>1. Init => PostInv
  BY ManualTable, IdleRequested DEF Init, PostInv, ManualOK, PostedHasTransaction
<1>2. PostInv /\ [Next]_vars => PostInv'
  <2> SUFFICES ASSUME PostInv, [Next]_vars PROVE PostInv'
    OBVIOUS
  <2>1. CASE \/ \E i \in Invoices : create_invoice(i)
             \/ \E p \in Intents : create_payment_intent(p) \/ start_hosted_checkout(p)
             \/ \E t \in Payments : create_chargeback(t)
             \/ UNCHANGED vars
    <3>1. manual' = manual /\ txns' = txns /\ session' = session
      BY <2>1 DEF create_invoice, create_payment_intent, start_hosted_checkout, create_chargeback,
        books, vars
    <3> QED
      BY <3>1, Elsewhere
  <2>2. ASSUME NEW m \in Manuals,
               \/ create_manual_payment(m) \/ submit_manual_payment(m)
               \/ approve_manual_payment(m) \/ reject_manual_payment(m)
               \/ reverse_manual_payment(m)
        PROVE  PostInv'
    BY <2>2, ManualMoves
  <2>3. ASSUME NEW s \in Sessions, Request(s) PROVE PostInv'
    BY <2>3, Beginning, Ending DEF Request
  <2> QED
    BY <2>1, <2>2, <2>3 DEF Next
<1>3. PostInv => PostedHasTransaction
  BY DEF PostInv
<1> QED
  BY <1>1, <1>2, <1>3, PTL DEF Spec
---------------------------------------------------------------------------
(* What the requests compute with *)

Row == [status : InvoiceStates, paid : Int]

\* Rows no invoice of which is paid more than its total, nor in full without
\* being shown as PAID.
SoundRows(rows) ==
  /\ rows \in [Invoices -> Row]
  /\ \A i \in Invoices :
       /\ rows[i].paid <= Total[i]
       /\ rows[i].status # "PAID" => rows[i].paid < Total[i]

Requests ==
  [op : {"idle", "capture", "post", "refund", "request"},
   on : Payments \cup RefundRefs \cup {None},
   seen : IntentStates \cup ManualStates \cup RefundStates, loaded : BOOLEAN,
   invoice : {<<>>} \cup [Invoices -> Row], credit : Nat, hold : BOOLEAN]

\* The payment a refund is of was posted, and was large enough.
Refundable(r) == RefundOf[r] \in txns /\ RefundAmount[r] <= Amount[RefundOf[r]]

SoundRequest(q) ==
  /\ q \in Requests
  /\ q.loaded => SoundRows(q.invoice)
  /\ q.op = "capture" => q.on \in Captures
  /\ q.op = "post" => q.on \in Manuals
  /\ q.op \in {"refund", "request"} => q.on \in RefundRefs /\ Refundable(q.on)

\* The allocations, reversals and refunds of payments, posted or not.
PaymentRows ==
  /\ \A t \in Payments, i \in Invoices : reversed[t][i] <= alloc[t][i]
  /\ \A t \in Payments \ txns : refunded[t] = 0 /\ \A i \in Invoices : alloc[t][i] = 0
  /\ \A r \in RefundRefs : refund[r] # "NONE" => Refundable(r)

\* The types, as parts that one action can disturb.
TypesOfBooks ==
  /\ credit \in Nat /\ hold \in BOOLEAN /\ txns \subseteq Payments
  /\ alloc \in [Payments -> [Invoices -> Nat]] /\ reversed \in [Payments -> [Invoices -> Nat]]
  /\ refund \in [RefundRefs -> RefundStates] /\ refunded \in [Payments -> Nat]
TypesElsewhere ==
  /\ overwritten \in BOOLEAN /\ restorations \in Nat
  /\ intent \in [Intents -> IntentStates] /\ manual \in [Manuals -> ManualStates]

Session == /\ session = [s \in Sessions |-> session[s]]
           /\ \A s \in Sessions : SoundRequest(session[s])

MoneyInv ==
  /\ TypesOfBooks /\ TypesElsewhere /\ SoundRows(invoice) /\ Session /\ PaymentRows
  /\ BooksBalance /\ RefundsAreReversals

\* The smaller and the larger of two numbers.
LEMMA OfTwo ==
  ASSUME NEW a \in Int, NEW b \in Int
  PROVE  /\ Min({a, b}) = IF a <= b THEN a ELSE b
         /\ Max({a, b}) = IF a >= b THEN a ELSE b
<1>1. \A x \in {a, b} : (\A y \in {a, b} : x <= y) <=> x = IF a <= b THEN a ELSE b
  OBVIOUS
<1>2. \A x \in {a, b} : (\A y \in {a, b} : x >= y) <=> x = IF a >= b THEN a ELSE b
  OBVIOUS
<1> QED BY <1>1, <1>2 DEF Min, Max

\* What the model's constants say of an invoice, and of the sets summed over.
LEMMA Constants ==
  /\ \A i \in Invoices : Total[i] \in Nat /\ Total[i] > 0
  /\ \A t \in Payments : Amount[t] \in Nat /\ Amount[t] > 0
  /\ \A r \in RefundRefs : RefundAmount[r] \in Nat /\ RefundAmount[r] > 0 /\ RefundOf[r] \in Payments
  /\ IsFiniteSet(Invoices) /\ IsFiniteSet(Payments) /\ IsFiniteSet(RefundRefs)
<1>1. NumInvoices \in Int /\ 1 \in Int
  BY RevenueAssumption
<1>2. IsFiniteSet(1..NumInvoices)
  BY <1>1, FS_Interval
<1> QED BY <1>2, RevenueAssumption DEF Invoices

\* What is due is never negative, and only on an open invoice.
LEMMA DueIsNat ==
  ASSUME NEW rows, SoundRows(rows), NEW i \in Invoices
  PROVE  /\ Due(rows[i], i) \in Nat
         /\ rows[i].paid \in Int /\ rows[i].paid + Due(rows[i], i) <= Total[i]
         /\ Due(rows[i], i) # 0 => rows[i].status \in Open
BY Constants DEF SoundRows, Row, Due

\* The first n invoices get together what is due on them, or all of the amount.
LEMMA FirstInvoices ==
  ASSUME NEW rows, SoundRows(rows), NEW amount \in Nat, NEW n \in 0..NumInvoices
  PROVE  LET due == [j \in Invoices |-> Due(rows[j], j)]
         IN  SumOver(Allocation(rows, amount), 1..n)
               = IF amount <= SumOver(due, 1..n) THEN amount ELSE SumOver(due, 1..n)
<1> DEFINE due == [j \in Invoices |-> Due(rows[j], j)]
           given == Allocation(rows, amount)
           Split(m) == SumOver(given, 1..m)
                         = IF amount <= SumOver(due, 1..m) THEN amount ELSE SumOver(due, 1..m)
           Bad == {T \in SUBSET Invoices : \E m \in 0..NumInvoices : T = 1..m /\ ~Split(m)}
<1>0. NumInvoices \in Nat
  BY RevenueAssumption
<1>1. ASSUME Bad # {} PROVE FALSE
  <2>1. PICK T \in Bad : \A U \in Bad : U \subseteq T => U = T
    <3>1. Bad \in SUBSET SUBSET Invoices
      OBVIOUS
    <3> HIDE DEF Bad
    <3> QED BY <1>1, <3>1, Smallest, Constants
  <2>2. PICK m \in 0..NumInvoices : T = 1..m /\ ~Split(m)
    BY <2>1
  <2>3. m # 0
    <3>1. ASSUME m = 0 PROVE Split(m)
      <4>1. SumOver(given, {}) = 0 /\ SumOver(due, {}) = 0
        BY SumEmpty
      <4>2. 1..m = {}
        BY <3>1
      <4> QED BY <4>1, <4>2
    <3> QED BY <2>2, <3>1
  <2> DEFINE before == 1..(m - 1)
  <2>4. /\ m \in Invoices /\ m - 1 \in 0..NumInvoices /\ m \notin before
        /\ 1..m = before \cup {m} /\ before \subseteq T /\ before # T /\ before \subseteq Invoices
    BY <1>0, <2>2, <2>3 DEF Invoices
  <2>5. Split(m - 1)
    <3>1. before \notin Bad
      <4> HIDE DEF Bad, before
      <4> QED BY <2>1, <2>4
    <3> HIDE DEF Split
    <3> QED BY <2>4, <3>1
  <2>6. IsFiniteSet(before)
    BY <2>4, Constants, FS_Subset
  <2>7. \A j \in Invoices : due[j] = Due(rows[j], j) /\ due[j] \in Nat
    BY DueIsNat
  <2> DEFINE d == SumOver(due, before)
  <2>8. d \in Nat
    <3>1. \A j \in before : due[j] \in Nat
      BY <2>4, <2>7
    <3> HIDE DEF due, before
    <3> QED BY <3>1, <2>6, SumNat
  <2>9. \A j \in Invoices :
          given[j] = Min({due[j], Max({0, amount - SumOver(due, 1..(j - 1))})})
    BY DEF Allocation
  <2>10. \A j \in Invoices : given[j] \in Int
    <3> TAKE j \in Invoices
    <3> DEFINE front == 1..(j - 1)
               b == SumOver(due, front)
               left == Max({0, amount - b})
    <3>1. b \in Int
      <4>1. IsFiniteSet(front) /\ front \subseteq Invoices
        BY <1>0, Constants, FS_Subset DEF Invoices
      <4> HIDE DEF due, front
      <4> QED BY <4>1, <2>7, SumInt
    <3>2. given[j] = Min({due[j], left})
      BY <2>9
    <3> HIDE DEF due, given, b
    <3>3. left \in Int
      <4>1. 0 \in Int /\ amount - b \in Int
        BY <3>1
      <4> QED BY <4>1, OfTwo
    <3> HIDE DEF left
    <3> QED BY <3>2, <3>3, <2>7, OfTwo
  <2>11. given[m] = IF due[m] <= (IF 0 >= amount - d THEN 0 ELSE amount - d) THEN due[m]
                    ELSE (IF 0 >= amount - d THEN 0 ELSE amount - d)
    <3>1. Max({0, amount - d}) = IF 0 >= amount - d THEN 0 ELSE amount - d
      <4> HIDE DEF d
      <4>1. 0 \in Int /\ amount - d \in Int
        BY <2>8
      <4> QED BY <4>1, OfTwo
    <3>2. given[m] = Min({due[m], Max({0, amount - d})})
      BY <2>4, <2>9
    <3>3. Max({0, amount - d}) \in Int /\ due[m] \in Int
      <4> HIDE DEF d
      <4> QED BY <3>1, <2>4, <2>7, <2>8
    <3> HIDE DEF d, due, given
    <3> QED BY <3>1, <3>2, <3>3, OfTwo, ZenonT(30)
  <2>12. SumOver(given, 1..m) = given[m] + SumOver(given, before)
         /\ SumOver(due, 1..m) = due[m] + d
    <3>1. \A x \in before \cup {m} : given[x] \in Int /\ due[x] \in Int
      BY <2>4, <2>7, <2>10
    <3> HIDE DEF given, due, before
    <3> QED BY <2>4, <2>6, <3>1, SumAdd
  <2>13. SumOver(given, before) = IF amount <= d THEN amount ELSE d
    BY <2>5
  <2>14. \A k \in {m} : due[k] \in Nat
    BY <2>4, <2>7
  <2> HIDE DEF given, due, d, before
  <2>15. SumOver(given, 1..m)
           = IF amount <= SumOver(due, 1..m) THEN amount ELSE SumOver(due, 1..m)
    BY <2>14, <2>8, <2>11, <2>12, <2>13
  <2> QED BY <2>2, <2>15
<1>2. Split(n)
  <2>1. 1..n \in SUBSET Invoices
    BY <1>0 DEF Invoices
  <2> HIDE DEF Split
  <2> QED BY <1>1, <2>1
<1> QED BY <1>2

\* An allocation gives no invoice more than is due on it and not more than the
\* amount in all.
LEMMA AllocationFacts ==
  ASSUME NEW rows, SoundRows(rows), NEW amount \in Nat
  PROVE  /\ Allocation(rows, amount) \in [Invoices -> Nat]
         /\ \A i \in Invoices : Allocation(rows, amount)[i] <= Due(rows[i], i)
         /\ SumOver(Allocation(rows, amount), Invoices) \in Nat
         /\ SumOver(Allocation(rows, amount), Invoices) <= amount
<1> DEFINE due == [j \in Invoices |-> Due(rows[j], j)]
           given == Allocation(rows, amount)
<1>0. NumInvoices \in Nat
  BY RevenueAssumption
<1>1. \A j \in Invoices : due[j] = Due(rows[j], j) /\ due[j] \in Nat
  BY DueIsNat
<1>2. \A j \in Invoices : given[j] \in Nat /\ given[j] <= due[j]
  <2> TAKE j \in Invoices
  <2> DEFINE front == 1..(j - 1)
             b == SumOver(due, front)
             left == Max({0, amount - b})
  <2>1. b \in Int
    <3>1. IsFiniteSet(front) /\ front \subseteq Invoices
      BY <1>0, Constants, FS_Subset DEF Invoices
    <3> HIDE DEF due, front
    <3> QED BY <3>1, <1>1, SumInt
  <2>2. given[j] = Min({due[j], left})
    BY DEF Allocation
  <2> HIDE DEF b, due, given
  <2>3. left = IF 0 >= amount - b THEN 0 ELSE amount - b
    BY <2>1, OfTwo
  <2>4. left \in Nat
    BY <2>1, <2>3
  <2> HIDE DEF left
  <2> QED BY <2>2, <2>4, <1>1, OfTwo
<1>3. given \in [Invoices -> Nat]
  BY <1>2 DEF Allocation
<1>4. SumOver(given, Invoices) \in Nat
  <2> HIDE DEF given
  <2> QED BY <1>2, Constants, SumNat
<1>5. SumOver(due, Invoices) \in Nat
  <2> HIDE DEF due
  <2> QED BY <1>1, Constants, SumNat
<1>6. SumOver(given, Invoices) <= amount
  <2>1. SumOver(given, 1..NumInvoices)
          = IF amount <= SumOver(due, 1..NumInvoices) THEN amount ELSE SumOver(due, 1..NumInvoices)
    BY <1>0, FirstInvoices
  <2> HIDE DEF given, due
  <2> QED BY <2>1, <1>5 DEF Invoices
<1> QED BY <1>1, <1>2, <1>3, <1>4, <1>6

---------------------------------------------------------------------------
(* What the steps have in common *)

\* Rows that are written keep their soundness when no more is paid than is due.
LEMMA SavedRows ==
  ASSUME SoundRows(invoice), NEW q, SoundRows(q.invoice), NEW delta \in [Invoices -> Int],
         \A i \in Invoices : delta[i] # 0 =>
            \/ q.invoice[i].paid + delta[i] < Total[i]
            \/ q.invoice[i].paid + delta[i] = Total[i] /\ q.invoice[i].status \in Open,
         SaveInvoices(q, delta)
  PROVE  /\ SoundRows(invoice')
         /\ \A i \in Invoices : invoice'[i].paid
              = IF delta[i] = 0 THEN invoice[i].paid ELSE q.invoice[i].paid + delta[i]
<1>1. ASSUME NEW i \in Invoices, delta[i] # 0
      PROVE  /\ invoice'[i] \in Row
             /\ invoice'[i].paid = q.invoice[i].paid + delta[i]
             /\ invoice'[i].paid <= Total[i]
             /\ invoice'[i].status # "PAID" => invoice'[i].paid < Total[i]
  <2> DEFINE paid == q.invoice[i].paid + delta[i]
             read == q.invoice[i]
             status == derive_invoice_status(read.status, i, paid)
  <2>1. invoice'[i] = [status |-> IF status = read.status THEN invoice[i].status ELSE status,
                       paid |-> paid]
    BY <1>1 DEF SaveInvoices, Written
  <2>2. read \in Row /\ invoice[i] \in Row /\ paid \in Int /\ Total[i] \in Nat /\ Total[i] > 0
    BY Constants DEF SoundRows, Row
  <2>3. status \in InvoiceStates /\ (paid = Total[i] => status = "PAID")
    BY <2>2 DEF derive_invoice_status, InvoiceStates, Open, Row
  <2>4. paid < Total[i] \/ (paid = Total[i] /\ read.status \in Open)
    BY <1>1
  <2>5. "PAID" \notin Open
    BY DEF Open
  <2> HIDE DEF status, paid, read
  <2> QED BY <2>1, <2>2, <2>3, <2>4, <2>5 DEF Row, paid, read
<1>2. ASSUME NEW i \in Invoices, delta[i] = 0 PROVE invoice'[i] = invoice[i]
  BY <1>2 DEF SaveInvoices
<1>3. invoice' \in [Invoices -> Row]
  <2>1. invoice' = [i \in Invoices |-> invoice'[i]]
    BY DEF SaveInvoices
  <2>2. \A i \in Invoices : invoice'[i] \in Row
    BY <1>1, <1>2 DEF SoundRows
  <2> QED BY <2>1, <2>2
<1> QED BY <1>1, <1>2, <1>3 DEF SoundRows

\* A request that goes on leaves the others what they were.
LEMMA SessionStep ==
  ASSUME Session, txns \subseteq txns',
         \/ session' = session
         \/ \E s \in Sessions : \E q : SoundRequest(q) /\ session' = [session EXCEPT ![s] = q]
  PROVE  Session'
<1>1. \A q : SoundRequest(q) => SoundRequest(q)'
  BY DEF SoundRequest, Refundable
<1>2. CASE session' = session
  BY <1>1, <1>2 DEF Session
<1>3. CASE \E s \in Sessions : \E q : SoundRequest(q) /\ session' = [session EXCEPT ![s] = q]
  <2>0. PICK s \in Sessions : \E q : SoundRequest(q) /\ session' = [session EXCEPT ![s] = q]
    BY <1>3
  <2>1. PICK q : SoundRequest(q) /\ session' = [session EXCEPT ![s] = q]
    BY <2>0
  <2>2. session' = [x \in Sessions |-> session'[x]]
    BY <2>1 DEF Session
  <2>3. \A x \in Sessions : SoundRequest(session'[x])
    BY <2>1 DEF Session
  <2> QED BY <1>1, <2>2, <2>3 DEF Session
<1> QED BY <1>2, <1>3

LEMMA IdleIsSound == SoundRequest(Idle)
BY DEF Idle, SoundRequest, Requests, IntentStates

\* A step that moves no money.
LEMMA NoMoneyMoves ==
  ASSUME MoneyInv, UNCHANGED <<credit, txns, alloc, reversed, refunded, overwritten>>,
         hold' \in BOOLEAN, TypesElsewhere', Session',
         SoundRows(invoice'), \A i \in Invoices : invoice'[i].paid = invoice[i].paid,
         \/ refund' = refund
         \/ \E r \in RefundRefs : Refundable(r) /\ refund' = [refund EXCEPT ![r] = "PENDING"]
  PROVE  MoneyInv'
<1>1. TypesOfBooks'
  BY DEF MoneyInv, TypesOfBooks, RefundStates
<1>2. PaymentRows'
  BY DEF MoneyInv, TypesOfBooks, PaymentRows, Refundable
<1>3. BooksBalance'
  BY DEF MoneyInv, BooksBalance
<1>4. RefundsAreReversals'
  BY DEF MoneyInv, RefundsAreReversals, FullyAllocated
<1> QED BY <1>1, <1>2, <1>3, <1>4 DEF MoneyInv
---------------------------------------------------------------------------
(* The steps *)

\* Invoices, intents, holds and manual payments.
LEMMA OtherMoves ==
  ASSUME MoneyInv,
         \/ \E i \in Invoices : create_invoice(i)
         \/ \E p \in Intents : create_payment_intent(p) \/ start_hosted_checkout(p)
         \/ \E t \in Payments : create_chargeback(t)
         \/ \E m \in Manuals : \/ create_manual_payment(m) \/ submit_manual_payment(m)
                               \/ approve_manual_payment(m) \/ reject_manual_payment(m)
                               \/ reverse_manual_payment(m)
         \/ UNCHANGED vars
  PROVE  MoneyInv'
<1>1. UNCHANGED <<credit, txns, alloc, reversed, refund, refunded, session, overwritten, restorations>>
  BY DEF create_invoice, create_payment_intent, start_hosted_checkout, create_chargeback,
    create_manual_payment, submit_manual_payment, approve_manual_payment, reject_manual_payment,
    reverse_manual_payment, manual_to, books, vars
<1>2. Session'
  BY <1>1, SessionStep DEF MoneyInv
<1>3. hold' \in BOOLEAN
  BY DEF MoneyInv, TypesOfBooks, create_invoice, create_payment_intent, start_hosted_checkout,
    create_chargeback, create_manual_payment, submit_manual_payment, approve_manual_payment,
    reject_manual_payment, reverse_manual_payment, manual_to, books, vars
<1>4. TypesElsewhere'
  <2>1. intent' \in [Intents -> IntentStates]
    BY DEF MoneyInv, TypesElsewhere, IntentStates, create_invoice, create_payment_intent,
      start_hosted_checkout, create_chargeback, create_manual_payment, submit_manual_payment,
      approve_manual_payment, reject_manual_payment, reverse_manual_payment, manual_to, vars
  <2>2. manual' = manual \/ \E m \in Manuals, x \in ManualStates : manual' = [manual EXCEPT ![m] = x]
    BY ManualTable DEF create_invoice, create_payment_intent,
      start_hosted_checkout, create_chargeback, create_manual_payment, submit_manual_payment,
      approve_manual_payment, reject_manual_payment, reverse_manual_payment, manual_to, vars
  <2> QED BY <1>1, <2>1, <2>2 DEF MoneyInv, TypesElsewhere
<1>5. SoundRows(invoice') /\ \A i \in Invoices : invoice'[i].paid = invoice[i].paid
  <2>1. CASE invoice' = invoice
    BY <2>1 DEF MoneyInv, SoundRows
  <2>2. ASSUME NEW i \in Invoices, create_invoice(i)
        PROVE  SoundRows(invoice') /\ \A j \in Invoices : invoice'[j].paid = invoice[j].paid
    BY <2>2 DEF MoneyInv, SoundRows, Row, create_invoice, InvoiceStates, Open
  <2> QED
    BY <2>1, <2>2 DEF create_payment_intent, start_hosted_checkout, create_chargeback,
      create_manual_payment, submit_manual_payment, approve_manual_payment, reject_manual_payment,
      reverse_manual_payment, manual_to, books, vars
<1> QED BY <1>1, <1>2, <1>3, <1>4, <1>5, NoMoneyMoves

\* A request begins with what it may work on, and loads sound rows.
LEMMA MoneyBeginning ==
  ASSUME MoneyInv, NEW s \in Sessions,
         \/ \E t \in Captures : capture_payment(s, t)
         \/ \E m \in Manuals : post_manual_payment(s, m)
         \/ \E r \in RefundRefs : create_refund(s, r) \/ approve_refund(s, r)
         \/ load(s) \/ roll_back(s)
  PROVE  MoneyInv'
<1>1. UNCHANGED <<books, intent, manual, restorations, overwritten>>
  BY DEF capture_payment, post_manual_payment, create_refund, approve_refund, begin, load, roll_back
<1>2. \E q : SoundRequest(q) /\ session' = [session EXCEPT ![s] = q]
  <2>1. ASSUME NEW op, NEW x, NEW status, begin(s, op, x, status),
               \/ op = "capture" /\ x \in Captures
               \/ op = "post" /\ x \in Manuals
               \/ op \in {"refund", "request"} /\ x \in RefundRefs /\ Refundable(x),
               status \in IntentStates \cup ManualStates \cup RefundStates
        PROVE  \E q : SoundRequest(q) /\ session' = [session EXCEPT ![s] = q]
    <3> DEFINE q == [Idle EXCEPT !.op = op, !.on = x, !.seen = status]
    <3>1. q = [op |-> op, on |-> x, seen |-> status, loaded |-> FALSE,
               invoice |-> <<>>, credit |-> 0, hold |-> FALSE]
      <4>1. /\ DOMAIN q = {"op", "on", "seen", "loaded", "invoice", "credit", "hold"}
            /\ q = [f \in DOMAIN q |-> q[f]]
            /\ q.op = op /\ q.on = x /\ q.seen = status /\ q.loaded = FALSE
            /\ q.invoice = <<>> /\ q.credit = 0 /\ q.hold = FALSE
        BY DEF Idle
      <4> HIDE DEF q
      <4> QED BY <4>1
    <3>2. op \in {"idle", "capture", "post", "refund", "request"} /\ x \in Payments \cup RefundRefs
      BY <2>1 DEF Payments
    <3> HIDE DEF q
    <3>3. SoundRequest(q)
      BY <2>1, <3>1, <3>2 DEF SoundRequest, Requests
    <3> QED BY <2>1, <3>3 DEF begin, q
  <2>2. CASE \E t \in Captures : capture_payment(s, t)
    <3>1. PICK t \in Captures : capture_payment(s, t)
      BY <2>2
    <3>2. IntentOf[t] \in Intents
      BY RevenueAssumption DEF Payments
    <3>3. intent[IntentOf[t]] \in IntentStates
      BY <3>2 DEF MoneyInv, TypesElsewhere
    <3>4. begin(s, "capture", t, intent[IntentOf[t]])
      BY <3>1 DEF capture_payment
    <3> QED BY <2>1, <3>3, <3>4
  <2>3. CASE \E m \in Manuals : post_manual_payment(s, m)
    BY <2>1, <2>3, ManualTable DEF post_manual_payment
  <2>4. CASE \E r \in RefundRefs : create_refund(s, r) \/ approve_refund(s, r)
    <3>1. PICK r \in RefundRefs : create_refund(s, r) \/ approve_refund(s, r)
      BY <2>4
    <3>2. CASE create_refund(s, r)
      <4> DEFINE others == {x \in RefundRefs : RefundOf[x] = RefundOf[r] /\ refund[x] # "NONE"}
      <4>1. SumOver(RefundAmount, others) \in Nat
        <5>1. IsFiniteSet(others)
          BY Constants, FS_Subset
        <5>2. \A x \in others : RefundAmount[x] \in Nat
          BY Constants
        <5> HIDE DEF others
        <5> QED BY <5>1, <5>2, SumNat
      <4>2. RefundAmount[r] <= Amount[RefundOf[r]] - SumOver(RefundAmount, others)
        BY <3>2 DEF create_refund, refundable_amount
      <4> HIDE DEF others
      <4>3. Refundable(r)
        BY <3>2, <4>1, <4>2, Constants DEF create_refund, Refundable
      <4>4. begin(s, "refund", r, "NONE") \/ begin(s, "request", r, "NONE")
        BY <3>2 DEF create_refund
      <4>5. "NONE" \in RefundStates
        BY DEF RefundStates
      <4> QED BY <2>1, <4>3, <4>4, <4>5
    <3>3. CASE approve_refund(s, r)
      <4>1. Refundable(r) /\ begin(s, "refund", r, "PENDING") /\ "PENDING" \in RefundStates
        BY <3>3 DEF approve_refund, MoneyInv, PaymentRows, RefundStates
      <4> QED BY <2>1, <4>1
    <3> QED BY <3>1, <3>2, <3>3
  <2>5. CASE load(s)
    <3> DEFINE q == [session[s] EXCEPT !.loaded = TRUE, !.invoice = invoice,
                                       !.credit = credit, !.hold = hold]
    <3>0. SoundRequest(session[s]) /\ session = [x \in Sessions |-> session[x]]
      BY DEF MoneyInv, Session
    <3>1. session' = [session EXCEPT ![s] = q]
      BY <2>5, <3>0 DEF load, SoundRequest, Requests
    <3>2. /\ q \in Requests /\ q.op = session[s].op /\ q.on = session[s].on /\ q.invoice = invoice
      BY <3>0 DEF SoundRequest, Requests, MoneyInv, TypesOfBooks, SoundRows
    <3> HIDE DEF q
    <3>3. SoundRequest(q)
      BY <3>0, <3>2 DEF SoundRequest, MoneyInv
    <3> QED BY <3>1, <3>3
  <2>6. CASE roll_back(s)
    BY <2>6, IdleIsSound DEF roll_back
  <2> QED BY <2>2, <2>3, <2>4, <2>5, <2>6
<1>3. Session'
  BY <1>1, <1>2, SessionStep DEF MoneyInv, books
<1>4. TypesElsewhere' /\ SoundRows(invoice') /\ hold' \in BOOLEAN
  BY <1>1 DEF MoneyInv, TypesElsewhere, TypesOfBooks, SoundRows, books
<1> QED BY <1>1, <1>3, <1>4, NoMoneyMoves DEF books


\* A payment is posted: what it allocates and what is left are its amount, and
\* neither a reversal nor a refund of it can be there before it.
LEMMA PaymentCommits ==
  ASSUME MoneyInv, NEW s \in Sessions, commit_payment(s)
  PROVE  MoneyInv'
<1> DEFINE q == session[s]
           t == q.on
           given == Allocation(q.invoice, Amount[t])
           taken == SumOver(given, Invoices)
           rest == Amount[t] - taken
<1>1. /\ SoundRequest(q) /\ q.loaded /\ q.op \in {"capture", "post"} /\ Insertable(t)
      /\ txns' = txns \cup {t} /\ alloc' = [alloc EXCEPT ![t] = given]
      /\ SaveInvoices(q, given)
      /\ credit' = IF rest > 0 THEN q.credit + rest ELSE credit
      /\ overwritten' = (overwritten \/ Stale(q, given) \/ (rest > 0 /\ credit # q.credit))
      /\ session' = [session EXCEPT ![s] = Idle]
      /\ UNCHANGED <<hold, reversed, refund, refunded>>
  BY DEF commit_payment, allocate_payment, MoneyInv, Session
<1>2. t \in Payments /\ t \notin txns /\ SoundRows(q.invoice) /\ q.credit \in Nat
      /\ Amount[t] \in Nat /\ Amount[t] > 0
  BY <1>1, Constants DEF SoundRequest, Requests, Payments, Insertable
<1>3. /\ given \in [Invoices -> Nat]
      /\ \A i \in Invoices : given[i] <= Due(q.invoice[i], i)
      /\ taken \in Nat /\ taken <= Amount[t]
  BY <1>2, AllocationFacts
<1>4. rest \in Nat
  BY <1>2, <1>3
<1>5. /\ \A i \in Invoices : alloc[t][i] = 0 /\ reversed[t][i] = 0
      /\ refunded[t] = 0
  BY <1>2 DEF MoneyInv, PaymentRows, TypesOfBooks
<1> HIDE DEF given, taken, rest
<1>6. /\ SoundRows(invoice')
      /\ \A i \in Invoices : invoice'[i].paid
           = IF given[i] = 0 THEN invoice[i].paid ELSE q.invoice[i].paid + given[i]
  <2>1. \A i \in Invoices : given[i] # 0 =>
            \/ q.invoice[i].paid + given[i] < Total[i]
            \/ q.invoice[i].paid + given[i] = Total[i] /\ q.invoice[i].status \in Open
    <3> TAKE i \in Invoices
    <3> DEFINE due == Due(q.invoice[i], i)
    <3>1. /\ due \in Nat /\ q.invoice[i].paid \in Int /\ q.invoice[i].paid + due <= Total[i]
          /\ due # 0 => q.invoice[i].status \in Open
      BY <1>2, DueIsNat
    <3>2. given[i] \in Nat /\ given[i] <= due /\ Total[i] \in Nat
      BY <1>3, Constants
    <3> HIDE DEF due, q
    <3> QED BY <3>1, <3>2
  <2>2. given \in [Invoices -> Int]
    BY <1>3
  <2> HIDE DEF q
  <2> QED BY <1>1, <1>2, <2>1, <2>2, SavedRows DEF MoneyInv
<1>7. TypesOfBooks'
  BY <1>1, <1>2, <1>3, <1>4 DEF MoneyInv, TypesOfBooks
<1>8. TypesElsewhere'
  <2>1. overwritten' \in BOOLEAN /\ restorations' \in Nat
    BY DEF MoneyInv, TypesElsewhere, commit_payment, allocate_payment
  <2>2. intent' \in [Intents -> IntentStates]
    <3>1. CASE q.op = "capture"
      <4>1. IntentOf[t] \in Intents
        BY <1>1, <3>1, RevenueAssumption DEF SoundRequest, Payments
      <4>2. captured_intent(t, q.seen) \in IntentStates
        BY <4>1 DEF captured_intent, MoneyInv, TypesElsewhere, IntentStates
      <4> QED BY <4>2, <3>1 DEF commit_payment, MoneyInv, TypesElsewhere
    <3>2. CASE q.op # "capture"
      BY <1>1, <3>2 DEF commit_payment, MoneyInv, TypesElsewhere
    <3> QED BY <3>1, <3>2
  <2>3. manual' \in [Manuals -> ManualStates]
    <3>1. manual' = manual \/ manual' = [manual EXCEPT ![t] = "POSTED"]
      BY DEF commit_payment
    <3> QED BY <3>1, ManualTable DEF MoneyInv, TypesElsewhere
  <2> QED BY <2>1, <2>2, <2>3 DEF TypesElsewhere
<1>9. Session'
  BY <1>1, IdleIsSound, SessionStep DEF MoneyInv
<1>10. PaymentRows'
  BY <1>1, <1>2, <1>3, <1>5 DEF MoneyInv, PaymentRows, TypesOfBooks, Refundable
<1>11. BooksBalance'
  <2> SUFFICES ASSUME ~overwritten'
               PROVE  /\ \A i \in Invoices : invoice'[i].paid =
                           SumOver([u \in Payments |-> alloc'[u][i] - reversed'[u][i]], Payments)
                      /\ credit' = SumOver([u \in Payments |->
                                     Amount[u] - SumOver(alloc'[u], Invoices)], txns')
    BY DEF BooksBalance
  <2>1. /\ ~overwritten /\ ~(rest > 0 /\ credit # q.credit)
        /\ \A i \in Invoices : given[i] # 0 => invoice[i] = q.invoice[i]
    BY <1>1 DEF Stale
  <2>2. ASSUME NEW i \in Invoices
        PROVE  invoice'[i].paid =
                 SumOver([u \in Payments |-> alloc'[u][i] - reversed'[u][i]], Payments)
    <3> DEFINE f == [u \in Payments |-> alloc[u][i] - reversed[u][i]]
               g == [u \in Payments |-> alloc'[u][i] - reversed'[u][i]]
    <3>1. \A u \in Payments : f[u] \in Int /\ g[u] \in Int
      BY <1>7 DEF MoneyInv, TypesOfBooks
    <3>2. \A u \in Payments \ {t} : f[u] = g[u]
      BY <1>1 DEF MoneyInv, TypesOfBooks
    <3>3. g[t] - f[t] = given[i] /\ given[i] \in Nat
      BY <1>1, <1>2, <1>3, <1>5 DEF MoneyInv, TypesOfBooks
    <3>4. invoice[i].paid = SumOver(f, Payments) /\ invoice[i].paid \in Int
      BY <2>1 DEF MoneyInv, BooksBalance, SoundRows, Row
    <3>5. invoice'[i].paid = invoice[i].paid + given[i]
      BY <1>6, <2>1, <3>3, <3>4
    <3> HIDE DEF f, g, t
    <3>6. SumOver(g, Payments) = SumOver(f, Payments) + (g[t] - f[t])
      BY <1>2, <3>1, <3>2, Constants, SumChange
    <3>7. invoice'[i].paid = SumOver(g, Payments)
      BY <3>3, <3>4, <3>5, <3>6
    <3> QED BY <3>7 DEF g
  <2>3. credit' = SumOver([u \in Payments |-> Amount[u] - SumOver(alloc'[u], Invoices)], txns')
    <3> DEFINE f == [u \in Payments |-> Amount[u] - SumOver(alloc[u], Invoices)]
               g == [u \in Payments |-> Amount[u] - SumOver(alloc'[u], Invoices)]
    <3>1. \A u \in Payments : f[u] \in Int /\ g[u] \in Int
      <4> TAKE u \in Payments
      <4>1. \A i \in Invoices : alloc[u][i] \in Nat /\ alloc'[u][i] \in Nat
        BY <1>7 DEF MoneyInv, TypesOfBooks
      <4>2. SumOver(alloc[u], Invoices) \in Int /\ SumOver(alloc'[u], Invoices) \in Int
        BY <4>1, Constants, SumInt
      <4> QED BY <4>2, Constants
    <3>2. \A u \in txns : f[u] = g[u]
      BY <1>1, <1>2 DEF MoneyInv, TypesOfBooks
    <3>3. g[t] = rest
      BY <1>1, <1>2 DEF rest, taken, MoneyInv, TypesOfBooks
    <3>4. txns \subseteq Payments /\ IsFiniteSet(txns)
      BY Constants, FS_Subset DEF MoneyInv, TypesOfBooks
    <3>5. credit = SumOver(f, txns) /\ credit \in Nat
      BY <2>1 DEF MoneyInv, BooksBalance, TypesOfBooks
    <3>6. credit' = credit + rest
      BY <1>1, <1>4, <2>1, <3>5
    <3> HIDE DEF f, g, t
    <3>7. SumOver(f, txns) = SumOver(g, txns)
      BY <3>2, <3>4, SumSame
    <3>8. SumOver(g, txns \cup {t}) = g[t] + SumOver(g, txns)
      BY <1>2, <3>1, <3>4, SumAdd
    <3>9. credit' = SumOver(g, txns \cup {t})
      BY <1>4, <3>3, <3>5, <3>6, <3>7, <3>8
    <3> QED BY <1>1, <3>9 DEF g
  <2> QED BY <2>2, <2>3
<1>12. RefundsAreReversals'
  <2> SUFFICES ASSUME NEW u \in Payments, SumOver(alloc'[u], Invoices) = Amount[u]
               PROVE  SumOver(reversed'[u], Invoices) = refunded'[u]
    BY DEF RefundsAreReversals, FullyAllocated
  <2>1. CASE u = t
    BY <1>1, <1>5, <2>1, Constants, SumZero
  <2>2. CASE u # t
    BY <1>1, <2>2 DEF MoneyInv, RefundsAreReversals, FullyAllocated, TypesOfBooks
  <2> QED BY <2>1, <2>2
<1> QED BY <1>6, <1>7, <1>8, <1>9, <1>10, <1>11, <1>12 DEF MoneyInv

\* A refund is requested.
LEMMA RefundRequested ==
  ASSUME MoneyInv, NEW s \in Sessions, request_refund(s)
  PROVE  MoneyInv'
<1>1. session[s].on \in RefundRefs /\ Refundable(session[s].on)
  BY DEF request_refund, MoneyInv, Session, SoundRequest
<1>2. Session'
  BY IdleIsSound, SessionStep DEF request_refund, MoneyInv
<1>3. TypesElsewhere' /\ SoundRows(invoice') /\ hold' \in BOOLEAN
  BY DEF request_refund, MoneyInv, TypesElsewhere, TypesOfBooks, SoundRows
<1> QED BY <1>1, <1>2, <1>3, NoMoneyMoves DEF request_refund

\* What _reverse_allocations takes back.
LEMMA ReversalsAre ==
  ASSUME NEW t, NEW amount \in Nat, NEW take \in Reversals(t, amount)
  PROVE  /\ take \in [Invoices -> Nat]
         /\ \A i \in Invoices : take[i] <= alloc[t][i]
         /\ SumOver(take, Invoices) = Min({amount, SumOver(alloc[t], Invoices)})
BY DEF Reversals

\* A refund takes back what was allocated and had not been taken back.
LEMMA RefundCompletes ==
  ASSUME MoneyInv, NEW s \in Sessions, complete_refund(s)
  PROVE  MoneyInv'
<1> DEFINE q == session[s]
           r == q.on
           t == RefundOf[r]
<1>1. SoundRequest(q) /\ q.loaded /\ q.op = "refund" /\ r \in RefundRefs /\ Refundable(r)
  BY DEF complete_refund, MoneyInv, Session, SoundRequest
<1>2. t \in txns /\ t \in Payments /\ RefundAmount[r] \in Nat /\ RefundAmount[r] <= Amount[t]
      /\ SoundRows(q.invoice)
  BY <1>1, Constants DEF Refundable, SoundRequest
<1>3. PICK take \in Reversals(t, RefundAmount[r]) :
        /\ Reversible(t, take)
        /\ reversed' = [reversed EXCEPT ![t] = [i \in Invoices |-> @[i] + take[i]]]
        /\ SaveInvoices(q, [i \in Invoices |-> -take[i]])
        /\ overwritten' = (overwritten \/ Stale(q, [i \in Invoices |-> -take[i]]))
  BY DEF complete_refund
<1>4. /\ refund' = [refund EXCEPT ![r] = "COMPLETED"]
      /\ refunded' = [refunded EXCEPT ![t] = @ + RefundAmount[r]]
      /\ session' = [session EXCEPT ![s] = Idle]
      /\ UNCHANGED <<credit, hold, txns, alloc, intent, manual, restorations>>
  BY DEF complete_refund
<1> DEFINE delta == [i \in Invoices |-> -take[i]]
<1>5. /\ take \in [Invoices -> Nat]
      /\ \A i \in Invoices : take[i] <= alloc[t][i] /\ (take[i] > 0 => reversed[t][i] = 0)
      /\ SumOver(take, Invoices) = Min({RefundAmount[r], SumOver(alloc[t], Invoices)})
  BY <1>2, <1>3, ReversalsAre DEF Reversible
<1> HIDE DEF r, t
<1>6. /\ SoundRows(invoice')
      /\ \A i \in Invoices : invoice'[i].paid
           = IF delta[i] = 0 THEN invoice[i].paid ELSE q.invoice[i].paid + delta[i]
  <2>1. \A i \in Invoices : delta[i] # 0 => q.invoice[i].paid + delta[i] < Total[i]
    BY <1>2, <1>5, Constants DEF SoundRows, Row
  <2>2. delta \in [Invoices -> Int]
    BY <1>5
  <2>3. SaveInvoices(q, delta)
    BY <1>3
  <2> HIDE DEF q, delta
  <2> QED BY <1>2, <2>1, <2>2, <2>3, SavedRows DEF MoneyInv
<1>7. /\ reversed' \in [Payments -> [Invoices -> Nat]]
      /\ \A i \in Invoices : reversed'[t][i] = reversed[t][i] + take[i]
      /\ \A u \in Payments : u # t => reversed'[u] = reversed[u]
  BY <1>2, <1>3, <1>5 DEF MoneyInv, TypesOfBooks
<1>8. TypesOfBooks'
  <2>1. refund' \in [RefundRefs -> RefundStates]
    BY <1>4 DEF MoneyInv, TypesOfBooks, RefundStates
  <2>2. refunded' \in [Payments -> Nat]
    BY <1>2, <1>4 DEF MoneyInv, TypesOfBooks
  <2> QED BY <1>4, <1>7, <2>1, <2>2 DEF MoneyInv, TypesOfBooks
<1>9. TypesElsewhere'
  BY <1>3, <1>4 DEF MoneyInv, TypesElsewhere
<1>10. Session'
  BY <1>4, IdleIsSound, SessionStep DEF MoneyInv
<1>11. PaymentRows'
  <2>1. \A u \in Payments, i \in Invoices : reversed'[u][i] <= alloc'[u][i]
    <3> TAKE u \in Payments, i \in Invoices
    <3>1. CASE u = t
      <4>1. reversed[t][i] \in Nat /\ alloc[t][i] \in Nat /\ reversed[t][i] <= alloc[t][i]
        BY <1>2 DEF MoneyInv, PaymentRows, TypesOfBooks
      <4>2. take[i] \in Nat /\ take[i] <= alloc[t][i] /\ (take[i] > 0 => reversed[t][i] = 0)
        BY <1>5
      <4>3. reversed'[t][i] = reversed[t][i] + take[i] /\ alloc' = alloc
        BY <1>4, <1>7
      <4> QED BY <3>1, <4>1, <4>2, <4>3
    <3>2. CASE u # t
      BY <1>4, <1>7, <3>2 DEF MoneyInv, PaymentRows
    <3> QED BY <3>1, <3>2
  <2>2. \A u \in Payments \ txns' : refunded'[u] = 0 /\ \A i \in Invoices : alloc'[u][i] = 0
    BY <1>2, <1>4 DEF MoneyInv, PaymentRows, TypesOfBooks
  <2>3. \A x \in RefundRefs : refund'[x] # "NONE" => Refundable(x)'
    BY <1>1, <1>4 DEF MoneyInv, PaymentRows, TypesOfBooks, Refundable, r
  <2> QED BY <2>1, <2>2, <2>3 DEF PaymentRows
<1>12. BooksBalance'
  <2> SUFFICES ASSUME ~overwritten'
               PROVE  /\ \A i \in Invoices : invoice'[i].paid =
                           SumOver([u \in Payments |-> alloc'[u][i] - reversed'[u][i]], Payments)
                      /\ credit' = SumOver([u \in Payments |->
                                     Amount[u] - SumOver(alloc'[u], Invoices)], txns')
    BY DEF BooksBalance
  <2>1. /\ ~overwritten
        /\ \A i \in Invoices : delta[i] # 0 => invoice[i] = q.invoice[i]
    BY <1>3 DEF Stale
  <2>2. ASSUME NEW i \in Invoices
        PROVE  invoice'[i].paid =
                 SumOver([u \in Payments |-> alloc'[u][i] - reversed'[u][i]], Payments)
    <3> DEFINE f == [u \in Payments |-> alloc[u][i] - reversed[u][i]]
               g == [u \in Payments |-> alloc'[u][i] - reversed'[u][i]]
    <3>1. \A u \in Payments : f[u] \in Int /\ g[u] \in Int
      BY <1>8 DEF MoneyInv, TypesOfBooks
    <3>2. \A u \in Payments \ {t} : f[u] = g[u]
      BY <1>4, <1>7
    <3>3. g[t] - f[t] = -take[i] /\ take[i] \in Nat
      BY <1>2, <1>4, <1>5, <1>7 DEF MoneyInv, TypesOfBooks
    <3>4. invoice[i].paid = SumOver(f, Payments) /\ invoice[i].paid \in Int
      BY <2>1 DEF MoneyInv, BooksBalance, SoundRows, Row
    <3>5. invoice'[i].paid = invoice[i].paid - take[i]
      <4>1. delta[i] = -take[i] /\ take[i] \in Nat /\ invoice[i].paid \in Int
        BY <3>3, <3>4
      <4> HIDE DEF delta, q
      <4> QED BY <1>6, <2>1, <4>1
    <3> HIDE DEF f, g, q, delta
    <3>6. SumOver(g, Payments) = SumOver(f, Payments) + (g[t] - f[t])
      <4>1. IsFiniteSet(Payments) /\ t \in Payments
        BY <1>2, Constants
      <4> QED BY <4>1, <3>1, <3>2, SumChange
    <3>7. invoice'[i].paid = SumOver(g, Payments)
      BY <3>3, <3>4, <3>5, <3>6
    <3> QED BY <3>7 DEF g
  <2>3. credit' = SumOver([u \in Payments |-> Amount[u] - SumOver(alloc'[u], Invoices)], txns')
    BY <1>4, <2>1 DEF MoneyInv, BooksBalance
  <2> QED BY <2>2, <2>3
<1>13. RefundsAreReversals'
  <2> SUFFICES ASSUME NEW u \in Payments, SumOver(alloc'[u], Invoices) = Amount[u]
               PROVE  SumOver(reversed'[u], Invoices) = refunded'[u]
    BY DEF RefundsAreReversals, FullyAllocated
  <2>1. CASE u = t
    <3>1. Amount[t] \in Nat /\ SumOver(alloc[t], Invoices) = Amount[t]
      BY <1>2, <1>4, <2>1, Constants
    <3>2. SumOver(take, Invoices) = RefundAmount[r]
      BY <1>2, <1>5, <3>1, OfTwo
    <3>3. SumOver(reversed[t], Invoices) = refunded[t]
      BY <1>2, <3>1 DEF MoneyInv, RefundsAreReversals, FullyAllocated
    <3>4. \A i \in Invoices : /\ reversed[t][i] \in Int /\ take[i] \in Int
                              /\ reversed'[t][i] = reversed[t][i] + take[i]
      BY <1>2, <1>5, <1>7 DEF MoneyInv, TypesOfBooks
    <3>5. SumOver(reversed'[t], Invoices)
            = SumOver(reversed[t], Invoices) + SumOver(take, Invoices)
      BY <3>4, Constants, SumPlus
    <3>6. refunded'[t] = refunded[t] + RefundAmount[r]
      BY <1>2, <1>4 DEF MoneyInv, TypesOfBooks
    <3> QED BY <2>1, <3>2, <3>3, <3>5, <3>6
  <2>2. CASE u # t
    <3>1. reversed'[u] = reversed[u] /\ refunded'[u] = refunded[u] /\ alloc' = alloc
      BY <1>4, <1>7, <2>2 DEF MoneyInv, TypesOfBooks
    <3> QED BY <3>1 DEF MoneyInv, RefundsAreReversals, FullyAllocated
  <2> QED BY <2>1, <2>2
<1> QED BY <1>6, <1>8, <1>9, <1>10, <1>11, <1>12, <1>13 DEF MoneyInv
---------------------------------------------------------------------------
(* The theorems *)

LEMMA MoneyInit == Init => MoneyInv
<1> SUFFICES ASSUME Init PROVE MoneyInv
  OBVIOUS
<1>1. TypesOfBooks /\ TypesElsewhere /\ SoundRows(invoice) /\ PaymentRows
  <2>1. TypesOfBooks
    BY DEF Init, TypesOfBooks, RefundStates
  <2>2. TypesElsewhere
    BY ManualTable DEF Init, TypesElsewhere, IntentStates
  <2>3. SoundRows(invoice)
    BY Constants DEF Init, SoundRows, Row, InvoiceStates, Open
  <2>4. PaymentRows
    BY DEF Init, PaymentRows
  <2> QED BY <2>1, <2>2, <2>3, <2>4
<1>2. Session
  BY IdleIsSound DEF Init, Session
<1>3. BooksBalance
  <2>1. ASSUME NEW i \in Invoices
        PROVE  invoice[i].paid = SumOver([t \in Payments |-> alloc[t][i] - reversed[t][i]], Payments)
    <3> DEFINE f == [t \in Payments |-> alloc[t][i] - reversed[t][i]]
    <3>1. \A t \in Payments : f[t] = 0
      BY DEF Init
    <3> HIDE DEF f
    <3>2. SumOver(f, Payments) = 0
      BY <3>1, Constants, SumZero
    <3> QED BY <3>2 DEF Init, f
  <2>2. credit = SumOver([t \in Payments |-> Amount[t] - SumOver(alloc[t], Invoices)], txns)
    BY SumEmpty DEF Init
  <2> QED BY <2>1, <2>2 DEF BooksBalance
<1>4. RefundsAreReversals
  <2>1. \A t \in Payments : SumOver(reversed[t], Invoices) = 0
    BY Constants, SumZero DEF Init
  <2> QED BY <2>1 DEF RefundsAreReversals, Init
<1> QED BY <1>1, <1>2, <1>3, <1>4 DEF MoneyInv

LEMMA MoneyStep == MoneyInv /\ [Next]_vars => MoneyInv'
BY OtherMoves, MoneyBeginning, PaymentCommits, RefundRequested, RefundCompletes DEF Next, Request

LEMMA MoneyAlways == Spec => []MoneyInv
BY MoneyInit, MoneyStep, PTL DEF Spec

\* Types, for any number of invoices, payments, refunds and overlapping requests:
\* no invoice is paid more than its total.
THEOREM PaymentTypes == Spec => []TypeOK
<1>1. MoneyInv => TypeOK
  BY DEF MoneyInv, TypeOK, TypesOfBooks, TypesElsewhere, SoundRows, Row, Session, SoundRequest, Requests
<1> QED BY <1>1, MoneyAlways, PTL

\* Unless a commit overwrote rows that had changed since it read them, invoices and
\* credit are the sums of the payment rows.
THEOREM BooksAlwaysBalance == Spec => []BooksBalance
<1>1. MoneyInv => BooksBalance
  BY DEF MoneyInv
<1> QED BY <1>1, MoneyAlways, PTL

\* However refunds race, a payment that went to invoices in full is never refunded
\* beyond its amount, and its invoices lose what is refunded.
THEOREM RefundsAlwaysAddUp == Spec => []RefundsAddUp
<1>1. MoneyInv => RefundsAddUp
  <2> SUFFICES ASSUME MoneyInv, NEW t \in Payments, FullyAllocated(t)
               PROVE  refunded[t] <= Amount[t]
    BY DEF MoneyInv, RefundsAddUp, RefundsWithinPayment
  <2>1. SumOver(reversed[t], Invoices) = refunded[t]
    BY DEF MoneyInv, RefundsAreReversals
  <2>2. \A i \in Invoices : reversed[t][i] \in Int /\ alloc[t][i] \in Int
                            /\ reversed[t][i] <= alloc[t][i]
    BY DEF MoneyInv, TypesOfBooks, PaymentRows
  <2>3. SumOver(reversed[t], Invoices) <= SumOver(alloc[t], Invoices)
    BY <2>2, Constants, SumLeq
  <2> QED BY <2>1, <2>3 DEF FullyAllocated
<1> QED BY <1>1, MoneyAlways, PTL

\* What the session sees as payable is a sum of amounts none of which is negative:
\* when it is zero, every row that is open now is paid in full, and no open row is.
LEMMA SettledWhenNothingSeen ==
  ASSUME MoneyInv, MoneyInv', NEW s \in Sessions, commit_payment(s),
         PayableSeen(session[s], Allocation(session[s].invoice, Amount[session[s].on])) <= 0
  PROVE  \A i \in Invoices : invoice'[i].status \notin Open
<1> DEFINE q == session[s]
           given == Allocation(q.invoice, Amount[q.on])
           seen == [i \in Invoices |->
                      IF q.invoice[i].status \in Open /\ invoice'[i].status \in Open
                      THEN Total[i] - q.invoice[i].paid - given[i]
                      ELSE Due(invoice'[i], i)]
<1>1. SoundRequest(q) /\ q.loaded /\ q.op \in {"capture", "post"} /\ SaveInvoices(q, given)
  BY DEF commit_payment, allocate_payment, MoneyInv, Session
<1>2. SoundRows(q.invoice) /\ Amount[q.on] \in Nat /\ SoundRows(invoice')
  BY <1>1, Constants DEF SoundRequest, Payments, MoneyInv
<1>3. \A i \in Invoices : given[i] \in Nat /\ given[i] <= Due(q.invoice[i], i)
  BY <1>2, AllocationFacts
<1> HIDE DEF given
<1>4. \A i \in Invoices : seen[i] \in Nat
  <2> TAKE i \in Invoices
  <2>1. Due(invoice'[i], i) \in Nat
    BY <1>2, DueIsNat
  <2>2. ASSUME q.invoice[i].status \in Open PROVE Total[i] - q.invoice[i].paid - given[i] \in Nat
    <3>1. /\ Due(q.invoice[i], i) \in Nat /\ q.invoice[i].paid \in Int
          /\ q.invoice[i].paid + Due(q.invoice[i], i) <= Total[i]
      BY <1>2, DueIsNat
    <3>2. given[i] \in Nat /\ given[i] <= Due(q.invoice[i], i) /\ Total[i] \in Nat
      BY <1>3, Constants
    <3> DEFINE d == Due(q.invoice[i], i)
    <3> HIDE DEF d, q
    <3> QED BY <3>1, <3>2 DEF d
  <2> HIDE DEF q
  <2> QED BY <2>1, <2>2
<1>5. SumOver(seen, Invoices) <= 0
  BY DEF PayableSeen, given
<1>6. \A i \in Invoices : seen[i] = 0
  <2>1. SumOver(seen, Invoices) \in Nat /\ \A i \in Invoices : seen[i] <= SumOver(seen, Invoices)
    <3> HIDE DEF seen
    <3> QED BY <1>4, Constants, SumNat
  <2> HIDE DEF seen
  <2> QED BY <1>4, <1>5, <2>1
<1> SUFFICES ASSUME NEW i \in Invoices, invoice'[i].status \in Open PROVE FALSE
  OBVIOUS
<1>7. /\ invoice'[i].paid \in Int /\ invoice'[i].paid < Total[i] /\ Total[i] \in Nat
      /\ q.invoice[i].paid \in Int
  BY <1>2, Constants DEF SoundRows, Row, Open
<1>8. CASE q.invoice[i].status \notin Open
  <2>1. seen[i] = Total[i] - invoice'[i].paid
    BY <1>8 DEF Due
  <2> QED BY <1>6, <1>7, <2>1
<1>9. CASE q.invoice[i].status \in Open
  <2>1. q.invoice[i].paid + given[i] = Total[i]
    <3>1. seen[i] = Total[i] - q.invoice[i].paid - given[i]
      BY <1>9
    <3>2. given[i] \in Nat
      BY <1>3
    <3> HIDE DEF seen, q
    <3> QED BY <1>6, <1>7, <3>1, <3>2
  <2>2. q.invoice[i].paid < Total[i]
    BY <1>2, <1>9 DEF SoundRows, Open
  <2>3. given[i] # 0
    BY <1>7, <2>1, <2>2
  <2>4. invoice'[i].paid = q.invoice[i].paid + given[i]
    BY <1>1, <2>3 DEF SaveInvoices, Written
  <2> QED BY <1>7, <2>1, <2>4
<1> QED BY <1>8, <1>9

\* Restoration is announced only by a step after which no invoice of the account is
\* open, however stale the rows the request computed with.
THEOREM RestorationIsSettled == Spec => RestorationMeansSettled
<1>1. ASSUME MoneyInv, MoneyInv', [Next]_vars, restorations' # restorations
      PROVE  \A i \in Invoices : invoice'[i].status \notin Open
  <2>1. PICK s \in Sessions : commit_payment(s)
    BY <1>1 DEF Next, Request, create_invoice, create_payment_intent, start_hosted_checkout,
      create_chargeback, create_manual_payment, submit_manual_payment, approve_manual_payment,
      reject_manual_payment, reverse_manual_payment, manual_to, capture_payment,
      post_manual_payment, create_refund, approve_refund, begin, load, request_refund,
      complete_refund, roll_back, vars
  <2>2. restorations \in Nat
    BY <1>1 DEF MoneyInv, TypesElsewhere
  <2>3. PayableSeen(session[s], Allocation(session[s].invoice, Amount[session[s].on])) <= 0
    BY <1>1, <2>1, <2>2 DEF commit_payment, allocate_payment
  <2> QED BY <1>1, <2>1, <2>3, SettledWhenNothingSeen
<1>2. MoneyInv /\ MoneyInv' /\ [Next]_vars
        => [restorations' # restorations => \A i \in Invoices : invoice'[i].status \notin Open]_vars
  BY <1>1
<1> QED BY <1>2, MoneyAlways, PTL DEF Spec, RestorationMeansSettled
=============================================================================
