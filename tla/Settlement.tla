----------------------------- MODULE Settlement -----------------------------
(***************************************************************************)
(* Partner settlements (tenancy-service settlement_service.py) over the    *)
(* earnings, clawbacks and adjustments of one partner                      *)
(* (commission_service.py).  Each settlement is that of another cycle.     *)
(* A request reads the settlement, decides on what it read and commits; at *)
(* the commit only the columns whose value changed are written, and no     *)
(* column carries a version.  Requests of two users may overlap.           *)
(***************************************************************************)
EXTENDS Integers, FiniteSets, Sums

CONSTANTS
  Settlements, Handlers,
  Earnings,
  Corrections,  \* clawbacks and adjustments
  Clawbacks,    \* those of them that are clawbacks
  EarningOf,    \* [Corrections -> Earnings]
  Amount        \* [Earnings \cup Corrections -> Int], a clawback's is negative

Items == Earnings \cup Corrections

\* What the constants may be (assumed of their values in MoneyServices).
SettlementAssumption ==
  /\ IsFiniteSet(Settlements) /\ IsFiniteSet(Items) /\ Earnings \cap Corrections = {}
  /\ EarningOf \in [Corrections -> Earnings] /\ Clawbacks \subseteq Corrections
  /\ Amount \in [Items -> Int]

VARIABLES
  earning,     \* CommissionEarning.status, or "ABSENT"
  corrected,   \* Corrections that exist
  state,       \* PartnerSettlement.state
  lines,       \* [Settlements -> SUBSET Items], the settlement_lines
  net,         \* net_settlement, and the totals it is the sum of
  payouts,     \* [Settlements -> number of SettlementPayout rows]
  task,        \* [Handlers -> the request in flight, or Idle]
  approvedNet, \* ghost: net at the last approval
  overlapped,  \* ghost: settlements committed while another request held them
  contested    \* ghost: earnings corrected at or after their settlement, or
               \*        read by two calculations

vars ==
  <<earning, corrected, state, lines, net, payouts, task, approvedNet, overlapped, contested>>

States ==
  {"DRAFT", "CALCULATED", "UNDER_REVIEW", "APPROVED", "LOCKED", "PAID", "RECONCILED",
   "DISPUTED", "REVERSED"}
Operations == {"calculate", "review", "approve", "lock", "payout", "reconcile", "dispute", "reverse"}
Idle == [op |-> "none"]
Tasks ==
  [op : Operations, of : Settlements, state : States, net : Int,
   read : BOOLEAN, found : SUBSET Items, known : SUBSET Items]

\* Every variable stays in its type; the states CALCULATING, PAYOUT_PENDING
\* and RECONCILING are never committed, PARTIALLY_PAID, FAILED and CANCELLED
\* never reached.
TypeOK ==
  /\ earning \in [Earnings -> {"ABSENT", "RECOGNIZED", "SETTLED", "CLAWED_BACK", "ADJUSTED"}]
  /\ corrected \subseteq Corrections
  /\ state \in [Settlements -> States]
  /\ lines \in [Settlements -> SUBSET Items]
  /\ net \in [Settlements -> Int] /\ approvedNet \in [Settlements -> Int]
  /\ payouts \in [Settlements -> Nat]
  /\ \A h \in Handlers : task[h] = Idle \/ task[h] \in Tasks
  /\ overlapped \subseteq Settlements /\ contested \subseteq Earnings

\* create_settlement: one DRAFT per partner and cycle.
Init ==
  /\ earning = [e \in Earnings |-> "ABSENT"]
  /\ corrected = {}
  /\ state = [s \in Settlements |-> "DRAFT"]
  /\ lines = [s \in Settlements |-> {}]
  /\ net = [s \in Settlements |-> 0] /\ approvedNet = net
  /\ payouts = [s \in Settlements |-> 0]
  /\ task = [h \in Handlers |-> Idle]
  /\ overlapped = {} /\ contested = {}

---------------------------------------------------------------------------
(* Commission *)

\* recognize_earning: idempotent per source event and rule.
Recognize(e) ==
  /\ earning[e] = "ABSENT"
  /\ earning' = [earning EXCEPT ![e] = "RECOGNIZED"]
  /\ UNCHANGED <<corrected, state, lines, net, payouts, task, approvedNet, overlapped, contested>>

\* An earning some calculation has read and not yet committed.
Read(e) == \E h \in Handlers : task[h] # Idle /\ e \in task[h].found

\* clawback_earning and adjust_earning: a new row, and a status written over
\* any other, SETTLED included.
Correct(c) ==
  LET e == EarningOf[c] IN
  /\ c \notin corrected /\ earning[e] # "ABSENT"
  /\ corrected' = corrected \cup {c}
  /\ earning' = [earning EXCEPT ![e] = IF c \in Clawbacks THEN "CLAWED_BACK" ELSE "ADJUSTED"]
  /\ contested' = contested \cup
       {x \in {e} : Read(x) \/ \E s \in Settlements : x \in lines[s]}
  /\ UNCHANGED <<state, lines, net, payouts, task, approvedNet, overlapped>>

---------------------------------------------------------------------------
(* Settlements *)

\* A payout that does not mind one made before.
Repeated_After(op) ==
  CASE op = "calculate" -> [s \in {"DRAFT", "CALCULATED"} |-> "CALCULATED"]
    [] op = "review" -> [s \in {"CALCULATED", "DISPUTED"} |-> "UNDER_REVIEW"]
    [] op = "approve" -> [s \in {"UNDER_REVIEW"} |-> "APPROVED"]
    [] op = "lock" -> [s \in {"APPROVED"} |-> "LOCKED"]
    [] op = "payout" -> [s \in {"LOCKED", "PAID"} |-> "PAID"]
    [] op = "reconcile" -> [s \in {"PAID"} |-> "RECONCILED"]
    [] op = "dispute" -> [s \in {"CALCULATED", "UNDER_REVIEW", "APPROVED"} |-> "DISPUTED"]
    [] op = "reverse" -> [s \in {"LOCKED", "DISPUTED"} |-> "REVERSED"]

\* The state a request leads to from each state it accepts, through the
\* intermediate ones its transitions pass: calculate by CALCULATING (and not
\* at all from CALCULATED), payout by PAYOUT_PENDING, reconcile by RECONCILING.
\* calculate from UNDER_REVIEW fails at its last transition.
After(op) ==
  CASE op = "calculate" -> [s \in {"DRAFT", "CALCULATED"} |-> "CALCULATED"]
    [] op = "review" -> [s \in {"CALCULATED", "DISPUTED"} |-> "UNDER_REVIEW"]
    [] op = "approve" -> [s \in {"UNDER_REVIEW"} |-> "APPROVED"]
    [] op = "lock" -> [s \in {"APPROVED"} |-> "LOCKED"]
    [] op = "payout" -> [s \in {"LOCKED"} |-> "PAID"]
    [] op = "reconcile" -> [s \in {"PAID"} |-> "RECONCILED"]
    [] op = "dispute" -> [s \in {"CALCULATED", "UNDER_REVIEW", "APPROVED"} |-> "DISPUTED"]
    [] op = "reverse" -> [s \in {"LOCKED", "DISPUTED"} |-> "REVERSED"]

\* A bound: nothing is claimed of the state of an overlapped settlement, so of
\* its later requests only the calculations, which touch earnings, are followed.
Followed(op, s) == s \in overlapped => op = "calculate"

\* A request reads its settlement; one its state refuses changes nothing (nor
\* does a dispute opened in a state that cannot become DISPUTED).
Begin(h, op, s) ==
  /\ task[h] = Idle
  /\ state[s] \in DOMAIN After(op)
  /\ Followed(op, s)
  /\ task' = [task EXCEPT ![h] =
       [op |-> op, of |-> s, state |-> state[s], net |-> net[s],
        read |-> op # "calculate", found |-> {}, known |-> {}]]
  /\ UNCHANGED <<earning, corrected, state, lines, net, payouts, approvedNet, overlapped, contested>>

\* The earnings a calculation takes: of any period, settled before or not, if
\* only their status is RECOGNIZED or ADJUSTED.
Eligible == {e \in Earnings : earning[e] \in {"RECOGNIZED", "ADJUSTED"}}

\* A calculation that takes settled earnings again.
Settled_Eligible == {e \in Earnings : earning[e] \in {"RECOGNIZED", "ADJUSTED", "SETTLED"}}

\* calculate_settlement reads the earnings, their corrections and the lines
\* the settlement has.
Load(h) ==
  /\ task[h] # Idle /\ ~task[h].read
  /\ task' = [task EXCEPT
       ![h].read = TRUE,
       ![h].found = Eligible \cup {c \in corrected : EarningOf[c] \in Eligible},
       ![h].known = lines[task[h].of]]
  /\ contested' = contested \cup {e \in Eligible : Read(e)}
  /\ UNCHANGED <<earning, corrected, state, lines, net, payouts, approvedNet, overlapped>>

Total(items) == SumOver(Amount, items)

\* A net computed from all that was found, the lines that exist included.
Twice_NewNet(t) == t.net + Total(t.found)

\* The net a calculation arrives at: what it read plus its new lines.
NewNet(t) == t.net + Total(t.found \ t.known)

\* A column is written only when its value differs from the one read.
Column(read, new, now) == IF new = read THEN now ELSE new

\* The commit of a calculation: its new lines, each earning of theirs SETTLED,
\* the totals and the state.  A line another calculation of this settlement
\* added meanwhile breaks the unique (settlement, source event): nothing is kept.
Calculate(h) ==
  LET t == task[h]
      new == t.found \ t.known
  IN /\ t # Idle /\ t.op = "calculate" /\ t.read
     /\ task' = [task EXCEPT ![h] = Idle]
     /\ IF new \cap lines[t.of] # {}
        THEN UNCHANGED <<earning, state, lines, net, overlapped>>
        ELSE /\ lines' = [lines EXCEPT ![t.of] = @ \cup new]
             /\ earning' = [e \in Earnings |-> IF e \in new THEN "SETTLED" ELSE earning[e]]
             /\ net' = [net EXCEPT ![t.of] = Column(t.net, NewNet(t), @)]
             /\ state' = [state EXCEPT ![t.of] = Column(t.state, "CALCULATED", @)]
             /\ overlapped' = overlapped \cup
                  {s \in {t.of} : \E g \in Handlers \ {h} : task[g] # Idle /\ task[g].of = s}
     /\ UNCHANGED <<corrected, payouts, approvedNet, contested>>

\* The commit of any other request.  A payout adds its row with its balanced
\* ledger entry; an approval is of the net it read.
Commit(h) ==
  LET t == task[h] IN
  /\ t # Idle /\ t.op # "calculate"
  /\ task' = [task EXCEPT ![h] = Idle]
  /\ state' = [state EXCEPT ![t.of] = After(t.op)[t.state]]
  /\ payouts' = [payouts EXCEPT ![t.of] = IF t.op = "payout" THEN @ + 1 ELSE @]
  /\ approvedNet' = [approvedNet EXCEPT ![t.of] = IF t.op = "approve" THEN t.net ELSE @]
  /\ overlapped' = overlapped \cup
       {s \in {t.of} : \E g \in Handlers \ {h} : task[g] # Idle /\ task[g].of = s}
  /\ UNCHANGED <<earning, corrected, lines, net, contested>>

Next ==
  \/ \E e \in Earnings : Recognize(e)
  \/ \E c \in Corrections : Correct(c)
  \/ \E h \in Handlers :
       \/ \E op \in Operations, s \in Settlements : Begin(h, op, s)
       \/ Load(h) \/ Calculate(h) \/ Commit(h)

Spec == Init /\ [][Next]_vars

---------------------------------------------------------------------------
(* Properties *)

\* "Repeated execution never duplicates lines" (settlement_service.py:93): a
\* settlement no two requests worked on at once is the sum of its lines, and a
\* SETTLED earning stands on exactly one settlement, unless it was corrected
\* once settled or two calculations read it.
LinesAddUp ==
  /\ \A s \in Settlements \ overlapped : net[s] = Total(lines[s])
  /\ \A e \in Earnings \ contested :
       LET holders == {s \in Settlements : e \in lines[s]}
       IN Cardinality(holders) = IF earning[e] = "SETTLED" THEN 1 ELSE 0

\* "Locked settlements are never edited" (settlement_service.py:3): unless two
\* requests worked on it at once, what is locked, paid or reconciled is the net
\* that was approved, whatever was recalculated, disputed or reviewed before,
\* and it is paid once, and only if PAID or RECONCILED.
PaidAsApproved ==
  \A s \in Settlements \ overlapped :
    /\ state[s] \in {"LOCKED", "PAID", "RECONCILED"} => net[s] = approvedNet[s]
    /\ payouts[s] = IF state[s] \in {"PAID", "RECONCILED"} THEN 1 ELSE 0
=============================================================================
