----------------------------- MODULE MoneyProofs -----------------------------
(***************************************************************************)
(* The money services, for all values of their constants: settlements,     *)
(* the ledger, webhooks, recurring billing and dunning each keep an        *)
(* invariant that implies their properties, and so do all of them          *)
(* together.  Every section states the invariant, then that it holds       *)
(* initially and that each action keeps it.                                *)
(***************************************************************************)
EXTENDS MoneyServices, SumFacts, TLAPS

---------------------------------------------------------------------------
(* Settlements *)

\* A request of a settlement, with what calculate_settlement read.
SettleTasks ==
  /\ settling \in [Handlers -> {Settle!Idle} \cup Settle!Tasks]
  /\ \A h \in Handlers : settling[h] # Settle!Idle =>
       /\ settling[h].state \in DOMAIN Settle!After(settling[h].op)
       /\ ~settling[h].read => settling[h].found = {}

\* What a request of a settlement no two worked on at once read is what it still says.
SettleFresh ==
  \A h \in Handlers : settling[h] # Settle!Idle /\ settling[h].of \notin recounted =>
    LET s == settling[h].of IN
    /\ settling[h].state = state[s] /\ settling[h].net = net[s]
    /\ settling[h].op = "calculate" /\ settling[h].read => settling[h].known = lines[s]

\* From its approval on a settlement is the net that was approved.
Approved ==
  \A s \in Settlements \ recounted :
    state[s] = "APPROVED" => net[s] = approvedNet[s]

NetIsSum == \A s \in Settlements \ recounted : net[s] = Settle!Total(lines[s])

Holders(e) == {s \in Settlements : e \in lines[s]}

\* An earning one calculation read, and nobody corrected, is on no settlement yet.
SettledOnce ==
  \A e \in Earnings \ contested :
    /\ IF earning[e] = "SETTLED" THEN \E s \in Settlements : Holders(e) = {s} ELSE Holders(e) = {}
    /\ \A h \in Handlers : settling[h] # Settle!Idle /\ e \in settling[h].found =>
         /\ earning[e] \in {"RECOGNIZED", "ADJUSTED"} /\ e \notin settling[h].known
         /\ \A g \in Handlers \ {h} : settling[g] # Settle!Idle => e \notin settling[g].found

\* The settlement invariant.
SettleInv == Settle!TypeOK /\ SettleTasks /\ SettleFresh /\ PaidAsApproved /\ Approved /\ NetIsSum /\ SettledOnce

\* What the assumption says of the constants of Settlement.
LEMMA SettleConstants ==
  /\ IsFiniteSet(Settlements) /\ IsFiniteSet(Settle!Items) /\ Earnings \cap Corrections = {}
  /\ Settle!Items = Earnings \cup Corrections
  /\ EarningOf \in [Corrections -> Earnings] /\ Clawbacks \subseteq Corrections
  /\ ItemAmount \in [Settle!Items -> Int]
BY MoneyAssumption DEF Settle!SettlementAssumption, Settle!Items, Settle!IsFiniteSet, IsFiniteSet

LEMMA SettleTotal ==
  ASSUME NEW S \in SUBSET Settle!Items
  PROVE  Settle!Total(S) = SumOver(ItemAmount, S) /\ Settle!Total(S) \in Int /\ IsFiniteSet(S)
<1>1. Settle!Total(S) = SumOver(ItemAmount, S)
  BY DEF Settle!Total, Settle!SumOver, SumOver, Settle!MapThenSumSet, Settle!MapThenFoldSet,
         MapThenSumSet, MapThenFoldSet
<1>2. IsFiniteSet(S) /\ \A x \in S : ItemAmount[x] \in Int
  BY SettleConstants, FS_Subset
<1> QED BY <1>1, <1>2, SumInt

LEMMA SettleTotalGrows ==
  ASSUME NEW S \in SUBSET Settle!Items, NEW T \in SUBSET Settle!Items, S \cap T = {}
  PROVE  Settle!Total(S \cup T) = Settle!Total(S) + Settle!Total(T)
<1>1. /\ Settle!Total(S) = SumOver(ItemAmount, S) /\ Settle!Total(T) = SumOver(ItemAmount, T)
      /\ IsFiniteSet(S) /\ IsFiniteSet(T)
  BY SettleTotal
<1>2. S \cup T \in SUBSET Settle!Items
  OBVIOUS
<1>3. Settle!Total(S \cup T) = SumOver(ItemAmount, S \cup T)
  BY <1>2, SettleTotal
<1>4. \A x \in S \cup T : ItemAmount[x] \in Int
  BY <1>2, SettleConstants
<1>5. SumOver(ItemAmount, S \cup T) = SumOver(ItemAmount, S) + SumOver(ItemAmount, T)
  BY <1>1, <1>4, SumUnion
<1> QED BY <1>1, <1>3, <1>5

\* Where each request leads.
LEMMA SettleAfter ==
  ASSUME NEW op \in Settle!Operations, NEW q \in DOMAIN Settle!After(op)
  PROVE  /\ Settle!After(op)[q] \in Settle!States /\ q \in Settle!States
         /\ op = "calculate" => q \in {"DRAFT", "CALCULATED"}
         /\ Settle!After(op)[q] = "APPROVED" <=> op = "approve"
         /\ Settle!After(op)[q] = "LOCKED" <=> op = "lock"
         /\ Settle!After(op)[q] = "PAID" <=> op = "payout"
         /\ Settle!After(op)[q] = "RECONCILED" <=> op = "reconcile"
         /\ op = "lock" => q = "APPROVED"
         /\ op = "payout" => q = "LOCKED"
         /\ op = "reconcile" => q = "PAID"
         /\ q = "PAID" => op = "reconcile"
         /\ q # "RECONCILED"
<1>1. CASE op = "calculate" BY <1>1 DEF Settle!After, Settle!States
<1>2. CASE op = "review" BY <1>2 DEF Settle!After, Settle!States
<1>3. CASE op = "approve" BY <1>3 DEF Settle!After, Settle!States
<1>4. CASE op = "lock" BY <1>4 DEF Settle!After, Settle!States
<1>5. CASE op = "payout" BY <1>5 DEF Settle!After, Settle!States
<1>6. CASE op = "reconcile" BY <1>6 DEF Settle!After, Settle!States
<1>7. CASE op = "dispute" BY <1>7 DEF Settle!After, Settle!States
<1>8. CASE op = "reverse" BY <1>8 DEF Settle!After, Settle!States
<1> QED BY <1>1, <1>2, <1>3, <1>4, <1>5, <1>6, <1>7, <1>8 DEF Settle!Operations

LEMMA SettleBegins == Settle!Init => SettleInv
<1> SUFFICES ASSUME Settle!Init PROVE SettleInv
  OBVIOUS
<1>1. Settle!Total({}) = 0
  BY SettleTotal, SumEmpty
<1>2. Settle!TypeOK
  BY DEF Settle!Init, Settle!TypeOK, Settle!States
<1> QED BY <1>1, <1>2 DEF Settle!Init, SettleInv, SettleTasks, SettleFresh, PaidAsApproved,
     Settle!PaidAsApproved, Approved, NetIsSum, SettledOnce, Holders

LEMMA SettleRecognize ==
  ASSUME SettleInv, NEW e \in Earnings, Settle!Recognize(e) PROVE SettleInv'
<1> USE DEF SettleInv, Settle!Recognize
<1>1. Settle!TypeOK'
  BY DEF Settle!TypeOK
<1>2. SettleTasks' /\ SettleFresh'
  BY DEF SettleTasks, SettleFresh
<1>3. PaidAsApproved' /\ Approved' /\ NetIsSum'
  BY DEF PaidAsApproved, Settle!PaidAsApproved, Approved, NetIsSum
<1>4. SettledOnce'
  BY DEF SettledOnce, Holders, Settle!TypeOK
<1> QED BY <1>1, <1>2, <1>3, <1>4

LEMMA SettleCorrect ==
  ASSUME SettleInv, NEW c \in Corrections, Settle!Correct(c) PROVE SettleInv'
<1> USE DEF SettleInv, Settle!Correct
<1>0. EarningOf[c] \in Earnings
  BY SettleConstants
<1>1. Settle!TypeOK'
  BY <1>0 DEF Settle!TypeOK
<1>2. SettleTasks' /\ SettleFresh'
  BY DEF SettleTasks, SettleFresh
<1>3. PaidAsApproved' /\ Approved' /\ NetIsSum'
  BY DEF PaidAsApproved, Settle!PaidAsApproved, Approved, NetIsSum
<1>4. SettledOnce'
  <2> SUFFICES ASSUME NEW e \in Earnings \ contested'
               PROVE  SettledOnce!(e)'
    BY DEF SettledOnce
  <2>1. CASE e # EarningOf[c]
    BY <2>1 DEF SettledOnce, Holders, Settle!TypeOK
  <2>2. CASE e = EarningOf[c]
    <3>1. ~Settle!Read(e) /\ Holders(e) = {}
      BY <2>2 DEF Holders
    <3>2. earning'[e] # "SETTLED" /\ Holders(e)' = {}
      BY <2>2, <3>1, <1>0 DEF Settle!TypeOK, Holders
    <3> QED BY <3>1, <3>2 DEF Settle!Read
  <2> QED BY <2>1, <2>2
<1> QED BY <1>1, <1>2, <1>3, <1>4

LEMMA SettleBegin ==
  ASSUME SettleInv, NEW h \in Handlers, NEW op \in Settle!Operations, NEW s \in Settlements,
         Settle!Begin(h, op, s)
  PROVE  SettleInv'
<1> DEFINE t == [op |-> op, of |-> s, state |-> state[s], net |-> net[s],
                 read |-> op # "calculate", found |-> {}, known |-> {}]
<1>0. /\ settling' = [settling EXCEPT ![h] = t] /\ state[s] \in DOMAIN Settle!After(op)
      /\ UNCHANGED <<earning, corrected, state, lines, net, payouts, approvedNet, recounted, contested>>
  BY DEF Settle!Begin
<1>1. t \in Settle!Tasks
  BY DEF SettleInv, Settle!TypeOK, Settle!Tasks
<1>2. /\ t.op = op /\ t.of = s /\ t.state = state[s] /\ t.net = net[s]
      /\ t.read = (op # "calculate") /\ t.found = {} /\ t.known = {}
  OBVIOUS
<1> HIDE DEF t
<1>3. /\ settling'[h] = t /\ \A g \in Handlers \ {h} : settling'[g] = settling[g]
      /\ settling' \in [Handlers -> {Settle!Idle} \cup Settle!Tasks]
  BY <1>0, <1>1 DEF SettleInv, SettleTasks
<1>4. Settle!TypeOK'
  BY <1>0, <1>3, <1>1 DEF SettleInv, Settle!TypeOK
<1>5. SettleTasks'
  BY <1>0, <1>2, <1>3 DEF SettleInv, SettleTasks
<1>6. SettleFresh'
  BY <1>0, <1>2, <1>3 DEF SettleInv, SettleFresh
<1>7. PaidAsApproved' /\ Approved' /\ NetIsSum'
  BY <1>0 DEF SettleInv, PaidAsApproved, Settle!PaidAsApproved, Approved, NetIsSum
<1>8. SettledOnce'
  BY <1>0, <1>2, <1>3 DEF SettleInv, SettledOnce, Holders
<1> QED BY <1>4, <1>5, <1>6, <1>7, <1>8 DEF SettleInv

LEMMA SettleLoad ==
  ASSUME SettleInv, NEW h \in Handlers, Settle!Load(h) PROVE SettleInv'
<1> DEFINE found == Settle!Eligible \cup {c \in corrected : EarningOf[c] \in Settle!Eligible}
<1>0. /\ settling[h] # Settle!Idle /\ ~settling[h].read
      /\ settling' = [settling EXCEPT ![h].read = TRUE, ![h].found = found,
                        ![h].known = lines[settling[h].of]]
      /\ contested' = contested \cup {e \in Settle!Eligible : Settle!Read(e)}
      /\ UNCHANGED <<earning, corrected, state, lines, net, payouts, approvedNet, recounted>>
  BY DEF Settle!Load
<1>1. /\ settling \in [Handlers -> {Settle!Idle} \cup Settle!Tasks] /\ settling[h] \in Settle!Tasks
      /\ settling[h].of \in Settlements
  BY <1>0 DEF SettleInv, SettleTasks, Settle!Tasks
<1>2. found \in SUBSET Settle!Items /\ lines[settling[h].of] \in SUBSET Settle!Items
  BY <1>1 DEF SettleInv, Settle!TypeOK, Settle!Eligible, Settle!Items
<1>3. \A e \in Earnings : e \in found => e \in Settle!Eligible
  BY SettleConstants DEF SettleInv, Settle!TypeOK
<1> HIDE DEF found
<1>4. /\ settling'[h] \in Settle!Tasks
      /\ settling'[h].op = settling[h].op /\ settling'[h].of = settling[h].of
      /\ settling'[h].state = settling[h].state /\ settling'[h].net = settling[h].net
      /\ settling'[h].read /\ settling'[h].found = found
      /\ settling'[h].known = lines[settling[h].of]
      /\ \A g \in Handlers \ {h} : settling'[g] = settling[g]
  BY <1>0, <1>1, <1>2 DEF Settle!Tasks
<1>5. settling' \in [Handlers -> {Settle!Idle} \cup Settle!Tasks]
  BY <1>0, <1>1, <1>4
<1>6. Settle!TypeOK'
  BY <1>0, <1>5 DEF SettleInv, Settle!TypeOK, Settle!Eligible
<1>7. SettleTasks'
  BY <1>0, <1>4, <1>5 DEF SettleInv, SettleTasks
<1>8. SettleFresh'
  <2> SUFFICES ASSUME NEW g \in Handlers, settling'[g] # Settle!Idle, settling'[g].of \notin recounted'
               PROVE  SettleFresh!(g)'
    BY DEF SettleFresh
  <2>1. settling[g] # Settle!Idle /\ settling[g].of \notin recounted
    <3>1. CASE g = h BY <3>1, <1>0, <1>4
    <3>2. CASE g # h
      <4>1. settling'[g] = settling[g] /\ recounted' = recounted
        BY <3>2, <1>0, <1>4
      <4> QED BY <4>1
    <3> QED BY <3>1, <3>2
  <2>2. SettleFresh!(g)
    BY <2>1 DEF SettleInv, SettleFresh
  <2> QED BY <2>1, <2>2, <1>0, <1>4
<1>9. PaidAsApproved' /\ Approved' /\ NetIsSum'
  BY <1>0 DEF SettleInv, PaidAsApproved, Settle!PaidAsApproved, Approved, NetIsSum
<1>10. SettledOnce'
  <2> SUFFICES ASSUME NEW e \in Earnings \ contested'
               PROVE  SettledOnce!(e)'
    BY DEF SettledOnce
  <2>1. e \in Earnings \ contested /\ (e \in Settle!Eligible => ~Settle!Read(e))
    BY <1>0
  <2>2. Holders(e)' = Holders(e) /\ SettledOnce!(e)
    BY <1>0, <2>1 DEF SettleInv, SettledOnce, Holders
  <2>3. ASSUME NEW g \in Handlers, settling'[g] # Settle!Idle, e \in settling'[g].found
        PROVE  /\ earning[e] \in {"RECOGNIZED", "ADJUSTED"} /\ e \notin settling'[g].known
               /\ \A k \in Handlers \ {g} : settling'[k] # Settle!Idle => e \notin settling'[k].found
    <3>1. CASE g = h
      <4>1. e \in Settle!Eligible
        BY <1>3, <1>4, <2>3, <3>1
      <4>2. earning[e] \in {"RECOGNIZED", "ADJUSTED"} /\ Holders(e) = {}
        BY <4>1, <2>2 DEF Settle!Eligible
      <4>3. e \notin lines[settling[h].of]
        BY <4>2, <1>1 DEF Holders
      <4> QED BY <4>1, <4>2, <4>3, <2>1, <1>4, <3>1 DEF Settle!Read
    <3>2. CASE g # h
      <4>1. settling[g] # Settle!Idle /\ e \in settling[g].found /\ Settle!Read(e)
        BY <3>2, <2>3, <1>4 DEF Settle!Read
      <4>2. earning[e] \in {"RECOGNIZED", "ADJUSTED"}
        BY <4>1, <2>2
      <4> QED BY <4>1, <4>2, <2>1 DEF Settle!Eligible
    <3> QED BY <3>1, <3>2
  <2> QED BY <1>0, <2>2, <2>3
<1> QED BY <1>6, <1>7, <1>8, <1>9, <1>10 DEF SettleInv

\* A request ends without a change to any settlement or earning.
LEMMA SettleAnswered ==
  ASSUME SettleInv, NEW h \in Handlers, settling' = [settling EXCEPT ![h] = Settle!Idle],
         UNCHANGED <<earning, corrected, state, lines, net, payouts, approvedNet, recounted, contested>>
  PROVE  SettleInv'
<1>1. /\ settling'[h] = Settle!Idle /\ \A g \in Handlers \ {h} : settling'[g] = settling[g]
      /\ settling' \in [Handlers -> {Settle!Idle} \cup Settle!Tasks]
  BY DEF SettleInv, SettleTasks
<1>2. Settle!TypeOK'
  BY <1>1 DEF SettleInv, Settle!TypeOK
<1>3. SettleTasks' /\ SettleFresh'
  BY <1>1 DEF SettleInv, SettleTasks, SettleFresh
<1>4. PaidAsApproved' /\ Approved' /\ NetIsSum'
  BY DEF SettleInv, PaidAsApproved, Settle!PaidAsApproved, Approved, NetIsSum
<1>5. SettledOnce'
  BY <1>1 DEF SettleInv, SettledOnce, Holders
<1> QED BY <1>2, <1>3, <1>4, <1>5 DEF SettleInv

LEMMA SettleCalculate ==
  ASSUME SettleInv, NEW h \in Handlers, Settle!Calculate(h) PROVE SettleInv'
<1> DEFINE t == settling[h]
           s == t.of
           fresh == t.found \ t.known
           others == \E g \in Handlers \ {h} : settling[g] # Settle!Idle /\ settling[g].of = s
<1>0. /\ t # Settle!Idle /\ t.op = "calculate" /\ t.read
      /\ settling' = [settling EXCEPT ![h] = Settle!Idle]
      /\ UNCHANGED <<corrected, payouts, approvedNet, contested>>
  BY DEF Settle!Calculate
<1>1. CASE fresh \cap lines[s] # {}
  <2>1. UNCHANGED <<earning, state, lines, net, recounted>>
    BY <1>1 DEF Settle!Calculate
  <2> QED BY <1>0, <2>1, SettleAnswered
<1>2. CASE ~(fresh \cap lines[s] # {})
  <2>1. /\ lines' = [lines EXCEPT ![s] = @ \cup fresh]
        /\ earning' = [e \in Earnings |-> IF e \in fresh THEN "SETTLED" ELSE earning[e]]
        /\ net' = [net EXCEPT ![s] = IF Settle!NewNet(t) = t.net THEN @ ELSE Settle!NewNet(t)]
        /\ state' = [state EXCEPT ![s] = IF "CALCULATED" = t.state THEN @ ELSE "CALCULATED"]
        /\ recounted' = recounted \cup {x \in {s} : \E g \in Handlers \ {h} : settling[g] # Settle!Idle /\ settling[g].of = x}
    BY <1>2 DEF Settle!Calculate, Settle!Column
  <2>2. /\ t \in Settle!Tasks /\ s \in Settlements /\ t.net \in Int
        /\ t.found \in SUBSET Settle!Items /\ t.known \in SUBSET Settle!Items
        /\ t.state \in {"DRAFT", "CALCULATED"} /\ fresh \in SUBSET Settle!Items
        /\ lines[s] \in SUBSET Settle!Items
    <3>1. t \in Settle!Tasks /\ t.state \in DOMAIN Settle!After(t.op)
      BY <1>0 DEF SettleInv, SettleTasks
    <3>2. t.op \in Settle!Operations
      BY <3>1 DEF Settle!Tasks
    <3>3. t.state \in {"DRAFT", "CALCULATED"}
      BY <3>1, <3>2, <1>0, SettleAfter
    <3> QED BY <3>1, <3>3 DEF Settle!Tasks, SettleInv, Settle!TypeOK
  <2>3. Settle!NewNet(t) = t.net + Settle!Total(fresh) /\ Settle!Total(fresh) \in Int
    BY <2>2, SettleTotal DEF Settle!NewNet
  <2> DEFINE new == Settle!NewNet(t)
  <2>4. /\ settling'[h] = Settle!Idle /\ \A g \in Handlers \ {h} : settling'[g] = settling[g]
        /\ settling' \in [Handlers -> {Settle!Idle} \cup Settle!Tasks]
    BY <1>0 DEF SettleInv, SettleTasks
  <2>5. /\ s \in recounted' <=> s \in recounted \/ others
        /\ \A x \in Settlements \ {s} : x \in recounted' <=> x \in recounted
        /\ recounted' \subseteq Settlements
    BY <2>1, <2>2 DEF SettleInv, Settle!TypeOK
  <2>6. s \notin recounted' =>
          /\ t.state = state[s] /\ t.net = net[s] /\ t.known = lines[s]
          /\ \A g \in Handlers \ {h} : settling[g] # Settle!Idle => settling[g].of # s
    BY <1>0, <2>5 DEF SettleInv, SettleFresh
  <2> HIDE DEF t, s, fresh, others, new
  <2>7. new \in Int /\ Settle!NewNet(t) = new
    BY <2>2, <2>3 DEF new
  <2>8. Settle!TypeOK'
    BY <1>0, <2>1, <2>2, <2>4, <2>5, <2>7 DEF SettleInv, Settle!TypeOK, Settle!States
  <2>9. SettleTasks'
    BY <2>4 DEF SettleInv, SettleTasks
  <2>10. \A x \in Settlements \ {s} :
           /\ state'[x] = state[x] /\ net'[x] = net[x] /\ lines'[x] = lines[x]
    BY <2>1, <2>2 DEF SettleInv, Settle!TypeOK
  <2>11. /\ lines'[s] = lines[s] \cup fresh
         /\ s \notin recounted' => state'[s] = "CALCULATED" /\ net'[s] = new
    BY <2>1, <2>2, <2>6, <2>7 DEF SettleInv, Settle!TypeOK
  <2>12. SettleFresh'
    <3> SUFFICES ASSUME NEW g \in Handlers, settling'[g] # Settle!Idle, settling'[g].of \notin recounted'
                 PROVE  SettleFresh!(g)'
      BY DEF SettleFresh
    <3>1. g # h /\ settling'[g] = settling[g]
      BY <2>4
    <3>2. settling[g].of \in Settlements \ {s}
      BY <3>1, <2>6 DEF SettleInv, SettleTasks, Settle!Tasks
    <3> QED BY <3>1, <3>2, <2>10, <2>5 DEF SettleInv, SettleFresh
  <2>13. PaidAsApproved'
    <3> SUFFICES ASSUME NEW x \in Settlements \ recounted'
                 PROVE  /\ state'[x] \in {"LOCKED", "PAID", "RECONCILED"} => net'[x] = approvedNet'[x]
                        /\ payouts'[x] = IF state'[x] \in {"PAID", "RECONCILED"} THEN 1 ELSE 0
      BY DEF PaidAsApproved, Settle!PaidAsApproved
    <3>1. x \in Settlements \ recounted
      BY <2>5
    <3> QED BY <3>1, <1>0, <2>10, <2>11, <2>2, <2>6 DEF SettleInv, PaidAsApproved, Settle!PaidAsApproved
  <2>14. Approved'
    BY <1>0, <2>5, <2>10, <2>11 DEF SettleInv, Approved
  <2>15. NetIsSum'
    <3> SUFFICES ASSUME NEW x \in Settlements \ recounted'
                 PROVE  net'[x] = Settle!Total(lines'[x])
      BY DEF NetIsSum, Settle!Total
    <3>1. CASE x # s
      BY <3>1, <2>5, <2>10 DEF SettleInv, NetIsSum
    <3>2. CASE x = s
      <4>1. fresh \cap lines[s] = {} /\ net[s] = Settle!Total(lines[s])
        BY <3>2, <2>5, <1>2 DEF SettleInv, NetIsSum
      <4>2. Settle!Total(lines[s] \cup fresh) = Settle!Total(lines[s]) + Settle!Total(fresh)
        BY <4>1, <2>2, SettleTotalGrows
      <4>3. net'[s] = net[s] + Settle!Total(fresh)
        BY <3>2, <2>11, <2>7, <2>3, <2>6
      <4> QED BY <3>2, <4>1, <4>2, <4>3, <2>11
    <3> QED BY <3>1, <3>2
  <2>16. SettledOnce'
    <3> SUFFICES ASSUME NEW e \in Earnings \ contested'
                 PROVE  SettledOnce!(e)'
      BY DEF SettledOnce
    <3>1. e \in Earnings \ contested /\ SettledOnce!(e)
      BY <1>0 DEF SettleInv, SettledOnce
    <3>2. CASE e \in fresh
      <4>1. /\ earning[e] \in {"RECOGNIZED", "ADJUSTED"}
            /\ \A g \in Handlers \ {h} : settling[g] # Settle!Idle => e \notin settling[g].found
        BY <3>1, <3>2, <1>0 DEF fresh, t
      <4>2. Holders(e) = {}
        BY <3>1, <4>1
      <4>3. Holders(e)' = {s}
        BY <4>2, <3>2, <2>2, <2>10, <2>11 DEF Holders
      <4>4. earning'[e] = "SETTLED"
        BY <2>1, <3>2
      <4>5. \A g \in Handlers : settling'[g] # Settle!Idle => e \notin settling'[g].found
        BY <4>1, <2>4
      <4> QED BY <4>3, <4>4, <4>5, <2>2
    <3>3. CASE e \notin fresh
      <4>1. e \notin t.found
        BY <3>1, <3>3, <1>0 DEF fresh, t
      <4>2. earning'[e] = earning[e]
        BY <2>1, <3>3
      <4>3. Holders(e)' = Holders(e)
        BY <3>3, <2>10, <2>11, <2>2 DEF Holders
      <4>4. \A g \in Handlers : settling'[g] # Settle!Idle => settling[g] # Settle!Idle /\ settling'[g] = settling[g]
        BY <2>4
      <4> QED BY <3>1, <4>2, <4>3, <4>4
    <3> QED BY <3>2, <3>3
  <2> QED BY <2>8, <2>9, <2>12, <2>13, <2>14, <2>15, <2>16 DEF SettleInv
<1> QED BY <1>1, <1>2

LEMMA SettleCommit ==
  ASSUME SettleInv, NEW h \in Handlers, Settle!Commit(h) PROVE SettleInv'
<1> DEFINE t == settling[h]
           s == t.of
           others == \E g \in Handlers \ {h} : settling[g] # Settle!Idle /\ settling[g].of = s
           goes == Settle!After(t.op)[t.state]
<1>1. /\ t # Settle!Idle /\ t.op # "calculate"
      /\ settling' = [settling EXCEPT ![h] = Settle!Idle]
      /\ state' = [state EXCEPT ![s] = goes]
      /\ payouts' = [payouts EXCEPT ![s] = IF t.op = "payout" THEN @ + 1 ELSE @]
      /\ approvedNet' = [approvedNet EXCEPT ![s] = IF t.op = "approve" THEN t.net ELSE @]
      /\ recounted' = recounted \cup {x \in {s} : \E g \in Handlers \ {h} : settling[g] # Settle!Idle /\ settling[g].of = x}
      /\ UNCHANGED <<earning, corrected, lines, net, contested>>
  BY DEF Settle!Commit
<1>2. /\ t \in Settle!Tasks /\ s \in Settlements /\ t.net \in Int
      /\ t.op \in Settle!Operations /\ t.state \in DOMAIN Settle!After(t.op)
  BY <1>1 DEF SettleInv, SettleTasks, Settle!Tasks
<1>3. /\ goes \in Settle!States
      /\ goes = "APPROVED" <=> t.op = "approve"
      /\ goes = "LOCKED" <=> t.op = "lock"
      /\ goes = "PAID" <=> t.op = "payout"
      /\ goes = "RECONCILED" <=> t.op = "reconcile"
      /\ t.op = "lock" => t.state = "APPROVED"
      /\ t.op = "payout" => t.state = "LOCKED"
      /\ t.op = "reconcile" => t.state = "PAID"
      /\ t.state = "PAID" => t.op = "reconcile"
      /\ t.state # "RECONCILED"
  BY <1>2, SettleAfter
<1>4. /\ settling'[h] = Settle!Idle /\ \A g \in Handlers \ {h} : settling'[g] = settling[g]
      /\ settling' \in [Handlers -> {Settle!Idle} \cup Settle!Tasks]
  BY <1>1 DEF SettleInv, SettleTasks
<1>5. /\ s \in recounted' <=> s \in recounted \/ others
      /\ \A x \in Settlements \ {s} : x \in recounted' <=> x \in recounted
      /\ recounted' \subseteq Settlements
  BY <1>1, <1>2 DEF SettleInv, Settle!TypeOK
<1>6. s \notin recounted' =>
        /\ t.state = state[s] /\ t.net = net[s]
        /\ \A g \in Handlers \ {h} : settling[g] # Settle!Idle => settling[g].of # s
  BY <1>1, <1>5 DEF SettleInv, SettleFresh
<1> HIDE DEF t, s, others, goes
<1>7. Settle!TypeOK'
  BY <1>1, <1>2, <1>3, <1>4, <1>5 DEF SettleInv, Settle!TypeOK
<1>8. SettleTasks'
  BY <1>4 DEF SettleInv, SettleTasks
<1>9. /\ \A x \in Settlements \ {s} :
           state'[x] = state[x] /\ payouts'[x] = payouts[x] /\ approvedNet'[x] = approvedNet[x]
      /\ state'[s] = goes
      /\ payouts'[s] = IF t.op = "payout" THEN payouts[s] + 1 ELSE payouts[s]
      /\ approvedNet'[s] = IF t.op = "approve" THEN t.net ELSE approvedNet[s]
  BY <1>1, <1>2 DEF SettleInv, Settle!TypeOK
<1>10. SettleFresh'
  <2> SUFFICES ASSUME NEW g \in Handlers, settling'[g] # Settle!Idle, settling'[g].of \notin recounted'
               PROVE  SettleFresh!(g)'
    BY DEF SettleFresh
  <2>1. g # h /\ settling'[g] = settling[g]
    BY <1>4
  <2>2. settling[g].of \in Settlements \ {s}
    BY <2>1, <1>6 DEF SettleInv, SettleTasks, Settle!Tasks
  <2> QED BY <2>1, <2>2, <1>1, <1>9, <1>5 DEF SettleInv, SettleFresh
<1>11. PaidAsApproved' /\ Approved'
  <2> SUFFICES ASSUME NEW x \in Settlements \ recounted'
               PROVE  /\ state'[x] \in {"LOCKED", "PAID", "RECONCILED"} => net'[x] = approvedNet'[x]
                      /\ payouts'[x] = IF state'[x] \in {"PAID", "RECONCILED"} THEN 1 ELSE 0
                      /\ state'[x] = "APPROVED" => net'[x] = approvedNet'[x]
    BY DEF PaidAsApproved, Settle!PaidAsApproved, Approved
  <2>1. x \in Settlements \ recounted /\ net'[x] = net[x]
    BY <1>5, <1>1
  <2>2. /\ state[x] \in {"LOCKED", "PAID", "RECONCILED"} => net[x] = approvedNet[x]
        /\ payouts[x] = IF state[x] \in {"PAID", "RECONCILED"} THEN 1 ELSE 0
        /\ state[x] = "APPROVED" => net[x] = approvedNet[x]
    BY <2>1 DEF SettleInv, PaidAsApproved, Settle!PaidAsApproved, Approved
  <2>3. CASE x # s
    BY <2>1, <2>2, <2>3, <1>9
  <2>4. CASE x = s
    BY <2>1, <2>2, <2>4, <1>9, <1>6, <1>3
  <2> QED BY <2>3, <2>4
<1>12. NetIsSum'
  BY <1>1, <1>5, <1>2 DEF SettleInv, NetIsSum
<1>13. SettledOnce'
  BY <1>1, <1>4 DEF SettleInv, SettledOnce, Holders
<1> QED BY <1>7, <1>8, <1>10, <1>11, <1>12, <1>13 DEF SettleInv

LEMMA SettleStep ==
  ASSUME SettleInv, [Settle!Next]_(Settle!vars) PROVE SettleInv'
<1>1. CASE UNCHANGED Settle!vars
  <2>1. UNCHANGED <<earning, corrected, state, lines, net, payouts, settling, approvedNet,
                    recounted, contested>>
    BY <1>1 DEF Settle!vars
  <2> QED BY <2>1 DEF SettleInv, Settle!TypeOK, SettleTasks, SettleFresh, PaidAsApproved,
     Settle!PaidAsApproved, Approved, NetIsSum, SettledOnce, Holders
<1>2. CASE Settle!Next
  BY <1>2, SettleRecognize, SettleCorrect, SettleBegin, SettleLoad, SettleCalculate, SettleCommit
     DEF Settle!Next
<1> QED BY <1>1, <1>2

\* A settlement is the sum of its lines and a settled earning is on one.
LEMMA SettleLines == SettleInv => LinesAddUp
<1> SUFFICES ASSUME SettleInv PROVE LinesAddUp
  OBVIOUS
<1>0. \A S : Settle!Cardinality(S) = Cardinality(S)
  BY DEF Settle!Cardinality, Cardinality
<1>1. \A e \in Earnings \ contested :
        Settle!Cardinality({s \in Settlements : e \in lines[s]})
          = IF earning[e] = "SETTLED" THEN 1 ELSE 0
  <2> TAKE e \in Earnings \ contested
  <2>1. CASE earning[e] = "SETTLED"
    <3>1. PICK s \in Settlements : Holders(e) = {s}
      BY <2>1 DEF SettleInv, SettledOnce
    <3> QED BY <1>0, <2>1, <3>1, FS_Singleton DEF Holders
  <2>2. CASE earning[e] # "SETTLED"
    <3>1. Holders(e) = {}
      BY <2>2 DEF SettleInv, SettledOnce
    <3> QED BY <1>0, <2>2, <3>1, FS_EmptySet DEF Holders
  <2> QED BY <2>1, <2>2
<1> QED BY <1>1 DEF LinesAddUp, Settle!LinesAddUp, SettleInv, NetIsSum

---------------------------------------------------------------------------
(* The ledger *)

BookRequests ==
  [op : {"idle", "post", "rebuild"}, entry : Entries \cup {None}, todo : Seq(LedgerAccounts),
   seen : Book!Balances, added : SUBSET LedgerAccounts, sum : Book!Balances]

\* A posting has its entry to itself, and has read the projection of every
\* account of the entry, or will.
BookTasks ==
  /\ posting \in [Handlers -> BookRequests]
  /\ \A h \in Handlers :
       /\ posting[h].op # "post" => posting[h].entry = None
       /\ posting[h].op = "post" =>
            /\ posting[h].entry \in Entries \ posted
            /\ \A a \in LedgerAccounts : Book!Contains(Lines[posting[h].entry], a) =>
                 posting[h].seen[a] # Absent \/ Book!Contains(posting[h].todo, a)
  /\ \A g, h \in Handlers : g # h /\ posting[g].entry = posting[h].entry => posting[g].entry = None

\* The ledger invariant.
BookInv == Book!TypeOK /\ BookTasks /\ ProjectionIsSum

LEMMA BookConstants ==
  /\ Absent \notin Int /\ None \notin Entries /\ MaxRebuilds \in Nat
  /\ IsFiniteSet(Entries) /\ IsFiniteSet(LedgerAccounts)
  /\ Lines \in [Entries -> Seq(LedgerAccounts)]
  /\ Change \in [Entries -> [LedgerAccounts -> Int]]
  /\ \A e \in Entries, a \in LedgerAccounts : Change[e][a] # 0 => Book!Contains(Lines[e], a)
BY MoneyAssumption DEF Book!LedgerAssumption, Book!IsFiniteSet, IsFiniteSet

\* The sum of an account's lines, and what one more entry adds to it.
LEMMA BookSum ==
  ASSUME NEW es \in SUBSET Entries, NEW a \in LedgerAccounts
  PROVE  /\ Book!Sum(es, a) \in Int
         /\ \A e \in Entries \ es : Book!Sum(es \cup {e}, a) = Book!Sum(es, a) + Change[e][a]
<1> DEFINE f == [e \in Entries |-> Change[e][a]]
<1>1. \A S : Book!Sum(S, a) = SumOver(f, S)
  BY DEF Book!Sum, Book!SumOver, SumOver, Book!MapThenSumSet, Book!MapThenFoldSet,
         MapThenSumSet, MapThenFoldSet
<1>2. IsFiniteSet(es) /\ \A e \in Entries : f[e] = Change[e][a] /\ f[e] \in Int
  BY BookConstants, FS_Subset
<1> HIDE DEF f
<1>3. SumOver(f, es) \in Int
  BY <1>2, SumInt
<1>4. ASSUME NEW e \in Entries \ es PROVE SumOver(f, es \cup {e}) = Change[e][a] + SumOver(f, es)
  <2>1. \A x \in es \cup {e} : f[x] \in Int
    BY <1>2
  <2>2. SumOver(f, es \cup {e}) = f[e] + SumOver(f, es)
    BY <1>2, <2>1, SumAdd
  <2> QED BY <1>2, <2>2
<1>5. ASSUME NEW e \in Entries \ es PROVE Book!Sum(es \cup {e}, a) = Book!Sum(es, a) + Change[e][a]
  <2>1. Change[e][a] \in Int
    BY BookConstants
  <2>2. Book!Sum(es \cup {e}, a) = SumOver(f, es \cup {e}) /\ Book!Sum(es, a) = SumOver(f, es)
    BY <1>1
  <2> QED BY <2>1, <2>2, <1>3, <1>4
<1> QED BY <1>1, <1>3, <1>5

\* The accounts of a rebuild, in some order.
LEMMA BookOrder == ASSUME NEW S \in SUBSET LedgerAccounts PROVE Book!SetToSeq(S) \in Seq(LedgerAccounts)
<1>1. IsFiniteSet(S)
  BY BookConstants, FS_Subset
<1>2. Cardinality(S) \in Nat /\ ExistsBijection(1..Cardinality(S), S)
  BY <1>1, FS_CardinalityType
<1>3. \E f \in [1..Cardinality(S) -> S] : IsInjective(f)
  BY <1>2 DEF ExistsBijection, Bijection, Injection
<1>4. \A X : Book!Cardinality(X) = Cardinality(X)
  BY DEF Book!Cardinality, Cardinality
<1>5. Book!SetToSeq(S) \in [1..Cardinality(S) -> S]
  BY <1>3, <1>4 DEF Book!SetToSeq, Book!IsInjective, IsInjective
<1> QED BY <1>2, <1>5

LEMMA BookIdle ==
  /\ Book!Idle \in BookRequests
  /\ Book!Idle.op = "idle" /\ Book!Idle.entry = None /\ Book!Idle.added = {}
  /\ Book!Nothing \in Book!Balances
BY DEF Book!Idle, Book!Nothing, Book!Balances, BookRequests

LEMMA BookBegins == Book!Init => BookInv
<1> SUFFICES ASSUME Book!Init PROVE BookInv
  OBVIOUS
<1>1. Book!TypeOK
  BY BookIdle, BookConstants DEF Book!Init, Book!TypeOK, BookRequests
<1>2. BookTasks
  BY BookIdle DEF Book!Init, BookTasks
<1>3. \A a \in LedgerAccounts : Book!Sum({}, a) = 0
  BY SumEmpty DEF Book!Sum, Book!SumOver, SumOver, Book!MapThenSumSet, Book!MapThenFoldSet,
         MapThenSumSet, MapThenFoldSet
<1>4. ProjectionIsSum
  BY <1>3 DEF Book!Init, ProjectionIsSum, Book!ProjectionIsSum, Book!Value, Book!Nothing
<1> QED BY <1>1, <1>2, <1>4 DEF BookInv

\* A task a request may take up.
BookFits(h, t) ==
  /\ t \in BookRequests
  /\ t.entry # None => \A g \in Handlers \ {h} : posting[g].entry # t.entry
  /\ \A g \in Handlers \ {h} : t.added \cap posting[g].added = {}
  /\ t.op # "post" => t.entry = None
  /\ t.op = "post" =>
       /\ t.entry \in Entries \ posted
       /\ \A a \in LedgerAccounts : Book!Contains(Lines[t.entry], a) =>
            t.seen[a] # Absent \/ Book!Contains(t.todo, a)

\* A request with another task, the books as they are.
LEMMA BookTask ==
  ASSUME BookInv, NEW h \in Handlers, NEW t, BookFits(h, t), posting' = [posting EXCEPT ![h] = t],
         UNCHANGED <<posted, balance, lost>>, rebuilds' \in 0..MaxRebuilds
  PROVE  BookInv'
<1> USE DEF BookFits, BookRequests
<1>1. /\ posting'[h] = t /\ \A g \in Handlers \ {h} : posting'[g] = posting[g]
      /\ posting' \in [Handlers -> BookRequests]
  BY DEF BookInv, BookTasks
<1>2. Book!TypeOK'
  <2>1. \A g, k \in Handlers : g # k => posting'[g].added \cap posting'[k].added = {}
    BY <1>1 DEF BookInv, Book!TypeOK
  <2> QED BY <1>1, <2>1 DEF BookInv, Book!TypeOK, Book!Balances
<1>3. BookTasks'
  <2>1. ASSUME NEW g \in Handlers
        PROVE  /\ posting'[g].op # "post" => posting'[g].entry = None
               /\ posting'[g].op = "post" =>
                    /\ posting'[g].entry \in Entries \ posted'
                    /\ \A a \in LedgerAccounts : Book!Contains(Lines[posting'[g].entry], a) =>
                         posting'[g].seen[a] # Absent \/ Book!Contains(posting'[g].todo, a)
    <3>1. CASE g = h BY <3>1, <1>1
    <3>2. CASE g # h BY <3>2, <1>1 DEF BookInv, BookTasks
    <3> QED BY <3>1, <3>2
  <2>2. \A g, k \in Handlers : g # k /\ posting'[g].entry = posting'[k].entry => posting'[g].entry = None
    BY <1>1 DEF BookInv, BookTasks
  <2> QED BY <1>1, <2>1, <2>2 DEF BookTasks, Book!Balances, Book!Contains
<1>4. ProjectionIsSum'
  BY DEF BookInv, ProjectionIsSum, Book!ProjectionIsSum, Book!Value, Book!Sum
<1> QED BY <1>2, <1>3, <1>4 DEF BookInv

LEMMA BookPost ==
  ASSUME BookInv, NEW h \in Handlers, NEW e \in Entries, Book!Post(h, e) PROVE BookInv'
<1> DEFINE t == [Book!Idle EXCEPT !.op = "post", !.entry = e, !.todo = Lines[e]]
<1>1. /\ posting' = [posting EXCEPT ![h] = t] /\ e \notin posted
      /\ \A g \in Handlers : posting[g].entry # e
      /\ UNCHANGED <<posted, balance, rebuilds, lost>>
  BY DEF Book!Post
<1>2. /\ t \in BookRequests
      /\ t.op = "post" /\ t.entry = e /\ t.todo = Lines[e] /\ t.added = {}
  BY BookIdle, BookConstants DEF BookRequests
<1> HIDE DEF t
<1>3. rebuilds' \in 0..MaxRebuilds
  BY <1>1 DEF BookInv, Book!TypeOK
<1>4. BookFits(h, t)
  BY <1>1, <1>2 DEF BookFits
<1> QED BY <1>1, <1>3, <1>4, BookTask

\* What the head and the tail of a list of accounts contain.
LEMMA BookHead ==
  ASSUME NEW s \in Seq(LedgerAccounts), s # <<>>
  PROVE  /\ Head(s) \in LedgerAccounts /\ Tail(s) \in Seq(LedgerAccounts)
         /\ \A a \in LedgerAccounts : Book!Contains(s, a) => a = Head(s) \/ Book!Contains(Tail(s), a)
<1>1. Head(s) = s[1] /\ Head(s) \in LedgerAccounts /\ Tail(s) \in Seq(LedgerAccounts)
      /\ Len(s) \in Nat /\ Len(Tail(s)) = Len(s) - 1 /\ \A i \in 1..Len(Tail(s)) : Tail(s)[i] = s[i + 1]
  OBVIOUS
<1>2. ASSUME NEW a \in LedgerAccounts, NEW i \in 1..Len(s), s[i] = a, a # Head(s)
      PROVE  Book!Contains(Tail(s), a)
  <2>1. i - 1 \in 1..Len(Tail(s)) /\ Tail(s)[i - 1] = a
    BY <1>1, <1>2
  <2> QED BY <2>1 DEF Book!Contains
<1> QED BY <1>1, <1>2 DEF Book!Contains

\* A projection is read, or added.
BookSees(h, v, extra) ==
  /\ posting[h].todo # <<>> /\ v \in Int
  /\ extra \subseteq {Head(posting[h].todo)} /\ \A g \in Handlers : extra \cap posting[g].added = {}
  /\ posting' = [posting EXCEPT ![h].seen[Head(posting[h].todo)] = v,
                                ![h].added = @ \cup extra, ![h].todo = Tail(@)]
  /\ UNCHANGED <<posted, balance, rebuilds, lost>>

LEMMA BookSeen ==
  ASSUME BookInv, NEW h \in Handlers, NEW v, NEW extra, BookSees(h, v, extra)
  PROVE  BookInv'
<1> DEFINE p == posting[h]
           a == Head(p.todo)
           t == [p EXCEPT !.seen[a] = v, !.added = @ \cup extra, !.todo = Tail(@)]
<1>0. posting[h].todo # <<>> /\ v \in Int /\ UNCHANGED <<posted, balance, rebuilds, lost>>
  BY DEF BookSees
<1>1. /\ p \in BookRequests
      /\ p.op # "post" => p.entry = None
      /\ p.op = "post" =>
           /\ p.entry \in Entries \ posted
           /\ \A b \in LedgerAccounts : Book!Contains(Lines[p.entry], b) =>
                 p.seen[b] # Absent \/ Book!Contains(p.todo, b)
  BY DEF BookInv, BookTasks
<1>2. /\ a \in LedgerAccounts /\ Tail(p.todo) \in Seq(LedgerAccounts)
      /\ \A b \in LedgerAccounts : Book!Contains(p.todo, b) => b = a \/ Book!Contains(Tail(p.todo), b)
  BY <1>0, <1>1, BookHead DEF BookRequests
<1>3. posting' = [posting EXCEPT ![h] = t]
  BY <1>1 DEF BookInv, BookTasks, BookSees, BookRequests
<1>4. t.op = p.op /\ t.entry = p.entry /\ t.todo = Tail(p.todo) /\ t.sum = p.sum
      /\ t.added = p.added \cup extra /\ t.seen = [p.seen EXCEPT ![a] = v]
  BY <1>1 DEF BookRequests
<1>5. /\ t.seen \in Book!Balances /\ t.seen[a] # Absent
      /\ \A b \in LedgerAccounts \ {a} : t.seen[b] = p.seen[b]
  BY <1>0, <1>1, <1>2, <1>4, BookConstants DEF Book!Balances, BookRequests
<1>6. t \in BookRequests
  BY <1>0, <1>1, <1>2, <1>5 DEF BookRequests, BookSees
<1>7. /\ \A g \in Handlers \ {h} : t.added \cap posting[g].added = {}
      /\ t.entry # None => \A g \in Handlers \ {h} : posting[g].entry # t.entry
      /\ rebuilds' \in 0..MaxRebuilds
  BY <1>4 DEF BookInv, BookTasks, Book!TypeOK, BookSees
<1>8. t.op = "post" =>
            /\ t.entry \in Entries \ posted
            /\ \A b \in LedgerAccounts : Book!Contains(Lines[t.entry], b) =>
                 t.seen[b] # Absent \/ Book!Contains(t.todo, b)
  BY <1>1, <1>2, <1>4, <1>5
<1>9. BookFits(h, t)
  BY <1>1, <1>4, <1>6, <1>7, <1>8 DEF BookFits
<1> HIDE DEF t, p, a
<1> QED BY <1>0, <1>3, <1>7, <1>9, BookTask

LEMMA BookReads ==
  ASSUME BookInv, NEW h \in Handlers, Book!Read(h) \/ Book!Add(h) PROVE BookInv'
<1> DEFINE p == posting[h]
           a == Head(p.todo)
<1>1. /\ p \in BookRequests
      /\ posting \in [Handlers -> BookRequests]
  BY DEF BookInv, BookTasks
<1>2. p.todo # <<>> /\ UNCHANGED <<posted, balance, rebuilds, lost>>
  BY DEF Book!Read, Book!Add
<1>3. a \in LedgerAccounts
  BY <1>1, <1>2, BookHead DEF BookRequests
<1>4. CASE Book!Read(h)
  <2>1. balance[a] \in Int
    BY <1>3, <1>4 DEF Book!Read, BookInv, Book!TypeOK, Book!Balances
  <2>2. posting' = [posting EXCEPT ![h].seen[a] = balance[a], ![h].added = @ \cup {}, ![h].todo = Tail(@)]
    BY <1>4, <1>1 DEF Book!Read
  <2>3. BookSees(h, balance[a], {})
    BY <1>2, <2>1, <2>2 DEF BookSees
  <2> QED BY <2>3, BookSeen
<1>5. CASE Book!Add(h)
  <2>1. posting' = [posting EXCEPT ![h].seen[a] = 0, ![h].added = @ \cup {a}, ![h].todo = Tail(@)]
        /\ \A g \in Handlers : {a} \cap posting[g].added = {}
    BY <1>5, <1>1 DEF Book!Add
  <2>2. BookSees(h, 0, {a})
    BY <1>2, <2>1 DEF BookSees
  <2> QED BY <2>2, BookSeen
<1> QED BY <1>4, <1>5

LEMMA BookRebuild ==
  ASSUME BookInv, NEW h \in Handlers, Book!Rebuild(h) PROVE BookInv'
<1> DEFINE used == {a \in LedgerAccounts : \E e \in posted : Change[e][a] # 0}
           sums == [a \in LedgerAccounts |-> IF a \in used THEN Book!Sum(posted, a) ELSE Absent]
           t == [Book!Idle EXCEPT !.op = "rebuild", !.todo = Book!SetToSeq(used), !.sum = sums]
<1>1. /\ posting' = [posting EXCEPT ![h] = t] /\ rebuilds < MaxRebuilds /\ rebuilds' = rebuilds + 1
      /\ UNCHANGED <<posted, balance, lost>>
  BY DEF Book!Rebuild
<1>2. Book!SetToSeq(used) \in Seq(LedgerAccounts)
  BY BookOrder
<1>3. sums \in Book!Balances
  BY BookSum DEF BookInv, Book!TypeOK, Book!Balances
<1> HIDE DEF sums, used
<1>4. /\ t \in BookRequests
      /\ t.op = "rebuild" /\ t.entry = None /\ t.added = {}
  BY <1>2, <1>3, BookIdle DEF BookRequests
<1> HIDE DEF t
<1>5. rebuilds' \in 0..MaxRebuilds
  BY <1>1, BookConstants DEF BookInv, Book!TypeOK
<1>6. BookFits(h, t)
  BY <1>1, <1>4 DEF BookFits
<1> QED BY <1>1, <1>5, <1>6, BookTask

LEMMA BookAbort ==
  ASSUME BookInv, NEW h \in Handlers, Book!Abort(h) PROVE BookInv'
<1>1. posting' = [posting EXCEPT ![h] = Book!Idle] /\ UNCHANGED <<posted, balance, rebuilds, lost>>
      /\ rebuilds' \in 0..MaxRebuilds
  BY DEF Book!Abort, BookInv, Book!TypeOK
<1>2. BookFits(h, Book!Idle)
  BY BookIdle DEF BookFits
<1> QED BY <1>1, <1>2, BookTask

\* A commit of what was read.
LEMMA BookPostCommit ==
  ASSUME BookInv, NEW h \in Handlers, Book!PostCommit(h) PROVE BookInv'
<1> DEFINE t == posting[h]
           mine == {a \in LedgerAccounts : t.seen[a] # Absent}
<1>1. /\ t.op = "post" /\ t.todo = <<>>
      /\ posted' = posted \cup {t.entry}
      /\ balance' = [a \in LedgerAccounts |->
                       IF a \in mine THEN t.seen[a] + Change[t.entry][a] ELSE balance[a]]
      /\ lost' = lost \cup {a \in mine : t.seen[a] # Book!Value(balance[a])}
      /\ posting' = [posting EXCEPT ![h] = Book!Idle]
      /\ UNCHANGED rebuilds
  BY DEF Book!PostCommit
<1>2. /\ t.entry \in Entries \ posted /\ t.seen \in Book!Balances
      /\ \A a \in LedgerAccounts \ mine : ~Book!Contains(Lines[t.entry], a)
  <2>1. \A a \in LedgerAccounts : ~Book!Contains(t.todo, a)
    BY <1>1 DEF Book!Contains
  <2> QED BY <1>1, <2>1 DEF BookInv, BookTasks, BookRequests
<1>3. /\ posting'[h] = Book!Idle /\ \A g \in Handlers \ {h} : posting'[g] = posting[g]
      /\ posting' \in [Handlers -> BookRequests]
  BY <1>1, BookIdle DEF BookInv, BookTasks
<1>4. \A a \in LedgerAccounts : t.seen[a] \in Int \cup {Absent} /\ Change[t.entry][a] \in Int
  BY <1>2, BookConstants DEF Book!Balances
<1> HIDE DEF t
<1>5. Book!TypeOK'
  <2>1. balance' \in Book!Balances
    BY <1>1, <1>4 DEF BookInv, Book!TypeOK, Book!Balances
  <2>2. \A g, k \in Handlers : g # k => posting'[g].added \cap posting'[k].added = {}
    BY <1>3, BookIdle DEF BookInv, Book!TypeOK
  <2>3. posted' \subseteq Entries /\ lost' \subseteq LedgerAccounts
    BY <1>1, <1>2 DEF BookInv, Book!TypeOK
  <2> QED BY <1>1, <1>3, <2>1, <2>2, <2>3 DEF BookInv, Book!TypeOK, Book!Balances, BookRequests
<1>6. BookTasks'
  <2>1. ASSUME NEW g \in Handlers
        PROVE  /\ posting'[g].op # "post" => posting'[g].entry = None
               /\ posting'[g].op = "post" =>
                    /\ posting'[g].entry \in Entries \ posted'
                    /\ \A a \in LedgerAccounts : Book!Contains(Lines[posting'[g].entry], a) =>
                         posting'[g].seen[a] # Absent \/ Book!Contains(posting'[g].todo, a)
    <3>1. CASE g = h BY <3>1, <1>3, BookIdle
    <3>2. CASE g # h
      <4>1. posting'[g] = posting[g]
        BY <3>2, <1>3
      <4>2. posting[g].op = "post" => posting[g].entry # t.entry
        BY <3>2, <1>2, BookConstants DEF BookInv, BookTasks, t
      <4> QED BY <4>1, <4>2, <1>1 DEF BookInv, BookTasks
    <3> QED BY <3>1, <3>2
  <2>2. ASSUME NEW g \in Handlers, NEW k \in Handlers, g # k, posting'[g].entry = posting'[k].entry
        PROVE  posting'[g].entry = None
    <3>1. CASE g = h \/ k = h
      BY <2>2, <3>1, <1>3, BookIdle
    <3>2. CASE g # h /\ k # h
      <4>1. posting'[g] = posting[g] /\ posting'[k] = posting[k]
        BY <3>2, <1>3
      <4> QED BY <2>2, <4>1 DEF BookInv, BookTasks
    <3> QED BY <3>1, <3>2
  <2> QED BY <1>3, <2>1, <2>2 DEF BookTasks, Book!Balances, Book!Contains
<1>7. ProjectionIsSum'
  <2> SUFFICES ASSUME NEW a \in LedgerAccounts \ lost'
               PROVE  Book!Value(balance'[a]) = Book!Sum(posted', a)
    BY DEF ProjectionIsSum, Book!ProjectionIsSum, Book!Value, Book!Sum
  <2>1. /\ a \notin lost /\ Book!Value(balance[a]) = Book!Sum(posted, a)
        /\ a \in mine => t.seen[a] = Book!Value(balance[a])
    BY <1>1 DEF BookInv, ProjectionIsSum, Book!ProjectionIsSum
  <2>2. /\ Book!Sum(posted', a) = Book!Sum(posted, a) + Change[t.entry][a]
        /\ Book!Sum(posted, a) \in Int
    BY <1>1, <1>2, BookSum DEF BookInv, Book!TypeOK
  <2>3. CASE a \in mine
    <3>1. balance'[a] = t.seen[a] + Change[t.entry][a] /\ t.seen[a] \in Int
      BY <1>1, <1>4, <2>3
    <3>2. balance'[a] \in Int /\ balance'[a] # Absent
      BY <3>1, <1>4, BookConstants
    <3>3. Book!Value(balance'[a]) = balance'[a]
      BY <3>2 DEF Book!Value
    <3> QED BY <2>1, <2>2, <2>3, <3>1, <3>3
  <2>4. CASE a \notin mine
    <3>1. balance'[a] = balance[a]
      BY <1>1, <2>4
    <3>2. Change[t.entry][a] = 0
      BY <1>2, <2>4, BookConstants
    <3> QED BY <2>1, <2>2, <3>1, <3>2
  <2> QED BY <2>3, <2>4
<1> QED BY <1>5, <1>6, <1>7 DEF BookInv

LEMMA BookRebuildCommit ==
  ASSUME BookInv, NEW h \in Handlers, Book!RebuildCommit(h) PROVE BookInv'
<1> DEFINE t == posting[h]
           mine == {a \in LedgerAccounts : t.sum[a] # Absent}
           clean == {a \in mine : t.sum[a] = Book!Sum(posted, a) /\ t.seen[a] = balance[a]}
<1>1. /\ balance' = [a \in LedgerAccounts |-> IF a \in mine THEN Book!Rebuilt(t, a) ELSE balance[a]]
      /\ lost' = (lost \cup mine) \ clean
      /\ posting' = [posting EXCEPT ![h] = Book!Idle]
      /\ UNCHANGED <<posted, rebuilds>>
  BY DEF Book!RebuildCommit
<1>2. t.seen \in Book!Balances /\ t.sum \in Book!Balances
  BY DEF BookInv, BookTasks, BookRequests
<1>3. /\ posting'[h] = Book!Idle /\ \A g \in Handlers \ {h} : posting'[g] = posting[g]
      /\ posting' \in [Handlers -> BookRequests]
  BY <1>1, BookIdle DEF BookInv, BookTasks
<1> HIDE DEF t
<1>4. Book!TypeOK'
  <2>1. balance' \in Book!Balances
    BY <1>1, <1>2 DEF BookInv, Book!TypeOK, Book!Balances, Book!Rebuilt
  <2>2. \A g, k \in Handlers : g # k => posting'[g].added \cap posting'[k].added = {}
    BY <1>3, BookIdle DEF BookInv, Book!TypeOK
  <2> QED BY <1>1, <1>3, <2>1, <2>2 DEF BookInv, Book!TypeOK, Book!Balances, BookRequests
<1>5. BookTasks'
  <2>1. ASSUME NEW g \in Handlers
        PROVE  /\ posting'[g].op # "post" => posting'[g].entry = None
               /\ posting'[g].op = "post" =>
                    /\ posting'[g].entry \in Entries \ posted'
                    /\ \A a \in LedgerAccounts : Book!Contains(Lines[posting'[g].entry], a) =>
                         posting'[g].seen[a] # Absent \/ Book!Contains(posting'[g].todo, a)
    <3>1. CASE g = h BY <3>1, <1>3, BookIdle
    <3>2. CASE g # h BY <3>2, <1>3, <1>1 DEF BookInv, BookTasks
    <3> QED BY <3>1, <3>2
  <2>2. ASSUME NEW g \in Handlers, NEW k \in Handlers, g # k, posting'[g].entry = posting'[k].entry
        PROVE  posting'[g].entry = None
    <3>1. CASE g = h \/ k = h
      BY <2>2, <3>1, <1>3, BookIdle
    <3>2. CASE g # h /\ k # h
      <4>1. posting'[g] = posting[g] /\ posting'[k] = posting[k]
        BY <3>2, <1>3
      <4> QED BY <2>2, <4>1 DEF BookInv, BookTasks
    <3> QED BY <3>1, <3>2
  <2> QED BY <1>3, <2>1, <2>2 DEF BookTasks, Book!Balances, Book!Contains
<1>6. ProjectionIsSum'
  <2> SUFFICES ASSUME NEW a \in LedgerAccounts \ lost'
               PROVE  Book!Value(balance'[a]) = Book!Sum(posted, a)
    BY <1>1 DEF ProjectionIsSum, Book!ProjectionIsSum, Book!Value, Book!Sum
  <2>1. CASE a \in mine
    <3>1. t.sum[a] = Book!Sum(posted, a) /\ t.seen[a] = balance[a] /\ t.sum[a] # Absent
      BY <1>1, <2>1
    <3>2. balance'[a] = t.sum[a]
      BY <1>1, <2>1, <3>1 DEF Book!Rebuilt
    <3> QED BY <3>1, <3>2 DEF Book!Value
  <2>2. CASE a \notin mine
    BY <1>1, <2>2 DEF BookInv, ProjectionIsSum, Book!ProjectionIsSum
  <2> QED BY <2>1, <2>2
<1> QED BY <1>4, <1>5, <1>6 DEF BookInv

LEMMA BookStep ==
  ASSUME BookInv, [Book!Next]_(Book!vars) PROVE BookInv'
<1>1. CASE UNCHANGED Book!vars
  BY <1>1 DEF Book!vars, BookInv, Book!TypeOK, BookTasks, ProjectionIsSum, Book!ProjectionIsSum,
     Book!Value, Book!Sum, Book!Contains, Book!Balances
<1>2. CASE Book!Next
  BY <1>2, BookPost, BookReads, BookRebuild, BookAbort, BookPostCommit, BookRebuildCommit
     DEF Book!Next
<1> QED BY <1>1, <1>2

---------------------------------------------------------------------------
(* Gateway webhooks *)

HookRequests ==
  [step : {"idle", "stored", "insert", "commit"}, event : Hook!Events \cup {None},
   refund : Hook!Refunds \cup {None}]

\* An event being received is not stored by anyone else yet; one payment at
\* most is about to be booked, the first; and an event that is not late has its
\* refund on a row.
HookTasks ==
  \A h \in Handlers :
    /\ receiving[h].step # "commit" => receiving[h].refund = None
    /\ receiving[h].event # None => webhook[receiving[h].event] = "ABSENT"
    /\ receiving[h].step = "commit" /\ receiving[h].event \in Captures =>
         /\ booked = 0
         /\ \A g \in Handlers \ {h} : ~(receiving[g].step = "commit" /\ receiving[g].event \in Captures)
    /\ receiving[h].event \in Hook!Refunds \ late => receiving[h].event \in rows

\* The captures that are booked.
HookBooked ==
  IF booked = 0 THEN {e \in Captures : webhook[e] = "PROCESSED"} = {}
  ELSE booked = 1 /\ \E e \in Captures : {c \in Captures : webhook[c] = "PROCESSED"} = {e}

\* A refund the service asked for is on a row, about to be, or given up.
HookAsked ==
  \A r \in 1..made : cause[r] # InDashboard =>
    r \in rows \cup dead \/ \E h \in Handlers : receiving[h].refund = r

\* A repeat of a refund belongs to the one delivery of its event that was or is
\* received.
HookRepeats ==
  \A r \in Hook!Refunds :
    /\ r \notin late => Hook!RepeatsOf(r) = {}
    /\ \A x \in Hook!RepeatsOf(r) \ dead :
         /\ \/ webhook[r] = "PROCESSED"
            \/ \E h \in Handlers : receiving[h].event = r /\ receiving[h].refund = x
         /\ \A y \in Hook!RepeatsOf(r) \ dead : x = y

\* The webhook invariant.
HookInv == Hook!TypeOK /\ HookTasks /\ HookBooked /\ HookAsked /\ HookRepeats

LEMMA HookConstants ==
  /\ PaymentAmount \in Nat \ {0} /\ MaxRequests \in Nat
  /\ Hook!Refunds = 1..PaymentAmount /\ Hook!Events = Captures \cup Hook!Refunds
  /\ Captures \cap Hook!Refunds = {} /\ None \notin Hook!Events
  /\ InDashboard \notin Hook!Refunds /\ OnRequest \notin Hook!Refunds /\ None \notin Hook!Refunds
BY MoneyAssumption DEF Hook!WebhooksAssumption, Hook!Events, Hook!Refunds

LEMMA HookIdle ==
  /\ Hook!Idle \in HookRequests
  /\ Hook!Idle.step = "idle" /\ Hook!Idle.event = None /\ Hook!Idle.refund = None
BY DEF Hook!Idle, HookRequests

LEMMA HookEffects == HookInv => EffectsOnce
<1> SUFFICES ASSUME HookInv PROVE EffectsOnce
  OBVIOUS
<1>1. \A S : Hook!Cardinality(S) = Cardinality(S)
  BY DEF Hook!Cardinality, Cardinality
<1>2. booked = Hook!Cardinality({e \in Captures : webhook[e] = "PROCESSED"}) /\ booked <= 1
  <2>1. CASE booked = 0
    BY <1>1, <2>1, FS_EmptySet DEF HookInv, HookBooked
  <2>2. CASE booked # 0
    <3>1. PICK e \in Captures : {c \in Captures : webhook[c] = "PROCESSED"} = {e}
      BY <2>2 DEF HookInv, HookBooked
    <3> QED BY <1>1, <2>2, <3>1, FS_Singleton DEF HookInv, HookBooked
  <2> QED BY <2>1, <2>2
<1>3. ASSUME NEW r \in 1..made
      PROVE  /\ cause[r] # InDashboard =>
                  r \in rows \cup dead \/ \E h \in Handlers : receiving[h].refund = r
             /\ Hook!Cardinality(Hook!RepeatsOf(r) \ dead) <= 1
             /\ r \notin late => Hook!RepeatsOf(r) = {}
  <2>1. r \in Hook!Refunds
    BY HookConstants DEF HookInv, Hook!TypeOK
  <2>2. Hook!Cardinality(Hook!RepeatsOf(r) \ dead) <= 1
    <3>1. CASE Hook!RepeatsOf(r) \ dead = {}
      BY <1>1, <3>1, FS_EmptySet
    <3>2. ASSUME NEW x \in Hook!RepeatsOf(r) \ dead
          PROVE  Hook!Cardinality(Hook!RepeatsOf(r) \ dead) <= 1
      <4>1. Hook!RepeatsOf(r) \ dead = {x}
        BY <2>1, <3>2 DEF HookInv, HookRepeats
      <4> QED BY <1>1, <4>1, FS_Singleton
    <3> QED BY <3>1, <3>2
  <2> QED BY <2>1, <2>2 DEF HookInv, HookAsked, HookRepeats
<1> QED BY <1>2, <1>3 DEF EffectsOnce, Hook!EffectsOnce

LEMMA HookBegins == Hook!Init => HookInv
<1> SUFFICES ASSUME Hook!Init PROVE HookInv
  OBVIOUS
<1>1. Hook!TypeOK
  BY HookIdle, HookConstants DEF Hook!Init, Hook!TypeOK, HookRequests
<1>2. HookTasks
  BY HookIdle, HookConstants DEF Hook!Init, HookTasks
<1>3. HookBooked /\ HookAsked /\ HookRepeats
  BY HookConstants DEF Hook!Init, HookBooked, HookAsked, HookRepeats, Hook!RepeatsOf
<1> QED BY <1>1, <1>2, <1>3 DEF HookInv

\* The next refund the gateway makes, for a reason and by a request if by one.
LEMMA HookRefund ==
  ASSUME HookInv, NEW why, Hook!Refund(why)
  PROVE  /\ made + 1 \in Hook!Refunds /\ made' = made + 1 /\ made' \in 0..PaymentAmount
         /\ cause' = [cause EXCEPT ![made + 1] = why]
         /\ cause'[made + 1] = why /\ \A r \in 1..made : cause'[r] = cause[r]
         /\ 1..made' = 1..made \cup {made + 1} /\ made + 1 \notin 1..made
         /\ \A r : Hook!RepeatsOf(r)' = IF why = r THEN Hook!RepeatsOf(r) \cup {made + 1}
                                        ELSE Hook!RepeatsOf(r)
<1>1. /\ made \in 0..PaymentAmount /\ made < PaymentAmount /\ made' = made + 1
      /\ cause' = [cause EXCEPT ![made + 1] = why] /\ PaymentAmount \in Nat
      /\ DOMAIN cause = 1..PaymentAmount
  BY HookConstants DEF HookInv, Hook!TypeOK, Hook!Refund
<1>2. made + 1 \in Hook!Refunds /\ made' \in 0..PaymentAmount
  BY <1>1, HookConstants
<1>3. 1..made' = 1..made \cup {made + 1} /\ made + 1 \notin 1..made
  BY <1>1
<1>4. cause'[made + 1] = why /\ \A r \in 1..made : cause'[r] = cause[r]
  BY <1>1
<1> QED BY <1>1, <1>2, <1>3, <1>4 DEF Hook!RepeatsOf

LEMMA HookDashboard == ASSUME HookInv, Hook!Dashboard PROVE HookInv'
<1>1. Hook!Refund(InDashboard) /\ UNCHANGED <<webhook, booked, rows, requests, receiving, late, dead>>
  BY DEF Hook!Dashboard
<1>2. /\ made + 1 \in Hook!Refunds /\ made' = made + 1 /\ made' \in 0..PaymentAmount
      /\ cause' = [cause EXCEPT ![made + 1] = InDashboard]
      /\ cause'[made + 1] = InDashboard /\ \A r \in 1..made : cause'[r] = cause[r]
      /\ 1..made' = 1..made \cup {made + 1}
      /\ \A r \in Hook!Refunds : Hook!RepeatsOf(r)' = Hook!RepeatsOf(r)
  BY <1>1, HookRefund, HookConstants
<1>3. Hook!TypeOK'
  BY <1>1, <1>2 DEF HookInv, Hook!TypeOK
<1>4. HookTasks' /\ HookBooked'
  BY <1>1 DEF HookInv, HookTasks, HookBooked
<1>5. HookAsked'
  BY <1>1, <1>2 DEF HookInv, HookAsked
<1>6. HookRepeats'
  BY <1>1, <1>2 DEF HookInv, HookRepeats
<1> QED BY <1>3, <1>4, <1>5, <1>6 DEF HookInv

\* The requests after one of them moved.
LEMMA HookMoved ==
  ASSUME HookInv, NEW h \in Handlers, NEW t \in HookRequests, receiving' = [receiving EXCEPT ![h] = t]
  PROVE  /\ receiving' \in [Handlers -> HookRequests] /\ receiving'[h] = t
         /\ \A g \in Handlers \ {h} : receiving'[g] = receiving[g]
BY DEF HookInv, Hook!TypeOK, HookRequests

LEMMA HookRequestRefund ==
  ASSUME HookInv, NEW h \in Handlers, Hook!RequestRefund(h) PROVE HookInv'
<1> DEFINE t == [Hook!Idle EXCEPT !.step = "commit", !.refund = made + 1]
<1>1. /\ receiving[h] = Hook!Idle /\ booked > 0 /\ requests < MaxRequests
      /\ Hook!Refund(OnRequest) /\ requests' = requests + 1
      /\ receiving' = [receiving EXCEPT ![h] = t]
      /\ UNCHANGED <<webhook, booked, rows, late, dead>>
  BY DEF Hook!RequestRefund
<1>2. /\ made + 1 \in Hook!Refunds /\ made' = made + 1 /\ made' \in 0..PaymentAmount
      /\ cause' = [cause EXCEPT ![made + 1] = OnRequest]
      /\ cause'[made + 1] = OnRequest /\ \A r \in 1..made : cause'[r] = cause[r]
      /\ 1..made' = 1..made \cup {made + 1}
      /\ \A r \in Hook!Refunds : Hook!RepeatsOf(r)' = Hook!RepeatsOf(r)
  BY <1>1, HookRefund, HookConstants
<1>3. t \in HookRequests /\ t.step = "commit" /\ t.event = None /\ t.refund = made + 1
  BY <1>2, HookIdle DEF HookRequests
<1> HIDE DEF t
<1>4. /\ receiving' \in [Handlers -> HookRequests] /\ receiving'[h] = t
      /\ \A g \in Handlers \ {h} : receiving'[g] = receiving[g]
  BY <1>1, <1>3, HookMoved
<1>5. Hook!TypeOK'
  <2>1. requests' \in 0..MaxRequests
    BY <1>1, HookConstants DEF HookInv, Hook!TypeOK
  <2>2. cause' \in [Hook!Refunds -> {None, InDashboard, OnRequest} \cup Hook!Refunds]
    BY <1>2 DEF HookInv, Hook!TypeOK
  <2>3. \A g, k \in Handlers : g # k /\ receiving'[g].event = receiving'[k].event => receiving'[g].event = None
    BY <1>3, <1>4 DEF HookInv, Hook!TypeOK
  <2> QED BY <1>1, <1>2, <1>4, <2>1, <2>2, <2>3 DEF HookInv, Hook!TypeOK, HookRequests
<1>6. HookTasks'
  BY <1>1, <1>3, <1>4, HookConstants DEF HookInv, HookTasks, Hook!Events
<1>7. HookBooked'
  BY <1>1 DEF HookInv, HookBooked
<1>8. HookAsked'
  <2> SUFFICES ASSUME NEW r \in 1..made', cause'[r] # InDashboard
               PROVE  r \in rows' \cup dead' \/ \E g \in Handlers : receiving'[g].refund = r
    BY DEF HookAsked
  <2>1. CASE r = made + 1 BY <2>1, <1>3, <1>4
  <2>2. CASE r # made + 1
    <3>1. r \in 1..made /\ cause[r] # InDashboard /\ r # None
      BY <2>2, <1>2, HookConstants DEF HookInv, Hook!TypeOK
    <3> QED BY <3>1, <1>1, <1>4, HookIdle DEF HookInv, HookAsked
  <2> QED BY <2>1, <2>2
<1>9. HookRepeats'
  <2>1. receiving[h].event = None
    BY <1>1, HookIdle
  <2> QED BY <1>1, <1>2, <1>4, <2>1, HookConstants DEF HookInv, HookRepeats
<1> QED BY <1>5, <1>6, <1>7, <1>8, <1>9 DEF HookInv

LEMMA HookDeliver ==
  ASSUME HookInv, NEW h \in Handlers, NEW e \in Hook!Events, Hook!Deliver(h, e) PROVE HookInv'
<1> DEFINE t == [Hook!Idle EXCEPT !.step = "stored", !.event = e]
<1>1. /\ receiving[h] = Hook!Idle /\ webhook[e] = "ABSENT"
      /\ \A g \in Handlers : receiving[g].event # e
      /\ receiving' = [receiving EXCEPT ![h] = t]
      /\ late' = late \cup ({e} \cap (Hook!Refunds \ rows))
      /\ UNCHANGED <<webhook, booked, rows, made, cause, requests, dead>>
  BY DEF Hook!Deliver, Hook!Known
<1>2. t \in HookRequests /\ t.step = "stored" /\ t.event = e /\ t.refund = None
  BY HookIdle DEF HookRequests
<1> HIDE DEF t
<1>3. /\ receiving' \in [Handlers -> HookRequests] /\ receiving'[h] = t
      /\ \A g \in Handlers \ {h} : receiving'[g] = receiving[g]
  BY <1>1, <1>2, HookMoved
<1>4. Hook!TypeOK'
  <2>1. \A g, k \in Handlers : g # k /\ receiving'[g].event = receiving'[k].event => receiving'[g].event = None
    BY <1>1, <1>2, <1>3 DEF HookInv, Hook!TypeOK
  <2> QED BY <1>1, <1>3, <2>1 DEF HookInv, Hook!TypeOK, HookRequests
<1>5. HookTasks'
  <2> SUFFICES ASSUME NEW g \in Handlers PROVE HookTasks!(g)'
    BY DEF HookTasks
  <2>1. CASE g = h BY <2>1, <1>1, <1>2, <1>3
  <2>2. CASE g # h BY <2>2, <1>1, <1>2, <1>3 DEF HookInv, HookTasks
  <2> QED BY <2>1, <2>2
<1>6. HookBooked'
  BY <1>1 DEF HookInv, HookBooked
<1>7. HookAsked'
  <2> SUFFICES ASSUME NEW r \in 1..made, cause[r] # InDashboard
               PROVE  r \in rows \cup dead \/ \E g \in Handlers : receiving'[g].refund = r
    BY <1>1 DEF HookAsked
  <2>1. r # None
    BY HookConstants DEF HookInv, Hook!TypeOK
  <2> QED BY <2>1, <1>1, <1>3, HookIdle DEF HookInv, HookAsked
<1>8. HookRepeats'
  <2>1. \A r : Hook!RepeatsOf(r)' = Hook!RepeatsOf(r)
    BY <1>1 DEF Hook!RepeatsOf
  <2>2. \A g \in Handlers, r \in Hook!Refunds : receiving[g].event = r => g # h
    BY <1>1, HookIdle, HookConstants
  <2> QED BY <1>1, <1>3, <2>1, <2>2 DEF HookInv, HookRepeats
<1> QED BY <1>4, <1>5, <1>6, <1>7, <1>8 DEF HookInv

LEMMA HookBadSignature ==
  ASSUME HookInv, NEW e \in Hook!Events, Hook!BadSignature(e) PROVE HookInv'
<1>1. /\ webhook[e] = "ABSENT" /\ \A g \in Handlers : receiving[g].event # e
      /\ webhook' = [webhook EXCEPT ![e] = "INVALID_SIGNATURE"]
      /\ UNCHANGED <<booked, rows, made, cause, requests, receiving, late, dead>>
  BY DEF Hook!BadSignature, Hook!Known
<1>2. /\ webhook' \in [Hook!Events -> {"ABSENT", "INVALID_SIGNATURE", "RECEIVED", "PROCESSED"}]
      /\ \A c \in Hook!Events : webhook'[c] = "PROCESSED" <=> webhook[c] = "PROCESSED"
      /\ \A c \in Hook!Events \ {e} : webhook'[c] = webhook[c]
  BY <1>1 DEF HookInv, Hook!TypeOK
<1>3. Hook!TypeOK'
  BY <1>1, <1>2 DEF HookInv, Hook!TypeOK
<1>4. HookTasks'
  BY <1>1, <1>2, HookConstants DEF HookInv, HookTasks, Hook!TypeOK
<1>5. HookBooked'
  BY <1>1, <1>2, HookConstants DEF HookInv, HookBooked
<1>6. HookAsked'
  BY <1>1 DEF HookInv, HookAsked
<1>7. HookRepeats'
  BY <1>1, <1>2, HookConstants DEF HookInv, HookRepeats, Hook!RepeatsOf
<1> QED BY <1>3, <1>4, <1>5, <1>6, <1>7 DEF HookInv

\* A request whose event is not committed as processed: it is answered, moves on
\* to the insert, or fails.
LEMMA HookEnds ==
  ASSUME HookInv, NEW h \in Handlers, receiving[h].step \in {"stored", "insert"},
         NEW t \in HookRequests, t.refund = None, t.event \in {None, receiving[h].event},
         t.step = "commit" /\ t.event \in Captures =>
           /\ booked = 0
           /\ \A g \in Handlers \ {h} : ~(receiving[g].step = "commit" /\ receiving[g].event \in Captures),
         receiving' = [receiving EXCEPT ![h] = t],
         \/ UNCHANGED webhook
         \/ /\ t.event = None
            /\ \E status \in {"RECEIVED", "PROCESSED"} :
                 /\ webhook' = [webhook EXCEPT ![receiving[h].event] = status]
                 /\ status = "PROCESSED" => receiving[h].event \in Hook!Refunds,
         UNCHANGED <<booked, rows, made, cause, requests, late, dead>>
  PROVE  HookInv'
<1>1. /\ receiving' \in [Handlers -> HookRequests] /\ receiving'[h] = t
      /\ \A g \in Handlers \ {h} : receiving'[g] = receiving[g]
  BY HookMoved
<1>2. receiving[h].refund = None
  BY DEF HookInv, HookTasks
<1>3. receiving \in [Handlers -> HookRequests] /\ receiving[h] \in HookRequests
  BY DEF HookInv, Hook!TypeOK, HookRequests
<1>4. \/ UNCHANGED webhook
      \/ /\ t.event = None
         /\ webhook' \in [Hook!Events -> {"ABSENT", "INVALID_SIGNATURE", "RECEIVED", "PROCESSED"}]
         /\ \A c \in Captures : webhook'[c] = "PROCESSED" <=> webhook[c] = "PROCESSED"
         /\ \A c \in Hook!Events : c # receiving[h].event => webhook'[c] = webhook[c]
  <2>1. CASE receiving[h].event = None
    BY <2>1, HookConstants DEF HookInv, Hook!TypeOK
  <2>2. CASE receiving[h].event # None
    <3>1. receiving[h].event \in Hook!Events /\ webhook[receiving[h].event] = "ABSENT"
      BY <2>2, <1>3 DEF HookInv, HookTasks, HookRequests
    <3>2. ASSUME t.event = None, NEW status \in {"RECEIVED", "PROCESSED"},
                 webhook' = [webhook EXCEPT ![receiving[h].event] = status],
                 status = "PROCESSED" => receiving[h].event \in Hook!Refunds
          PROVE  /\ webhook' \in [Hook!Events -> {"ABSENT", "INVALID_SIGNATURE", "RECEIVED", "PROCESSED"}]
                 /\ \A c \in Captures : webhook'[c] = "PROCESSED" <=> webhook[c] = "PROCESSED"
                 /\ \A c \in Hook!Events : c # receiving[h].event => webhook'[c] = webhook[c]
      BY <3>1, <3>2, HookConstants DEF HookInv, Hook!TypeOK
    <3> QED BY <3>2
  <2> QED BY <2>1, <2>2
<1>5. \A r \in Hook!Refunds : webhook[r] = "PROCESSED" => webhook'[r] = "PROCESSED"
  BY <1>4, HookConstants DEF HookInv, HookTasks
<1>6. Hook!TypeOK'
  <2>1. \A g, k \in Handlers : g # k /\ receiving'[g].event = receiving'[k].event => receiving'[g].event = None
    BY <1>1 DEF HookInv, Hook!TypeOK
  <2> QED BY <1>1, <1>4, <2>1 DEF HookInv, Hook!TypeOK, HookRequests
<1>7. HookTasks'
  <2> SUFFICES ASSUME NEW g \in Handlers PROVE HookTasks!(g)'
    BY DEF HookTasks
  <2>1. CASE g = h
    <3>1. t.event # None => webhook'[t.event] = "ABSENT"
      BY <1>4 DEF HookInv, HookTasks
    <3>2. t.event \in Hook!Refunds \ late => t.event \in rows
      BY HookConstants DEF HookInv, HookTasks
    <3> QED BY <2>1, <3>1, <3>2, <1>1 DEF HookInv, HookTasks
  <2>2. CASE g # h
    <3>1. receiving'[g] = receiving[g] /\ receiving[g] \in HookRequests
      BY <2>2, <1>1, <1>3
    <3>2. receiving[g].event # None => webhook'[receiving[g].event] = "ABSENT"
      <4> SUFFICES ASSUME receiving[g].event # None PROVE webhook'[receiving[g].event] = "ABSENT"
        OBVIOUS
      <4>1. receiving[g].event \in Hook!Events /\ receiving[g].event # receiving[h].event
        BY <2>2, <3>1 DEF HookRequests, HookInv, Hook!TypeOK
      <4> QED BY <4>1, <1>4 DEF HookInv, HookTasks
    <3>3. \A k \in Handlers \ {g} : ~(receiving[g].step = "commit" /\ receiving[g].event \in Captures
                                      /\ receiving'[k].step = "commit" /\ receiving'[k].event \in Captures)
      BY <2>2, <1>1 DEF HookInv, HookTasks
    <3> QED BY <3>1, <3>2, <3>3 DEF HookInv, HookTasks
  <2> QED BY <2>1, <2>2
<1>8. HookBooked'
  BY <1>4 DEF HookInv, HookBooked
<1>9. HookAsked'
  <2> SUFFICES ASSUME NEW r \in 1..made, cause[r] # InDashboard
               PROVE  r \in rows \cup dead \/ \E g \in Handlers : receiving'[g].refund = r
    BY DEF HookAsked
  <2>1. r # None
    BY HookConstants DEF HookInv, Hook!TypeOK
  <2> QED BY <2>1, <1>1, <1>2 DEF HookInv, HookAsked
<1>10. HookRepeats'
  <2>1. \A r : Hook!RepeatsOf(r)' = Hook!RepeatsOf(r)
    BY DEF Hook!RepeatsOf
  <2>2. ASSUME NEW r \in Hook!Refunds, NEW x \in Hook!RepeatsOf(r) \ dead
        PROVE  webhook'[r] = "PROCESSED" \/ \E g \in Handlers : receiving'[g].event = r /\ receiving'[g].refund = x
    <3>1. x # None
      BY <2>2, HookConstants DEF HookInv, Hook!TypeOK, Hook!RepeatsOf
    <3> QED BY <3>1, <1>1, <1>2, <1>5, <2>2 DEF HookInv, HookRepeats
  <2> QED BY <2>1, <2>2 DEF HookInv, HookRepeats
<1> QED BY <1>6, <1>7, <1>8, <1>9, <1>10 DEF HookInv

LEMMA HookDispatchCapture ==
  ASSUME HookInv, NEW h \in Handlers, Hook!DispatchCapture(h) PROVE HookInv'
<1>1. /\ receiving[h].step = "stored" /\ receiving[h].event \in Captures
      /\ UNCHANGED <<booked, rows, made, cause, requests, late, dead>>
  BY DEF Hook!DispatchCapture
<1>2. CASE Hook!Close(h, "RECEIVED")
  BY <1>1, <1>2, HookIdle, HookEnds DEF Hook!Close
<1>3. CASE receiving' = [receiving EXCEPT ![h].step = "insert"] /\ UNCHANGED webhook
  <2> DEFINE t == [receiving[h] EXCEPT !.step = "insert"]
  <2>1. receiving[h] \in HookRequests /\ receiving[h].refund = None
    BY <1>1 DEF HookInv, Hook!TypeOK, HookRequests, HookTasks
  <2>2. /\ t \in HookRequests /\ t.refund = None /\ t.event = receiving[h].event /\ t.step = "insert"
        /\ receiving' = [receiving EXCEPT ![h] = t]
    BY <1>3, <2>1 DEF HookRequests
  <2> HIDE DEF t
  <2> QED BY <1>1, <1>3, <2>2, HookEnds
<1> QED BY <1>2, <1>3 DEF Hook!DispatchCapture

LEMMA HookInsert ==
  ASSUME HookInv, NEW h \in Handlers, Hook!Insert(h) PROVE HookInv'
<1>1. /\ receiving[h].step = "insert"
      /\ \A g \in Handlers \ {h} : ~(receiving[g].step = "commit" /\ receiving[g].event \in Captures)
      /\ UNCHANGED <<webhook, booked, rows, made, cause, requests, late, dead>>
  BY DEF Hook!Insert
<1>2. CASE booked > 0
  BY <1>1, <1>2, HookIdle, HookEnds DEF Hook!Insert
<1>3. CASE ~(booked > 0)
  <2> DEFINE t == [receiving[h] EXCEPT !.step = "commit"]
  <2>1. receiving[h] \in HookRequests /\ receiving[h].refund = None /\ booked = 0
    BY <1>1, <1>3 DEF HookInv, Hook!TypeOK, HookRequests, HookTasks
  <2>2. /\ t \in HookRequests /\ t.refund = None /\ t.event = receiving[h].event
        /\ receiving' = [receiving EXCEPT ![h] = t]
    BY <1>3, <2>1 DEF HookRequests, Hook!Insert
  <2> HIDE DEF t
  <2> QED BY <1>1, <2>1, <2>2, HookEnds
<1> QED BY <1>2, <1>3

LEMMA HookDispatchRefund ==
  ASSUME HookInv, NEW h \in Handlers, Hook!DispatchRefund(h) PROVE HookInv'
<1> DEFINE r == receiving[h].event
           t == [receiving[h] EXCEPT !.step = "commit", !.refund = made + 1]
<1>1. /\ receiving[h].step = "stored" /\ r \in Hook!Refunds
      /\ UNCHANGED <<booked, rows, requests, late, dead>>
  BY DEF Hook!DispatchRefund
<1>2. CASE Hook!Close(h, "PROCESSED") /\ UNCHANGED <<made, cause>>
  BY <1>1, <1>2, HookIdle, HookEnds DEF Hook!Close
<1>3. CASE Hook!Close(h, "RECEIVED") /\ UNCHANGED <<made, cause>>
  BY <1>1, <1>3, HookIdle, HookEnds DEF Hook!Close
<1>4. CASE receiving' = [receiving EXCEPT ![h] = Hook!Idle] /\ UNCHANGED <<webhook, made, cause>>
  BY <1>1, <1>4, HookIdle, HookEnds
<1>5. CASE /\ r \notin rows /\ Hook!Refund(r) /\ UNCHANGED webhook
           /\ receiving' = [receiving EXCEPT ![h].step = "commit", ![h].refund = made + 1]
  <2>1. receiving[h] \in HookRequests /\ receiving[h].refund = None /\ webhook[r] = "ABSENT"
        /\ r # None /\ r \in late /\ r \notin Captures
    BY <1>1, <1>5, HookConstants DEF HookInv, Hook!TypeOK, HookRequests, HookTasks
  <2>2. /\ made + 1 \in Hook!Refunds /\ made' = made + 1 /\ made' \in 0..PaymentAmount
        /\ cause' = [cause EXCEPT ![made + 1] = r]
        /\ cause'[made + 1] = r /\ \A x \in 1..made : cause'[x] = cause[x]
        /\ 1..made' = 1..made \cup {made + 1}
        /\ \A x : Hook!RepeatsOf(x)' = IF r = x THEN Hook!RepeatsOf(x) \cup {made + 1}
                                       ELSE Hook!RepeatsOf(x)
    BY <1>5, HookRefund
  <2>3. /\ t \in HookRequests /\ t.step = "commit" /\ t.event = r /\ t.refund = made + 1
        /\ receiving' = [receiving EXCEPT ![h] = t]
    <3>1. /\ t \in HookRequests /\ t.step = "commit" /\ t.event = r /\ t.refund = made + 1
      BY <2>1, <2>2 DEF HookRequests
    <3>2. receiving' = [receiving EXCEPT ![h] = t]
      BY <1>5
    <3> QED BY <3>1, <3>2
  <2> HIDE DEF t, r
  <2>4. /\ receiving' \in [Handlers -> HookRequests] /\ receiving'[h] = t
        /\ \A g \in Handlers \ {h} : receiving'[g] = receiving[g]
    BY <2>3, HookMoved
  <2>5. receiving[h].event = r
    BY DEF r
  <2>6. Hook!TypeOK'
    <3>1. \A g, k \in Handlers : g # k /\ receiving'[g].event = receiving'[k].event => receiving'[g].event = None
      BY <2>3, <2>4, <2>5 DEF HookInv, Hook!TypeOK
    <3>2. cause' \in [Hook!Refunds -> {None, InDashboard, OnRequest} \cup Hook!Refunds]
      BY <1>1, <2>2 DEF HookInv, Hook!TypeOK
    <3> QED BY <1>1, <1>5, <2>2, <2>4, <3>1, <3>2 DEF HookInv, Hook!TypeOK, HookRequests
  <2>7. HookTasks'
    <3> SUFFICES ASSUME NEW g \in Handlers PROVE HookTasks!(g)'
      BY DEF HookTasks
    <3>1. CASE g = h BY <3>1, <1>1, <1>5, <2>1, <2>3, <2>4
    <3>2. CASE g # h
      <4>1. HookTasks!(g)
        BY DEF HookInv, HookTasks
      <4>2. receiving'[g] = receiving[g] /\ UNCHANGED <<webhook, booked, rows, late>>
        BY <3>2, <1>1, <1>5, <2>4
      <4>3. \A k \in Handlers : receiving'[k].event \in Captures => receiving'[k] = receiving[k]
        BY <2>1, <2>3, <2>4
      <4> QED BY <4>1, <4>2, <4>3
    <3> QED BY <3>1, <3>2
  <2>8. HookBooked'
    BY <1>1, <1>5 DEF HookInv, HookBooked
  <2>9. HookAsked'
    <3> SUFFICES ASSUME NEW x \in 1..made', cause'[x] # InDashboard
                 PROVE  x \in rows \cup dead \/ \E g \in Handlers : receiving'[g].refund = x
      BY <1>1 DEF HookAsked
    <3>1. CASE x = made + 1 BY <3>1, <2>3, <2>4
    <3>2. CASE x # made + 1
      <4>1. x \in 1..made /\ cause[x] # InDashboard /\ x # None
        BY <3>2, <2>2, HookConstants DEF HookInv, Hook!TypeOK
      <4> QED BY <4>1, <2>1, <2>4 DEF HookInv, HookAsked
    <3> QED BY <3>1, <3>2
  <2>10. HookRepeats'
    <3>1. Hook!RepeatsOf(r) \ dead = {}
      <4> SUFFICES ASSUME NEW x \in Hook!RepeatsOf(r) \ dead PROVE FALSE
        OBVIOUS
      <4>1. PICK g \in Handlers : receiving[g].event = r /\ receiving[g].refund = x
        BY <1>1, <2>1 DEF HookInv, HookRepeats
      <4>2. g = h
        BY <4>1, <2>1, <2>5 DEF HookInv, Hook!TypeOK
      <4>3. x # None
        BY HookConstants DEF HookInv, Hook!TypeOK, Hook!RepeatsOf
      <4> QED BY <4>1, <4>2, <4>3, <2>1
    <3>2. ASSUME NEW x \in Hook!Refunds
          PROVE  /\ x \notin late' => Hook!RepeatsOf(x)' = {}
                 /\ \A y \in Hook!RepeatsOf(x)' \ dead' :
                      /\ \/ webhook'[x] = "PROCESSED"
                         \/ \E g \in Handlers : receiving'[g].event = x /\ receiving'[g].refund = y
                      /\ \A z \in Hook!RepeatsOf(x)' \ dead' : y = z
      <4>1. CASE x = r
        <5>1. Hook!RepeatsOf(x)' = Hook!RepeatsOf(x) \cup {made + 1}
          BY <4>1, <2>2
        <5>2. Hook!RepeatsOf(x)' \ dead' \subseteq {made + 1}
          BY <1>1, <3>1, <4>1, <5>1
        <5>3. receiving'[h].event = x /\ receiving'[h].refund = made + 1 /\ x \in late'
          BY <4>1, <1>1, <2>1, <2>3, <2>4
        <5> QED BY <5>2, <5>3
      <4>2. CASE x # r
        <5>1. Hook!RepeatsOf(x)' = Hook!RepeatsOf(x)
          BY <4>2, <2>2
        <5> QED BY <3>2, <4>2, <5>1, <1>1, <1>5, <2>4, <2>5 DEF HookInv, HookRepeats
      <4> QED BY <4>1, <4>2
    <3> QED BY <3>2 DEF HookRepeats
  <2> QED BY <2>6, <2>7, <2>8, <2>9, <2>10 DEF HookInv
<1> QED BY <1>2, <1>3, <1>4, <1>5 DEF Hook!DispatchRefund

LEMMA HookCommit ==
  ASSUME HookInv, NEW h \in Handlers, Hook!Commit(h) PROVE HookInv'
<1> DEFINE t == receiving[h]
<1>1. /\ t.step = "commit"
      /\ webhook' = [e \in Hook!Events |-> IF e = t.event THEN "PROCESSED" ELSE webhook[e]]
      /\ booked' = IF t.event \in Captures THEN booked + 1 ELSE booked
      /\ rows' = rows \cup ({t.refund} \ {None})
      /\ receiving' = [receiving EXCEPT ![h] = Hook!Idle]
      /\ UNCHANGED <<made, cause, requests, late, dead>>
  BY DEF Hook!Commit
<1>2. /\ receiving' \in [Handlers -> HookRequests] /\ receiving'[h] = Hook!Idle
      /\ \A g \in Handlers \ {h} : receiving'[g] = receiving[g]
  BY <1>1, HookIdle, HookMoved
<1>3. /\ receiving \in [Handlers -> HookRequests] /\ t \in HookRequests
      /\ t.event # None => t.event \in Hook!Events /\ webhook[t.event] = "ABSENT"
      /\ t.event \in Captures =>
           /\ booked = 0
           /\ \A g \in Handlers \ {h} : ~(receiving[g].step = "commit" /\ receiving[g].event \in Captures)
      /\ t.refund \in Hook!Refunds \cup {None}
  BY <1>1 DEF HookInv, Hook!TypeOK, HookTasks, HookRequests
<1>4. receiving[h] = t
  OBVIOUS
<1> HIDE DEF t
<1>5. Hook!TypeOK'
  <2>1. \A g, k \in Handlers : g # k /\ receiving'[g].event = receiving'[k].event => receiving'[g].event = None
    BY <1>2, HookIdle DEF HookInv, Hook!TypeOK
  <2>2. /\ webhook' \in [Hook!Events -> {"ABSENT", "INVALID_SIGNATURE", "RECEIVED", "PROCESSED"}]
        /\ booked' \in Nat /\ rows' \subseteq Hook!Refunds
    BY <1>1, <1>3 DEF HookInv, Hook!TypeOK
  <2> QED BY <1>1, <1>2, <2>1, <2>2 DEF HookInv, Hook!TypeOK, HookRequests
<1>6. HookTasks'
  <2> SUFFICES ASSUME NEW g \in Handlers PROVE HookTasks!(g)'
    BY DEF HookTasks
  <2>1. CASE g = h BY <2>1, <1>2, HookIdle, HookConstants
  <2>2. CASE g # h
    <3>1. receiving'[g] = receiving[g] /\ receiving[g] \in HookRequests
      BY <2>2, <1>2, <1>3
    <3>2. receiving[g].event # None => webhook'[receiving[g].event] = "ABSENT"
      <4> SUFFICES ASSUME receiving[g].event # None PROVE webhook'[receiving[g].event] = "ABSENT"
        OBVIOUS
      <4>1. receiving[g].event \in Hook!Events /\ receiving[g].event # t.event
        BY <2>2, <3>1, <1>4 DEF HookRequests, HookInv, Hook!TypeOK
      <4> QED BY <4>1, <1>1 DEF HookInv, HookTasks
    <3>3. receiving[g].step = "commit" /\ receiving[g].event \in Captures =>
            /\ booked' = 0
            /\ \A k \in Handlers \ {g} : ~(receiving'[k].step = "commit" /\ receiving'[k].event \in Captures)
      BY <2>2, <1>1, <1>2, <1>3, HookIdle DEF HookInv, HookTasks
    <3>4. receiving[g].event \in Hook!Refunds \ late' => receiving[g].event \in rows'
      BY <1>1 DEF HookInv, HookTasks
    <3> QED BY <3>1, <3>2, <3>3, <3>4 DEF HookInv, HookTasks
  <2> QED BY <2>1, <2>2
<1>7. HookBooked'
  <2>1. CASE t.event \in Captures
    <3>1. booked = 0 /\ booked' = 1 /\ \A e \in Captures : webhook[e] # "PROCESSED"
      BY <2>1, <1>1, <1>3 DEF HookInv, HookBooked
    <3>2. {c \in Captures : webhook'[c] = "PROCESSED"} = {t.event}
      BY <2>1, <3>1, <1>1, HookConstants
    <3> QED BY <2>1, <3>1, <3>2 DEF HookBooked
  <2>2. CASE t.event \notin Captures
    <3>1. booked' = booked /\ \A e \in Captures : webhook'[e] = webhook[e]
      BY <2>2, <1>1, HookConstants
    <3> QED BY <3>1 DEF HookInv, HookBooked
  <2> QED BY <2>1, <2>2
<1>8. HookAsked'
  <2> SUFFICES ASSUME NEW r \in 1..made, cause[r] # InDashboard
               PROVE  r \in rows' \cup dead \/ \E g \in Handlers : receiving'[g].refund = r
    BY <1>1 DEF HookAsked
  <2>1. r # None
    BY HookConstants DEF HookInv, Hook!TypeOK
  <2> QED BY <2>1, <1>1, <1>2, <1>4 DEF HookInv, HookAsked
<1>9. HookRepeats'
  <2>1. \A r : Hook!RepeatsOf(r)' = Hook!RepeatsOf(r)
    BY <1>1 DEF Hook!RepeatsOf
  <2>2. ASSUME NEW r \in Hook!Refunds, NEW x \in Hook!RepeatsOf(r) \ dead
        PROVE  webhook'[r] = "PROCESSED" \/ \E g \in Handlers : receiving'[g].event = r /\ receiving'[g].refund = x
    <3>1. CASE webhook[r] = "PROCESSED"
      BY <3>1, <1>1, HookConstants
    <3>2. ASSUME NEW g \in Handlers, receiving[g].event = r, receiving[g].refund = x
          PROVE  webhook'[r] = "PROCESSED" \/ \E k \in Handlers : receiving'[k].event = r /\ receiving'[k].refund = x
      <4>1. CASE g = h BY <3>2, <4>1, <1>1, <1>4, HookConstants
      <4>2. CASE g # h BY <3>2, <4>2, <1>2
      <4> QED BY <4>1, <4>2
    <3> QED BY <3>1, <3>2, <2>2 DEF HookInv, HookRepeats
  <2> QED BY <1>1, <2>1, <2>2 DEF HookInv, HookRepeats
<1> QED BY <1>5, <1>6, <1>7, <1>8, <1>9 DEF HookInv

LEMMA HookDie ==
  ASSUME HookInv, NEW h \in Handlers, Hook!Die(h) PROVE HookInv'
<1>1. /\ receiving' = [receiving EXCEPT ![h] = Hook!Idle]
      /\ dead' = dead \cup ({receiving[h].refund} \ {None})
      /\ UNCHANGED <<webhook, booked, rows, made, cause, requests, late>>
  BY DEF Hook!Die
<1>2. /\ receiving' \in [Handlers -> HookRequests] /\ receiving'[h] = Hook!Idle
      /\ \A g \in Handlers \ {h} : receiving'[g] = receiving[g]
  BY <1>1, HookIdle, HookMoved
<1>3. Hook!TypeOK'
  <2>1. \A g, k \in Handlers : g # k /\ receiving'[g].event = receiving'[k].event => receiving'[g].event = None
    BY <1>2, HookIdle DEF HookInv, Hook!TypeOK
  <2>2. dead' \subseteq Hook!Refunds
    BY <1>1 DEF HookInv, Hook!TypeOK
  <2> QED BY <1>1, <1>2, <2>1, <2>2 DEF HookInv, Hook!TypeOK, HookRequests
<1>4. HookTasks'
  <2> SUFFICES ASSUME NEW g \in Handlers PROVE HookTasks!(g)'
    BY DEF HookTasks
  <2>1. CASE g = h BY <2>1, <1>2, HookIdle, HookConstants
  <2>2. CASE g # h BY <2>2, <1>1, <1>2, HookIdle DEF HookInv, HookTasks
  <2> QED BY <2>1, <2>2
<1>5. HookBooked'
  BY <1>1 DEF HookInv, HookBooked
<1>6. HookAsked'
  <2> SUFFICES ASSUME NEW r \in 1..made, cause[r] # InDashboard
               PROVE  r \in rows \cup dead' \/ \E g \in Handlers : receiving'[g].refund = r
    BY <1>1 DEF HookAsked
  <2>1. r # None
    BY HookConstants DEF HookInv, Hook!TypeOK
  <2> QED BY <2>1, <1>1, <1>2 DEF HookInv, HookAsked
<1>7. HookRepeats'
  <2>1. \A r : Hook!RepeatsOf(r)' = Hook!RepeatsOf(r)
    BY <1>1 DEF Hook!RepeatsOf
  <2>2. ASSUME NEW r \in Hook!Refunds, NEW x \in Hook!RepeatsOf(r) \ dead'
        PROVE  webhook[r] = "PROCESSED" \/ \E g \in Handlers : receiving'[g].event = r /\ receiving'[g].refund = x
    <3>1. x # None /\ x \in Hook!RepeatsOf(r) \ dead /\ x # receiving[h].refund
      BY <2>2, <1>1, HookConstants DEF HookInv, Hook!TypeOK, Hook!RepeatsOf
    <3> QED BY <2>2, <3>1, <1>2 DEF HookInv, HookRepeats
  <2> QED BY <1>1, <2>1, <2>2 DEF HookInv, HookRepeats
<1> QED BY <1>3, <1>4, <1>5, <1>6, <1>7 DEF HookInv

LEMMA HookStep ==
  ASSUME HookInv, [Hook!Next]_(Hook!vars) PROVE HookInv'
<1>1. CASE UNCHANGED Hook!vars
  BY <1>1 DEF Hook!vars, HookInv, Hook!TypeOK, HookTasks, HookBooked, HookAsked, HookRepeats, Hook!RepeatsOf
<1>2. CASE Hook!Next
  BY <1>2, HookDashboard, HookRequestRefund, HookDeliver, HookBadSignature, HookDispatchCapture,
     HookInsert, HookDispatchRefund, HookCommit, HookDie DEF Hook!Next
<1> QED BY <1>1, <1>2

---------------------------------------------------------------------------
(* Recurring billing *)

BillRows ==
  [owner : BilledAccounts \cup {Nobody}, days : Nat, due : 0..InvoiceAmount, status : Bill!Statuses]

BillRequests ==
  [op : {"idle", "run", "pay", "patch", "refresh"}, rows : SUBSET BilledAccounts,
   free : SUBSET BilledAccounts, number : Bill!Numbers \cup {Nobody}, seen : BillRows,
   amount : Nat, target : Bill!Targets \cup {"-"}]

\* What a request keeps of what it was accepted on.
BillKept(t) ==
  /\ t.free \subseteq t.rows
  /\ t.op = "run" => \A a \in t.rows : schedule[a].next <= now
  /\ t.op \in {"pay", "patch", "refresh"} =>
       /\ t.number \in Bill!Numbers /\ t.seen.status # "ABSENT"
       /\ invoice[t.number].status # "ABSENT"
  /\ t.op = "pay" => t.amount \in 1..t.seen.due
  /\ t.op = "patch" => t.target \in Bill!PatchTransitions[t.seen.status]
  /\ t.op = "refresh" => t.target = "overdue" /\ t.seen.due > 0

BillTasks ==
  /\ billing \in [Handlers -> BillRequests]
  /\ \A h \in Handlers : BillKept(billing[h])
  /\ \A g, h \in Handlers : billing[g].op = "run" /\ billing[h].op = "run" => g = h

\* An invoice ends where the next one of its account starts, or before; so do
\* the days skipped.
BillPeriods ==
  /\ \A a \in BilledAccounts : schedule[a].next >= Start
  /\ \A n \in Bill!Numbers :
       /\ invoice[n].status = "ABSENT" => invoice[n] = Bill!NoInvoice /\ paid[n] = 0
       /\ invoice[n].owner # Nobody => n[2] + invoice[n].days <= schedule[invoice[n].owner].next
  /\ \A a \in BilledAccounts, d \in Nat : <<a, d>> \in skipped => d < schedule[a].next

\* The invoices of an account that bill a day.
Covering(a, d) ==
  {n \in Bill!Numbers : invoice[n].owner = a /\ n[2] <= d /\ d < n[2] + invoice[n].days}

BillDays ==
  \A a \in BilledAccounts, d \in Nat : Start <= d /\ d < schedule[a].next =>
    IF <<a, d>> \in skipped THEN Covering(a, d) = {}
    ELSE \E n \in Bill!Numbers : Covering(a, d) = {n}

\* The billing invariant.
BillInv == Bill!TypeOK /\ BillTasks /\ BillPeriods /\ BillDays /\ Bill!DueIsUnpaid

LEMMA BillConstants ==
  /\ Cycles \subseteq Nat \ {0} /\ Cycles # {} /\ Start \in Nat /\ MaxTime \in Nat
  /\ Start <= MaxTime /\ MaxChanges \in Nat
  /\ InvoiceAmount \in Nat \ {0} /\ Nobody \notin BilledAccounts
  /\ \A n \in Bill!Numbers : n[2] \in Start..MaxTime
BY MoneyAssumption DEF Bill!BillingAssumption, Bill!Numbers

LEMMA BillIdle ==
  /\ Bill!NoInvoice \in BillRows /\ Bill!NoInvoice.owner = Nobody /\ Bill!NoInvoice.days = 0
  /\ Bill!NoInvoice.due = 0 /\ Bill!NoInvoice.status = "ABSENT"
  /\ Bill!Idle \in BillRequests /\ Bill!Idle.op = "idle" /\ Bill!Idle.rows = {} /\ Bill!Idle.free = {}
BY BillConstants DEF Bill!NoInvoice, BillRows, Bill!Statuses, Bill!Idle, BillRequests

\* One request at a time runs the billing.
LEMMA BillOneRun ==
  ASSUME NEW f, \A g, h \in Handlers : f[g].op = "run" /\ f[h].op = "run" => g = h
  PROVE  Bill!Cardinality({h \in Handlers : f[h].op = "run"}) <= 1
<1> DEFINE R == {h \in Handlers : f[h].op = "run"}
<1>1. \A S : Bill!Cardinality(S) = Cardinality(S)
  BY DEF Bill!Cardinality, Cardinality
<1>2. \A g, h \in R : g = h
  OBVIOUS
<1> HIDE DEF R
<1>3. ASSUME R = {} PROVE Bill!Cardinality(R) <= 1
  BY <1>1, <1>3, FS_EmptySet
<1>4. ASSUME NEW h \in R PROVE Bill!Cardinality(R) <= 1
  <2>1. R = {h}
    BY <1>2
  <2> QED BY <1>1, <2>1, FS_Singleton
<1>5. Bill!Cardinality(R) <= 1
  BY <1>3, <1>4
<1> QED BY <1>5 DEF R

LEMMA BillInvoices == BillInv => InvoicesAddUp
<1> SUFFICES ASSUME BillInv PROVE Bill!EachDayBilledOnce
  BY DEF InvoicesAddUp, Bill!InvoicesAddUp, BillInv
<1>1. \A S : Bill!Cardinality(S) = Cardinality(S)
  BY DEF Bill!Cardinality, Cardinality
<1> SUFFICES ASSUME NEW a \in BilledAccounts, NEW d \in Start..(schedule[a].next - 1)
             PROVE  Bill!Cardinality(Covering(a, d)) = IF <<a, d>> \in skipped THEN 0 ELSE 1
  BY DEF Bill!EachDayBilledOnce, Covering
<1>2. d \in Nat /\ Start <= d /\ d < schedule[a].next
  BY BillConstants DEF BillInv, Bill!TypeOK
<1>3. CASE <<a, d>> \in skipped
  BY <1>1, <1>2, <1>3, FS_EmptySet DEF BillInv, BillDays
<1>4. CASE <<a, d>> \notin skipped
  <2>1. PICK n \in Bill!Numbers : Covering(a, d) = {n}
    BY <1>2, <1>4 DEF BillInv, BillDays
  <2> QED BY <1>1, <1>4, <2>1, FS_Singleton
<1> QED BY <1>3, <1>4

LEMMA BillBegins == Bill!Init => BillInv
<1> SUFFICES ASSUME Bill!Init PROVE BillInv
  OBVIOUS
<1>1. /\ now = Start /\ changes = 0
      /\ schedule \in [BilledAccounts -> [next : {Start}, cycle : Cycles]]
      /\ invoice = [n \in Bill!Numbers |-> Bill!NoInvoice] /\ paid = [n \in Bill!Numbers |-> 0]
      /\ billing = [h \in Handlers |-> Bill!Idle] /\ skipped = {} /\ overwritten = {}
  BY DEF Bill!Init
<1>2. BillTasks
  BY <1>1, BillIdle DEF BillTasks, BillKept
<1>3. \A a \in BilledAccounts : schedule[a].next = Start
  BY <1>1
<1>4. schedule \in [BilledAccounts -> [next : Nat, cycle : Cycles]]
  BY <1>1, BillConstants
<1>5. Bill!TypeOK
  <2>1. Bill!Cardinality({h \in Handlers : billing[h].op = "run"}) <= 1
    BY <1>2, BillOneRun DEF BillTasks
  <2> QED BY <1>1, <1>2, <1>4, <2>1, BillConstants, BillIdle DEF Bill!TypeOK, BillRows
<1>6. BillPeriods /\ BillDays
  BY <1>1, <1>3, BillIdle, BillConstants DEF BillPeriods, BillDays
<1>7. Bill!DueIsUnpaid
  BY <1>1 DEF Bill!DueIsUnpaid
<1> QED BY <1>2, <1>5, <1>6, <1>7 DEF BillInv

\* A request with another task, the invoices and schedules as they are.
LEMMA BillTask ==
  ASSUME BillInv, NEW h \in Handlers, NEW t \in BillRequests, BillKept(t),
         t.op = "run" => \A g \in Handlers : billing[g].op # "run",
         billing' = [billing EXCEPT ![h] = t], changes' \in 0..MaxChanges,
         UNCHANGED <<now, schedule, invoice, paid, skipped, overwritten>>
  PROVE  BillInv'
<1>1. /\ billing' \in [Handlers -> BillRequests] /\ billing'[h] = t
      /\ \A g \in Handlers \ {h} : billing'[g] = billing[g]
  BY DEF BillInv, BillTasks
<1>2. BillTasks'
  <2>1. \A g \in Handlers : BillKept(billing'[g])
    BY <1>1 DEF BillInv, BillTasks
  <2>2. \A g \in Handlers : BillKept(billing[g])'
    BY <2>1 DEF BillKept, Bill!Numbers, Bill!PatchTransitions
  <2>3. \A g, k \in Handlers : billing'[g].op = "run" /\ billing'[k].op = "run" => g = k
    BY <1>1 DEF BillInv, BillTasks
  <2>4. billing' \in [Handlers -> BillRequests]'
    BY <1>1
  <2> QED BY <2>2, <2>3, <2>4 DEF BillTasks
<1>3. Bill!TypeOK'
  <2>1. Bill!Cardinality({g \in Handlers : billing'[g].op = "run"}) <= 1
    BY <1>2, BillOneRun DEF BillTasks
  <2>2. \A g \in Handlers :
             /\ billing'[g].op \in {"idle", "run", "pay", "patch", "refresh"}
             /\ billing'[g].free \subseteq billing'[g].rows /\ billing'[g].rows \subseteq BilledAccounts
             /\ billing'[g].op \in {"pay", "patch", "refresh"} => billing'[g].number \in Bill!Numbers
    BY <1>1, <1>2 DEF BillTasks, BillRequests, BillKept
  <2> QED BY <2>1, <2>2 DEF BillInv, Bill!TypeOK, Bill!Numbers
<1>4. BillPeriods' /\ BillDays' /\ Bill!DueIsUnpaid'
  BY DEF BillInv, BillPeriods, BillDays, Bill!DueIsUnpaid, Covering
<1> QED BY <1>2, <1>3, <1>4 DEF BillInv

LEMMA BillRunBegin ==
  ASSUME BillInv, NEW h \in Handlers, NEW rs \in SUBSET Bill!Due, Bill!RunBegin(h, rs) PROVE BillInv'
<1> DEFINE free == {a \in rs : invoice[Bill!Number(a, schedule[a])] = Bill!NoInvoice}
           t == [Bill!Idle EXCEPT !.op = "run", !.rows = rs, !.free = free]
<1>1. /\ billing' = [billing EXCEPT ![h] = t] /\ \A g \in Handlers : billing[g].op # "run"
      /\ UNCHANGED <<now, schedule, invoice, paid, changes, skipped, overwritten>>
  BY DEF Bill!RunBegin
<1>2. free \subseteq rs /\ rs \subseteq BilledAccounts /\ \A a \in rs : schedule[a].next <= now
  BY DEF Bill!Due
<1> HIDE DEF free
<1>3. t \in BillRequests /\ t.op = "run" /\ t.rows = rs /\ t.free = free
  BY <1>2, BillIdle DEF BillRequests
<1> HIDE DEF t
<1>4. BillKept(t)
  BY <1>2, <1>3 DEF BillKept
<1>5. changes' \in 0..MaxChanges
  BY <1>1 DEF BillInv, Bill!TypeOK
<1> QED BY <1>1, <1>3, <1>4, <1>5, BillTask

\* A request that reads its invoice.
LEMMA BillTake ==
  ASSUME BillInv, NEW h \in Handlers, NEW n \in Bill!Numbers, NEW op \in {"pay", "patch", "refresh"},
         NEW amount \in Nat, NEW target \in Bill!Targets \cup {"-"}, Bill!Take(h, op, n, amount, target),
         invoice[n].status # "ABSENT", changes' \in 0..MaxChanges,
         op = "pay" => amount \in 1..invoice[n].due,
         op = "patch" => target \in Bill!PatchTransitions[invoice[n].status],
         op = "refresh" => target = "overdue" /\ invoice[n].due > 0
  PROVE  BillInv'
<1> DEFINE t == [Bill!Idle EXCEPT !.op = op, !.number = n, !.seen = invoice[n],
                                  !.amount = amount, !.target = target]
<1>1. /\ billing' = [billing EXCEPT ![h] = t]
      /\ UNCHANGED <<now, schedule, invoice, paid, skipped, overwritten>>
  BY DEF Bill!Take
<1>2. invoice[n] \in BillRows
  BY DEF BillInv, Bill!TypeOK, BillRows
<1>3. /\ t \in BillRequests /\ t.op = op /\ t.rows = {} /\ t.free = {} /\ t.number = n
      /\ t.seen = invoice[n] /\ t.amount = amount /\ t.target = target
  BY <1>2, BillIdle DEF BillRequests
<1> HIDE DEF t
<1>4. BillKept(t)
  BY <1>3 DEF BillKept
<1> QED BY <1>1, <1>3, <1>4, BillTask

LEMMA BillBegin ==
  ASSUME BillInv, NEW h \in Handlers, NEW n \in Bill!Numbers, NEW amount \in 1..InvoiceAmount,
         NEW target \in Bill!Targets,
         Bill!PayBegin(h, n, amount) \/ Bill!PatchBegin(h, n, target) \/ Bill!RefreshBegin(h, n)
  PROVE  BillInv'
<1>1. /\ invoice[n] \in BillRows /\ changes \in 0..MaxChanges /\ MaxChanges \in Nat
      /\ invoice[n].status = "ABSENT" => invoice[n] = Bill!NoInvoice
  BY BillConstants DEF BillInv, Bill!TypeOK, BillRows, BillPeriods
<1>2. CASE Bill!PayBegin(h, n, amount)
  <2>1. /\ invoice[n].status # "ABSENT" /\ amount \in 1..invoice[n].due /\ amount \in Nat
        /\ changes' \in 0..MaxChanges /\ Bill!Take(h, "pay", n, amount, "-")
    BY <1>1, <1>2, BillConstants DEF Bill!PayBegin, BillRows
  <2> QED BY <2>1, BillTake
<1>3. CASE Bill!PatchBegin(h, n, target)
  <2>1. /\ target \in Bill!PatchTransitions[invoice[n].status]
        /\ changes' \in 0..MaxChanges /\ Bill!Take(h, "patch", n, 0, target)
    BY <1>1, <1>3 DEF Bill!PatchBegin
  <2>2. invoice[n].status # "ABSENT"
    BY <2>1 DEF Bill!PatchTransitions
  <2> QED BY <2>1, <2>2, BillTake
<1>4. CASE Bill!RefreshBegin(h, n)
  <2>1. /\ invoice[n].status # "ABSENT" /\ invoice[n].due > 0
        /\ changes' \in 0..MaxChanges /\ Bill!Take(h, "refresh", n, 0, "overdue")
        /\ "overdue" \in Bill!Targets \cup {"-"}
    BY <1>1, <1>4 DEF Bill!RefreshBegin, Bill!Targets
  <2> QED BY <2>1, BillTake
<1> QED BY <1>2, <1>3, <1>4

LEMMA BillDie ==
  ASSUME BillInv, NEW h \in Handlers, Bill!Die(h) PROVE BillInv'
<1>1. /\ billing' = [billing EXCEPT ![h] = Bill!Idle]
      /\ UNCHANGED <<now, schedule, invoice, paid, changes, skipped, overwritten>>
  BY DEF Bill!Die
<1>2. BillKept(Bill!Idle) /\ changes' \in 0..MaxChanges
  BY <1>1, BillIdle DEF BillKept, BillInv, Bill!TypeOK
<1> QED BY <1>1, <1>2, BillIdle, BillTask

\* The clock, a changed plan, and an invoice made by hand.
LEMMA BillOthers ==
  ASSUME BillInv,
         \/ Bill!Tick
         \/ \E a \in BilledAccounts, c \in Cycles : Bill!ChangePlan(a, c)
         \/ \E n \in Bill!Numbers : Bill!CreateInvoice(n)
  PROVE  BillInv'
<1>1. CASE Bill!Tick
  <2>1. /\ now' = now + 1 /\ now < MaxTime
        /\ UNCHANGED <<schedule, invoice, paid, changes, billing, skipped, overwritten>>
    BY <1>1 DEF Bill!Tick
  <2>2. now \in Nat /\ now' \in Start..MaxTime /\ \A a \in BilledAccounts : schedule[a].next \in Nat
    BY <2>1, BillConstants DEF BillInv, Bill!TypeOK
  <2>3. \A h \in Handlers : BillKept(billing[h])'
    BY <2>1, <2>2 DEF BillInv, BillTasks, BillKept, BillRequests
  <2>4. BillTasks'
    BY <2>1, <2>3 DEF BillInv, BillTasks
  <2>5. Bill!TypeOK'
    BY <2>1, <2>2 DEF BillInv, Bill!TypeOK
  <2> QED BY <2>1, <2>4, <2>5 DEF BillInv, BillPeriods, BillDays, Bill!DueIsUnpaid, Covering
<1>2. ASSUME NEW a \in BilledAccounts, NEW c \in Cycles, Bill!ChangePlan(a, c) PROVE BillInv'
  <2>1. /\ schedule' = [schedule EXCEPT ![a].cycle = c]
        /\ UNCHANGED <<now, invoice, paid, changes, billing, skipped, overwritten>>
    BY <1>2 DEF Bill!ChangePlan
  <2>2. /\ schedule' \in [BilledAccounts -> [next : Nat, cycle : Cycles]]
        /\ \A b \in BilledAccounts : schedule'[b].next = schedule[b].next
    BY <2>1 DEF BillInv, Bill!TypeOK
  <2>3. \A h \in Handlers : BillKept(billing[h])'
    BY <2>1, <2>2 DEF BillInv, BillTasks, BillKept, BillRequests
  <2>4. BillTasks'
    BY <2>1, <2>3 DEF BillInv, BillTasks
  <2>5. Bill!TypeOK'
    BY <2>1, <2>2 DEF BillInv, Bill!TypeOK
  <2>6. BillPeriods'
    BY <2>1, <2>2 DEF BillInv, BillPeriods, Bill!TypeOK
  <2>7. BillDays' /\ Bill!DueIsUnpaid'
    BY <2>1, <2>2 DEF BillInv, BillDays, Bill!DueIsUnpaid, Covering
  <2> QED BY <2>4, <2>5, <2>6, <2>7 DEF BillInv
<1>3. ASSUME NEW n \in Bill!Numbers, Bill!CreateInvoice(n) PROVE BillInv'
  <2> DEFINE row == [Bill!NoInvoice EXCEPT !.due = InvoiceAmount, !.status = "issued"]
  <2>1. /\ invoice[n] = Bill!NoInvoice /\ changes < MaxChanges /\ changes' = changes + 1
        /\ invoice' = [invoice EXCEPT ![n] = row]
        /\ UNCHANGED <<now, schedule, paid, billing, skipped, overwritten>>
    BY <1>3 DEF Bill!CreateInvoice
  <2>2. /\ row \in BillRows /\ row.owner = Nobody /\ row.days = 0 /\ row.due = InvoiceAmount
        /\ row.status = "issued"
    <3>1. InvoiceAmount \in 0..InvoiceAmount /\ "issued" \in Bill!Statuses
      BY BillConstants DEF Bill!Statuses
    <3> QED BY <3>1, BillIdle DEF BillRows
  <2> HIDE DEF row
  <2>3. /\ invoice \in [Bill!Numbers -> BillRows] /\ invoice' \in [Bill!Numbers -> BillRows]
        /\ invoice'[n] = row /\ \A m \in Bill!Numbers \ {n} : invoice'[m] = invoice[m]
    BY <2>1, <2>2 DEF BillInv, Bill!TypeOK, BillRows
  <2>4. \A m \in Bill!Numbers : invoice[m].status # "ABSENT" => invoice'[m] = invoice[m]
    BY <2>1, <2>3, BillIdle
  <2>5. \A h \in Handlers : BillKept(billing[h])'
    BY <2>1, <2>4 DEF BillInv, BillTasks, BillKept
  <2>6. BillTasks'
    BY <2>1, <2>5 DEF BillInv, BillTasks
  <2>7. changes' \in 0..MaxChanges
    BY <2>1, BillConstants DEF BillInv, Bill!TypeOK
  <2>8. Bill!TypeOK'
    BY <2>1, <2>3, <2>7 DEF BillInv, Bill!TypeOK, BillRows
  <2>9. BillPeriods'
    BY <2>1, <2>2, <2>3, BillIdle DEF BillInv, BillPeriods
  <2>10. \A a \in BilledAccounts, d \in Nat : Covering(a, d)' = Covering(a, d)
    BY <2>1, <2>2, <2>3, BillIdle, BillConstants DEF Covering
  <2>11. BillDays'
    BY <2>1, <2>10 DEF BillInv, BillDays
  <2>12. paid[n] = 0
    BY <2>1, BillIdle DEF BillInv, BillPeriods
  <2>13. Bill!DueIsUnpaid'
    BY <2>1, <2>2, <2>3, <2>12, BillConstants DEF BillInv, Bill!DueIsUnpaid
  <2> QED BY <2>6, <2>8, <2>9, <2>11, <2>13 DEF BillInv
<1> QED BY <1>1, <1>2, <1>3

\* What a run leaves: an invoice for each schedule whose number was free, and
\* every schedule it took advanced.
LEMMA BillRun ==
  ASSUME BillInv, NEW h \in Handlers, Bill!RunCommit(h)
  PROVE  LET t == billing[h]
             N(a) == Bill!Number(a, schedule[a])
         IN /\ t.op = "run" /\ billing' = [billing EXCEPT ![h] = Bill!Idle]
            /\ UNCHANGED <<now, paid, changes, overwritten>>
            /\ \/ UNCHANGED <<schedule, invoice, skipped>>
               \/ /\ \A a \in t.free : invoice[N(a)] = Bill!NoInvoice
                  /\ schedule' = [a \in BilledAccounts |-> IF a \in t.rows THEN Bill!Advanced(schedule[a])
                                                           ELSE schedule[a]]
                  /\ \A n \in Bill!Numbers, a \in t.free : N(a) = n =>
                       invoice'[n] = [owner |-> a, days |-> schedule[a].cycle, due |-> InvoiceAmount,
                                      status |-> "issued"]
                  /\ \A n \in Bill!Numbers : (\A a \in t.free : N(a) # n) => invoice'[n] = invoice[n]
                  /\ DOMAIN invoice' = Bill!Numbers /\ invoice' = [n \in Bill!Numbers |-> invoice'[n]]
                  /\ \A x : x \in skipped' <=>
                       x \in skipped \/ \E a \in t.rows \ t.free :
                         \E d \in schedule[a].next..(schedule[a].next + schedule[a].cycle - 1) : x = <<a, d>>
<1> DEFINE t == billing[h]
           N(a) == Bill!Number(a, schedule[a])
           fails == \/ \E a \in t.free : invoice[N(a)] # Bill!NoInvoice
                    \/ \E a, b \in t.free : a # b /\ N(a) = N(b)
<1>1. /\ t.op = "run" /\ billing' = [billing EXCEPT ![h] = Bill!Idle]
      /\ UNCHANGED <<now, paid, changes, overwritten>>
  BY DEF Bill!RunCommit
<1>2. CASE fails
  BY <1>1, <1>2 DEF Bill!RunCommit
<1>3. CASE ~fails
  <2>1. /\ schedule' = [a \in BilledAccounts |-> IF a \in t.rows THEN Bill!Advanced(schedule[a])
                                                 ELSE schedule[a]]
        /\ invoice' = [n \in Bill!Numbers |->
                IF \E a \in t.free : N(a) = n
                  THEN LET a == CHOOSE b \in t.free : N(b) = n
                       IN [owner |-> a, days |-> schedule[a].cycle, due |-> InvoiceAmount, status |-> "issued"]
                  ELSE invoice[n]]
        /\ skipped' = skipped \cup UNION {
                {<<a, d>> : d \in schedule[a].next..(schedule[a].next + schedule[a].cycle - 1)}
                  : a \in t.rows \ t.free}
    BY <1>3 DEF Bill!RunCommit
  <2>2. \A a \in t.free : invoice[N(a)] = Bill!NoInvoice
    BY <1>3
  <2> HIDE DEF t
  <2>3. ASSUME NEW n \in Bill!Numbers, NEW a \in t.free, N(a) = n
        PROVE  invoice'[n] = [owner |-> a, days |-> schedule[a].cycle, due |-> InvoiceAmount,
                              status |-> "issued"]
    <3>1. (CHOOSE b \in t.free : N(b) = n) = a
      BY <1>3, <2>3
    <3> QED BY <2>1, <2>3, <3>1
  <2>4. ASSUME NEW n \in Bill!Numbers, \A a \in t.free : N(a) # n PROVE invoice'[n] = invoice[n]
    BY <2>1, <2>4
  <2>5. DOMAIN invoice' = Bill!Numbers /\ invoice' = [n \in Bill!Numbers |-> invoice'[n]]
    BY <2>1
  <2>6. \A x : x \in skipped' <=>
                       x \in skipped \/ \E a \in t.rows \ t.free :
                         \E d \in schedule[a].next..(schedule[a].next + schedule[a].cycle - 1) : x = <<a, d>>
    BY <2>1
  <2> QED BY <1>1, <2>1, <2>2, <2>3, <2>4, <2>5, <2>6 DEF t
<1> QED BY <1>2, <1>3

LEMMA BillRunCommit ==
  ASSUME BillInv, NEW h \in Handlers, Bill!RunCommit(h) PROVE BillInv'
<1> DEFINE t == billing[h]
           N(a) == Bill!Number(a, schedule[a])
<1>1. /\ t.op = "run" /\ billing' = [billing EXCEPT ![h] = Bill!Idle]
      /\ UNCHANGED <<now, paid, changes, overwritten>>
  BY BillRun
<1>2. CASE UNCHANGED <<schedule, invoice, skipped>>
  <2>1. BillKept(Bill!Idle) /\ changes' \in 0..MaxChanges /\ Bill!Idle.op # "run"
    BY <1>1, BillIdle DEF BillKept, BillInv, Bill!TypeOK
  <2> QED BY <1>1, <1>2, <2>1, BillIdle, BillTask
<1>3. CASE /\ \A a \in t.free : invoice[N(a)] = Bill!NoInvoice
           /\ schedule' = [a \in BilledAccounts |-> IF a \in t.rows THEN Bill!Advanced(schedule[a])
                                                    ELSE schedule[a]]
           /\ \A n \in Bill!Numbers, a \in t.free : N(a) = n =>
                invoice'[n] = [owner |-> a, days |-> schedule[a].cycle, due |-> InvoiceAmount,
                               status |-> "issued"]
           /\ \A n \in Bill!Numbers : (\A a \in t.free : N(a) # n) => invoice'[n] = invoice[n]
           /\ DOMAIN invoice' = Bill!Numbers /\ invoice' = [n \in Bill!Numbers |-> invoice'[n]]
           /\ \A x : x \in skipped' <=>
                x \in skipped \/ \E a \in t.rows \ t.free :
                  \E d \in schedule[a].next..(schedule[a].next + schedule[a].cycle - 1) : x = <<a, d>>
  <2>1. /\ t \in BillRequests /\ t.free \subseteq t.rows /\ t.rows \subseteq BilledAccounts
        /\ \A a \in t.rows : schedule[a].next <= now
        /\ billing \in [Handlers -> BillRequests]
    BY <1>1 DEF BillInv, BillTasks, BillKept, BillRequests
  <2>2. \A a \in BilledAccounts :
          /\ schedule[a] \in [next : Nat, cycle : Cycles] /\ schedule[a].next \in Nat
          /\ schedule[a].cycle \in Nat /\ schedule[a].cycle > 0 /\ schedule[a].cycle \in Cycles
          /\ schedule[a].next >= Start
    <3>1. schedule \in [BilledAccounts -> [next : Nat, cycle : Cycles]]
      BY DEF BillInv, Bill!TypeOK
    <3>2. \A a \in BilledAccounts : schedule[a].next >= Start
      BY DEF BillInv, BillPeriods
    <3>3. Cycles \subseteq Nat \ {0}
      BY BillConstants
    <3>4. \A c \in Cycles : c \in Nat /\ c > 0
      BY <3>3
    <3>5. \A a \in BilledAccounts : schedule[a] \in [next : Nat, cycle : Cycles]
      BY <3>1
    <3>6. \A a \in BilledAccounts : schedule[a].next \in Nat /\ schedule[a].cycle \in Cycles
      BY <3>5
    <3> QED BY <3>2, <3>4, <3>5, <3>6
  <2>3. \A a \in t.rows : N(a) \in Bill!Numbers /\ N(a)[2] = schedule[a].next
    BY <2>1, <2>2, BillConstants DEF BillInv, Bill!TypeOK, Bill!Numbers, Bill!Number
  <2>4. /\ billing' \in [Handlers -> BillRequests] /\ billing'[h] = Bill!Idle
        /\ \A g \in Handlers \ {h} : billing'[g] = billing[g]
    BY <1>1, <2>1, BillIdle
  <2>5. /\ schedule' \in [BilledAccounts -> [next : Nat, cycle : Cycles]]
        /\ \A a \in t.rows : schedule'[a].next = schedule[a].next + schedule[a].cycle
        /\ \A a \in BilledAccounts \ t.rows : schedule'[a].next = schedule[a].next
        /\ \A a \in BilledAccounts : schedule'[a].next >= schedule[a].next
    <3>1. \A a \in BilledAccounts :
            /\ Bill!Advanced(schedule[a]) \in [next : Nat, cycle : Cycles]
            /\ Bill!Advanced(schedule[a]).next = schedule[a].next + schedule[a].cycle
      BY <2>2 DEF Bill!Advanced
    <3>2. \A a \in BilledAccounts :
            schedule'[a] = IF a \in t.rows THEN Bill!Advanced(schedule[a]) ELSE schedule[a]
      BY <1>3
    <3> QED BY <1>3, <3>1, <3>2, <2>1, <2>2
  <2>6. \A n \in Bill!Numbers :
          \/ /\ invoice'[n] = invoice[n] /\ \A a \in t.free : N(a) # n
          \/ \E a \in t.free :
               /\ N(a) = n /\ invoice[n] = Bill!NoInvoice
               /\ invoice'[n] = [owner |-> a, days |-> schedule[a].cycle, due |-> InvoiceAmount,
                                 status |-> "issued"]
    BY <1>3
  <2>7. \A x : x \in skipped' <=>
                x \in skipped \/ \E a \in t.rows \ t.free :
                  \E d \in schedule[a].next..(schedule[a].next + schedule[a].cycle - 1) : x = <<a, d>>
    BY <1>3
  <2>8. t.op = "run" /\ billing[h] = t
    BY <1>1
  <2> HIDE DEF t, N
  <2>9. invoice' \in [Bill!Numbers -> BillRows]
    <3>1. \A a \in t.free : [owner |-> a, days |-> schedule[a].cycle, due |-> InvoiceAmount,
                             status |-> "issued"] \in BillRows
      BY <2>1, <2>2, BillConstants DEF BillRows, Bill!Statuses
    <3>2. \A n \in Bill!Numbers : invoice[n] \in BillRows
      BY DEF BillInv, Bill!TypeOK, BillRows
    <3>3. \A n \in Bill!Numbers : invoice'[n] \in BillRows
      BY <2>6, <3>1, <3>2
    <3> QED BY <3>3, <1>3
  <2>10. \A n \in Bill!Numbers : invoice[n].status # "ABSENT" => invoice'[n] = invoice[n]
    BY <2>6, BillIdle
  <2>11. BillTasks'
    <3>1. ASSUME NEW g \in Handlers PROVE BillKept(billing[g])'
      <4>1. CASE g = h
        BY <4>1, <2>4, BillIdle DEF BillKept
      <4>2. CASE g # h
        <5>1. billing'[g] = billing[g] /\ billing[g].op # "run"
          BY <4>2, <2>4, <2>8 DEF BillInv, BillTasks
        <5> QED BY <5>1, <2>10 DEF BillInv, BillTasks, BillKept
      <4> QED BY <4>1, <4>2
    <3>2. \A g, k \in Handlers : billing'[g].op = "run" /\ billing'[k].op = "run" => g = k
      BY <2>4, BillIdle DEF BillInv, BillTasks
    <3> QED BY <3>1, <3>2, <2>4 DEF BillTasks
  <2>12. skipped' \subseteq BilledAccounts \X Nat
    <3> SUFFICES ASSUME NEW x \in skipped' PROVE x \in BilledAccounts \X Nat
      OBVIOUS
    <3>1. CASE x \in skipped
      BY <3>1 DEF BillInv, Bill!TypeOK
    <3>2. ASSUME NEW a \in t.rows \ t.free,
                 NEW d \in schedule[a].next..(schedule[a].next + schedule[a].cycle - 1), x = <<a, d>>
          PROVE  x \in BilledAccounts \X Nat
      <4>1. a \in BilledAccounts /\ d \in Nat
        BY <2>1, <2>2
      <4> QED BY <3>2, <4>1
    <3> QED BY <2>7, <3>1, <3>2
  <2>13. Bill!TypeOK'
    <3>1. Bill!Cardinality({g \in Handlers : billing'[g].op = "run"}) <= 1
      BY <2>11, BillOneRun DEF BillTasks
    <3>2. \A g \in Handlers :
             /\ billing'[g].op \in {"idle", "run", "pay", "patch", "refresh"}
             /\ billing'[g].free \subseteq billing'[g].rows /\ billing'[g].rows \subseteq BilledAccounts
             /\ billing'[g].op \in {"pay", "patch", "refresh"} => billing'[g].number \in Bill!Numbers
      BY <2>4, <2>11 DEF BillTasks, BillRequests, BillKept
    <3>3. /\ now' \in Start..MaxTime /\ changes' \in 0..MaxChanges
          /\ paid' \in [Bill!Numbers -> Nat] /\ overwritten' \subseteq Bill!Numbers
      BY <1>1 DEF BillInv, Bill!TypeOK
    <3> QED BY <3>1, <3>2, <3>3, <2>5, <2>9, <2>12 DEF Bill!TypeOK, BillRows, Bill!Numbers
  <2>14. \A a \in BilledAccounts, d \in Nat :
           <<a, d>> \in skipped' <=>
             \/ <<a, d>> \in skipped
             \/ a \in t.rows \ t.free /\ schedule[a].next <= d /\ d < schedule'[a].next
    <3> SUFFICES ASSUME NEW a \in BilledAccounts, NEW d \in Nat
                 PROVE  (\E b \in t.rows \ t.free :
                          \E e \in schedule[b].next..(schedule[b].next + schedule[b].cycle - 1) :
                            <<a, d>> = <<b, e>>)
                        <=> a \in t.rows \ t.free /\ schedule[a].next <= d /\ d < schedule'[a].next
      BY <2>7
    <3> QED BY <2>2, <2>5, <2>1
  <2>15. BillPeriods'
    <3>1. \A a \in BilledAccounts : schedule'[a].next >= Start
      BY <2>2, <2>5, BillConstants
    <3>2. ASSUME NEW n \in Bill!Numbers
          PROVE  /\ invoice'[n].status = "ABSENT" => invoice'[n] = Bill!NoInvoice /\ paid'[n] = 0
                 /\ invoice'[n].owner # Nobody =>
                      n[2] + invoice'[n].days <= schedule'[invoice'[n].owner].next
      <4>1. CASE invoice'[n] = invoice[n]
        <5>1. invoice[n] \in BillRows /\ n[2] \in Nat
          BY BillConstants DEF BillInv, Bill!TypeOK, BillRows
        <5>2. CASE invoice[n].owner = Nobody
          BY <4>1, <5>2, <1>1 DEF BillInv, BillPeriods
        <5>3. CASE invoice[n].owner # Nobody
          <6>1. /\ invoice[n].owner \in BilledAccounts /\ invoice[n].days \in Nat
                /\ n[2] + invoice[n].days <= schedule[invoice[n].owner].next
            BY <5>1, <5>3 DEF BillInv, BillPeriods, BillRows
          <6>2. /\ schedule'[invoice[n].owner].next >= schedule[invoice[n].owner].next
                /\ schedule'[invoice[n].owner].next \in Nat /\ schedule[invoice[n].owner].next \in Nat
            BY <6>1, <2>2, <2>5
          <6>3. n[2] + invoice[n].days <= schedule'[invoice[n].owner].next
            BY <5>1, <6>1, <6>2
          <6> QED BY <4>1, <6>3, <1>1 DEF BillInv, BillPeriods
        <5> QED BY <5>2, <5>3
      <4>2. ASSUME NEW a \in t.free, N(a) = n,
                   invoice'[n] = [owner |-> a, days |-> schedule[a].cycle, due |-> InvoiceAmount,
                                  status |-> "issued"]
            PROVE  /\ invoice'[n].status # "ABSENT"
                   /\ n[2] + invoice'[n].days <= schedule'[invoice'[n].owner].next
        <5>1. a \in t.rows /\ n[2] = schedule[a].next /\ invoice'[n].owner = a
              /\ invoice'[n].days = schedule[a].cycle
          BY <4>2, <2>1, <2>3
        <5> QED BY <4>2, <5>1, <2>1, <2>2, <2>5
      <4> QED BY <2>6, <4>1, <4>2
    <3>3. ASSUME NEW a \in BilledAccounts, NEW d \in Nat, <<a, d>> \in skipped' PROVE d < schedule'[a].next
      <4>1. CASE <<a, d>> \in skipped
        <5>1. d < schedule[a].next
          BY <4>1 DEF BillInv, BillPeriods
        <5>2. schedule'[a].next \in Nat /\ schedule'[a].next >= schedule[a].next
          BY <2>5
        <5> QED BY <5>1, <5>2, <2>2
      <4> QED BY <4>1, <2>14, <3>3
    <3> QED BY <3>1, <3>2, <3>3 DEF BillPeriods, Bill!Numbers
  <2>16. ASSUME NEW a \in BilledAccounts, NEW d \in Nat, d < schedule[a].next
         PROVE  Covering(a, d)' = Covering(a, d)
    <3>1. ASSUME NEW n \in Bill!Numbers
          PROVE  (invoice'[n].owner = a /\ n[2] <= d /\ d < n[2] + invoice'[n].days)
                 <=> (invoice[n].owner = a /\ n[2] <= d /\ d < n[2] + invoice[n].days)
      <4>1. CASE invoice'[n] = invoice[n]
        BY <4>1
      <4>2. ASSUME NEW b \in t.free, N(b) = n, invoice[n] = Bill!NoInvoice,
                   invoice'[n] = [owner |-> b, days |-> schedule[b].cycle, due |-> InvoiceAmount,
                                  status |-> "issued"]
            PROVE  invoice[n].owner # a /\ ~(invoice'[n].owner = a /\ n[2] <= d)
        <5>1. b \in t.rows /\ n[2] = schedule[b].next /\ invoice'[n].owner = b
          BY <4>2, <2>1, <2>3
        <5>2. invoice[n].owner # a
          BY <4>2, BillIdle, BillConstants
        <5> QED BY <5>1, <5>2, <2>16, <2>2
      <4> QED BY <4>1, <4>2, <2>6
    <3> QED BY <3>1 DEF Covering, Bill!Numbers
  <2>17. ASSUME NEW a \in t.rows, NEW d \in Nat, schedule[a].next <= d, d < schedule'[a].next
         PROVE  IF a \in t.free THEN Covering(a, d)' = {N(a)} ELSE Covering(a, d)' = {}
    <3>0. a \in BilledAccounts /\ schedule'[a].next = schedule[a].next + schedule[a].cycle
      BY <2>1, <2>5
    <3>1. ASSUME NEW n \in Bill!Numbers
          PROVE  (invoice'[n].owner = a /\ n[2] <= d /\ d < n[2] + invoice'[n].days)
                 <=> a \in t.free /\ n = N(a)
      <4>1. CASE invoice'[n] = invoice[n] /\ \A b \in t.free : N(b) # n
        <5>1. ASSUME invoice[n].owner = a PROVE ~(d < n[2] + invoice[n].days)
          <6>1. n[2] + invoice[n].days <= schedule[a].next /\ invoice[n].days \in Nat /\ n[2] \in Nat
            BY <3>0, <5>1, BillConstants DEF BillInv, BillPeriods, Bill!TypeOK
          <6> QED BY <6>1, <2>17, <3>0, <2>2
        <5> QED BY <4>1, <5>1
      <4>2. ASSUME NEW b \in t.free, N(b) = n,
                   invoice'[n] = [owner |-> b, days |-> schedule[b].cycle, due |-> InvoiceAmount,
                                  status |-> "issued"]
            PROVE  (invoice'[n].owner = a /\ n[2] <= d /\ d < n[2] + invoice'[n].days)
                   <=> a \in t.free /\ n = N(a)
        <5>1. /\ b \in t.rows /\ n[2] = schedule[b].next /\ invoice'[n].owner = b
              /\ invoice'[n].days = schedule[b].cycle
          BY <4>2, <2>1, <2>3
        <5>2. CASE a = b
          BY <4>2, <5>1, <5>2, <2>17, <3>0
        <5>3. CASE a # b
          <6>1. ~(a \in t.free /\ n = N(a))
            <7> SUFFICES ASSUME a \in t.free, n = N(a) PROVE FALSE
              OBVIOUS
            <7>1. invoice'[n].owner = a
              BY <1>3 DEF t, N
            <7> QED BY <5>1, <5>3, <7>1
          <6> QED BY <5>1, <5>3, <6>1
        <5> QED BY <5>2, <5>3
      <4> QED BY <4>1, <4>2, <2>6
    <3>2. a \in t.free => N(a) \in Bill!Numbers
      BY <2>3
    <3>3. Covering(a, d)' = {n \in Bill!Numbers : invoice'[n].owner = a /\ n[2] <= d /\ d < n[2] + invoice'[n].days}
      BY DEF Covering, Bill!Numbers
    <3> QED BY <3>1, <3>2, <3>3
  <2>18. BillDays'
    <3> SUFFICES ASSUME NEW a \in BilledAccounts, NEW d \in Nat, Start <= d, d < schedule'[a].next
                 PROVE  IF <<a, d>> \in skipped' THEN Covering(a, d)' = {}
                        ELSE \E n \in Bill!Numbers : Covering(a, d)' = {n}
      BY DEF BillDays, Bill!Numbers
    <3>1. CASE d < schedule[a].next
      <4>1. <<a, d>> \in skipped' <=> <<a, d>> \in skipped
        BY <3>1, <2>14, <2>2
      <4> QED BY <3>1, <4>1, <2>16 DEF BillInv, BillDays
    <3>2. CASE ~(d < schedule[a].next)
      <4>1. schedule[a].next <= d /\ <<a, d>> \notin skipped
        BY <3>2, <2>2 DEF BillInv, BillPeriods
      <4>2. a \in t.rows
        BY <3>2, <2>5
      <4>3. <<a, d>> \in skipped' <=> a \notin t.free
        BY <4>1, <4>2, <2>14
      <4> QED BY <4>1, <4>2, <4>3, <2>17, <2>3
    <3> QED BY <3>1, <3>2
  <2>19. Bill!DueIsUnpaid'
    <3> SUFFICES ASSUME NEW n \in Bill!Numbers \ overwritten, invoice'[n] # Bill!NoInvoice
                 PROVE  /\ invoice'[n].due + paid[n] = InvoiceAmount
                        /\ invoice'[n].due = 0 => invoice'[n].status = "paid"
      BY <1>1 DEF Bill!DueIsUnpaid, Bill!Numbers
    <3>1. CASE invoice'[n] = invoice[n]
      BY <3>1 DEF BillInv, Bill!DueIsUnpaid
    <3>2. ASSUME NEW a \in t.free, invoice[n] = Bill!NoInvoice,
                 invoice'[n] = [owner |-> a, days |-> schedule[a].cycle, due |-> InvoiceAmount,
                                status |-> "issued"]
          PROVE  /\ invoice'[n].due + paid[n] = InvoiceAmount
                 /\ invoice'[n].due = 0 => invoice'[n].status = "paid"
      <4>1. paid[n] = 0
        BY <3>2, BillIdle DEF BillInv, BillPeriods
      <4> QED BY <3>2, <4>1, BillConstants
    <3> QED BY <2>6, <3>1, <3>2
  <2> QED BY <2>11, <2>13, <2>15, <2>18, <2>19 DEF BillInv
<1> QED BY <1>2, <1>3, BillRun

\* The row a request makes of the one it read.
LEMMA BillAfter ==
  ASSUME NEW t \in BillRequests, BillKept(t), t.op \in {"pay", "patch", "refresh"}
  PROVE  LET new == Bill!After(t) IN
         /\ new \in BillRows /\ new.owner = t.seen.owner /\ new.days = t.seen.days
         /\ new.status # "ABSENT"
         /\ t.op = "pay" => /\ new.due = t.seen.due - t.amount
                            /\ new.due = 0 => new.status = "paid"
         /\ t.op # "pay" => new.due = t.seen.due
         /\ t.op # "pay" /\ new.due = 0 /\ t.seen.status = "paid" => FALSE
         /\ t.op = "refresh" => new.due # 0
<1>1. /\ t.seen \in BillRows /\ t.seen.due \in 0..InvoiceAmount /\ InvoiceAmount \in Nat
      /\ t.target \in Bill!Targets \cup {"-"} /\ t.amount \in Nat
  BY BillConstants DEF BillRequests, BillRows
<1>2. CASE t.op = "pay"
  <2>1. t.amount \in 1..t.seen.due
    BY <1>2 DEF BillKept
  <2>2. Bill!After(t) = [owner |-> t.seen.owner, days |-> t.seen.days, due |-> t.seen.due - t.amount,
                         status |-> IF t.seen.due = t.amount THEN "paid" ELSE "partially_paid"]
    BY <1>1, <1>2 DEF Bill!After, BillRows
  <2>3. t.seen.due - t.amount \in 0..InvoiceAmount /\ (t.seen.due - t.amount = 0 => t.seen.due = t.amount)
    BY <1>1, <2>1
  <2> QED BY <1>1, <1>2, <2>2, <2>3 DEF BillRows, Bill!Statuses
<1>3. CASE t.op # "pay"
  <2>1. Bill!After(t) = [owner |-> t.seen.owner, days |-> t.seen.days, due |-> t.seen.due, status |-> t.target]
    BY <1>1, <1>3 DEF Bill!After, BillRows
  <2>2. t.target \in Bill!Targets
    BY <1>1, <1>3 DEF BillKept, Bill!PatchTransitions, Bill!Statuses, BillRows, Bill!Targets
  <2>3. t.seen.status = "paid" => t.op = "refresh"
    BY <1>3 DEF BillKept, Bill!PatchTransitions
  <2>4. t.op = "refresh" => t.seen.due > 0
    BY DEF BillKept
  <2> QED BY <1>1, <1>3, <2>1, <2>2, <2>3, <2>4 DEF BillRows, Bill!Statuses, Bill!Targets
<1> QED BY <1>2, <1>3

LEMMA BillWrite ==
  ASSUME BillInv, NEW h \in Handlers, Bill!Write(h) PROVE BillInv'
<1> DEFINE t == billing[h]
           m == t.number
           new == Bill!After(t)
           row == [f \in DOMAIN Bill!NoInvoice |-> Bill!Column(t.seen[f], new[f], invoice[m][f])]
<1>1. /\ t.op \in {"pay", "patch", "refresh"}
      /\ invoice' = [invoice EXCEPT ![m] = row]
      /\ paid' = IF t.op = "pay" THEN [paid EXCEPT ![m] = @ + t.amount] ELSE paid
      /\ overwritten' = overwritten \cup (IF invoice[m] # t.seen THEN {m} ELSE {})
      /\ billing' = [billing EXCEPT ![h] = Bill!Idle]
      /\ UNCHANGED <<now, schedule, changes, skipped>>
  BY DEF Bill!Write
<1>2. /\ t \in BillRequests /\ BillKept(t) /\ m \in Bill!Numbers /\ t.seen \in BillRows
      /\ invoice[m] \in BillRows /\ invoice[m].status # "ABSENT" /\ t.amount \in Nat
      /\ billing \in [Handlers -> BillRequests] /\ invoice \in [Bill!Numbers -> BillRows]
      /\ t.seen.status # "ABSENT" /\ paid \in [Bill!Numbers -> Nat]
  BY <1>1 DEF BillInv, BillTasks, BillKept, BillRequests, Bill!TypeOK, BillRows
<1>3. /\ new \in BillRows /\ new.owner = t.seen.owner /\ new.days = t.seen.days
      /\ new.status # "ABSENT"
      /\ t.op = "pay" => /\ new.due = t.seen.due - t.amount
                         /\ new.due = 0 => new.status = "paid"
      /\ t.op # "pay" => new.due = t.seen.due
      /\ t.op # "pay" /\ new.due = 0 /\ t.seen.status = "paid" => FALSE
      /\ t.op = "refresh" => new.due # 0
  BY <1>1, <1>2, BillAfter
<1>4. row = [owner |-> Bill!Column(t.seen.owner, new.owner, invoice[m].owner),
             days |-> Bill!Column(t.seen.days, new.days, invoice[m].days),
             due |-> Bill!Column(t.seen.due, new.due, invoice[m].due),
             status |-> Bill!Column(t.seen.status, new.status, invoice[m].status)]
  <2>1. DOMAIN Bill!NoInvoice = {"owner", "days", "due", "status"}
    BY DEF Bill!NoInvoice
  <2> HIDE DEF new, t, m
  <2> QED BY <2>1
<1>5. billing[h] = t
  OBVIOUS
<1> HIDE DEF t, m, new, row
<1>6. /\ row \in BillRows /\ row.owner = invoice[m].owner /\ row.days = invoice[m].days
      /\ row.status # "ABSENT"
      /\ invoice[m] = t.seen => row.due = new.due /\ row.status = new.status
  BY <1>2, <1>3, <1>4 DEF Bill!Column, BillRows
<1>7. /\ invoice' \in [Bill!Numbers -> BillRows] /\ invoice'[m] = row
      /\ \A n \in Bill!Numbers \ {m} : invoice'[n] = invoice[n]
  BY <1>1, <1>2, <1>6
<1>8. /\ paid' \in [Bill!Numbers -> Nat] /\ \A n \in Bill!Numbers \ {m} : paid'[n] = paid[n]
      /\ paid'[m] = IF t.op = "pay" THEN paid[m] + t.amount ELSE paid[m]
  BY <1>1, <1>2
<1>9. /\ billing' \in [Handlers -> BillRequests] /\ billing'[h] = Bill!Idle
      /\ \A g \in Handlers \ {h} : billing'[g] = billing[g]
  BY <1>1, <1>2, BillIdle
<1>10. /\ \A n \in Bill!Numbers : invoice'[n].owner = invoice[n].owner /\ invoice'[n].days = invoice[n].days
       /\ \A n \in Bill!Numbers : invoice[n].status # "ABSENT" => invoice'[n].status # "ABSENT"
  BY <1>6, <1>7
<1>11. BillTasks'
  <2>1. ASSUME NEW g \in Handlers PROVE BillKept(billing[g])'
    <3>1. CASE g = h
      BY <3>1, <1>9, BillIdle DEF BillKept
    <3>2. CASE g # h
      <4>1. billing'[g] = billing[g] /\ BillKept(billing[g])
        BY <3>2, <1>9 DEF BillInv, BillTasks
      <4> QED BY <4>1, <1>1, <1>10 DEF BillKept, Bill!Numbers
    <3> QED BY <3>1, <3>2
  <2>2. \A g, k \in Handlers : billing'[g].op = "run" /\ billing'[k].op = "run" => g = k
    BY <1>9, BillIdle DEF BillInv, BillTasks
  <2> QED BY <2>1, <2>2, <1>9 DEF BillTasks
<1>12. Bill!TypeOK'
  <2>1. Bill!Cardinality({g \in Handlers : billing'[g].op = "run"}) <= 1
    BY <1>11, BillOneRun DEF BillTasks
  <2>2. \A g \in Handlers :
           /\ billing'[g].op \in {"idle", "run", "pay", "patch", "refresh"}
           /\ billing'[g].free \subseteq billing'[g].rows /\ billing'[g].rows \subseteq BilledAccounts
           /\ billing'[g].op \in {"pay", "patch", "refresh"} => billing'[g].number \in Bill!Numbers
    BY <1>9, <1>11 DEF BillTasks, BillRequests, BillKept
  <2>3. /\ now' \in Start..MaxTime /\ changes' \in 0..MaxChanges
        /\ schedule' \in [BilledAccounts -> [next : Nat, cycle : Cycles]]
        /\ skipped' \subseteq BilledAccounts \X Nat /\ overwritten' \subseteq Bill!Numbers
    BY <1>1, <1>2 DEF BillInv, Bill!TypeOK
  <2> QED BY <2>1, <2>2, <2>3, <1>7, <1>8 DEF Bill!TypeOK, BillRows, Bill!Numbers
<1>13. BillPeriods'
  <2>1. ASSUME NEW n \in Bill!Numbers, invoice'[n].status = "ABSENT"
        PROVE  invoice'[n] = Bill!NoInvoice /\ paid'[n] = 0
    <3>1. n # m
      BY <2>1, <1>6, <1>7
    <3> QED BY <2>1, <3>1, <1>7, <1>8 DEF BillInv, BillPeriods
  <2> QED BY <2>1, <1>1, <1>10 DEF BillInv, BillPeriods, Bill!Numbers
<1>14. BillDays'
  <2>1. \A a \in BilledAccounts, d \in Nat : Covering(a, d)' = Covering(a, d)
    BY <1>10 DEF Covering, Bill!Numbers
  <2> QED BY <1>1, <2>1 DEF BillInv, BillDays, Bill!Numbers
<1>15. Bill!DueIsUnpaid'
  <2> SUFFICES ASSUME NEW n \in Bill!Numbers \ overwritten', invoice'[n] # Bill!NoInvoice
               PROVE  /\ invoice'[n].due + paid'[n] = InvoiceAmount
                      /\ invoice'[n].due = 0 => invoice'[n].status = "paid"
    BY DEF Bill!DueIsUnpaid, Bill!Numbers
  <2>1. n \notin overwritten
    BY <1>1
  <2>2. CASE n # m
    BY <2>1, <2>2, <1>7, <1>8 DEF BillInv, Bill!DueIsUnpaid
  <2>3. CASE n = m
    <3>1. invoice[m] = t.seen /\ row.due = new.due /\ row.status = new.status
      BY <2>3, <1>1, <1>6
    <3>2. /\ t.seen.due + paid[m] = InvoiceAmount
          /\ t.seen.due = 0 => t.seen.status = "paid"
      BY <2>1, <2>3, <3>1, <1>2, BillIdle DEF BillInv, Bill!DueIsUnpaid
    <3>3. t.seen.due \in Nat /\ paid[m] \in Nat
      BY <1>2 DEF BillRows
    <3>4. CASE t.op = "pay"
      BY <2>3, <3>1, <3>2, <3>3, <3>4, <1>2, <1>3, <1>7, <1>8
    <3>5. CASE t.op # "pay"
      <4>1. new.due # 0
        BY <3>2, <3>5, <1>3
      <4> QED BY <2>3, <3>1, <3>2, <3>5, <4>1, <1>3, <1>7, <1>8
    <3> QED BY <3>4, <3>5
  <2> QED BY <2>2, <2>3
<1> QED BY <1>11, <1>12, <1>13, <1>14, <1>15 DEF BillInv

LEMMA BillStep ==
  ASSUME BillInv, [Bill!Next]_(Bill!vars) PROVE BillInv'
<1>1. CASE UNCHANGED Bill!vars
  BY <1>1 DEF Bill!vars, BillInv, Bill!TypeOK, BillTasks, BillKept, BillPeriods, BillDays,
     Bill!DueIsUnpaid, Covering
<1>2. CASE Bill!Next
  <2>1. "paid" \in Bill!Targets /\ InvoiceAmount \in 1..InvoiceAmount
    BY BillConstants DEF Bill!Targets
  <2> QED BY <1>2, <2>1, BillOthers, BillRunBegin, BillBegin, BillDie, BillRunCommit, BillWrite
         DEF Bill!Next
<1> QED BY <1>1, <1>2

---------------------------------------------------------------------------
(* Dunning *)

\* A request that read the case was accepted on what it read.
Accepted ==
  \A h \in Handlers : task[h] # Idle =>
    task[h].op \in Operations /\ Accepts(task[h].op, task[h].seen)

\* While nothing overlapped, what a request read is what the row still says,
\* but for the date, which passes by itself.
Current ==
  ~overlapped => \A h \in Handlers : task[h] # Idle =>
    /\ task[h].seen.status = case.status
    /\ task[h].seen.suspended = case.suspended
    /\ task[h].seen.stage = case.stage

\* The dunning invariant.
DunningInv == TypeOK /\ Accepted /\ Current /\ StagesRunOnce

\* The row made of an accepted request is a case.
LEMMA AfterType ==
  ASSUME NEW op \in Operations, NEW c \in Cases, Accepts(op, c)
  PROVE  After(op, c) \in Cases
<1>1. Len(Stages) \in Nat
  BY StagesAssumption
<1>2. CASE op = "advance"
  <2>1. c.stage + 1 \in 0..Len(Stages)
    BY <1>1, <1>2 DEF Accepts, Due, Cases
  <2>2. Advanced(c) \in Cases
    BY <2>1 DEF Advanced, Cases
  <2> QED
    BY <1>2, <2>2 DEF After
<1>3. CASE op # "advance"
  BY <1>3 DEF After, Operations, Cases
<1> QED
  BY <1>2, <1>3

\* What a commit leaves in each column.
LEMMA Columns ==
  ASSUME TypeOK, Accepted, NEW h \in Handlers, Commit(h)
  PROVE  LET seen == task[h].seen
             new == After(task[h].op, seen)
         IN /\ seen \in Cases /\ new \in Cases
            /\ case' = [status |-> Column(seen.status, new.status, case.status),
                        suspended |-> Column(seen.suspended, new.suspended, case.suspended),
                        stage |-> Column(seen.stage, new.stage, case.stage),
                        next |-> Column(seen.next, new.next, case.next)]
<1> DEFINE seen == task[h].seen
           new == After(task[h].op, seen)
<1>1. task[h] # Idle /\ task[h].op \in Operations /\ Accepts(task[h].op, seen) /\ seen \in Cases
  BY DEF Commit, Accepted, TypeOK
<1>2. new \in Cases
  BY <1>1, AfterType
<1>3. case' = [f \in DOMAIN case |-> Column(seen[f], new[f], case[f])]
  BY DEF Commit
<1>4. DOMAIN case = {"status", "suspended", "stage", "next"}
  BY DEF TypeOK, Cases
<1> HIDE DEF new, seen
<1>5. case' = [status |-> Column(seen.status, new.status, case.status),
               suspended |-> Column(seen.suspended, new.suspended, case.suspended),
               stage |-> Column(seen.stage, new.stage, case.stage),
               next |-> Column(seen.next, new.next, case.next)]
  BY <1>3, <1>4
<1> QED
  BY <1>1, <1>2, <1>5 DEF new, seen

LEMMA CommitType ==
  ASSUME DunningInv, NEW h \in Handlers, Commit(h)
  PROVE  TypeOK'
<1>1. case' \in Cases
  <2>1. case \in Cases /\ task[h].seen \in Cases /\ After(task[h].op, task[h].seen) \in Cases
    BY Columns DEF DunningInv, TypeOK
  <2> QED
    BY <2>1, Columns DEF DunningInv, Cases, Column
<1>2. actions' \in [Orders -> Nat] /\ suspensions' \in [Orders -> Nat]
  BY DEF Commit, DunningInv, TypeOK
<1>3. task' \in [Handlers -> [op : Operations \cup {"idle"}, seen : Cases]]
  <2>1. Idle \in [op : Operations \cup {"idle"}, seen : Cases]
    BY StagesAssumption DEF Idle, NoCase, Cases
  <2> QED
    BY <2>1 DEF Commit, DunningInv, TypeOK
<1>4. overlapped' \in BOOLEAN
  BY Zenon DEF Commit, DunningInv, TypeOK
<1> QED
  BY <1>1, <1>2, <1>3, <1>4 DEF TypeOK

\* A commit that nothing overlapped writes the row that follows from the row.
LEMMA CommitRuns ==
  ASSUME DunningInv, NEW h \in Handlers, Commit(h)
  PROVE  StagesRunOnce'
<1> SUFFICES ASSUME ~overlapped'
             PROVE  /\ \A i \in Orders :
                         /\ actions'[i] = IF i <= case'.stage THEN 1 ELSE 0
                         /\ suspensions'[i] = IF Stages[i] = "REMIND" THEN 0 ELSE actions'[i]
                    /\ case'.status = "CLOSED" => case'.stage > 0 /\ Stages[case'.stage] = "SUSPEND"
  BY DEF StagesRunOnce
<1> DEFINE op == task[h].op
           seen == task[h].seen
           new == After(op, seen)
<1>1. ~overlapped
  BY DEF Commit
<1>2. /\ \A i \in Orders :
           /\ actions[i] = IF i <= case.stage THEN 1 ELSE 0
           /\ suspensions[i] = IF Stages[i] = "REMIND" THEN 0 ELSE actions[i]
      /\ case.status = "CLOSED" => case.stage > 0 /\ Stages[case.stage] = "SUSPEND"
  BY <1>1 DEF DunningInv, StagesRunOnce
<1>3. op \in Operations /\ Accepts(op, seen) /\ seen \in Cases /\ new \in Cases /\ case \in Cases
  BY Columns DEF Commit, DunningInv, Accepted, TypeOK
<1>4. seen.status = case.status /\ seen.stage = case.stage
  BY <1>1 DEF Commit, DunningInv, Current
<1>5. case'.status = new.status /\ case'.stage = new.stage
  BY <1>4, Columns DEF DunningInv, Column
<1>6. \A i \in Orders :
        /\ actions'[i] = IF i = new.stage /\ op = "advance" THEN actions[i] + 1 ELSE actions[i]
        /\ suspensions'[i] = IF i = new.stage /\ op = "advance" /\ Stages[i] # "REMIND"
                             THEN suspensions[i] + 1 ELSE suspensions[i]
  BY DEF Commit
<1> HIDE DEF new, seen, op
<1>n. Len(Stages) \in Nat /\ Orders = 1..Len(Stages) /\ seen.stage \in 0..Len(Stages)
  BY <1>3, StagesAssumption DEF Orders, Cases
<1>7. CASE op = "advance"
  <2>1. seen.stage < Len(Stages)
    BY <1>3, <1>7 DEF Accepts, Due
  <2>2. new.stage = seen.stage + 1 /\ new.status \in {seen.status, "CLOSED"}
        /\ (new.status = "CLOSED" => seen.status = "CLOSED" \/ Stages[new.stage] = "SUSPEND")
    BY <1>3, <1>7 DEF new, After, Advanced, Cases
  <2>3. seen.status = "OPEN"
    BY <1>3, <1>7 DEF Accepts, Due
  <2>4. case'.status = "CLOSED" => case'.stage > 0 /\ Stages[case'.stage] = "SUSPEND"
    BY <1>5, <1>n, <2>1, <2>2, <2>3
  <2>5. ASSUME NEW i \in Orders
        PROVE  /\ actions'[i] = IF i <= case'.stage THEN 1 ELSE 0
               /\ suspensions'[i] = IF Stages[i] = "REMIND" THEN 0 ELSE actions'[i]
    BY <1>2, <1>4, <1>5, <1>6, <1>7, <1>n, <2>1, <2>2
  <2> QED
    BY <2>4, <2>5
<1>8. CASE op # "advance"
  <2>1. new.stage = seen.stage
    BY <1>3, <1>8 DEF new, After, Operations, Cases
  <2>2. new.status # "CLOSED"
    BY <1>3, <1>8 DEF new, After, Operations, Cases
  <2> QED
    BY <1>2, <1>4, <1>5, <1>6, <1>8, <2>1, <2>2
<1> QED
  BY <1>7, <1>8

LEMMA CommitPreserves ==
  ASSUME DunningInv, NEW h \in Handlers, Commit(h)
  PROVE  DunningInv'
<1>1. TypeOK'
  BY CommitType
<1>2. StagesRunOnce'
  BY CommitRuns
<1>3. \A g \in Handlers : task'[g] = IF g = h THEN Idle ELSE task[g]
  BY DEF Commit, DunningInv, TypeOK
<1>4. Accepted'
  <2> SUFFICES ASSUME NEW g \in Handlers, task'[g] # Idle
               PROVE  task'[g].op \in Operations /\ Accepts(task'[g].op, task'[g].seen)
    BY DEF Accepted, Accepts, Due
  <2> QED
    BY <1>3 DEF DunningInv, Accepted
<1>5. Current'
  <2> SUFFICES ASSUME ~overlapped', NEW g \in Handlers, task'[g] # Idle
               PROVE  FALSE
    BY DEF Current
  <2> QED
    BY <1>3 DEF Commit
<1> QED
  BY <1>1, <1>2, <1>4, <1>5 DEF DunningInv

LEMMA BeginPreserves ==
  ASSUME DunningInv, NEW h \in Handlers, NEW op \in Operations, Begin(h, op)
  PROVE  DunningInv'
<1> DEFINE new == [op |-> op, seen |-> case]
<1>1. UNCHANGED <<case, actions, suspensions, overlapped>>
  BY DEF Begin
<1>2. \A g \in Handlers : task'[g] = IF g = h THEN new ELSE task[g]
  BY DEF Begin, DunningInv, TypeOK
<1>3. TypeOK'
  BY <1>1 DEF Begin, DunningInv, TypeOK
<1>4. Accepted'
  <2> SUFFICES ASSUME NEW g \in Handlers, task'[g] # Idle
               PROVE  task'[g].op \in Operations /\ Accepts(task'[g].op, task'[g].seen)
    BY DEF Accepted, Accepts, Due
  <2> QED
    BY <1>2 DEF DunningInv, Accepted, Begin
<1>5. Current'
  BY <1>1, <1>2 DEF DunningInv, Current
<1>6. StagesRunOnce'
  BY <1>1 DEF DunningInv, StagesRunOnce
<1> QED
  BY <1>3, <1>4, <1>5, <1>6 DEF DunningInv

\* Opening the case, and the passing of a date, leave its stage alone.
LEMMA OtherPreserves ==
  ASSUME DunningInv, Open \/ Tick
  PROVE  DunningInv'
<1>1. UNCHANGED <<actions, suspensions, task, overlapped>>
  BY DEF Open, Tick
<1>2. case' \in Cases
  BY DEF Open, Tick, DunningInv, TypeOK, Cases
<1>3. case'.stage = case.stage /\ case'.suspended = case.suspended
      /\ (case'.status # "CLOSED" \/ case'.status = case.status)
  BY DEF Open, Tick, DunningInv, TypeOK, Cases
<1>4. Current'
  <2>1. CASE Tick
    BY <2>1, <1>1 DEF Tick, DunningInv, TypeOK, Cases, Current
  <2>2. CASE Open
    <3>1. \A h \in Handlers : task[h] # Idle => task[h].seen.status # "ABSENT"
      <4> SUFFICES ASSUME NEW h \in Handlers, task[h] # Idle, task[h].seen.status = "ABSENT"
                   PROVE  FALSE
        OBVIOUS
      <4>1. task[h].op \in Operations /\ Accepts(task[h].op, task[h].seen)
        BY DEF DunningInv, Accepted
      <4>2. DUNNING_CASE_TRANSITIONS["ABSENT"] = {}
        BY DEF DUNNING_CASE_TRANSITIONS
      <4> QED
        BY <4>1, <4>2 DEF Accepts, Due, Operations
    <3> QED
      BY <2>2, <3>1, <1>1 DEF Open, DunningInv, Current
  <2> QED
    BY <2>1, <2>2
<1>5. Accepted'
  BY <1>1 DEF DunningInv, Accepted, Accepts, Due
<1>6. TypeOK'
  BY <1>1, <1>2 DEF DunningInv, TypeOK
<1>7. StagesRunOnce'
  BY <1>1, <1>3 DEF DunningInv, StagesRunOnce
<1> QED
  BY <1>4, <1>5, <1>6, <1>7 DEF DunningInv

LEMMA DunningBegins == Init => DunningInv
<1> SUFFICES ASSUME Init PROVE DunningInv
  OBVIOUS
<1>1. Len(Stages) \in Nat
  BY StagesAssumption
<1>2. TypeOK
  <2>1. NoCase \in Cases
    BY <1>1 DEF NoCase, Cases
  <2>2. Idle \in [op : Operations \cup {"idle"}, seen : Cases]
    BY <2>1 DEF Idle
  <2>3. actions \in [Orders -> Nat] /\ suspensions \in [Orders -> Nat]
    BY DEF Init
  <2> QED
    BY <2>1, <2>2, <2>3 DEF Init, TypeOK
<1>3. Accepted /\ Current
  <2>1. \A h \in Handlers : task[h] = Idle
    BY DEF Init
  <2> QED
    BY <2>1 DEF Accepted, Current
<1>4. StagesRunOnce
  BY <1>1 DEF Init, StagesRunOnce, NoCase, Orders
<1> QED
  BY <1>2, <1>3, <1>4 DEF DunningInv

LEMMA DunningStep == DunningInv /\ [Next]_vars => DunningInv'
<1> SUFFICES ASSUME DunningInv, [Next]_vars PROVE DunningInv'
  OBVIOUS
<1>1. CASE Open \/ Tick
  BY <1>1, OtherPreserves
<1>2. ASSUME NEW h \in Handlers, Commit(h) PROVE DunningInv'
  BY <1>2, CommitPreserves
<1>3. ASSUME NEW h \in Handlers, NEW op \in Operations, Begin(h, op) PROVE DunningInv'
  BY <1>3, BeginPreserves
<1>4. CASE UNCHANGED vars
  BY <1>4 DEF vars, DunningInv, TypeOK, Accepted, Accepts, Due, Current, StagesRunOnce
<1> QED
  BY <1>1, <1>2, <1>3, <1>4 DEF Next

---------------------------------------------------------------------------
(* The theorems *)

\* Unless requests overlap, every stage up to the current one has run exactly
\* once, whatever the policy's stages and however the case is paused, resumed
\* and resolved.
THEOREM StagesOnce == Spec => []StagesRunOnce
<1>1. DunningInv => StagesRunOnce
  BY DEF DunningInv
<1> QED BY <1>1, DunningBegins, DunningStep, PTL DEF Spec

\* The five components keep their invariants side by side.
MoneyInv == SettleInv /\ HookInv /\ BillInv /\ BookInv /\ DunningInv

LEMMA MoneyStep == MoneyInv /\ [MoneyNext]_moneyVars => MoneyInv'
<1> SUFFICES ASSUME MoneyInv, [MoneyNext]_moneyVars PROVE MoneyInv'
  OBVIOUS
<1>1. [Settle!Next]_(Settle!vars)
  BY DEF MoneyNext, moneyVars, settlementVars, Settle!vars
<1>2. [Hook!Next]_(Hook!vars)
  BY DEF MoneyNext, moneyVars, webhookVars, Hook!vars
<1>3. [Bill!Next]_(Bill!vars)
  BY DEF MoneyNext, moneyVars, billingVars, Bill!vars
<1>4. [Book!Next]_(Book!vars)
  BY DEF MoneyNext, moneyVars, ledgerVars, Book!vars
<1>5. [Next]_vars
  BY DEF MoneyNext, moneyVars
<1> QED BY <1>1, <1>2, <1>3, <1>4, <1>5, SettleStep, HookStep, BillStep, BookStep, DunningStep
        DEF MoneyInv

LEMMA MoneyAlways == MoneySpec => []MoneyInv
<1>1. MoneyInit => MoneyInv
  BY SettleBegins, HookBegins, BillBegins, BookBegins, DunningBegins DEF MoneyInit, MoneyInv
<1> QED BY <1>1, MoneyStep, PTL DEF MoneySpec

\* The types of settlements, webhooks, invoices, the ledger and dunning cases.
THEOREM MoneyTypes == MoneySpec => []MoneyTypeOK
<1>1. MoneyInv => MoneyTypeOK
  BY DEF MoneyInv, SettleInv, HookInv, BillInv, BookInv, DunningInv, MoneyTypeOK
<1> QED BY <1>1, MoneyAlways, PTL

\* However many users calculate, review, dispute and pay at once: unless two
\* worked on a settlement at the same time, what is locked or paid of it is the
\* net that was approved, and it is paid once.
THEOREM SettlementsPayTheApproved == MoneySpec => []PaidAsApproved
<1>1. MoneyInv => PaidAsApproved
  BY DEF MoneyInv, SettleInv
<1> QED BY <1>1, MoneyAlways, PTL

\* A settlement is the sum of its lines for any earnings and amounts, and a
\* settled earning stands on exactly one settlement.
THEOREM SettlementLinesAddUp == MoneySpec => []LinesAddUp
<1>1. MoneyInv => LinesAddUp
  BY SettleLines DEF MoneyInv
<1> QED BY <1>1, MoneyAlways, PTL

\* For any number of deliveries, in any order: a payment is booked by one event,
\* no refund the service asked for is forgotten while its transaction lives, and
\* an event causes at most one further refund.
THEOREM WebhookEffectsHappenOnce == MoneySpec => []EffectsOnce
<1>1. MoneyInv => EffectsOnce
  BY HookEffects DEF MoneyInv
<1> QED BY <1>1, MoneyAlways, PTL

\* For any accounts, cycles and changes of plan: every day up to the next
\* invoice is billed once, and an invoice is due by what its payments leave.
THEOREM DaysAreBilledOnce == MoneySpec => []InvoicesAddUp
<1>1. MoneyInv => InvoicesAddUp
  BY BillInvoices DEF MoneyInv
<1> QED BY <1>1, MoneyAlways, PTL

\* For any entries, accounts and rebuilds: the projection of an account that
\* lost no update is the sum of its committed lines.
THEOREM ProjectionsAreSums == MoneySpec => []ProjectionIsSum
<1>1. MoneyInv => ProjectionIsSum
  BY DEF MoneyInv, BookInv
<1> QED BY <1>1, MoneyAlways, PTL
=============================================================================
