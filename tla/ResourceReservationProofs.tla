---------------------- MODULE ResourceReservationProofs ----------------------
(* Theorems about ResourceReservation for any keys, tokens and sessions. *)
EXTENDS ResourceReservation, TLAPS

\* What OccupiedAgrees says of a row that holds a token.
LEMMA HeldToken ==
  ASSUME TypeOK, OccupiedAgrees, NEW k \in Keys, inventory[k].token \in Tokens
  PROVE  /\ inventory[k].token # None
         /\ inventory[k].status \in {"RESERVED", "ALLOCATED"}
         /\ ledger[inventory[k].token].state = inventory[k].status
         /\ ledger[inventory[k].token].key = k
<1>1. inventory[k].token # None
  BY ConstantsAssumption
<1>2. ledger[inventory[k].token] = [state |-> inventory[k].status, key |-> k]
  BY <1>1 DEF OccupiedAgrees
<1> QED BY <1>1, <1>2 DEF OccupiedAgrees

\* Rewriting the states of some tokens and the rows they occupy keeps rows and
\* ledger in agreement, as long as the new row fits the new state.
LEMMA LedgerUpdate ==
  ASSUME IInv, NEW p \in Sessions, NEW toks \in SUBSET Tokens, NEW all \in SUBSET Tokens,
         toks \subseteq all,
         \A t \in all : ledger[t].state # "NONE",
         \A t \in all \ toks : ledger[t].state # "RESERVED"
                               /\ \A k \in Keys : inventory[k].token # t,
         NEW state \in {"ALLOCATED", "RELEASED"},
         ledger' = [t \in Tokens |-> IF t \in toks THEN [ledger[t] EXCEPT !.state = state]
                                     ELSE ledger[t]],
         inventory' = [k \in Keys |->
           IF inventory[k].token \in all
           THEN IF state = "ALLOCATED" THEN [inventory[k] EXCEPT !.status = "ALLOCATED"]
                ELSE [status |-> "AVAILABLE", token |-> None]
           ELSE inventory[k]],
         session' = [session EXCEPT ![p] = Idle],
         UNCHANGED <<elapsed, crashes>>
  PROVE  IInv'
<1> USE ConstantsAssumption DEF IInv
<1>1. TypeOK'
  BY DEF TypeOK, Idle, RowStates, ReservationStates, Ops
<1>2. \A k \in Keys : inventory[k].token \in all => inventory[k].token \in toks
  BY DEF TypeOK
<1>3. OccupiedAgrees'
  <2> SUFFICES ASSUME NEW k \in Keys
      PROVE /\ inventory'[k].token # None
                 <=> inventory'[k].status \in {"RESERVED", "ALLOCATED"}
            /\ inventory'[k].token # None =>
                 ledger'[inventory'[k].token] = [state |-> inventory'[k].status, key |-> k]
    BY DEF OccupiedAgrees
  <2>1. CASE inventory[k].token \in all /\ state = "ALLOCATED"
    <3> DEFINE tok == inventory[k].token
    <3>1. tok \in Tokens /\ tok \in toks /\ tok # None /\ ledger[tok].key = k
      BY <1>2, <2>1, HeldToken
    <3>2. ledger[tok] \in [state : ReservationStates, key : Keys \cup {0}]
      BY <3>1 DEF TypeOK
    <3>3. ledger'[tok] = [state |-> "ALLOCATED", key |-> k]
      BY <2>1, <3>1, <3>2
    <3>4. inventory[k] \in [status : RowStates, token : Tokens \cup {None}]
      BY DEF TypeOK
    <3>5. inventory'[k] = [inventory[k] EXCEPT !.status = "ALLOCATED"]
      BY <2>1
    <3>6. inventory'[k].token = tok /\ inventory'[k].status = "ALLOCATED"
      BY <3>4, <3>5
    <3> QED BY <3>1, <3>3, <3>6
  <2>2. CASE inventory[k].token \in all /\ state = "RELEASED"
    BY <1>2, <2>2 DEF OccupiedAgrees, TypeOK
  <2>3. CASE inventory[k].token \notin all
    BY <2>3 DEF OccupiedAgrees, TypeOK
  <2> QED BY <2>1, <2>2, <2>3
<1>4. ReservedIsHeld'
  <2> SUFFICES ASSUME NEW t \in Tokens, ledger'[t].state = "RESERVED"
               PROVE  ledger'[t].key \in Keys /\ inventory'[ledger'[t].key].token = t
    BY DEF ReservedIsHeld
  <2>1. t \notin toks /\ ledger'[t] = ledger[t]
    BY DEF TypeOK
  <2>2. t \notin all
    BY <2>1
  <2> QED BY <2>1, <2>2 DEF ReservedIsHeld, TypeOK
<1>5. ASSUME NEW q \in Sessions PROVE SessionOK(q)'
  <2>1. session'[q] = IF q = p THEN Idle ELSE session[q]
    BY DEF TypeOK
  <2>2. \A t \in Tokens : ledger[t].state # "NONE" => ledger'[t].state # "NONE"
    BY DEF TypeOK
  <2>3. \A k \in Keys : inventory'[k].token # None => inventory'[k].token = inventory[k].token
    BY DEF TypeOK
  <2>4. session[q].toks \subseteq Tokens /\ SessionOK(q)
    BY DEF TypeOK
  <2> QED BY <2>1, <2>2, <2>3, <2>4 DEF SessionOK, Idle
<1> QED BY <1>1, <1>3, <1>4, <1>5

\* A step that opens or closes a session, or moves the clock, leaves rows and
\* ledger alone.
LEMMA SessionUpdate ==
  ASSUME IInv, TypeOK', UNCHANGED <<inventory, ledger>>,
         \A q \in Sessions : session'[q] = session[q] \/ SessionOK(q)'
  PROVE  IInv'
BY DEF IInv, OccupiedAgrees, ReservedIsHeld, SessionOK

\* The claims of a reserve go to rows that are still available and draw tokens
\* nobody holds.
LEMMA ReservePreserves ==
  ASSUME IInv, NEW p \in Sessions, ReserveCommit(p)
  PROVE  IInv'
<1> USE ConstantsAssumption DEF IInv
<1>0. PICK claimed \in SUBSET StillAvailable(p) : \E token \in [claimed -> Fresh] :
        LET enough == Cardinality(claimed) = session[p].count
            KeyOf(t) == CHOOSE k \in claimed : token[k] = t
            drawn == {token[k] : k \in claimed}
        IN
        /\ \A k, j \in claimed : k # j => token[k] # token[j]
        /\ inventory' = [k \in Keys |->
             IF k \in claimed /\ enough
             THEN [status |-> "RESERVED", token |-> token[k]] ELSE inventory[k]]
        /\ ledger' = [t \in Tokens |->
             IF t \in drawn
             THEN [state |-> IF enough THEN "RESERVED" ELSE "RELEASED", key |-> KeyOf(t)]
             ELSE ledger[t]]
  BY DEF ReserveCommit
<1>1. PICK token \in [claimed -> Fresh] :
        LET enough == Cardinality(claimed) = session[p].count
            KeyOf(t) == CHOOSE k \in claimed : token[k] = t
            drawn == {token[k] : k \in claimed}
        IN
        /\ \A k, j \in claimed : k # j => token[k] # token[j]
        /\ inventory' = [k \in Keys |->
             IF k \in claimed /\ enough
             THEN [status |-> "RESERVED", token |-> token[k]] ELSE inventory[k]]
        /\ ledger' = [t \in Tokens |->
             IF t \in drawn
             THEN [state |-> IF enough THEN "RESERVED" ELSE "RELEASED", key |-> KeyOf(t)]
             ELSE ledger[t]]
  BY <1>0
<1> DEFINE enough == Cardinality(claimed) = session[p].count
           drawn == {token[k] : k \in claimed}
           KeyOf(t) == CHOOSE k \in claimed : token[k] = t
<1>2. /\ claimed \subseteq Keys /\ claimed \subseteq Available
      /\ \A k \in claimed : token[k] \in Tokens /\ ledger[token[k]].state = "NONE"
      /\ \A k, j \in claimed : token[k] = token[j] => k = j
      /\ \A t \in drawn : t \in Tokens /\ KeyOf(t) \in claimed /\ token[KeyOf(t)] = t
      /\ session' = [session EXCEPT ![p] = Idle] /\ UNCHANGED <<elapsed, crashes>>
  BY <1>1 DEF StillAvailable, Available, Fresh, ReserveCommit
<1>3. /\ \A k \in Keys : inventory'[k] = IF k \in claimed /\ enough
            THEN [status |-> "RESERVED", token |-> token[k]] ELSE inventory[k]
      /\ \A t \in Tokens : ledger'[t] = IF t \in drawn
            THEN [state |-> IF enough THEN "RESERVED" ELSE "RELEASED", key |-> KeyOf(t)]
            ELSE ledger[t]
  BY <1>1
<1>4. \A k \in claimed : KeyOf(token[k]) = k
  BY <1>2
<1>5. TypeOK'
  <2>1. inventory' \in [Keys -> [status : RowStates, token : Tokens \cup {None}]]
    BY <1>1, <1>2 DEF TypeOK, RowStates
  <2>2. ledger' \in [Tokens -> [state : ReservationStates, key : Keys \cup {0}]]
    BY <1>1, <1>2 DEF TypeOK, ReservationStates
  <2> QED BY <1>2, <2>1, <2>2 DEF TypeOK, Idle, Ops, ReservationStates
<1>10. \A k \in Keys : inventory[k].token \notin drawn
  <2> SUFFICES ASSUME NEW k \in Keys, inventory[k].token \in drawn PROVE FALSE
    OBVIOUS
  <2>1. PICK j \in claimed : inventory[k].token = token[j]
    OBVIOUS
  <2> QED BY <1>2, <2>1, HeldToken
<1>11. \A k \in claimed : token[k] \in drawn
  OBVIOUS
<1>12. \A t \in drawn : ledger[t].state = "NONE" /\ t \in Tokens /\ t # None
  BY <1>2, ConstantsAssumption
<1> HIDE DEF enough, drawn, KeyOf
<1>6. OccupiedAgrees'
  <2> SUFFICES ASSUME NEW k \in Keys
      PROVE /\ inventory'[k].token # None
                 <=> inventory'[k].status \in {"RESERVED", "ALLOCATED"}
            /\ inventory'[k].token # None =>
                 ledger'[inventory'[k].token] = [state |-> inventory'[k].status, key |-> k]
    BY DEF OccupiedAgrees
  <2>1. CASE k \in claimed /\ enough
    <3>1. token[k] \in drawn /\ token[k] # None /\ token[k] \in Tokens
      BY <1>11, <1>12, <2>1
    <3>2. inventory'[k] = [status |-> "RESERVED", token |-> token[k]]
      BY <1>3, <2>1
    <3>3. ledger'[token[k]] = [state |-> "RESERVED", key |-> k]
      BY <1>3, <1>4, <2>1, <3>1
    <3> QED BY <3>1, <3>2, <3>3
  <2>2. CASE ~(k \in claimed /\ enough)
    <3>1. inventory'[k] = inventory[k] /\ inventory[k].token \notin drawn
      BY <1>3, <1>10, <2>2
    <3>2. inventory[k].token # None => inventory[k].token \in Tokens
      BY DEF TypeOK
    <3>3. inventory[k].token # None => ledger'[inventory[k].token] = ledger[inventory[k].token]
      BY <1>3, <3>1, <3>2
    <3> QED BY <3>1, <3>3 DEF OccupiedAgrees
  <2> QED BY <2>1, <2>2
<1>7. ReservedIsHeld'
  <2> SUFFICES ASSUME NEW t \in Tokens, ledger'[t].state = "RESERVED"
               PROVE  ledger'[t].key \in Keys /\ inventory'[ledger'[t].key].token = t
    BY DEF ReservedIsHeld
  <2>1. CASE t \in drawn
    <3>1. ledger'[t] = [state |-> IF enough THEN "RESERVED" ELSE "RELEASED", key |-> KeyOf(t)]
      BY <1>3, <2>1
    <3>2. KeyOf(t) \in claimed /\ token[KeyOf(t)] = t /\ ledger'[t].key = KeyOf(t)
      BY <1>2, <2>1, <3>1
    <3>3. enough
      BY <3>1
    <3>4. KeyOf(t) \in Keys
      BY <1>2, <3>2
    <3>5. inventory'[KeyOf(t)] = [status |-> "RESERVED", token |-> t]
      BY <1>3, <3>2, <3>3, <3>4
    <3> QED BY <3>2, <3>4, <3>5
  <2>2. CASE t \notin drawn
    <3>1. ledger[t].key \in Keys /\ inventory[ledger[t].key].token = t /\ ledger'[t] = ledger[t]
      BY <1>3, <2>2 DEF ReservedIsHeld
    <3>2. ledger[t].key \notin claimed
      BY <1>2, <3>1 DEF Available, OccupiedAgrees
    <3> QED BY <1>3, <3>1, <3>2
  <2> QED BY <2>1, <2>2
<1>8. ASSUME NEW q \in Sessions PROVE SessionOK(q)'
  <2>1. session'[q] = IF q = p THEN Idle ELSE session[q]
    BY <1>2 DEF TypeOK
  <2>2. session[q].toks \subseteq Tokens /\ SessionOK(q)
    BY DEF TypeOK
  <2>3. \A t \in session[q].toks : ledger'[t].state # "NONE" /\ t \notin drawn
    <3>1. \A t \in session[q].toks : t \in Tokens /\ ledger[t].state # "NONE"
      BY <2>2 DEF SessionOK
    <3> QED BY <1>3, <1>12, <3>1
  <2>4. \A k \in Keys : inventory'[k].token = inventory[k].token \/ inventory'[k].token \in drawn
    <3> SUFFICES ASSUME NEW k \in Keys
        PROVE  inventory'[k].token = inventory[k].token \/ inventory'[k].token \in drawn
      OBVIOUS
    <3>1. CASE k \in claimed /\ enough
      <4>2. inventory'[k] = [status |-> "RESERVED", token |-> token[k]]
        BY <1>3, <3>1
      <4>1. inventory'[k].token = token[k]
        BY <4>2
      <4> QED BY <1>11, <3>1, <4>1
    <3>2. CASE ~(k \in claimed /\ enough)
      BY <1>3, <3>2
    <3> QED BY <3>1, <3>2
  <2> QED BY <2>1, <2>2, <2>3, <2>4 DEF SessionOK, Idle
<1> QED BY <1>5, <1>6, <1>7, <1>8

LEMMA NextPreserves ==
  ASSUME IInv, [Next]_vars
  PROVE  IInv'
<1> USE ConstantsAssumption
<1>0. CASE UNCHANGED vars
  BY <1>0 DEF vars, IInv, TypeOK, OccupiedAgrees, ReservedIsHeld, SessionOK
<1>1. ASSUME NEW k \in Keys, register(k) PROVE IInv'
  <2>1. /\ inventory' = [inventory EXCEPT ![k].status = "AVAILABLE"]
        /\ UNCHANGED <<ledger, elapsed, session, crashes>> /\ inventory[k].status = "ABSENT"
    BY <1>1 DEF register
  <2>2. TypeOK'
    BY <2>1 DEF IInv, TypeOK, RowStates
  <2>3. \A j \in Keys : /\ inventory'[j].token = inventory[j].token
                        /\ inventory'[j].status = IF j = k THEN "AVAILABLE" ELSE inventory[j].status
    BY <2>1 DEF IInv, TypeOK
  <2>4. inventory[k].token = None
    BY <2>1 DEF IInv, OccupiedAgrees
  <2>5. OccupiedAgrees'
    BY <2>1, <2>3, <2>4 DEF IInv, OccupiedAgrees
  <2>6. ReservedIsHeld' /\ \A q \in Sessions : SessionOK(q)'
    BY <2>1, <2>3 DEF IInv, ReservedIsHeld, SessionOK
  <2> QED BY <2>2, <2>5, <2>6 DEF IInv
<1>2. ASSUME NEW t \in Tokens, Elapse(t) PROVE IInv'
  BY <1>2, SessionUpdate DEF Elapse, IInv, TypeOK
<1>3. ASSUME NEW p \in Sessions, NEW count \in 1..MaxCount, reserve(p, count) PROVE IInv'
  <2>1. PICK candidates \in SUBSET Available : session' = [session EXCEPT ![p] =
            [op |-> "reserve", candidates |-> candidates, count |-> count,
             toks |-> {}, read |-> "NONE"]]
    BY <1>3 DEF reserve
  <2>2. candidates \subseteq Keys /\ UNCHANGED <<inventory, ledger, elapsed, crashes>>
    BY <1>3 DEF Available, reserve
  <2>3. TypeOK'
    <3>1. [op |-> "reserve", candidates |-> candidates, count |-> count,
             toks |-> {}, read |-> "NONE"]
            \in [op : Ops, candidates : SUBSET Keys, count : Nat, toks : SUBSET Tokens,
                read : ReservationStates]
      <4>1. count \in Nat
        OBVIOUS
      <4> QED BY <2>2, <4>1 DEF Ops, ReservationStates
    <3> QED BY <2>1, <2>2, <3>1 DEF IInv, TypeOK
  <2>4. \A q \in Sessions : session'[q] = session[q] \/ SessionOK(q)'
    BY <2>1, <2>2 DEF IInv, TypeOK, SessionOK, Idle
  <2> QED BY <2>2, <2>3, <2>4, SessionUpdate
<1>4. ASSUME NEW p \in Sessions, ReserveCommit(p) PROVE IInv'
  BY <1>4, ReservePreserves
<1>5. ASSUME NEW p \in Sessions, NEW op \in {"allocate", "release", "expire"},
             NEW toks \in SUBSET Tokens, NEW read \in ReservationStates,
             Get(p, op, toks, read), \A t \in toks : ledger[t].state = read, read # "NONE"
      PROVE  IInv'
  <2>1. /\ session' = [session EXCEPT ![p] =
             [Idle EXCEPT !.op = op, !.toks = toks, !.read = read]]
        /\ UNCHANGED <<inventory, ledger, elapsed, crashes>>
    BY <1>5 DEF Get
  <2>2. TypeOK'
    BY <2>1 DEF IInv, TypeOK, Idle, Ops, ReservationStates
  <2>3. read = "RELEASED" => \A k \in Keys : inventory[k].token \notin toks
    BY <1>5, HeldToken DEF IInv
  <2>4. \A q \in Sessions : session'[q] = session[q] \/ SessionOK(q)'
    BY <1>5, <2>1, <2>3 DEF IInv, TypeOK, SessionOK, Idle
  <2> QED BY <2>1, <2>2, <2>4, SessionUpdate
<1>6. ASSUME NEW p \in Sessions, AllocateCommit(p) PROVE IInv'
  <2>1. session[p].toks \subseteq Tokens /\ SessionOK(p)
    BY DEF IInv, TypeOK
  <2>2. \A t \in session[p].toks : ledger[t].state # "NONE"
    BY <2>1 DEF SessionOK
  <2> QED BY <1>6, <2>1, <2>2, LedgerUpdate
          DEF AllocateCommit, SetStates, UpdateRows, AllocatedRow
<1>7. ASSUME NEW p \in Sessions, ReleaseCommit(p) PROVE IInv'
  <2>1. session[p].toks \subseteq Tokens /\ SessionOK(p)
    BY DEF IInv, TypeOK
  <2>2. /\ \A t \in session[p].toks : ledger[t].state # "NONE"
        /\ session[p].read = "RELEASED" => \A k \in Keys : inventory[k].token \notin session[p].toks
    BY <1>7, <2>1 DEF SessionOK, ReleaseCommit
  <2> DEFINE toks == IF session[p].read = "RELEASED" THEN {} ELSE session[p].toks
  <2>3. \A t \in session[p].toks \ toks :
          ledger[t].state # "RESERVED" /\ \A k \in Keys : inventory[k].token # t
    BY <2>1, <2>2 DEF IInv, ReservedIsHeld
  <2>4. toks \subseteq session[p].toks /\ toks \in SUBSET Tokens
    BY <2>1
  <2>5. /\ ledger' = [t \in Tokens |-> IF t \in toks
                       THEN [ledger[t] EXCEPT !.state = "RELEASED"] ELSE ledger[t]]
        /\ inventory' = [k \in Keys |-> IF inventory[k].token \in session[p].toks
                       THEN [status |-> "AVAILABLE", token |-> None] ELSE inventory[k]]
        /\ session' = [session EXCEPT ![p] = Idle] /\ UNCHANGED <<elapsed, crashes>>
    BY <1>7 DEF ReleaseCommit, SetStates, UpdateRows, FreeRow
  <2> HIDE DEF toks
  <2> QED BY <2>1, <2>2, <2>3, <2>4, <2>5, LedgerUpdate
<1>8. ASSUME NEW p \in Sessions, Abort(p) PROVE IInv'
  <2>1. UNCHANGED <<inventory, ledger, elapsed>> /\ session' = [session EXCEPT ![p] = Idle]
        /\ crashes' = crashes + 1
    BY <1>8 DEF Abort
  <2>2. TypeOK'
    BY <2>1 DEF IInv, TypeOK, Idle, Ops, ReservationStates
  <2>3. \A q \in Sessions : session'[q] = session[q] \/ SessionOK(q)'
    BY <2>1 DEF IInv, TypeOK, SessionOK, Idle
  <2> QED BY <2>1, <2>2, <2>3, SessionUpdate
<1>9. ASSUME NEW p \in Sessions, NEW t \in Tokens, allocate(p, t) \/ release(p, t) PROVE IInv'
  <2>1. {t} \in SUBSET Tokens /\ ledger[t].state \in ReservationStates
    BY DEF IInv, TypeOK
  <2>2. \A u \in {t} : ledger[u].state = ledger[t].state
    OBVIOUS
  <2> QED BY <1>5, <1>9, <2>1, <2>2 DEF allocate, release, ReservationStates
<1>10. ASSUME NEW p \in Sessions, expire_due(p) PROVE IInv'
  <2>1. Due \in SUBSET Tokens /\ \A t \in Due : ledger[t].state = "RESERVED"
    BY DEF IInv, TypeOK, Due
  <2> QED BY <1>5, <1>10, <2>1 DEF expire_due, ReservationStates
<1> QED BY <1>0, <1>1, <1>2, <1>3, <1>4, <1>6, <1>7, <1>8, <1>9, <1>10 DEF Next

\* Rows and ledger agree, and a RESERVED reservation holds its row, however the
\* sessions interleave and whenever they die.
THEOREM InductiveInvariant == Spec => []IInv
<1>1. Init => IInv
  BY ConstantsAssumption DEF Init, IInv, TypeOK, OccupiedAgrees, ReservedIsHeld, SessionOK,
     Idle, RowStates, ReservationStates, Ops
<1>2. IInv /\ [Next]_vars => IInv'
  BY NextPreserves
<1> QED BY <1>1, <1>2, PTL DEF Spec

\* Reservations never share a key: reserve's compare-and-set is sound.
THEOREM ReservationsHoldTheirRows == Spec => []ReservedIsHeld
<1>1. IInv => ReservedIsHeld
  BY DEF IInv
<1> QED BY <1>1, InductiveInvariant, PTL
=============================================================================
