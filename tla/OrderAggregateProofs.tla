------------------------ MODULE OrderAggregateProofs ------------------------
(* Theorems about OrderAggregate for any number of sessions and any bounds. *)
EXTENDS OrderAggregate, SequenceTheorems, TLAPS

\* The transition table maps order states to sets of order states.
LEMMA TransitionsType ==
  /\ \A s \in OrderStates : ORDER_TRANSITIONS[s] \subseteq OrderStates
  /\ {"DRAFT", "SUBMITTED", "VALIDATING", "VALIDATION_FAILED", "PAYMENT_PENDING",
      "READY_FOR_FULFILMENT", "RESOURCE_RESERVATION", "FIELD_INSTALLATION_PENDING",
      "PROVISIONING", "VERIFYING", "COMPLETED", "FAILED", "COMPENSATING",
      "ROLLED_BACK", "CANCELLATION_REQUESTED", "CANCELLED",
      "MANUAL_INTERVENTION_REQUIRED"} = OrderStates
BY DEF OrderStates, ORDER_TRANSITIONS

\* Opening a session changes nothing but that session, which then holds the row.
LEMMA OpenPreserves ==
  ASSUME IInv, NEW p \in Sessions, NEW kind \in Kinds, NEW strict \in BOOLEAN,
         NEW targets \in Seq(OrderStates),
         Open(p, kind, strict, targets),
         kind = "saga" => ReadyInHistory,
         kind # "saga" => \A i \in 1..Len(targets) : targets[i] # "COMPLETED",
         kind = "fulfil" => row.state = "READY_FOR_FULFILMENT" /\ targets = <<>>
  PROVE  IInv'
<1> USE DEF IInv
<1>1. /\ UNCHANGED <<row, events, sagas>>
      /\ session' = [session EXCEPT ![p] =
           [open |-> TRUE, kind |-> kind, strict |-> strict, version |-> row.version,
            staged |-> <<row.state>>, todo |-> targets]]
  BY DEF Open
<1>2. row.version \in 1..Len(events) /\ row.state = events[row.version]
  BY DEF TypeOK, RowIsProjection, Last
<1>3. TypeOK'
  <2>1. <<row.state>> \in Seq(OrderStates)
    BY DEF TypeOK
  <2> QED BY <1>1, <2>1 DEF TypeOK
<1>4. SessionOK(p)'
  <2>1. session'[p] = [open |-> TRUE, kind |-> kind, strict |-> strict,
                       version |-> row.version, staged |-> <<row.state>>, todo |-> targets]
    BY <1>1 DEF TypeOK
  <2>2. Len(<<row.state>>) = 1 /\ <<row.state>>[1] = row.state
    OBVIOUS
  <2>3. ReadyInHistory' <=> ReadyInHistory
    BY <1>1 DEF ReadyInHistory
  <2> QED BY <1>1, <1>2, <2>1, <2>2, <2>3 DEF SessionOK, Legal
<1>5. ASSUME NEW q \in Sessions, q # p PROVE SessionOK(q)'
  <2>1. session'[q] = session[q]
    BY <1>1, <1>5 DEF TypeOK
  <2> QED BY <1>1, <1>5, <2>1 DEF SessionOK, ReadyInHistory
<1> QED BY <1>1, <1>3, <1>4, <1>5
        DEF LegalHistory, RowIsProjection, CompletedWasReady, ReadyInHistory, Last

\* Closing a session without writing changes nothing else.
LEMMA ClosePreserves ==
  ASSUME IInv, NEW p \in Sessions,
         session' = [session EXCEPT ![p] = Closed],
         UNCHANGED <<row, events>>,
         sagas' \in Nat, sagas' > 0 => ReadyInHistory
  PROVE  IInv'
<1> USE DEF IInv
<1>1. TypeOK'
  BY DEF TypeOK, Closed, Kinds
<1>2. ASSUME NEW q \in Sessions PROVE SessionOK(q)'
  <2>1. CASE q = p
    BY <2>1 DEF SessionOK, TypeOK, Closed
  <2>2. CASE q # p
    <3>1. session'[q] = session[q]
      BY <2>2 DEF TypeOK
    <3> QED BY <3>1 DEF SessionOK, ReadyInHistory
  <2> QED BY <2>1, <2>2
<1> QED BY <1>1, <1>2
        DEF LegalHistory, RowIsProjection, CompletedWasReady, ReadyInHistory, Last

\* A staged transition extends the legal path the session holds.
LEMMA StagePreserves ==
  ASSUME IInv, NEW p \in Sessions, Stage(p)
  PROVE  IInv'
<1> USE DEF IInv
<1> DEFINE s == session[p]
           target == Head(s.todo)
<1>1. /\ s.open /\ s.todo # <<>> /\ UNCHANGED <<row, events, sagas>>
      /\ s.staged \in Seq(OrderStates) /\ s.todo \in Seq(OrderStates)
      /\ target \in OrderStates /\ Tail(s.todo) \in Seq(OrderStates)
      /\ \A i \in 1..Len(Tail(s.todo)) :
           i + 1 \in 1..Len(s.todo) /\ Tail(s.todo)[i] = s.todo[i + 1]
      /\ target = s.todo[1] /\ 1 \in 1..Len(s.todo)
  BY DEF Stage, TypeOK
<1>2. ASSUME NEW q \in Sessions, q # p, session'[q] = session[q] PROVE SessionOK(q)'
  BY <1>1, <1>2 DEF SessionOK, ReadyInHistory
<1>3. CASE Legal(Held(p), target)
  <2>1. session' = [session EXCEPT ![p].staged = Append(@, target), ![p].todo = Tail(@)]
    BY <1>3 DEF Stage
  <2>2. TypeOK'
    BY <1>1, <2>1 DEF TypeOK
  <2>3. /\ session'[p].staged = Append(s.staged, target)
        /\ session'[p].todo = Tail(s.todo)
        /\ session'[p].open = s.open /\ session'[p].kind = s.kind
        /\ session'[p].version = s.version
    BY <2>1 DEF TypeOK
  <2>4. /\ Len(Append(s.staged, target)) = Len(s.staged) + 1
        /\ \A i \in 1..Len(s.staged) : Append(s.staged, target)[i] = s.staged[i]
        /\ Append(s.staged, target)[Len(s.staged) + 1] = target
    BY <1>1
  <2>5. s.kind # "fulfil" /\ SessionOK(p) /\ Len(s.staged) >= 1
    BY <1>1 DEF SessionOK
  <2>6. \A i \in 1..Len(s.staged) :
          Legal(Append(s.staged, target)[i], Append(s.staged, target)[i + 1])
    <3> SUFFICES ASSUME NEW i \in 1..Len(s.staged)
                 PROVE  Legal(Append(s.staged, target)[i], Append(s.staged, target)[i + 1])
      OBVIOUS
    <3>1. CASE i = Len(s.staged)
      BY <1>1, <1>3, <2>4, <3>1 DEF Held, Last
    <3>2. CASE i # Len(s.staged)
      <4>1. i \in 1..(Len(s.staged) - 1) /\ i + 1 \in 1..Len(s.staged)
        BY <1>1, <3>2
      <4> QED BY <1>1, <2>4, <2>5, <4>1 DEF SessionOK
    <3> QED BY <3>1, <3>2
  <2>9. /\ s.kind = "saga" => ReadyInHistory
        /\ s.kind # "saga" =>
             /\ \A i \in 2..Len(s.staged) : s.staged[i] # "COMPLETED"
             /\ target # "COMPLETED"
             /\ \A i \in 1..Len(Tail(s.todo)) : Tail(s.todo)[i] # "COMPLETED"
        /\ s.version \in 1..Len(events) /\ s.staged[1] = events[s.version]
    BY <1>1, <2>5 DEF SessionOK
  <2>10. s.kind # "saga" =>
           \A i \in 2..(Len(s.staged) + 1) : Append(s.staged, target)[i] # "COMPLETED"
    <3> SUFFICES ASSUME s.kind # "saga", NEW i \in 2..(Len(s.staged) + 1)
                 PROVE  Append(s.staged, target)[i] # "COMPLETED"
      OBVIOUS
    <3>1. i = Len(s.staged) + 1 \/ (i \in 2..Len(s.staged) /\ i \in 1..Len(s.staged))
      BY <1>1
    <3> QED BY <2>4, <2>9, <3>1
  <2>11. ReadyInHistory' <=> ReadyInHistory
    BY <1>1 DEF ReadyInHistory
  <2>7. SessionOK(p)'
    <3> HIDE DEF s, target
    <3>1. /\ session'[p].version \in 1..Len(events')
          /\ Len(session'[p].staged) = Len(s.staged) + 1
          /\ session'[p].staged[1] = events'[session'[p].version]
      BY <1>1, <2>3, <2>4, <2>5, <2>9
    <3>2. \A i \in 1..(Len(session'[p].staged) - 1) :
            Legal(session'[p].staged[i], session'[p].staged[i + 1])
      BY <1>1, <2>3, <2>4, <2>6
    <3>3. session'[p].kind # "saga" =>
            /\ \A i \in 2..Len(session'[p].staged) : session'[p].staged[i] # "COMPLETED"
            /\ \A i \in 1..Len(session'[p].todo) : session'[p].todo[i] # "COMPLETED"
      BY <2>3, <2>4, <2>9, <2>10
    <3> QED BY <1>1, <2>3, <2>5, <2>9, <2>11, <3>1, <3>2, <3>3 DEF SessionOK, Legal
  <2>8. \A q \in Sessions : SessionOK(q)'
    BY <1>2, <2>1, <2>7 DEF TypeOK
  <2> QED BY <1>1, <2>2, <2>8
          DEF LegalHistory, RowIsProjection, CompletedWasReady, ReadyInHistory, Last
<1>4. CASE ~Legal(Held(p), target) /\ s.strict
  <2>1. session' = [session EXCEPT ![p] = Closed]
    BY <1>4 DEF Stage
  <2> QED BY <1>1, <2>1, ClosePreserves DEF TypeOK
<1>5. CASE ~Legal(Held(p), target) /\ ~s.strict
  <2>1. session' = [session EXCEPT ![p].todo = Tail(@)]
    BY <1>5 DEF Stage
  <2>2. TypeOK'
    BY <1>1, <2>1 DEF TypeOK
  <2>3. /\ session'[p].staged = s.staged /\ session'[p].todo = Tail(s.todo)
        /\ session'[p].open = s.open /\ session'[p].kind = s.kind
        /\ session'[p].version = s.version
    BY <2>1 DEF TypeOK
  <2>4. s.kind # "fulfil"
    BY <1>1 DEF SessionOK
  <2>5. SessionOK(p)'
    BY <1>1, <2>3, <2>4 DEF SessionOK, ReadyInHistory, Legal
  <2>6. \A q \in Sessions : SessionOK(q)'
    BY <1>2, <2>1, <2>5 DEF TypeOK
  <2> QED BY <1>1, <2>2, <2>6
          DEF LegalHistory, RowIsProjection, CompletedWasReady, ReadyInHistory, Last
<1> QED BY <1>3, <1>4, <1>5

\* A commit appends a legal path that starts where the history ends.
LEMMA CommitPreserves ==
  ASSUME IInv, NEW p \in Sessions, Commit(p)
  PROVE  IInv' /\ \A i \in 1..Len(events) : i \in 1..Len(events') /\ events'[i] = events[i]
<1> USE DEF IInv
<1> DEFINE s == session[p]
           n == Len(events)
           m == Len(s.staged) - 1
<1>1. /\ s.open /\ n = s.version /\ m >= 1 /\ m \in Nat /\ n \in Nat /\ n >= 1
      /\ events' = events \o Tail(s.staged)
      /\ row' = [state |-> Held(p), version |-> s.version + Len(s.staged) - 1]
      /\ session' = [session EXCEPT ![p] = Closed]
      /\ sagas' = sagas
      /\ s.staged \in Seq(OrderStates) /\ events \in Seq(OrderStates)
      /\ Tail(s.staged) \in Seq(OrderStates)
      /\ s.todo = <<>>
  BY DEF Commit, Ready, Writes, Current, TypeOK
<1>0. n \in Nat /\ m \in Nat /\ n >= 1 /\ m >= 1
  BY <1>1
<1>11. /\ \A i \in 1..(n - 1) : Legal(events[i], events[i + 1])
       /\ \A i \in 1..n : events[i] = "COMPLETED" =>
            \E j \in 1..i : events[j] = "READY_FOR_FULFILMENT"
  BY DEF LegalHistory, CompletedWasReady
<1>2. Len(Tail(s.staged)) = m /\ \A i \in 1..m : Tail(s.staged)[i] = s.staged[i + 1]
  BY <1>1
<1>3. /\ Len(events') = n + m
      /\ \A i \in 1..n : events'[i] = events[i]
      /\ \A i \in 1..m : events'[n + i] = s.staged[i + 1]
  <2> DEFINE e == events
             t == Tail(s.staged)
  <2>1. e \in Seq(OrderStates) /\ t \in Seq(OrderStates) /\ Len(e) = n /\ Len(t) = m
        /\ events' = e \o t
    BY <1>1, <1>2
  <2> HIDE DEF e, t, n, m
  <2>2. /\ Len(e \o t) = n + m
        /\ \A i \in 1..n : (e \o t)[i] = e[i]
        /\ \A i \in 1..m : (e \o t)[n + i] = t[i]
    <3>1. /\ Len(e \o t) = Len(e) + Len(t)
          /\ \A i \in 1..Len(e) + Len(t) :
               (e \o t)[i] = IF i <= Len(e) THEN e[i] ELSE t[i - Len(e)]
      BY <2>1, ConcatProperties
    <3>2. /\ \A i \in 1..n : i \in 1..(n + m) /\ i <= n
          /\ \A i \in 1..m : n + i \in 1..(n + m) /\ ~(n + i <= n) /\ (n + i) - n = i
      BY <1>0
    <3> QED BY <2>1, <3>1, <3>2, SMTT(30)
  <2> QED BY <1>2, <2>1, <2>2 DEF e, t
<1>4. s.staged[1] = events[n] /\ \A i \in 1..m : Legal(s.staged[i], s.staged[i + 1])
  BY <1>1 DEF SessionOK
<1>12. /\ \A q \in Sessions : session'[q] = IF q = p THEN Closed ELSE session[q]
       /\ m + 1 = Len(s.staged)
  BY <1>1 DEF TypeOK
<1>5. TypeOK'
  <2>1. Held(p) \in OrderStates /\ s.version + Len(s.staged) - 1 \in Nat
    BY <1>1 DEF Held, Last, TypeOK
  <2>2. events' \in Seq(OrderStates)
    BY <1>1
  <2>3. session' \in [Sessions -> [open : BOOLEAN, kind : Kinds, strict : BOOLEAN,
                        version : Nat, staged : Seq(OrderStates), todo : Seq(OrderStates)]]
    BY <1>1 DEF TypeOK, Closed, Kinds
  <2> QED BY <1>1, <2>1, <2>2, <2>3 DEF TypeOK
<1>6. LegalHistory'
  <2> HIDE DEF n, m, s
  <2> SUFFICES ASSUME NEW i \in 1..(n + m - 1)
               PROVE  Legal(events'[i], events'[i + 1])
    <3>1. Len(events') - 1 = n + m - 1
      BY <1>0, <1>3
    <3> QED BY <3>1 DEF LegalHistory, Legal
  <2>1. CASE i < n
    <3>1. i \in 1..n /\ i + 1 \in 1..n /\ i \in 1..(n - 1)
      BY <1>0, <2>1
    <3> QED BY <1>3, <1>11, <3>1
  <2>2. CASE i = n
    <3>1. events'[i] = s.staged[1]
      BY <1>0, <1>3, <1>4, <2>2
    <3>2. 1 \in 1..m /\ events'[i + 1] = s.staged[2]
      BY <1>0, <1>3, <2>2
    <3> QED BY <1>4, <3>1, <3>2
  <2>3. CASE i > n
    <3>1. PICK k \in 1..(m - 1) : i = n + k
      <4>1. i - n \in 1..(m - 1) /\ i = n + (i - n)
        BY <1>0, <2>3
      <4> QED BY <4>1
    <3>2. k \in 1..m /\ k + 1 \in 1..m /\ i + 1 = n + (k + 1)
      BY <1>0, <3>1
    <3>3. events'[i] = s.staged[k + 1] /\ events'[i + 1] = s.staged[(k + 1) + 1]
      BY <1>3, <3>1, <3>2
    <3> QED BY <1>4, <3>2, <3>3
  <2> QED BY <1>0, <2>1, <2>2, <2>3
<1>7. RowIsProjection'
  BY <1>1, <1>3 DEF RowIsProjection, Held, Last
<1>8. ReadyInHistory => ReadyInHistory'
  BY <1>1, <1>3 DEF ReadyInHistory
<1>9. CompletedWasReady'
  <2> SUFFICES ASSUME NEW i \in 1..(n + m), events'[i] = "COMPLETED"
               PROVE  \E j \in 1..i : events'[j] = "READY_FOR_FULFILMENT"
    BY <1>3 DEF CompletedWasReady
  <2>1. CASE i <= n
    <3> HIDE DEF n, m
    <3>1. i \in 1..n
      BY <1>0, <2>1
    <3>2. PICK j \in 1..i : events[j] = "READY_FOR_FULFILMENT"
      BY <1>3, <1>11, <3>1
    <3>3. events'[j] = events[j]
      BY <1>0, <1>3, <3>1
    <3> QED BY <3>2, <3>3
  <2>2. CASE i > n
    <3>1. PICK k \in 1..m : i = n + k
      <4> HIDE DEF n, m
      <4>1. i - n \in 1..m /\ i = n + (i - n)
        BY <1>0, <2>2
      <4> QED BY <4>1
    <3>2. s.staged[k + 1] = "COMPLETED"
      BY <1>3, <3>1
    <3>3. k + 1 \in 2..Len(s.staged)
      BY <1>0, <1>12, <3>1
    <3>4. s.kind = "saga"
      BY <1>1, <3>2, <3>3 DEF SessionOK
    <3>5. PICK j \in 1..n : events[j] = "READY_FOR_FULFILMENT"
      BY <1>1, <3>4 DEF SessionOK, ReadyInHistory
    <3> QED BY <1>0, <1>3, <2>2, <3>5
  <2> QED BY <1>0, <2>1, <2>2
<1>10. ASSUME NEW q \in Sessions PROVE SessionOK(q)'
  <2>1. CASE q = p
    BY <1>1, <2>1 DEF SessionOK, TypeOK, Closed
  <2>2. CASE q # p
    <3>1. session'[q] = session[q]
      BY <1>1, <2>2 DEF TypeOK
    <3>2. session[q].open => session[q].version \in 1..n
      BY DEF SessionOK
    <3>3. session[q].open => session[q].version \in 1..Len(events')
                             /\ events'[session[q].version] = events[session[q].version]
      <4> HIDE DEF n, m
      <4> QED BY <1>0, <1>3, <3>2
    <3>4. SessionOK(q)
      OBVIOUS
    <3> QED BY <1>8, <3>1, <3>3, <3>4 DEF SessionOK, Legal
  <2> QED BY <2>1, <2>2
<1> QED BY <1>1, <1>3, <1>5, <1>6, <1>7, <1>8, <1>9, <1>10

\* Closing a session that wrote nothing commits at most a saga, and a fulfil
\* session holds a row that was READY_FOR_FULFILMENT.
LEMMA FinishPreserves ==
  ASSUME IInv, NEW p \in Sessions, Finish(p)
  PROVE  IInv'
<1>1. sagas' \in Nat
  BY DEF IInv, TypeOK, Finish
<1>2. SessionOK(p) /\ session[p].open
  BY DEF IInv, Finish, Ready
<1>3. ASSUME sagas' > 0 PROVE ReadyInHistory
  <2>1. CASE session[p].kind = "fulfil"
    BY <1>2, <2>1 DEF SessionOK, ReadyInHistory, IInv, TypeOK
  <2>2. CASE session[p].kind # "fulfil"
    BY <1>3, <2>2 DEF Finish, IInv
  <2> QED BY <2>1, <2>2
<1> QED BY <1>1, <1>3, ClosePreserves DEF Finish

\* Every command opens its session with legal arguments.
LEMMA CommandPreserves ==
  ASSUME IInv, NEW p \in Sessions, NEW target \in OrderStates,
         target # "COMPLETED", Command(p, target)
  PROVE  IInv'
<1>1. "command" \in Kinds /\ TRUE \in BOOLEAN /\ <<target>> \in Seq(OrderStates)
  BY DEF Kinds
<1>2. \A i \in 1..Len(<<target>>) : <<target>>[i] # "COMPLETED"
  OBVIOUS
<1>3. Open(p, "command", TRUE, <<target>>)
  BY DEF Command
<1> QED BY <1>1, <1>2, <1>3, OpenPreserves

\* A saga session opens only where a saga was committed.
LEMMA SagaPreserves ==
  ASSUME IInv, NEW p \in Sessions, NEW targets \in Seq(OrderStates), sagas > 0,
         Open(p, "saga", FALSE, targets)
  PROVE  IInv'
<1>1. "saga" \in Kinds /\ FALSE \in BOOLEAN /\ ReadyInHistory
  BY DEF Kinds, IInv
<1> QED BY <1>1, OpenPreserves

\* The invariant is inductive: one step per action of Next.
LEMMA NextPreserves ==
  ASSUME IInv, [Next]_vars
  PROVE  IInv'
<1>0. CASE UNCHANGED vars
  BY <1>0 DEF vars, IInv, TypeOK, LegalHistory, RowIsProjection, CompletedWasReady,
             ReadyInHistory, SessionOK, Legal, Last
<1> SUFFICES ASSUME NEW p \in Sessions,
         \/ submit(p) \/ validate(p) \/ settle_validation(p) \/ approve_payment(p)
         \/ cancel(p) \/ retry(p) \/ resume(p) \/ compensate(p)
         \/ ensure_state(p) \/ drive_order_compensation(p) \/ drive_order_to_manual(p)
         \/ fulfil(p)
         \/ Stage(p) \/ Commit(p) \/ Conflict(p) \/ Finish(p) \/ Abort(p)
             PROVE  IInv'
  BY <1>0 DEF Next
<1>1. CASE submit(p) \/ retry(p)
  <2>1. Command(p, "SUBMITTED")
    BY <1>1 DEF submit, retry
  <2> QED BY <2>1, CommandPreserves, TransitionsType
<1>2. CASE validate(p)
  BY <1>2, CommandPreserves, TransitionsType DEF validate
<1>3. CASE settle_validation(p)
  <2>1. PICK outcome \in {"VALIDATION_FAILED", "PAYMENT_PENDING", "READY_FOR_FULFILMENT"} :
          Command(p, outcome)
    BY <1>3 DEF settle_validation
  <2> QED BY <2>1, CommandPreserves, TransitionsType
<1>4. CASE approve_payment(p)
  BY <1>4, CommandPreserves, TransitionsType DEF approve_payment
<1>5. CASE cancel(p)
  <2>1. Command(p, "CANCELLED") \/ Command(p, "CANCELLATION_REQUESTED")
    BY <1>5 DEF cancel
  <2> QED BY <2>1, CommandPreserves, TransitionsType
<1>6. CASE resume(p)
  BY <1>6, CommandPreserves, TransitionsType DEF resume
<1>7. CASE compensate(p)
  BY <1>7, CommandPreserves, TransitionsType DEF compensate
<1>8. CASE ensure_state(p)
  <2>1. PICK target \in SagaTargets : Open(p, "saga", FALSE, <<target>>)
    BY <1>8 DEF ensure_state
  <2>2. <<target>> \in Seq(OrderStates)
    BY TransitionsType DEF SagaTargets
  <2> QED BY <1>8, <2>1, <2>2, SagaPreserves DEF ensure_state
<1>9. CASE drive_order_compensation(p)
  <2>1. <<"FAILED", "COMPENSATING", "ROLLED_BACK">> \in Seq(OrderStates)
    BY TransitionsType
  <2> QED BY <1>9, <2>1, SagaPreserves DEF drive_order_compensation
<1>10. CASE drive_order_to_manual(p)
  <2>1. <<"FAILED", "MANUAL_INTERVENTION_REQUIRED">> \in Seq(OrderStates)
    BY TransitionsType
  <2> QED BY <1>10, <2>1, SagaPreserves DEF drive_order_to_manual
<1>11. CASE fulfil(p)
  <2>1. "fulfil" \in Kinds /\ TRUE \in BOOLEAN /\ <<>> \in Seq(OrderStates)
    BY DEF Kinds
  <2>2. \A i \in 1..Len(<<>>) : <<>>[i] # "COMPLETED"
    OBVIOUS
  <2>3. Open(p, "fulfil", TRUE, <<>>) /\ row.state = "READY_FOR_FULFILMENT"
    BY <1>11 DEF fulfil
  <2> QED BY <2>1, <2>2, <2>3, OpenPreserves
<1>12. CASE Stage(p)
  BY <1>12, StagePreserves
<1>13. CASE Commit(p)
  BY <1>13, CommitPreserves
<1>14. CASE Conflict(p) \/ Abort(p)
  <2>1. session' = [session EXCEPT ![p] = Closed] /\ UNCHANGED <<row, events, sagas>>
    BY <1>14 DEF Conflict, Abort
  <2> QED BY <2>1, ClosePreserves DEF IInv, TypeOK
<1>15. CASE Finish(p)
  BY <1>15, FinishPreserves
<1> QED BY <1>1, <1>2, <1>3, <1>4, <1>5, <1>6, <1>7, <1>8, <1>9, <1>10, <1>11,
           <1>12, <1>13, <1>14, <1>15

\* Whatever the sessions read and however late they commit, what they hold is
\* a legal continuation of the order's history.
THEOREM InductiveInvariant == Spec => []IInv
<1>1. Init => IInv
  <2> SUFFICES ASSUME Init PROVE IInv
    OBVIOUS
  <2>1. /\ row = [state |-> "DRAFT", version |-> 1] /\ events = <<"DRAFT">> /\ sagas = 0
        /\ session = [p \in Sessions |-> Closed]
    BY DEF Init
  <2>2. TypeOK
    BY <2>1, TransitionsType DEF TypeOK, Closed, Kinds
  <2>3. LegalHistory /\ RowIsProjection /\ CompletedWasReady /\ Len(events) >= 1
    BY <2>1 DEF LegalHistory, RowIsProjection, CompletedWasReady, Last
  <2>4. \A p \in Sessions : SessionOK(p)
    BY <2>1 DEF SessionOK, Closed
  <2> QED BY <2>1, <2>2, <2>3, <2>4 DEF IInv
<1>2. IInv /\ [Next]_vars => IInv'
  BY NextPreserves
<1> QED BY <1>1, <1>2, PTL DEF Spec

\* No interleaving of commands, saga passes, conflicts and crashes records a
\* transition the table of state_machine.py does not have.
THEOREM HistoryIsLegal == Spec => []LegalHistory
<1>1. IInv => LegalHistory
  BY DEF IInv
<1> QED BY <1>1, InductiveInvariant, PTL

\* The row never disagrees with its event stream.
THEOREM RowProjectsHistory == Spec => []RowIsProjection
<1>1. IInv => RowIsProjection
  BY DEF IInv
<1> QED BY <1>1, InductiveInvariant, PTL

\* Only a validated order completes.
THEOREM CompletionNeedsReadiness == Spec => []CompletedWasReady
<1>1. IInv => CompletedWasReady
  BY DEF IInv
<1> QED BY <1>1, InductiveInvariant, PTL

\* A step that leaves row and events alone satisfies HistoryIsFinal, and a
\* commit that starts from a terminal state would need a transition it lacks.
THEOREM FinalityOfHistory == Spec => HistoryIsFinal
<1> DEFINE Final == /\ order_terminal(row.state) => row' = row
                    /\ \A i \in 1..Len(events) :
                         i \in 1..Len(events') /\ events'[i] = events[i]
<1>1. ASSUME IInv, [Next]_vars PROVE Final
  <2>1. CASE UNCHANGED <<row, events>>
    BY <2>1
  <2>2. ASSUME NEW p \in Sessions, Commit(p) PROVE Final
    <3>1. \A i \in 1..Len(events) : i \in 1..Len(events') /\ events'[i] = events[i]
      BY <1>1, <2>2, CommitPreserves
    <3>2. SessionOK(p) /\ session[p].open /\ Len(session[p].staged) > 1
      BY <1>1, <2>2 DEF IInv, Commit, Ready, Writes
    <3>3. session[p].version = Len(events) /\ session[p].staged \in Seq(OrderStates)
      BY <1>1, <2>2 DEF IInv, TypeOK, Commit, Current
    <3>4. Legal(session[p].staged[1], session[p].staged[2])
      BY <3>2, <3>3 DEF SessionOK
    <3>5. session[p].staged[1] = row.state
      BY <1>1, <3>2, <3>3 DEF SessionOK, IInv, RowIsProjection, Last
    <3>6. ~order_terminal(row.state)
      BY <3>4, <3>5 DEF Legal, order_terminal
    <3> QED BY <3>1, <3>6
  <2>3. (\E p \in Sessions : Commit(p)) \/ UNCHANGED <<row, events>>
    BY <1>1 DEF Next, vars, submit, validate, settle_validation, approve_payment, cancel,
               retry, resume, compensate, ensure_state, drive_order_compensation,
               drive_order_to_manual, fulfil, Command, Open, Stage, Conflict, Finish, Abort
  <2> QED BY <2>1, <2>2, <2>3
<1>2. IInv /\ [Next]_vars => [Final]_vars
  BY <1>1
<1> QED BY <1>2, InductiveInvariant, PTL DEF Spec, HistoryIsFinal
=============================================================================
