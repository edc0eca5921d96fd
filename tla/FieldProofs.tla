----------------------------- MODULE FieldProofs -----------------------------
(***************************************************************************)
(* The field services, for all values of their constants: configuration    *)
(* jobs, remediation intents, firmware rollouts and the SLA clock of a     *)
(* ticket each keep an invariant that implies their properties, and so do  *)
(* all of them together.  Every section states the invariant, then that it *)
(* holds initially and that each action keeps it.                          *)
(***************************************************************************)
EXTENDS FieldServices, SumFacts, Sequences, TLAPS

---------------------------------------------------------------------------
(* Configuration jobs *)

Ran(j) == \E m \in DOMAIN history : history[m] = j

\* A job the device ran, and then a task of other parameters.
RunOver(j) ==
  \E m, n \in DOMAIN history : m < n /\ history[m] = j /\ Configure!Value(history[n]) # Configure!Value(j)

\* What the calls in flight found out is true: history only grows.
CallsAreTrue ==
  \A h \in Callers : exchanges[h] # Configure!Idle =>
    LET c == exchanges[h] IN
    /\ c.op \in {"acknowledge", "verify"} => Ran(c.job)
    /\ c.op = "verify" /\ ~c.match => RunOver(c.job)

\* An execution in flight gave the ACS its task.
TasksGiven ==
  \A h \in Callers : exchanges[h] # Configure!Idle /\ exchanges[h].op = "execute" => exchanges[h].task # 0

\* A completed task is in the history, an acknowledged job ran.
TasksAreTrue ==
  /\ \A t \in DOMAIN acs : acs[t].state = "COMPLETED" => Ran(acs[t].job)
  /\ \A j \in Jobs : job[j] \in {"DEVICE_ACKNOWLEDGED", "SUCCEEDED"} => Ran(j)
  /\ \A j \in misread : RunOver(j)

\* Every row of the desired state is that of a verified job.
DesiredWasVerified ==
  \A n \in DOMAIN desired : \E m \in DOMAIN verified : profile[verified[m]] = desired[n].profile

\* The configuration invariant.
JobInv ==
  /\ Configure!TypeOK /\ CallsAreTrue /\ TasksGiven /\ TasksAreTrue /\ DesiredWasVerified
  /\ Configure!DriftIsFromLastVerified

\* What a history proves it proves for good.
LEMMA HistoryGrows ==
  ASSUME Configure!TypeOK, UNCHANGED profile, NEW e \in Jobs, history' \in {history, Append(history, e)}, NEW j
  PROVE  (Ran(j) => Ran(j)') /\ (RunOver(j) => RunOver(j)')
<1>1. history \in Seq(Jobs)
  BY DEF Configure!TypeOK
<1>2. DOMAIN history \subseteq DOMAIN history' /\ \A m \in DOMAIN history : history'[m] = history[m]
  BY <1>1
<1> QED BY <1>2 DEF Ran, RunOver, Configure!Value

LEMMA InformKeepsJobs ==
  ASSUME JobInv, NEW t \in DOMAIN acs, NEW result \in {"COMPLETED", "FAULTED"}, Configure!Inform(t, result)
  PROVE  JobInv'
<1>1. UNCHANGED <<profile, job, misread, step, desired, verified, exchanges>>
  BY DEF Configure!Inform
<1> DEFINE Task == [job : Jobs, state : {"QUEUED", "COMPLETED", "FAULTED"}]
           done == [job |-> acs[t].job, state |-> result]
<1>2. acs \in Seq(Task) /\ acs[t] \in Task /\ acs[t].job \in Jobs /\ history \in Seq(Jobs) /\ Len(acs) <= MaxTasks
  <2>1. acs \in Seq(Task) /\ history \in Seq(Jobs) /\ Len(acs) <= MaxTasks
    BY DEF JobInv, Configure!TypeOK
  <2>2. acs[t] \in Task
    <3> HIDE DEF Task
    <3> QED BY <2>1
  <2> QED BY <2>1, <2>2
<1>3. /\ acs' \in Seq(Task) /\ Len(acs') = Len(acs) /\ DOMAIN acs' = DOMAIN acs
      /\ acs'[t] = done /\ \A u \in DOMAIN acs \ {t} : acs'[u] = acs[u]
  <2>1. done \in Task /\ [acs[t] EXCEPT !.state = result] = done
    BY <1>2
  <2>2. acs' = [acs EXCEPT ![t] = done]
    BY <2>1, Zenon DEF Configure!Inform
  <2> HIDE DEF Task, done
  <2> QED BY <1>2, <2>1, <2>2
<1>4. history' = IF result = "COMPLETED" THEN Append(history, acs[t].job) ELSE history
  BY DEF Configure!Inform
<1>5. \A j : (Ran(j) => Ran(j)') /\ (RunOver(j) => RunOver(j)')
  BY <1>1, <1>2, <1>4, HistoryGrows DEF JobInv
<1>6. history' \in Seq(Jobs)
  BY <1>2, <1>4
<1>7. Configure!TypeOK'
  BY <1>1, <1>2, <1>3, <1>6 DEF JobInv, Configure!TypeOK
<1>8. TasksAreTrue'
  <2>1. ASSUME NEW u \in DOMAIN acs', acs'[u].state = "COMPLETED", NEW e, e = acs'[u].job
        PROVE  Ran(e)'
    <3>1. CASE u = t /\ result = "COMPLETED"
      <4>1. Len(history) + 1 \in DOMAIN history' /\ history'[Len(history) + 1] = acs[t].job
        BY <1>2, <1>4, <3>1
      <4>2. e = acs[t].job
        BY <1>3, <2>1, <3>1
      <4> QED BY <4>1, <4>2 DEF Ran
    <3>2. CASE u = t /\ result # "COMPLETED"
      BY <1>2, <1>3, <2>1, <3>2
    <3>3. CASE u # t
      <4>1. u \in DOMAIN acs /\ acs'[u] = acs[u]
        BY <1>3, <3>3
      <4>2. Ran(e)
        BY <2>1, <4>1 DEF JobInv, TasksAreTrue
      <4> QED BY <1>5, <4>2
    <3> QED BY <3>1, <3>2, <3>3
  <2> QED BY <2>1, <1>1, <1>5 DEF JobInv, TasksAreTrue
<1>9. CallsAreTrue' /\ TasksGiven'
  BY <1>1, <1>5 DEF JobInv, CallsAreTrue, TasksGiven
<1>10. DesiredWasVerified' /\ Configure!DriftIsFromLastVerified'
  BY <1>1 DEF JobInv, DesiredWasVerified, Configure!DriftIsFromLastVerified, Configure!Last, Configure!Value
<1> QED BY <1>7, <1>8, <1>9, <1>10 DEF JobInv

LEMMA RequestKeepsJobs ==
  ASSUME JobInv, NEW j \in Jobs, NEW state \in Configure!States, Configure!Request(j, state)
  PROVE  JobInv'
<1>1. UNCHANGED <<profile, acs, step, history, desired, verified, exchanges>>
  BY DEF Configure!Request
<1>2. state \notin {"DEVICE_ACKNOWLEDGED", "SUCCEEDED"}
  BY DEF Configure!Request, Configure!Moves
<1>3. job' = [job EXCEPT ![j] = state] /\ misread' \subseteq misread
  BY DEF Configure!Request
<1>4. Configure!TypeOK'
  BY <1>1, <1>3 DEF JobInv, Configure!TypeOK
<1>5. TasksAreTrue'
  BY <1>1, <1>2, <1>3 DEF JobInv, Configure!TypeOK, TasksAreTrue, Ran, RunOver, Configure!Value
<1>6. CallsAreTrue' /\ TasksGiven'
  BY <1>1 DEF JobInv, CallsAreTrue, TasksGiven, Ran, RunOver, Configure!Value
<1>7. DesiredWasVerified' /\ Configure!DriftIsFromLastVerified'
  BY <1>1 DEF JobInv, DesiredWasVerified, Configure!DriftIsFromLastVerified, Configure!Last, Configure!Value
<1> QED BY <1>4, <1>5, <1>6, <1>7 DEF JobInv

\* A call that starts with what is true keeps the invariant.
LEMMA StartKeepsJobs ==
  ASSUME JobInv, NEW h \in Callers, NEW op \in {"execute", "acknowledge", "fault", "verify"},
         NEW j \in Jobs, NEW t \in 0..MaxTasks, NEW match \in BOOLEAN, Configure!Start(h, op, j, t, match),
         \/ UNCHANGED acs
         \/ (Len(acs) < MaxTasks /\ acs' = Append(acs, [job |-> j, state |-> "QUEUED"])),
         op \in {"acknowledge", "verify"} => Ran(j), op = "verify" /\ ~match => RunOver(j),
         op = "execute" => t # 0
  PROVE  JobInv'
<1> DEFINE new == [op |-> op, job |-> j, task |-> t, match |-> match]
           Task == [job : Jobs, state : {"QUEUED", "COMPLETED", "FAULTED"}]
<1>1. UNCHANGED <<profile, job, misread, step, history, desired, verified>>
  BY DEF Configure!Start
<1>2. new \in Configure!Calls
  BY DEF Configure!Calls
<1>3. exchanges' = [exchanges EXCEPT ![h] = new]
      /\ exchanges \in [Callers -> {Configure!Idle} \cup Configure!Calls]
  BY DEF Configure!Start, JobInv, Configure!TypeOK
<1>4. acs \in Seq(Task) /\ Len(acs) <= MaxTasks /\ MaxTasks \in Nat
  BY FieldAssumption DEF JobInv, Configure!TypeOK, Configure!JobsAssumption
<1>5. acs' \in Seq(Task) /\ Len(acs') <= MaxTasks
  <2> DEFINE queued == [job |-> j, state |-> "QUEUED"]
  <2>1. queued \in Task
    OBVIOUS
  <2>2. UNCHANGED acs \/ (Len(acs) < MaxTasks /\ acs' = Append(acs, queued))
    OBVIOUS
  <2> HIDE DEF Task, queued
  <2> QED BY <1>4, <2>1, <2>2
<1>6. Configure!TypeOK'
  BY <1>1, <1>2, <1>3, <1>5 DEF JobInv, Configure!TypeOK
<1>7. TasksAreTrue'
  <2>1. \A u \in DOMAIN acs' : acs'[u].state = "COMPLETED" => u \in DOMAIN acs /\ acs'[u] = acs[u]
    BY <1>4
  <2> QED BY <1>1, <2>1 DEF JobInv, TasksAreTrue, Ran, RunOver, Configure!Value
<1>8. CallsAreTrue'
  <2> SUFFICES ASSUME NEW g \in Callers, exchanges'[g] # Configure!Idle
               PROVE  /\ exchanges'[g].op \in {"acknowledge", "verify"} => Ran(exchanges'[g].job)
                      /\ exchanges'[g].op = "verify" /\ ~exchanges'[g].match => RunOver(exchanges'[g].job)
    BY <1>1 DEF CallsAreTrue, Ran, RunOver, Configure!Value
  <2>1. CASE g = h
    BY <2>1, <1>3
  <2>2. CASE g # h
    BY <2>2, <1>3 DEF JobInv, CallsAreTrue
  <2> QED BY <2>1, <2>2
<1>9. DesiredWasVerified' /\ Configure!DriftIsFromLastVerified'
  BY <1>1 DEF JobInv, DesiredWasVerified, Configure!DriftIsFromLastVerified, Configure!Last, Configure!Value
<1>10. TasksGiven'
  BY <1>3 DEF JobInv, TasksGiven
<1> QED BY <1>6, <1>7, <1>8, <1>9, <1>10 DEF JobInv

\* What is verified of a job that ran: the device has its parameters, or was run over.
LEMMA VerifyIsTrue ==
  ASSUME Configure!TypeOK, NEW j \in Jobs, Ran(j), ~Configure!Matches(j)
  PROVE  RunOver(j)
<1>1. history \in Seq(Jobs)
  BY DEF Configure!TypeOK
<1>2. PICK m \in DOMAIN history : history[m] = j
  BY DEF Ran
<1>3. m \in 1..Len(history) /\ Len(history) \in DOMAIN history /\ history # <<>>
  BY <1>1, <1>2
<1>4. Configure!Value(history[Len(history)]) # Configure!Value(j)
  BY <1>3 DEF Configure!Matches, Configure!Last
<1> QED BY <1>1, <1>2, <1>3, <1>4 DEF RunOver

LEMMA CallsStart ==
  ASSUME JobInv, NEW h \in Callers,
         \/ \E t \in DOMAIN acs : Configure!Poll(h, t)
         \/ \E j \in Jobs : Configure!Execute(h, j) \/ Configure!Verify(h, j)
  PROVE  JobInv'
<1>n. MaxTasks \in Nat /\ Len(acs) \in Nat /\ Len(acs) <= MaxTasks
      /\ acs \in Seq([job : Jobs, state : {"QUEUED", "COMPLETED", "FAULTED"}])
  BY FieldAssumption DEF JobInv, Configure!TypeOK, Configure!JobsAssumption
<1>1. ASSUME NEW t \in DOMAIN acs, Configure!Poll(h, t) PROVE JobInv'
  <2>1. t \in 0..MaxTasks /\ acs[t].job \in Jobs /\ UNCHANGED acs
    <3>1. t \in 1..Len(acs)
      BY <1>n
    <3>2. acs[t] \in [job : Jobs, state : {"QUEUED", "COMPLETED", "FAULTED"}]
      <4> DEFINE Task == [job : Jobs, state : {"QUEUED", "COMPLETED", "FAULTED"}]
      <4>1. acs \in Seq(Task)
        BY <1>n
      <4> HIDE DEF Task
      <4>2. acs[t] \in Task
        BY <4>1
      <4> QED BY <4>2 DEF Task
    <3> QED BY <1>n, <1>1, <3>1, <3>2 DEF Configure!Poll
  <2>2. CASE acs[t].state = "COMPLETED" /\ Configure!Start(h, "acknowledge", acs[t].job, t, FALSE)
    <3>1. Ran(acs[t].job)
      BY <2>2 DEF JobInv, TasksAreTrue
    <3> QED BY <2>1, <2>2, <3>1, StartKeepsJobs
  <2>3. CASE Configure!Start(h, "fault", acs[t].job, t, FALSE)
    BY <2>1, <2>3, StartKeepsJobs
  <2> QED BY <1>1, <2>2, <2>3 DEF Configure!Poll
<1>2. ASSUME NEW j \in Jobs, Configure!Execute(h, j) PROVE JobInv'
  <2>1. Len(acs) < MaxTasks /\ acs' = Append(acs, [job |-> j, state |-> "QUEUED"])
        /\ Configure!Start(h, "execute", j, Len(acs) + 1, FALSE) /\ Len(acs) + 1 \in 1..MaxTasks
    <3>1. Len(acs) < MaxTasks /\ Len(acs) + 1 \in 1..MaxTasks
      BY <1>n, <1>2 DEF Configure!Execute
    <3>2. acs' = Append(acs, [job |-> j, state |-> "QUEUED"]) /\ Configure!Start(h, "execute", j, Len(acs) + 1, FALSE)
      BY <1>2 DEF Configure!Execute
    <3> QED BY <3>1, <3>2
  <2>2. Len(acs) + 1 \in 0..MaxTasks /\ Len(acs) + 1 # 0
    BY <1>n, <2>1
  <2> QED BY <2>1, <2>2, StartKeepsJobs
<1>3. ASSUME NEW j \in Jobs, Configure!Verify(h, j) PROVE JobInv'
  <2>1. Configure!Start(h, "verify", j, 0, Configure!Matches(j)) /\ UNCHANGED acs
    BY <1>3 DEF Configure!Verify
  <2>2. Ran(j)
    BY <2>1 DEF Configure!Start, Configure!From, JobInv, TasksAreTrue
  <2>3. ~Configure!Matches(j) => RunOver(j)
    BY <2>2, VerifyIsTrue DEF JobInv
  <2>4. Configure!Matches(j) \in BOOLEAN /\ 0 \in 0..MaxTasks
    BY <1>n DEF Configure!Matches
  <2> QED BY <2>1, <2>2, <2>3, <2>4, StartKeepsJobs
<1> QED BY <1>1, <1>2, <1>3

\* A snapshot ends in the value of the job, or is left alone for a version that
\* was verified before.
LEMMA SnapshotFacts ==
  ASSUME JobInv, NEW j \in Jobs
  PROVE  LET D == Configure!Snapshot(j) IN
         /\ D \in Seq([profile : {Version, Raw}, value : Jobs \cup {Version}])
         /\ \A r, s \in DOMAIN D : r # s => D[r].profile # D[s].profile
         /\ \A n \in DOMAIN D : D[n].profile = profile[j] \/ \E m \in DOMAIN desired : D[n] = desired[m]
         /\ \/ D # <<>> /\ D[Len(D)].value = Configure!Value(j)
            \/ /\ D = desired /\ profile[j] # Raw
               /\ \E n \in DOMAIN desired : desired[n].profile = profile[j]
<1> DEFINE Desired == [profile : {Version, Raw}, value : Jobs \cup {Version}]
           row == [profile |-> profile[j], value |-> Configure!Value(j)]
           known == {n \in DOMAIN desired : desired[n].profile = profile[j]}
           pick == CHOOSE n \in known : TRUE
           D == Configure!Snapshot(j)
<1>1. desired \in Seq(Desired) /\ row \in Desired /\ row.profile = profile[j] /\ row.value = Configure!Value(j)
      /\ \A r, s \in DOMAIN desired : r # s => desired[r].profile # desired[s].profile
  BY DEF JobInv, Configure!TypeOK, Configure!Value
<1>d. D = IF known = {} THEN Append(desired, row)
          ELSE IF profile[j] # Raw THEN desired ELSE Append(Configure!RemoveAt(desired, pick), row)
  BY DEF Configure!Snapshot
<1> HIDE DEF row, Desired, D
<1>2. CASE known = {}
  <2>1. D = Append(desired, row)
    BY <1>d, <1>2
  <2> QED BY <1>1, <1>2, <2>1 DEF D, Desired
<1>3. CASE known # {} /\ profile[j] # Raw
  <2>1. D = desired
    BY <1>d, <1>3
  <2> QED BY <1>1, <1>3, <2>1 DEF D, Desired
<1>4. CASE known # {} /\ profile[j] = Raw
  <2> DEFINE R == Configure!RemoveAt(desired, pick)
  <2>1. pick \in DOMAIN desired /\ desired[pick].profile = profile[j] /\ D = Append(R, row)
    BY <1>d, <1>4
  <2> HIDE DEF pick, known
  <2>2. /\ R \in Seq(Desired) /\ Len(R) = Len(desired) - 1
        /\ \A n \in DOMAIN R : R[n] = IF n < pick THEN desired[n] ELSE desired[n + 1]
    <3>1. R = SubSeq(desired, 1, pick - 1) \o SubSeq(desired, pick + 1, Len(desired))
      BY DEF Configure!RemoveAt
    <3>2. Len(desired) \in Nat /\ pick \in 1..Len(desired)
      BY <1>1, <2>1
    <3> DEFINE a == SubSeq(desired, 1, pick - 1)
               b == SubSeq(desired, pick + 1, Len(desired))
    <3>3. a \in Seq(Desired) /\ Len(a) = pick - 1 /\ \A n \in 1..(pick - 1) : a[n] = desired[n]
      BY <1>1, <3>2
    <3>4. b \in Seq(Desired) /\ Len(b) = Len(desired) - pick /\ \A n \in 1..(Len(desired) - pick) : b[n] = desired[pick + n]
      BY <1>1, <3>2
    <3> HIDE DEF a, b
    <3>5. R = a \o b
      BY <3>1 DEF a, b
    <3>6. R \in Seq(Desired) /\ Len(R) = Len(desired) - 1
      <4>1. a \o b \in Seq(Desired) /\ Len(a \o b) = Len(a) + Len(b)
        BY <3>3, <3>4
      <4> QED BY <3>2, <3>3, <3>4, <3>5, <4>1
    <3> HIDE DEF R
    <3>7. ASSUME NEW n \in DOMAIN R PROVE R[n] = IF n < pick THEN desired[n] ELSE desired[n + 1]
      <4>1. n \in 1..(Len(desired) - 1)
        BY <3>6
      <4>2. R[n] = IF n <= Len(a) THEN a[n] ELSE b[n - Len(a)]
        BY <3>2, <3>3, <3>4, <3>5, <4>1
      <4> QED BY <3>2, <3>3, <3>4, <4>1, <4>2
    <3> QED BY <3>6, <3>7
  <2> HIDE DEF R
  <2>3. \A n \in DOMAIN R : \E m \in DOMAIN desired \ {pick} : R[n] = desired[m]
    <3> TAKE n \in DOMAIN R
    <3>1. n \in 1..(Len(desired) - 1) /\ Len(desired) \in Nat
      BY <1>1, <2>2
    <3> QED BY <1>1, <2>1, <2>2, <3>1
  <2>4. \A r, s \in DOMAIN R : r # s => R[r].profile # R[s].profile
    <3> TAKE r, s \in DOMAIN R
    <3> HAVE r # s
    <3>1. r \in 1..(Len(desired) - 1) /\ s \in 1..(Len(desired) - 1) /\ Len(desired) \in Nat /\ pick \in 1..Len(desired)
      BY <1>1, <2>1, <2>2
    <3>2. PICK a, b \in DOMAIN desired : a # b /\ R[r] = desired[a] /\ R[s] = desired[b]
      <4> DEFINE f(n) == IF n < pick THEN n ELSE n + 1
      <4>1. f(r) \in 1..Len(desired) /\ f(s) \in 1..Len(desired) /\ f(r) # f(s)
        BY <3>1
      <4>2. R[r] = desired[f(r)] /\ R[s] = desired[f(s)]
        BY <2>2, <3>1
      <4> QED BY <1>1, <4>1, <4>2
    <3> QED BY <1>1, <3>2
  <2>5. \A n \in DOMAIN R : R[n].profile # profile[j]
    BY <1>1, <2>1, <2>3
  <2>6. D \in Seq(Desired) /\ Len(D) = Len(R) + 1 /\ D[Len(D)] = row /\ \A n \in DOMAIN R : D[n] = R[n]
    BY <1>1, <2>1, <2>2
  <2>7. \A n \in DOMAIN D : n = Len(D) \/ n \in DOMAIN R
    BY <2>2, <2>6
  <2>8. \A r, s \in DOMAIN D : r # s => D[r].profile # D[s].profile
    BY <1>1, <2>4, <2>5, <2>6, <2>7
  <2>9. \A n \in DOMAIN D : D[n].profile = profile[j] \/ \E m \in DOMAIN desired : D[n] = desired[m]
    BY <1>1, <2>3, <2>6, <2>7
  <2>10. D # <<>>
    BY <2>2, <2>6
  <2> QED BY <1>1, <2>6, <2>8, <2>9, <2>10 DEF D, Desired
<1> QED BY <1>2, <1>3, <1>4

LEMMA CommitKeepsJobs ==
  ASSUME JobInv, NEW h \in Callers, Configure!Commit(h)
  PROVE  JobInv'
<1> DEFINE c == exchanges[h]
           j == c.job
<1>1. UNCHANGED <<profile, acs, history>> /\ job' = [job EXCEPT ![j] = Configure!Target(c)]
      /\ exchanges' = [exchanges EXCEPT ![h] = Configure!Idle]
  BY Zenon DEF Configure!Commit
<1>2. c # Configure!Idle /\ c \in Configure!Calls /\ j \in Jobs
      /\ c.op \in {"execute", "acknowledge", "fault", "verify"} /\ c.task \in 0..MaxTasks /\ c.match \in BOOLEAN
  BY DEF Configure!Commit, JobInv, Configure!TypeOK, Configure!Calls
<1>3. misread' = CASE c.op = "verify" /\ ~c.match -> misread \cup {j}
                   [] c.op = "fault" -> misread \ {j}
                   [] OTHER -> misread
  BY Zenon DEF Configure!Commit
<1>4. step' = CASE c.op = "execute" -> step \cup {c.task}
                [] c.op = "acknowledge" -> step \ {c.task}
                [] OTHER -> step
  BY Zenon DEF Configure!Commit
<1>5. IF c.op = "verify" /\ c.match
        THEN desired' = Configure!Snapshot(j) /\ verified' = Append(verified, j)
        ELSE UNCHANGED <<desired, verified>>
  BY Zenon DEF Configure!Commit
<1>6. /\ c.op \in {"acknowledge", "verify"} => Ran(j)
      /\ c.op = "verify" /\ ~c.match => RunOver(j)
  BY <1>2 DEF JobInv, CallsAreTrue
<1>7. Configure!Target(c) \in Configure!States
      /\ (Configure!Target(c) \in {"DEVICE_ACKNOWLEDGED", "SUCCEEDED"} => c.op \in {"acknowledge", "verify"})
  BY <1>2 DEF Configure!Target, Configure!States
<1>8. verified \in Seq(Jobs) /\ verified' \in Seq(Jobs)
  <2>1. verified \in Seq(Jobs)
    BY DEF JobInv, Configure!TypeOK
  <2> HIDE DEF j, c
  <2>2. verified' = verified \/ verified' = Append(verified, j)
    BY <1>5, Zenon
  <2> QED BY <1>2, <2>1, <2>2
<1>g. c.op = "execute" => c.task # 0
  BY <1>2 DEF JobInv, TasksGiven
<1> HIDE DEF c, j
<1>9. Configure!TypeOK'
  <2>1. misread' \subseteq Jobs
    BY <1>2, <1>3 DEF JobInv, Configure!TypeOK
  <2>2. step' \subseteq 1..MaxTasks
    <3>1. c.op = "execute" => c.task \in 1..MaxTasks
      BY <1>2, <1>g
    <3> QED BY <3>1, <1>2, <1>4 DEF JobInv, Configure!TypeOK
  <2>3. /\ desired' \in Seq([profile : {Version, Raw}, value : Jobs \cup {Version}])
        /\ \A r, s \in DOMAIN desired' : r # s => desired'[r].profile # desired'[s].profile
    <3>1. CASE UNCHANGED desired
      BY <3>1 DEF JobInv, Configure!TypeOK
    <3>2. CASE desired' = Configure!Snapshot(j)
      BY <1>2, <3>2, SnapshotFacts, Zenon
    <3> QED BY <1>5, <3>1, <3>2
  <2> QED BY <1>1, <1>2, <1>7, <1>8, <2>1, <2>2, <2>3 DEF JobInv, Configure!TypeOK
<1>10. TasksAreTrue'
  BY <1>1, <1>2, <1>3, <1>6, <1>7 DEF JobInv, Configure!TypeOK, TasksAreTrue, Ran, RunOver, Configure!Value
<1>11. CallsAreTrue' /\ TasksGiven'
  BY <1>1 DEF JobInv, Configure!TypeOK, CallsAreTrue, TasksGiven, Ran, RunOver, Configure!Value
<1>12. CASE ~(c.op = "verify" /\ c.match)
  <2>1. DesiredWasVerified' /\ Configure!DriftIsFromLastVerified'
    BY <1>1, <1>5, <1>12 DEF JobInv, DesiredWasVerified, Configure!DriftIsFromLastVerified, Configure!Last, Configure!Value
  <2> QED BY <1>9, <1>10, <1>11, <2>1 DEF JobInv
<1>13. CASE c.op = "verify" /\ c.match
  <2>1. desired' = Configure!Snapshot(j) /\ verified' = Append(verified, j)
    BY <1>5, <1>13
  <2>2. /\ Len(verified') = Len(verified) + 1 /\ Len(verified) \in Nat /\ verified'[Len(verified')] = j
        /\ \A m \in DOMAIN verified : m \in DOMAIN verified' /\ verified'[m] = verified[m] /\ m \in 1..(Len(verified') - 1)
        /\ Len(verified') \in DOMAIN verified' /\ Len(verified') - 1 = Len(verified)
    BY <1>2, <1>8, <2>1
  <2>3. /\ \A n \in DOMAIN desired' : desired'[n].profile = profile[j] \/ \E m \in DOMAIN desired : desired'[n] = desired[m]
        /\ \/ desired' # <<>> /\ desired'[Len(desired')].value = Configure!Value(j)
           \/ /\ desired' = desired /\ profile[j] # Raw
              /\ \E n \in DOMAIN desired : desired[n].profile = profile[j]
    BY <1>2, <2>1, SnapshotFacts, Zenon
  <2>4. DesiredWasVerified'
    <3> SUFFICES ASSUME NEW n \in DOMAIN desired' PROVE \E m \in DOMAIN verified' : profile[verified'[m]] = desired'[n].profile
      BY <1>1 DEF DesiredWasVerified
    <3>1. CASE desired'[n].profile = profile[j]
      BY <3>1, <2>2
    <3>2. ASSUME NEW m \in DOMAIN desired, desired'[n] = desired[m]
          PROVE  \E k \in DOMAIN verified' : profile[verified'[k]] = desired'[n].profile
      BY <3>2, <2>2 DEF JobInv, DesiredWasVerified
    <3> QED BY <2>3, <3>1, <3>2
  <2>5. Configure!DriftIsFromLastVerified'
    <3>1. CASE desired'[Len(desired')].value = Configure!Value(j)
      BY <1>1, <2>2, <3>1 DEF Configure!DriftIsFromLastVerified, Configure!Last, Configure!Value
    <3>2. ASSUME profile[j] # Raw, NEW n \in DOMAIN desired, desired[n].profile = profile[j]
          PROVE  Configure!DriftIsFromLastVerified'
      <4>1. PICK m \in DOMAIN verified : profile[verified[m]] = profile[j]
        BY <3>2 DEF JobInv, DesiredWasVerified
      <4>2. m \in 1..(Len(verified') - 1) /\ profile'[verified'[m]] = profile'[verified'[Len(verified')]]
            /\ profile'[verified'[Len(verified')]] # Raw
        BY <1>1, <2>2, <3>2, <4>1
      <4> QED BY <4>2 DEF Configure!DriftIsFromLastVerified, Configure!Last
    <3> QED BY <2>3, <3>1, <3>2
  <2> QED BY <1>9, <1>10, <1>11, <2>4, <2>5 DEF JobInv
<1> QED BY <1>12, <1>13

LEMMA DieKeepsJobs ==
  ASSUME JobInv, NEW h \in Callers, Configure!Die(h)
  PROVE  JobInv'
<1>1. UNCHANGED <<profile, job, misread, acs, step, history, desired, verified>>
      /\ exchanges' = [exchanges EXCEPT ![h] = Configure!Idle]
  BY DEF Configure!Die
<1>2. Configure!TypeOK'
  BY <1>1 DEF JobInv, Configure!TypeOK
<1>3. CallsAreTrue' /\ TasksGiven'
  BY <1>1, SMTT(30) DEF JobInv, Configure!TypeOK, CallsAreTrue, TasksGiven, Ran, RunOver, Configure!Value
<1> QED BY <1>1, <1>2, <1>3
        DEF JobInv, TasksAreTrue, Ran, RunOver, DesiredWasVerified, Configure!DriftIsFromLastVerified,
            Configure!Last, Configure!Value

LEMMA JobsBegin == Configure!Init => JobInv
<1> SUFFICES ASSUME Configure!Init PROVE JobInv
  OBVIOUS
<1>1. MaxTasks \in Nat
  BY FieldAssumption DEF Configure!JobsAssumption
<1>2. Configure!TypeOK
  BY <1>1 DEF Configure!Init, Configure!TypeOK, Configure!States
<1>3. CallsAreTrue /\ TasksGiven /\ TasksAreTrue
  BY DEF Configure!Init, CallsAreTrue, TasksGiven, TasksAreTrue
<1>4. DesiredWasVerified /\ Configure!DriftIsFromLastVerified
  BY DEF Configure!Init, DesiredWasVerified, Configure!DriftIsFromLastVerified
<1> QED BY <1>2, <1>3, <1>4 DEF JobInv

LEMMA JobsStep == JobInv /\ [Configure!Next]_(Configure!vars) => JobInv'
<1> SUFFICES ASSUME JobInv, [Configure!Next]_(Configure!vars) PROVE JobInv'
  OBVIOUS
<1>1. ASSUME NEW t \in DOMAIN acs, NEW result \in {"COMPLETED", "FAULTED"}, Configure!Inform(t, result) PROVE JobInv'
  BY <1>1, InformKeepsJobs
<1>2. ASSUME NEW j \in Jobs, NEW state \in Configure!States, Configure!Request(j, state) PROVE JobInv'
  BY <1>2, RequestKeepsJobs
<1>3. ASSUME NEW h \in Callers, Configure!Commit(h) \/ Configure!Die(h) PROVE JobInv'
  BY <1>3, CommitKeepsJobs, DieKeepsJobs
<1>4. ASSUME NEW h \in Callers,
             \/ \E t \in DOMAIN acs : Configure!Poll(h, t)
             \/ \E j \in Jobs : Configure!Execute(h, j) \/ Configure!Verify(h, j)
      PROVE  JobInv'
  BY <1>4, CallsStart
<1>5. CASE UNCHANGED Configure!vars
  BY <1>5 DEF Configure!vars, JobInv, Configure!TypeOK, CallsAreTrue, TasksGiven, TasksAreTrue, Ran, RunOver,
      DesiredWasVerified, Configure!DriftIsFromLastVerified, Configure!Last, Configure!Value
<1> QED BY <1>1, <1>2, <1>3, <1>4, <1>5 DEF Configure!Next

\* What the property says of results and of the desired state.
LEMMA JobOutcomes == JobInv => OutcomesAreTrue
<1> SUFFICES ASSUME JobInv PROVE OutcomesAreTrue
  OBVIOUS
<1>1. history \in Seq(Jobs) /\ misread \subseteq Jobs
  BY DEF JobInv, Configure!TypeOK
<1>2. Configure!ResultsAreTrue
  BY <1>1 DEF JobInv, TasksAreTrue, Ran, RunOver, Configure!ResultsAreTrue, Configure!Contains
<1> QED BY <1>2 DEF JobInv, OutcomesAreTrue, Configure!OutcomesAreTrue

---------------------------------------------------------------------------
(* Remediation intents *)

Executed == {"STARTED", "COMPLETED"}
Afterwards == {"STARTED", "COMPLETED", "FAILED", "COMPENSATED"}

\* The row of an intent counts what it completed, of what it executed, within
\* the budget.
Counted(r) ==
  /\ r.budget <= r.attempt /\ r.budget <= Budget
  /\ r.state = "STARTED" => r.budget < r.attempt /\ r.budget < Budget

\* What a request in flight read is what its operation asks of a row.
RequestsAccepted ==
  \A h \in Handlers : requests[h] # Remedy!Idle =>
    LET t == requests[h] IN
    /\ Counted(t.seen)
    /\ t.op = "approve" => t.seen.state = "PENDING" /\ level = "L2" /\ t.user \in Users \ {t.seen.by}
    /\ t.op = "reject" => t.seen.state = "PENDING" /\ t.user \in Users
    /\ t.op = "execute" =>
         /\ level = "L2" => t.seen.state = "APPROVED"
         /\ t.seen.attempt < MaxAttempts /\ t.seen.budget < Budget
    /\ t.op \in {"complete", "fail", "compensate"} => t.seen.state = "STARTED"

\* The only decision on an intent approves it, and is not its requester's.
OthersApproval(r, D) == \E u \in Users \ {r.by} : D = {<<u, "APPROVED">>}

\* An L2 intent was decided before it was executed, once.
Decided(r, D) ==
  /\ \/ r.attempt = 0 /\ r.state \in {"ABSENT", "PENDING", "APPROVED", "REJECTED"}
     \/ r.attempt = 1 /\ r.state \in Afterwards /\ OthersApproval(r, D)
  /\ r.state = "APPROVED" => OthersApproval(r, D)
  /\ r.state \in {"ABSENT", "PENDING"} => D = {}

\* Nothing else was executed since an execution in flight passed the gates of
\* rate and cooldown: they still let it pass.
StillPasses ==
  \A h \in Handlers :
    requests[h] # Remedy!Idle /\ requests[h].op = "execute" /\ requests[h].executions = Remedy!Executions =>
      /\ Cardinality(Remedy!Recent(Executed)) < Limit
      /\ \A j \in Intents : intent[j].executed # Never => now - intent[j].executed >= Cooldown

\* The executions a request read are among those there are.
ReadBefore ==
  \A h \in Handlers : requests[h] # Remedy!Idle =>
    \A i \in Intents : requests[h].executions[i] <= intent[i].attempt

\* Two executions of different intents are a cooldown apart.
Apart ==
  \A i, j \in Intents :
    i # j /\ intent[i].executed # Never /\ intent[j].executed # Never =>
      \/ intent[i].executed >= intent[j].executed + Cooldown
      \/ intent[j].executed >= intent[i].executed + Cooldown

WithinLimits ==
  /\ \A i \in Intents : Counted(intent[i]) /\ (level = "L2" => Decided(intent[i], decisions[i]))
  /\ Cardinality(Remedy!Recent(Executed)) <= Limit
  /\ StillPasses /\ ReadBefore /\ Apart

\* The remediation invariant.
RemedyInv == Remedy!TypeOK /\ RequestsAccepted /\ (~overlapped => WithinLimits)

LEMMA RemedyConstants ==
  /\ IsFiniteSet(Intents) /\ Never \notin Nat \cup Users
  /\ Limit \in Nat /\ Budget \in Nat /\ Threshold \in Nat /\ Cooldown \in Nat /\ Hour \in Nat
  /\ MaxTime \in Nat /\ MaxAttempts \in Nat
  /\ \A S : Remedy!Cardinality(S) = Cardinality(S)
<1>1. \A S : Remedy!Cardinality(S) = Cardinality(S)
  BY DEF Remedy!Cardinality, Cardinality
<1>2. \A S : Remedy!IsFiniteSet(S) = IsFiniteSet(S)
  BY DEF Remedy!IsFiniteSet, IsFiniteSet
<1> QED BY <1>1, <1>2, FieldAssumption DEF Remedy!IntentsAssumption

\* The size of a set of intents that has no other members, or one more.
LEMMA CountIntents ==
  ASSUME NEW B \in SUBSET Intents, NEW A \in SUBSET Intents
  PROVE  /\ Cardinality(A) \in Nat /\ Cardinality(B) \in Nat
         /\ A \subseteq B => Cardinality(A) <= Cardinality(B)
         /\ \A i \in Intents : A \subseteq B \cup {i} => Cardinality(A) <= Cardinality(B) + 1
<1>1. IsFiniteSet(A) /\ IsFiniteSet(B)
  BY RemedyConstants, FS_Subset
<1>2. Cardinality(A) \in Nat /\ Cardinality(B) \in Nat /\ (A \subseteq B => Cardinality(A) <= Cardinality(B))
  BY <1>1, FS_CardinalityType, FS_Subset
<1>3. ASSUME NEW i \in Intents, A \subseteq B \cup {i} PROVE Cardinality(A) <= Cardinality(B) + 1
  <2>1. /\ IsFiniteSet(B \cup {i}) /\ Cardinality(B \cup {i}) \in Nat
        /\ Cardinality(B \cup {i}) = Cardinality(B) \/ Cardinality(B \cup {i}) = Cardinality(B) + 1
    BY <1>1, FS_AddElement, FS_CardinalityType
  <2>2. Cardinality(A) <= Cardinality(B \cup {i})
    BY <1>3, <2>1, FS_Subset
  <2> QED BY <1>2, <2>1, <2>2
<1> QED BY <1>2, <1>3

\* An operation makes a row of a row it was accepted on.
LEMMA AfterIsRow ==
  ASSUME NEW r \in Remedy!Row, NEW op \in Remedy!Operations, now \in Remedy!Dates,
         op = "execute" => r.attempt < MaxAttempts, op = "complete" => r.budget < r.attempt
  PROVE  Remedy!After(op, r) \in Remedy!Row
<1>1. MaxAttempts \in Nat
  BY RemedyConstants
<1>2. CASE op = "execute"
  <2>1. r.attempt + 1 \in 0..MaxAttempts
    BY <1>1, <1>2 DEF Remedy!Row
  <2> QED BY <1>2, <2>1 DEF Remedy!After, Remedy!Row, Remedy!States
<1>3. CASE op = "complete"
  <2>1. r.budget + 1 \in 0..MaxAttempts
    BY <1>1, <1>3 DEF Remedy!Row
  <2> QED BY <1>3, <2>1 DEF Remedy!After, Remedy!Row, Remedy!States
<1>4. CASE op \in {"approve", "reject", "fail", "compensate"}
  BY <1>4 DEF Remedy!After, Remedy!Row, Remedy!States
<1> QED BY <1>2, <1>3, <1>4 DEF Remedy!Operations

\* A step that executes nothing, and after which no more intents count for the
\* rate, keeps rate and cooldown.
LEMMA NothingExecuted ==
  ASSUME Remedy!TypeOK, WithinLimits, now' \in Nat, now <= now',
         \A i \in Intents : intent'[i].attempt = intent[i].attempt /\ intent'[i].executed = intent[i].executed,
         \A i \in Remedy!Recent(Executed)' : i \in Remedy!Recent(Executed),
         \A h \in Handlers : requests'[h] \in {requests[h], Remedy!Idle}
  PROVE  Cardinality(Remedy!Recent(Executed)') <= Limit /\ StillPasses' /\ ReadBefore' /\ Apart'
<1>1. Remedy!Recent(Executed)' \in SUBSET Intents /\ Remedy!Recent(Executed) \in SUBSET Intents
  BY DEF Remedy!Recent
<1>2. /\ Cardinality(Remedy!Recent(Executed)') <= Cardinality(Remedy!Recent(Executed))
      /\ Cardinality(Remedy!Recent(Executed)') \in Nat /\ Cardinality(Remedy!Recent(Executed)) \in Nat
  BY <1>1, CountIntents
<1>3. Remedy!Executions' = Remedy!Executions
  BY DEF Remedy!Executions
<1>4. Limit \in Nat /\ Cooldown \in Nat /\ Never \notin Nat
  BY RemedyConstants
<1>5. now \in Nat /\ \A i \in Intents : intent[i].executed \in Nat \cup {Never}
  BY DEF Remedy!TypeOK, Remedy!Row, Remedy!Dates
<1>6. Cardinality(Remedy!Recent(Executed)') <= Limit
  BY <1>2, <1>4 DEF WithinLimits
<1>7. StillPasses'
  <2> SUFFICES ASSUME NEW h \in Handlers, requests'[h] # Remedy!Idle, requests'[h].op = "execute",
                      requests'[h].executions = Remedy!Executions'
               PROVE  /\ Cardinality(Remedy!Recent(Executed)') < Limit
                      /\ \A j \in Intents : intent'[j].executed # Never => now' - intent'[j].executed >= Cooldown
    BY DEF StillPasses
  <2>1. requests'[h] = requests[h]
    OBVIOUS
  <2>2. /\ Cardinality(Remedy!Recent(Executed)) < Limit
        /\ \A j \in Intents : intent[j].executed # Never => now - intent[j].executed >= Cooldown
    BY <1>3, <2>1 DEF WithinLimits, StillPasses
  <2>3. ASSUME NEW j \in Intents, intent'[j].executed # Never PROVE now' - intent'[j].executed >= Cooldown
    BY <1>4, <1>5, <2>2, <2>3
  <2> QED BY <1>2, <1>4, <2>2, <2>3
<1>8. ReadBefore' /\ Apart'
  BY DEF WithinLimits, ReadBefore, Apart
<1> QED BY <1>6, <1>7, <1>8

\* The clock, the kill switch and new intents.
LEMMA OthersKeepRemedy ==
  ASSUME RemedyInv, ~overlapped,
         Remedy!Tick \/ Remedy!Toggle \/ \E i \in Intents, u \in Users : Remedy!Create(i, u)
  PROVE  RemedyInv'
<1>0. Remedy!TypeOK /\ WithinLimits /\ UNCHANGED <<level, decisions, requests, overlapped>>
      /\ MaxTime \in Nat /\ MaxAttempts \in Nat /\ Budget \in Nat
  BY RemedyConstants DEF RemedyInv, Remedy!Tick, Remedy!Toggle, Remedy!Create
<1>1. CASE Remedy!Tick \/ Remedy!Toggle
  <2>1. UNCHANGED intent /\ now' \in Remedy!Dates /\ now <= now' /\ killed' \in BOOLEAN
    <3>1. now \in Remedy!Dates /\ killed \in BOOLEAN
      BY <1>0 DEF Remedy!TypeOK
    <3>2. CASE Remedy!Tick
      BY <1>0, <3>1, <3>2 DEF Remedy!Tick, Remedy!Dates
    <3>3. CASE Remedy!Toggle
      <4>1. killed' = ~killed /\ UNCHANGED <<intent, now>>
        BY <3>3 DEF Remedy!Toggle
      <4>2. killed' \in BOOLEAN
        BY <4>1, Zenon
      <4> QED BY <3>1, <4>1, <4>2 DEF Remedy!Dates
    <3> QED BY <1>1, <3>2, <3>3
  <2>2. Remedy!TypeOK'
    BY <1>0, <2>1 DEF Remedy!TypeOK
  <2>3. \A i \in Remedy!Recent(Executed)' : i \in Remedy!Recent(Executed)
    BY <1>0, <2>1, RemedyConstants DEF Remedy!Recent, Remedy!TypeOK, Remedy!Row, Remedy!Dates
  <2>4. Cardinality(Remedy!Recent(Executed)') <= Limit /\ StillPasses' /\ ReadBefore' /\ Apart'
    BY <1>0, <2>1, <2>3, NothingExecuted DEF Remedy!Dates
  <2> QED BY <1>0, <2>1, <2>2, <2>4 DEF RemedyInv, RequestsAccepted, WithinLimits
<1>2. ASSUME NEW i \in Intents, NEW u \in Users, Remedy!Create(i, u) PROVE RemedyInv'
  <2> DEFINE new == [Remedy!NoIntent EXCEPT !.state = "PENDING", !.by = u, !.requested = now]
  <2>1. UNCHANGED <<now, killed>> /\ intent[i] = Remedy!NoIntent /\ intent' = [intent EXCEPT ![i] = new]
    BY <1>2 DEF Remedy!Create
  <2>2. /\ new.state = "PENDING" /\ new.by = u /\ new.attempt = 0 /\ new.budget = 0 /\ new.executed = Never
        /\ new \in Remedy!Row
    <3>1. intent[i] \in Remedy!Row /\ intent[i].attempt = 0 /\ intent[i].budget = 0 /\ intent[i].executed = Never
          /\ now \in Remedy!Dates
      BY <1>0, <2>1 DEF Remedy!NoIntent, Remedy!TypeOK
    <3>2. new = [intent[i] EXCEPT !.state = "PENDING", !.by = u, !.requested = now]
      BY <2>1
    <3> HIDE DEF new
    <3> QED BY <3>1, <3>2 DEF Remedy!Row, Remedy!States
  <2> HIDE DEF new
  <2>3. new \in Remedy!Row
    BY <2>2
  <2>4. \A j \in Intents : intent'[j] = IF j = i THEN new ELSE intent[j]
    BY <1>0, <2>1 DEF Remedy!TypeOK
  <2>5. Remedy!TypeOK'
    BY <1>0, <2>1, <2>3 DEF Remedy!TypeOK
  <2>6. \A j \in Remedy!Recent(Executed)' : j \in Remedy!Recent(Executed)
    BY <2>1, <2>2, <2>4 DEF Remedy!Recent, Executed
  <2>7. \A j \in Intents : intent'[j].attempt = intent[j].attempt /\ intent'[j].executed = intent[j].executed
    BY <2>1, <2>2, <2>4 DEF Remedy!NoIntent
  <2>8. now' \in Nat /\ now <= now'
    BY <1>0, <2>1 DEF Remedy!TypeOK, Remedy!Dates
  <2>9. Cardinality(Remedy!Recent(Executed)') <= Limit /\ StillPasses' /\ ReadBefore' /\ Apart'
    BY <1>0, <2>6, <2>7, <2>8, NothingExecuted
  <2>10. ASSUME NEW j \in Intents
         PROVE  Counted(intent'[j]) /\ (level = "L2" => Decided(intent'[j], decisions[j]))
    <3>1. CASE j = i
      <4>1. level = "L2" => decisions[i] = {}
        BY <1>0, <2>1 DEF WithinLimits, Decided, Remedy!NoIntent
      <4>2. Budget >= 0
        BY <1>0
      <4> QED BY <2>2, <2>4, <3>1, <4>1, <4>2 DEF Counted, Decided
    <3>2. CASE j # i
      BY <1>0, <2>4, <3>2 DEF WithinLimits
    <3> QED BY <3>1, <3>2
  <2>11. RequestsAccepted'
    BY <1>0 DEF RemedyInv, RequestsAccepted
  <2> QED BY <1>0, <2>5, <2>9, <2>10, <2>11 DEF RemedyInv, WithinLimits
<1> QED BY <1>1, <1>2

LEMMA FailKeepsRemedy ==
  ASSUME RemedyInv, ~overlapped, NEW h \in Handlers, Remedy!Fail(h)
  PROVE  RemedyInv'
<1>1. UNCHANGED <<level, intent, decisions, killed, now, overlapped>> /\ requests' = [requests EXCEPT ![h] = Remedy!Idle]
      /\ Remedy!TypeOK /\ WithinLimits
  BY DEF Remedy!Fail, RemedyInv
<1>2. \A g \in Handlers : requests'[g] = IF g = h THEN Remedy!Idle ELSE requests[g]
  BY <1>1 DEF Remedy!TypeOK
<1>3. Remedy!TypeOK'
  BY <1>1 DEF Remedy!TypeOK
<1>4. RequestsAccepted'
  BY <1>1, <1>2 DEF RemedyInv, RequestsAccepted
<1>5. now' \in Nat /\ now <= now' /\ \A i \in Remedy!Recent(Executed)' : i \in Remedy!Recent(Executed)
  BY <1>1 DEF Remedy!TypeOK, Remedy!Dates, Remedy!Recent
<1>6. Cardinality(Remedy!Recent(Executed)') <= Limit /\ StillPasses' /\ ReadBefore' /\ Apart'
  BY <1>1, <1>2, <1>5, NothingExecuted
<1> QED BY <1>1, <1>3, <1>4, <1>6 DEF RemedyInv, WithinLimits

LEMMA BeginKeepsRemedy ==
  ASSUME RemedyInv, ~overlapped, NEW h \in Handlers, NEW op \in Remedy!Operations, NEW i \in Intents,
         NEW u \in Users \cup {Never}, Remedy!Begin(h, op, i, u)
  PROVE  RemedyInv'
<1> DEFINE new == [op |-> op, i |-> i, user |-> u, seen |-> intent[i], executions |-> Remedy!Executions]
<1>1. /\ UNCHANGED <<level, intent, decisions, killed, now, overlapped>> /\ requests' = [requests EXCEPT ![h] = new]
      /\ Remedy!TypeOK /\ WithinLimits /\ Remedy!Accepts(op, i, u) /\ (op \in {"approve", "reject"} <=> u # Never)
  BY DEF Remedy!Begin, RemedyInv
<1>2. intent[i] \in Remedy!Row /\ Remedy!Executions \in [Intents -> 0..MaxAttempts]
      /\ \A j \in Intents : Remedy!Executions[j] = intent[j].attempt /\ intent[j].attempt \in Nat
  BY <1>1 DEF Remedy!TypeOK, Remedy!Row, Remedy!Executions
<1>3. new \in Remedy!Calls
  BY <1>2 DEF Remedy!Calls
<1> DEFINE other == requests
<1>4. \A g \in Handlers : requests'[g] = IF g = h THEN new ELSE requests[g]
  BY <1>1 DEF Remedy!TypeOK
<1>n. new.op = op /\ new.user = u /\ new.seen = intent[i] /\ new.executions = Remedy!Executions
  OBVIOUS
<1> HIDE DEF new
<1>5. Remedy!TypeOK'
  BY <1>1, <1>3 DEF Remedy!TypeOK
<1>6. RequestsAccepted'
  <2>1. /\ Counted(intent[i])
        /\ op = "approve" => intent[i].state = "PENDING" /\ level = "L2" /\ u \in Users \ {intent[i].by}
        /\ op = "reject" => intent[i].state = "PENDING" /\ u \in Users
        /\ op = "execute" =>
             /\ level = "L2" => intent[i].state = "APPROVED"
             /\ intent[i].attempt < MaxAttempts /\ intent[i].budget < Budget
        /\ op \in {"complete", "fail", "compensate"} => intent[i].state = "STARTED"
    BY <1>1 DEF WithinLimits, Remedy!Accepts, Remedy!Gates
  <2> QED BY <1>1, <1>4, <1>n, <2>1 DEF RemedyInv, RequestsAccepted
<1>7. StillPasses' /\ ReadBefore' /\ Apart'
  <2>1. op = "execute" =>
          /\ Cardinality(Remedy!Recent(Executed)) < Limit
          /\ \A j \in Intents : intent[j].executed # Never => now - intent[j].executed >= Cooldown
    BY <1>1, RemedyConstants DEF Remedy!Accepts, Remedy!Gates, Executed
  <2>2. Remedy!Recent(Executed)' = Remedy!Recent(Executed) /\ Remedy!Executions' = Remedy!Executions
    BY <1>1 DEF Remedy!Recent, Remedy!Executions
  <2>3. StillPasses'
    BY <1>1, <1>4, <1>n, <2>1, <2>2 DEF WithinLimits, StillPasses
  <2>4. ReadBefore'
    BY <1>1, <1>2, <1>4, <1>n DEF WithinLimits, ReadBefore
  <2> QED BY <1>1, <2>3, <2>4 DEF WithinLimits, Apart
<1> QED BY <1>1, <1>5, <1>6, <1>7 DEF RemedyInv, WithinLimits, Remedy!Recent

\* What a commit writes: columns of the row its request makes of what it read.
LEMMA CommitRow ==
  ASSUME RemedyInv, NEW h \in Handlers, Remedy!Commit(h)
  PROVE  LET t == requests[h]
             new == Remedy!After(t.op, t.seen)
         IN /\ t \in Remedy!Calls /\ t # Remedy!Idle /\ new \in Remedy!Row
            /\ \A j \in Intents \ {t.i} : intent'[j] = intent[j]
            /\ intent'[t.i] \in Remedy!Row
            /\ intent[t.i] = t.seen => intent'[t.i] = new
            /\ intent' \in [Intents -> Remedy!Row]
<1> DEFINE t == requests[h]
           new == Remedy!After(t.op, t.seen)
           written == [f \in DOMAIN intent[t.i] |-> Remedy!Column(t.seen[f], new[f], intent[t.i][f])]
<1>1. /\ t # Remedy!Idle /\ t \in Remedy!Calls /\ t.i \in Intents /\ t.seen \in Remedy!Row
      /\ t.op \in Remedy!Operations
      /\ intent \in [Intents -> Remedy!Row] /\ now \in Remedy!Dates
      /\ intent' = [intent EXCEPT ![t.i] = written]
  BY DEF Remedy!Commit, RemedyInv, Remedy!TypeOK, Remedy!Calls
<1>2. new \in Remedy!Row
  <2>1. /\ t.op = "execute" => t.seen.attempt < MaxAttempts
        /\ t.op = "complete" => t.seen.budget < t.seen.attempt
    BY <1>1 DEF RemedyInv, RequestsAccepted, Counted
  <2> QED BY <1>1, <2>1, AfterIsRow
<1> HIDE DEF new, t
<1>3. written \in Remedy!Row
  <2>1. DOMAIN intent[t.i] = {"state", "by", "attempt", "budget", "requested", "executed"}
    BY <1>1 DEF Remedy!Row
  <2>2. written = [state |-> Remedy!Column(t.seen.state, new.state, intent[t.i].state),
                   by |-> Remedy!Column(t.seen.by, new.by, intent[t.i].by),
                   attempt |-> Remedy!Column(t.seen.attempt, new.attempt, intent[t.i].attempt),
                   budget |-> Remedy!Column(t.seen.budget, new.budget, intent[t.i].budget),
                   requested |-> Remedy!Column(t.seen.requested, new.requested, intent[t.i].requested),
                   executed |-> Remedy!Column(t.seen.executed, new.executed, intent[t.i].executed)]
    BY <2>1
  <2> HIDE DEF written
  <2> QED BY <1>1, <1>2, <2>2 DEF Remedy!Row, Remedy!Column
<1>4. ASSUME intent[t.i] = t.seen PROVE written = new
  <2>1. written = [f \in DOMAIN new |-> new[f]]
    BY <1>1, <1>2, <1>4 DEF Remedy!Row, Remedy!Column
  <2> QED BY <1>2, <2>1 DEF Remedy!Row
<1> HIDE DEF written
<1> QED BY <1>1, <1>2, <1>3, <1>4 DEF t, new

\* The row after an operation that executes nothing.
LEMMA AfterOthers ==
  ASSUME NEW r \in Remedy!Row, NEW op \in Remedy!Operations \ {"execute"}
  PROVE  LET new == Remedy!After(op, r) IN
         /\ new.attempt = r.attempt /\ new.executed = r.executed /\ new.requested = r.requested /\ new.by = r.by
         /\ new.budget = IF op = "complete" THEN r.budget + 1 ELSE r.budget
         /\ new.state = CASE op = "approve" -> "APPROVED" [] op = "reject" -> "REJECTED" [] op = "complete" -> "COMPLETED"
                          [] op = "fail" -> "FAILED" [] op = "compensate" -> "COMPENSATED"
BY DEF Remedy!After, Remedy!Operations, Remedy!Row

LEMMA AfterExecution ==
  ASSUME NEW r \in Remedy!Row
  PROVE  LET new == Remedy!After("execute", r) IN
         /\ new.attempt = r.attempt + 1 /\ new.executed = now /\ new.requested = r.requested /\ new.by = r.by
         /\ new.budget = r.budget /\ new.state = "STARTED"
BY DEF Remedy!After, Remedy!Row

LEMMA CommitDecisions ==
  ASSUME RemedyInv, NEW h \in Handlers, Remedy!Commit(h)
  PROVE  LET t == requests[h] IN
         /\ decisions' \in [Intents -> SUBSET (Users \X {"APPROVED", "REJECTED"})]
         /\ \A j \in Intents \ {t.i} : decisions'[j] = decisions[j]
         /\ t.op = "approve" => decisions'[t.i] = decisions[t.i] \cup {<<t.user, "APPROVED">>}
         /\ t.op \notin {"approve", "reject"} => decisions'[t.i] = decisions[t.i]
<1> DEFINE t == requests[h]
           verdict == [approve |-> "APPROVED", reject |-> "REJECTED"]
           added == {<<t.user, verdict[op]>> : op \in {t.op} \cap DOMAIN verdict}
<1>1. /\ t # Remedy!Idle /\ t \in Remedy!Calls /\ t.i \in Intents /\ t.op \in Remedy!Operations
      /\ decisions \in [Intents -> SUBSET (Users \X {"APPROVED", "REJECTED"})]
      /\ decisions' = [decisions EXCEPT ![t.i] = @ \cup added]
  BY DEF Remedy!Commit, RemedyInv, Remedy!TypeOK, Remedy!Calls
<1>2. DOMAIN verdict = {"approve", "reject"} /\ verdict["approve"] = "APPROVED" /\ verdict["reject"] = "REJECTED"
  OBVIOUS
<1>3. t.op \in {"approve", "reject"} => t.user \in Users
  BY <1>1 DEF RemedyInv, RequestsAccepted
<1>4. /\ t.op = "approve" => added = {<<t.user, "APPROVED">>}
      /\ t.op = "reject" => added = {<<t.user, "REJECTED">>}
      /\ t.op \notin {"approve", "reject"} => added = {}
  BY <1>2
<1> HIDE DEF added, t, verdict
<1>5. added \subseteq Users \X {"APPROVED", "REJECTED"}
  BY <1>3, <1>4
<1> QED BY <1>1, <1>4, <1>5 DEF t

LEMMA CommitKeepsRemedy ==
  ASSUME RemedyInv, ~overlapped, NEW h \in Handlers, Remedy!Commit(h)
  PROVE  RemedyInv'
<1> DEFINE t == requests[h]
           new == Remedy!After(t.op, t.seen)
<1>1. UNCHANGED <<level, killed, now>> /\ requests' = [requests EXCEPT ![h] = Remedy!Idle]
      /\ Remedy!TypeOK /\ WithinLimits /\ Never \notin Nat /\ Budget \in Nat /\ Limit \in Nat /\ Cooldown \in Nat
  BY RemedyConstants DEF Remedy!Commit, RemedyInv
<1>2. /\ t \in Remedy!Calls /\ t # Remedy!Idle /\ new \in Remedy!Row /\ t.i \in Intents /\ t.seen \in Remedy!Row
      /\ t.op \in Remedy!Operations
      /\ \A j \in Intents \ {t.i} : intent'[j] = intent[j] /\ decisions'[j] = decisions[j]
      /\ intent[t.i] = t.seen => intent'[t.i] = new
      /\ intent' \in [Intents -> Remedy!Row]
      /\ decisions' \in [Intents -> SUBSET (Users \X {"APPROVED", "REJECTED"})]
      /\ t.op = "approve" => decisions'[t.i] = decisions[t.i] \cup {<<t.user, "APPROVED">>}
      /\ t.op \notin {"approve", "reject"} => decisions'[t.i] = decisions[t.i]
  BY CommitRow, CommitDecisions DEF Remedy!Calls
<1>3. overlapped' = (overlapped \/ intent[t.i] # t.seen \/ (t.op = "execute" /\ Remedy!Executions # t.executions))
  BY DEF Remedy!Commit
<1>4. /\ Counted(t.seen)
      /\ t.op = "approve" => t.seen.state = "PENDING" /\ level = "L2" /\ t.user \in Users \ {t.seen.by}
      /\ t.op = "reject" => t.seen.state = "PENDING" /\ t.user \in Users
      /\ t.op = "execute" =>
           /\ level = "L2" => t.seen.state = "APPROVED"
           /\ t.seen.attempt < MaxAttempts /\ t.seen.budget < Budget
      /\ t.op \in {"complete", "fail", "compensate"} => t.seen.state = "STARTED"
  BY <1>2 DEF RemedyInv, RequestsAccepted
<1>o. t.op # "execute" =>
        /\ new.attempt = t.seen.attempt /\ new.executed = t.seen.executed /\ new.requested = t.seen.requested
        /\ new.by = t.seen.by /\ new.budget = IF t.op = "complete" THEN t.seen.budget + 1 ELSE t.seen.budget
        /\ new.state = CASE t.op = "approve" -> "APPROVED" [] t.op = "reject" -> "REJECTED"
                         [] t.op = "complete" -> "COMPLETED" [] t.op = "fail" -> "FAILED"
                         [] t.op = "compensate" -> "COMPENSATED"
  <2> SUFFICES ASSUME t.op # "execute"
               PROVE  /\ new.attempt = t.seen.attempt /\ new.executed = t.seen.executed
                      /\ new.requested = t.seen.requested /\ new.by = t.seen.by
                      /\ new.budget = IF t.op = "complete" THEN t.seen.budget + 1 ELSE t.seen.budget
                      /\ new.state = CASE t.op = "approve" -> "APPROVED" [] t.op = "reject" -> "REJECTED"
                                       [] t.op = "complete" -> "COMPLETED" [] t.op = "fail" -> "FAILED"
                                       [] t.op = "compensate" -> "COMPENSATED"
    OBVIOUS
  <2>1. t.op \in Remedy!Operations \ {"execute"} /\ t.seen \in Remedy!Row
    BY <1>2
  <2> HIDE DEF t
  <2> QED BY <2>1, AfterOthers, Zenon
<1>e. t.op = "execute" =>
        /\ new.attempt = t.seen.attempt + 1 /\ new.executed = now /\ new.requested = t.seen.requested
        /\ new.by = t.seen.by /\ new.budget = t.seen.budget /\ new.state = "STARTED"
  BY <1>2, AfterExecution
<1>5. \A g \in Handlers : requests'[g] = IF g = h THEN Remedy!Idle ELSE requests[g]
  BY <1>1 DEF Remedy!TypeOK
<1> HIDE DEF t, new
<1>6. Remedy!TypeOK'
  <2>1. overlapped' \in BOOLEAN
    BY <1>3, Zenon
  <2> QED BY <1>1, <1>2, <2>1 DEF Remedy!TypeOK
<1>7. RequestsAccepted'
  BY <1>1, <1>5 DEF RemedyInv, RequestsAccepted
<1>8. ASSUME ~overlapped' PROVE WithinLimits'
  <2>1. intent[t.i] = t.seen /\ intent'[t.i] = new /\ (t.op = "execute" => Remedy!Executions = t.executions)
    BY <1>2, <1>3, <1>8
  <2>t. /\ t.seen.attempt \in Nat /\ t.seen.budget \in Nat /\ t.seen.executed \in Nat \cup {Never}
        /\ now \in Nat /\ \A j \in Intents : intent[j].attempt \in Nat /\ intent[j].executed \in Nat \cup {Never}
    BY <1>1, <1>2 DEF Remedy!TypeOK, Remedy!Row, Remedy!Dates
  <2>2. ASSUME NEW j \in Intents
        PROVE  Counted(intent'[j]) /\ (level = "L2" => Decided(intent'[j], decisions'[j]))
    <3>1. CASE j # t.i
      BY <1>1, <1>2, <3>1 DEF WithinLimits
    <3>2. CASE j = t.i /\ t.op = "execute"
      <4>1. Counted(new)
        BY <1>4, <1>e, <2>t, <3>2 DEF Counted
      <4>2. level = "L2" => Decided(t.seen, decisions[t.i])
        BY <1>1, <1>2, <2>1 DEF WithinLimits
      <4>3. level = "L2" => Decided(new, decisions[t.i])
        <5> SUFFICES ASSUME level = "L2" PROVE Decided(new, decisions[t.i])
          OBVIOUS
        <5>1. t.seen.state = "APPROVED" /\ t.seen.attempt = 0 /\ OthersApproval(t.seen, decisions[t.i])
          BY <1>4, <3>2, <4>2 DEF Decided, Afterwards
        <5>2. OthersApproval(new, decisions[t.i])
          BY <1>e, <3>2, <5>1 DEF OthersApproval
        <5> QED BY <1>e, <3>2, <5>1, <5>2 DEF Decided, Afterwards
      <4> QED BY <1>2, <2>1, <3>2, <4>1, <4>3
    <3>3. CASE j = t.i /\ t.op # "execute"
      <4>1. Counted(new)
        BY <1>1, <1>2, <1>4, <1>o, <2>t, <3>3 DEF Counted, Remedy!Operations
      <4>2. level = "L2" => Decided(t.seen, decisions[t.i])
        BY <1>1, <1>2, <2>1 DEF WithinLimits
      <4>3. CASE t.op = "approve"
        <5>1. decisions[t.i] = {} /\ t.seen.attempt = 0
          BY <1>4, <4>2, <4>3 DEF Decided, Afterwards
        <5>2. OthersApproval(new, decisions'[t.i])
          BY <1>2, <1>4, <1>o, <4>3, <5>1 DEF OthersApproval
        <5> QED BY <1>o, <2>1, <3>3, <4>1, <4>3, <5>1, <5>2 DEF Decided
      <4>4. CASE t.op = "reject"
        BY <1>4, <1>o, <2>1, <3>3, <4>1, <4>2, <4>4 DEF Decided, Afterwards
      <4>5. CASE t.op \in {"complete", "fail", "compensate"}
        BY <1>2, <1>4, <1>o, <2>1, <3>3, <4>1, <4>2, <4>5 DEF Decided, Afterwards, OthersApproval
      <4> QED BY <1>2, <3>3, <4>3, <4>4, <4>5 DEF Remedy!Operations
    <3> QED BY <3>1, <3>2, <3>3
  <2>3. CASE t.op # "execute"
    <3>1. \A j \in Intents : intent'[j].attempt = intent[j].attempt /\ intent'[j].executed = intent[j].executed
      BY <1>2, <1>o, <2>1, <2>3
    <3>2. ASSUME NEW j \in Remedy!Recent(Executed)' PROVE j \in Remedy!Recent(Executed)
      BY <1>1, <1>2, <1>4, <1>o, <2>1, <2>3 DEF Remedy!Recent, Executed, Remedy!Operations
    <3>3. Cardinality(Remedy!Recent(Executed)') <= Limit /\ StillPasses' /\ ReadBefore' /\ Apart'
      BY <1>1, <1>5, <2>t, <3>1, <3>2, NothingExecuted
    <3> QED BY <1>1, <2>2, <3>3 DEF WithinLimits
  <2>4. CASE t.op = "execute"
    <3>1. /\ Cardinality(Remedy!Recent(Executed)) < Limit
          /\ \A j \in Intents : intent[j].executed # Never => now - intent[j].executed >= Cooldown
      BY <1>1, <1>2, <2>1, <2>4 DEF WithinLimits, StillPasses, t
    <3>2. Cardinality(Remedy!Recent(Executed)') <= Limit
      <4>1. /\ Remedy!Recent(Executed)' \in SUBSET Intents /\ Remedy!Recent(Executed) \in SUBSET Intents
            /\ Remedy!Recent(Executed)' \subseteq Remedy!Recent(Executed) \cup {t.i}
        BY <1>1, <1>2 DEF Remedy!Recent
      <4>2. /\ Cardinality(Remedy!Recent(Executed)') <= Cardinality(Remedy!Recent(Executed)) + 1
            /\ Cardinality(Remedy!Recent(Executed)') \in Nat /\ Cardinality(Remedy!Recent(Executed)) \in Nat
        BY <1>2, <4>1, CountIntents
      <4> QED BY <1>1, <3>1, <4>2
    <3>3. ReadBefore' /\ \A g \in Handlers : requests'[g] # Remedy!Idle => requests'[g].executions # Remedy!Executions'
      <4>1. /\ \A j \in Intents : intent[j].attempt <= intent'[j].attempt
            /\ intent[t.i].attempt < intent'[t.i].attempt /\ Remedy!Executions'[t.i] = intent'[t.i].attempt
        BY <1>2, <1>e, <2>1, <2>t, <2>4 DEF Remedy!Executions
      <4>2. \A g \in Handlers : requests'[g] # Remedy!Idle =>
              /\ requests'[g] = requests[g] /\ \A j \in Intents : requests[g].executions[j] <= intent[j].attempt
              /\ \A j \in Intents : requests[g].executions[j] \in Nat
        <5> SUFFICES ASSUME NEW g \in Handlers, requests'[g] # Remedy!Idle
                     PROVE  /\ requests'[g] = requests[g]
                            /\ \A j \in Intents : requests[g].executions[j] <= intent[j].attempt
                            /\ \A j \in Intents : requests[g].executions[j] \in Nat
          OBVIOUS
        <5>1. requests[g] \in Remedy!Calls /\ requests'[g] = requests[g] /\ requests[g] # Remedy!Idle
          BY <1>1, <1>5 DEF Remedy!TypeOK
        <5> QED BY <1>1, <5>1, RemedyConstants DEF WithinLimits, ReadBefore, Remedy!Calls
      <4>3. \A j \in Intents : intent'[j].attempt \in Nat
        BY <1>2 DEF Remedy!Row
      <4>4. ReadBefore'
        BY <2>t, <4>1, <4>2, <4>3 DEF ReadBefore
      <4> QED BY <1>2, <2>t, <4>1, <4>2, <4>3, <4>4
    <3>4. StillPasses'
      BY <3>3 DEF StillPasses
    <3>5. Apart'
      <4> SUFFICES ASSUME NEW i \in Intents, NEW j \in Intents, i # j,
                          intent'[i].executed # Never, intent'[j].executed # Never
                   PROVE  \/ intent'[i].executed >= intent'[j].executed + Cooldown
                          \/ intent'[j].executed >= intent'[i].executed + Cooldown
        BY DEF Apart
      <4>1. CASE i # t.i /\ j # t.i
        BY <1>1, <1>2, <4>1 DEF WithinLimits, Apart
      <4>2. CASE i = t.i
        BY <1>1, <1>2, <1>e, <2>1, <2>t, <2>4, <3>1, <4>2
      <4>3. CASE j = t.i
        BY <1>1, <1>2, <1>e, <2>1, <2>t, <2>4, <3>1, <4>3
      <4> QED BY <4>1, <4>2, <4>3
    <3> QED BY <1>1, <2>2, <3>2, <3>3, <3>4, <3>5 DEF WithinLimits
  <2> QED BY <2>3, <2>4
<1> QED BY <1>6, <1>7, <1>8 DEF RemedyInv

LEMMA RemedyBegins == Remedy!Init => RemedyInv
<1> SUFFICES ASSUME Remedy!Init PROVE RemedyInv
  OBVIOUS
<1>1. Limit \in Nat /\ MaxAttempts \in Nat /\ MaxTime \in Nat /\ Budget \in Nat
  BY RemedyConstants
<1>2. \A i \in Intents : intent[i] = Remedy!NoIntent /\ decisions[i] = {}
  BY DEF Remedy!Init
<1>3. Remedy!TypeOK
  <2>1. Remedy!NoIntent \in Remedy!Row
    BY <1>1 DEF Remedy!NoIntent, Remedy!Row, Remedy!States, Remedy!Dates
  <2>2. requests \in [Handlers -> {Remedy!Idle} \cup Remedy!Calls]
    <3>1. requests = [h \in Handlers |-> Remedy!Idle]
      BY DEF Remedy!Init
    <3> QED BY <3>1, Zenon
  <2>3. decisions \in [Intents -> SUBSET (Users \X {"APPROVED", "REJECTED"})]
    BY DEF Remedy!Init
  <2>4. level \in {"L2", "L3"} /\ now = 0 /\ intent \in [Intents -> Remedy!Row]
    <3>1. intent = [i \in Intents |-> Remedy!NoIntent] /\ now = 0 /\ level \in {"L2", "L3"}
      BY DEF Remedy!Init
    <3> QED BY <2>1, <3>1
  <2>5. killed \in BOOLEAN /\ overlapped \in BOOLEAN
    BY Zenon DEF Remedy!Init
  <2> QED BY <1>1, <2>2, <2>3, <2>4, <2>5 DEF Remedy!TypeOK, Remedy!Dates
<1>4. RequestsAccepted /\ StillPasses /\ ReadBefore
  BY DEF Remedy!Init, RequestsAccepted, StillPasses, ReadBefore
<1>5. Remedy!Recent(Executed) = {}
  BY <1>2 DEF Remedy!Recent, Executed, Remedy!NoIntent
<1>6. \A i \in Intents : Counted(intent[i]) /\ Decided(intent[i], decisions[i]) /\ intent[i].executed = Never
  BY <1>1, <1>2 DEF Counted, Decided, Remedy!NoIntent
<1> QED BY <1>1, <1>3, <1>4, <1>5, <1>6, FS_EmptySet DEF RemedyInv, WithinLimits, Apart

LEMMA RemedyStep == RemedyInv /\ [Remedy!Next]_(Remedy!vars) => RemedyInv'
<1> SUFFICES ASSUME RemedyInv, [Remedy!Next]_(Remedy!vars) PROVE RemedyInv'
  OBVIOUS
<1>1. CASE Remedy!Next
  <2>1. ~overlapped
    BY <1>1 DEF Remedy!Next
  <2>2. CASE Remedy!Tick \/ Remedy!Toggle \/ \E i \in Intents, u \in Users : Remedy!Create(i, u)
    BY <2>1, <2>2, OthersKeepRemedy
  <2>3. ASSUME NEW i \in Intents, NEW u \in Users \cup {Never}, NEW h \in Handlers, NEW op \in Remedy!Operations,
               Remedy!Begin(h, op, i, u)
        PROVE  RemedyInv'
    BY <2>1, <2>3, BeginKeepsRemedy
  <2>4. ASSUME NEW h \in Handlers, Remedy!Commit(h) \/ Remedy!Fail(h) PROVE RemedyInv'
    BY <2>1, <2>4, CommitKeepsRemedy, FailKeepsRemedy
  <2> QED BY <1>1, <2>2, <2>3, <2>4 DEF Remedy!Next
<1>2. CASE UNCHANGED Remedy!vars
  <2>1. UNCHANGED <<level, intent, decisions, killed, now, requests, overlapped>>
    BY <1>2 DEF Remedy!vars
  <2> QED BY <2>1 DEF RemedyInv, Remedy!TypeOK, RequestsAccepted, WithinLimits, StillPasses, ReadBefore, Apart,
                      Remedy!Recent, Remedy!Executions
<1> QED BY <1>1, <1>2

\* The invariant says what the property says of a row.
LEMMA RemedyLimits == RemedyInv => ExecutionWithinLimits
<1> SUFFICES ASSUME RemedyInv, ~overlapped PROVE Remedy!ExecutionWithinLimits!2
  BY DEF ExecutionWithinLimits, Remedy!ExecutionWithinLimits
<1>1. WithinLimits /\ Remedy!TypeOK
  BY DEF RemedyInv
<1>2. Remedy!Cardinality(Remedy!Recent({"STARTED", "COMPLETED"})) <= Limit
  BY <1>1, RemedyConstants DEF WithinLimits, Executed
<1>3. ASSUME NEW i \in Intents, level = "L2", intent[i].attempt > 0
      PROVE  /\ intent[i].attempt = 1 /\ intent[i].state # "REJECTED"
             /\ \E u \in Users \ {intent[i].by} : decisions[i] = {<<u, "APPROVED">>}
  BY <1>1, <1>3 DEF WithinLimits, Decided, Afterwards, OthersApproval
<1>4. \A i \in Intents : intent[i].budget <= Budget
  BY <1>1 DEF WithinLimits, Counted
<1>5. ASSUME NEW i \in Intents, NEW j \in Intents, i # j, Never \notin {intent[i].executed, intent[j].executed}
      PROVE  \/ intent[i].executed >= intent[j].executed + Cooldown
             \/ intent[j].executed >= intent[i].executed + Cooldown
  BY <1>1, <1>5 DEF WithinLimits, Apart
<1> QED BY <1>2, <1>3, <1>4, <1>5

---------------------------------------------------------------------------
(* Firmware rollouts *)

\* A deployment of a stage ended in one of these states.
Has(D, i, states) == \E d \in Deployments : D[d].stage = i /\ D[d].state \in states

\* The stages of a rollout, given its deployments: entered in order, decided on
\* outcomes, complete with the last, skipped when stopped, created together.
InOrder(D, r) ==
  /\ \A i, j \in Rollout!Stages : j < i /\ r.stage[i] \in {"RUNNING", "SUCCEEDED", "PAUSED"} =>
       r.stage[j] \in {"SUCCEEDED", "PAUSED"}
  /\ \A i \in Rollout!Stages : r.stage[i] = "SUCCEEDED" => Has(D, i, {"SUCCEEDED"})
  /\ \A i \in Rollout!Stages : r.stage[i] = "PAUSED" => Has(D, i, Rollout!Failures)
  /\ r.rollout = "COMPLETED" => r.stage[StageCount] = "SUCCEEDED"
  /\ \A i \in Rollout!Stages : r.stage[i] = "SKIPPED" => r.rollout = "STOPPED"
  /\ \A i, j \in Rollout!Stages : r.stage[i] = "ABSENT" => r.stage[j] = "ABSENT"

\* No stage becomes pending but when it is created.
Onward(r, n) ==
  \A i \in Rollout!Stages :
    /\ n.stage[i] = "PENDING" => r.stage[i] \in {"PENDING", "ABSENT"}
    /\ n.stage[i] = "ABSENT" => r.stage[i] = "ABSENT"

\* Deployments have a stage, if any, that exists; one that succeeded in a
\* pending stage was noticed.
Noticed(D, r, e) ==
  \A d \in Deployments : D[d].stage # 0 =>
    /\ r.stage[D[d].stage] # "ABSENT"
    /\ D[d].state = "SUCCEEDED" /\ r.stage[D[d].stage] = "PENDING" => e

\* What a call in flight will write is in order.
CallsInOrder ==
  \A h \in Handlers : calls[h] # Rollout!Idle =>
    InOrder(deployment, calls[h].new) /\ Onward(calls[h].seen, calls[h].new)

\* The rollout invariant.
RolloutInv ==
  /\ Rollout!TypeOK
  /\ ~stale =>
       /\ InOrder(deployment, rows) /\ Noticed(deployment, rows, early) /\ CallsInOrder
       /\ raised => early

LEMMA RolloutConstants ==
  /\ StageCount \in Nat \ {0} /\ Rollout!Stages = 1..StageCount /\ IsFiniteSet(Deployments)
  /\ SuccessPercent \in 1..100 /\ FailurePercent \in 1..100
  /\ \A S : Rollout!Cardinality(S) = Cardinality(S)
<1>1. \A S : Rollout!Cardinality(S) = Cardinality(S)
  BY DEF Rollout!Cardinality, Cardinality
<1>2. \A S : Rollout!IsFiniteSet(S) = IsFiniteSet(S)
  BY DEF Rollout!IsFiniteSet, IsFiniteSet
<1> QED BY <1>1, <1>2, FieldAssumption DEF Rollout!RolloutAssumption, Rollout!Stages

\* The least of a set of stages.
LEMMA LeastStage ==
  ASSUME NEW S \in SUBSET Rollout!Stages, S # {}
  PROVE  Rollout!Min(S) \in S /\ \A i \in S : Rollout!Min(S) <= i
<1> DEFINE Up == {1..i : i \in S}
<1>1. Rollout!Stages = 1..StageCount /\ StageCount \in Nat
  BY RolloutConstants
<1>2. PICK T \in Up : \A U \in Up : U \subseteq T => U = T
  <2> DEFINE N == 1..StageCount
  <2>1. IsFiniteSet(N)
    BY <1>1, FS_Interval
  <2>2. \A i \in S : 1..i \subseteq N
    BY <1>1
  <2> HIDE DEF N
  <2>3. Up \in SUBSET SUBSET N /\ Up # {}
    BY <2>2
  <2> HIDE DEF Up
  <2> QED BY <2>1, <2>3, Smallest
<1>3. PICK m \in S : T = 1..m
  BY <1>2
<1>4. ASSUME NEW i \in S, i < m PROVE FALSE
  <2>1. m \in Nat /\ i \in Nat /\ i >= 1
    BY <1>1
  <2>2. 1..i \in Up /\ 1..i \subseteq T
    BY <1>3, <1>4, <2>1
  <2>3. 1..i = 1..m
    BY <1>2, <1>3, <2>2
  <2>4. m \in 1..m /\ m \notin 1..i
    BY <1>4, <2>1
  <2> QED BY <2>3, <2>4
<1>5. m \in S /\ \A i \in S : m <= i
  BY <1>1, <1>4
<1> QED BY <1>5 DEF Rollout!Min

LEMMA CountEnded ==
  ASSUME NEW i, NEW states
  PROVE  /\ Rollout!Ended(i, states) \in Nat
         /\ Rollout!Ended(i, states) > 0 <=> Has(deployment, i, states)
<1> DEFINE S == {d \in Deployments : deployment[d].stage = i /\ deployment[d].state \in states}
<1>1. IsFiniteSet(S)
  BY RolloutConstants, FS_Subset
<1>2. Rollout!Ended(i, states) = Cardinality(S)
  BY RolloutConstants DEF Rollout!Ended
<1>3. Cardinality(S) \in Nat /\ (Cardinality(S) = 0 <=> S = {})
  BY <1>1, FS_CardinalityType, FS_EmptySet
<1>4. S # {} <=> Has(deployment, i, states)
  BY DEF Has
<1> QED BY <1>2, <1>3, <1>4

\* A decision is taken on an outcome of its kind.
LEMMA VerdictMeans ==
  ASSUME NEW i
  PROVE  /\ Rollout!Verdict(i) = "PAUSE" => Has(deployment, i, Rollout!Failures)
         /\ Rollout!Verdict(i) = "COMPLETE" => Has(deployment, i, {"SUCCEEDED"})
<1> DEFINE s == Rollout!Ended(i, {"SUCCEEDED"})
           f == Rollout!Ended(i, Rollout!Failures)
<1>1. /\ s \in Nat /\ (s > 0 <=> Has(deployment, i, {"SUCCEEDED"}))
      /\ f \in Nat /\ (f > 0 <=> Has(deployment, i, Rollout!Failures))
  BY CountEnded
<1> HIDE DEF s, f
<1>2. Rollout!Verdict(i) = Rollout!Decision(s, f)
  BY DEF Rollout!Verdict, s, f
<1>3. Rollout!Decision(s, f) = "PAUSE" => f > 0
  BY DEF Rollout!Decision
<1>4. Rollout!Decision(s, f) = "COMPLETE" => s > 0
  <2> SUFFICES ASSUME Rollout!Decision(s, f) = "COMPLETE", s = 0 PROVE FALSE
    BY <1>1
  <2>1. s + f > 0 /\ 100 * s >= SuccessPercent * (s + f)
    BY DEF Rollout!Decision
  <2>2. SuccessPercent \in Nat /\ SuccessPercent > 0
    BY RolloutConstants
  <2>3. \A a, b \in Nat : a > 0 /\ b > 0 => a * b > 0
    OBVIOUS
  <2> QED BY <1>1, <2>1, <2>2, <2>3
<1> QED BY <1>1, <1>2, <1>3, <1>4

\* What an advance is about: the stage it decides has those before it decided
\* and those after it pending.
LEMMA CurrentStage ==
  ASSUME NEW r \in Rollout!Rows, InOrder(deployment, r), r.rollout = "RUNNING", Rollout!Current(r) # 0
  PROVE  LET i == Rollout!Current(r) IN
         /\ i \in Rollout!Stages /\ r.stage[i] \in {"RUNNING", "PENDING"}
         /\ \A j \in Rollout!Stages : j < i => r.stage[j] \in {"SUCCEEDED", "PAUSED"}
         /\ \A j \in Rollout!Stages : j > i => r.stage[j] = "PENDING"
         /\ r.stage[i] = "PENDING" => Rollout!In(r, "RUNNING") = {}
<1> DEFINE i == Rollout!Current(r)
<1>1. Rollout!Stages = 1..StageCount /\ StageCount \in Nat
  BY RolloutConstants
<1>2. r.stage \in [Rollout!Stages -> Rollout!StageStates]
  BY DEF Rollout!Rows
<1>3. \A s : Rollout!In(r, s) \in SUBSET Rollout!Stages
  BY DEF Rollout!In
<1>4. CASE Rollout!In(r, "RUNNING") # {}
  <2>1. i = Rollout!Min(Rollout!In(r, "RUNNING"))
    BY <1>4 DEF Rollout!Current
  <2>2. i \in Rollout!Stages /\ r.stage[i] = "RUNNING"
    BY <1>3, <1>4, <2>1, LeastStage DEF Rollout!In
  <2> HIDE DEF i
  <2>3. \A j \in Rollout!Stages : j < i => r.stage[j] \in {"SUCCEEDED", "PAUSED"}
    BY <2>2 DEF InOrder
  <2>4. ASSUME NEW j \in Rollout!Stages, j > i PROVE r.stage[j] = "PENDING"
    <3>1. r.stage[j] \notin {"RUNNING", "SUCCEEDED", "PAUSED"}
      BY <1>1, <2>2, <2>4 DEF InOrder
    <3>2. r.stage[j] \notin {"ABSENT", "SKIPPED"}
      BY <2>2 DEF InOrder
    <3> QED BY <1>2, <3>1, <3>2 DEF Rollout!StageStates
  <2> QED BY <2>2, <2>3, <2>4 DEF i
<1>5. CASE Rollout!In(r, "RUNNING") = {}
  <2>1. i = Rollout!Min(Rollout!In(r, "PENDING")) /\ Rollout!In(r, "PENDING") # {}
    BY <1>5 DEF Rollout!Current
  <2>2. i \in Rollout!Stages /\ r.stage[i] = "PENDING" /\ \A j \in Rollout!In(r, "PENDING") : i <= j
    BY <1>3, <2>1, LeastStage DEF Rollout!In
  <2> HIDE DEF i
  <2>3. ASSUME NEW j \in Rollout!Stages, j < i PROVE r.stage[j] \in {"SUCCEEDED", "PAUSED"}
    <3>1. r.stage[j] \notin {"PENDING", "RUNNING"}
      BY <1>1, <1>5, <2>2, <2>3 DEF Rollout!In
    <3>2. r.stage[j] \notin {"ABSENT", "SKIPPED"}
      BY <2>2 DEF InOrder
    <3> QED BY <1>2, <3>1, <3>2 DEF Rollout!StageStates
  <2>4. ASSUME NEW j \in Rollout!Stages, j > i PROVE r.stage[j] = "PENDING"
    <3>1. r.stage[j] \notin {"RUNNING", "SUCCEEDED", "PAUSED"}
      BY <1>1, <2>2, <2>4 DEF InOrder
    <3>2. r.stage[j] \notin {"ABSENT", "SKIPPED"}
      BY <2>2 DEF InOrder
    <3> QED BY <1>2, <3>1, <3>2 DEF Rollout!StageStates
  <2> QED BY <1>5, <2>2, <2>3, <2>4 DEF i
<1> QED BY <1>4, <1>5

\* A rollout with some of its stages decided, each as its outcomes say, the
\* undecided ones after them.
LEMMA DecidedInOrder ==
  ASSUME NEW r \in Rollout!Rows, InOrder(deployment, r), r.rollout = "RUNNING",
         NEW n \in Rollout!Rows, NEW k \in Rollout!Stages,
         \A j \in Rollout!Stages : j < k => n.stage[j] \in {"SUCCEEDED", "PAUSED"},
         n.stage[k] = Rollout!Decided(k),
         \A j \in Rollout!Stages : j > k => n.stage[j] = "PENDING" /\ r.stage[j] = "PENDING",
         \A j \in Rollout!Stages : j < k => n.stage[j] = r.stage[j] \/ n.stage[j] = Rollout!Decided(j),
         n.rollout = "RUNNING" \/ (n.rollout = "COMPLETED" /\ n.stage[StageCount] = "SUCCEEDED")
  PROVE  InOrder(deployment, n) /\ Onward(r, n)
<1>1. Rollout!Stages = 1..StageCount /\ StageCount \in Nat
  BY RolloutConstants
<1>2. \A j : /\ Rollout!Decided(j) \in {"PAUSED", "SUCCEEDED", "RUNNING"}
             /\ Rollout!Decided(j) = "PAUSED" => Has(deployment, j, Rollout!Failures)
             /\ Rollout!Decided(j) = "SUCCEEDED" => Has(deployment, j, {"SUCCEEDED"})
  BY VerdictMeans DEF Rollout!Decided
<1>3. \A j \in Rollout!Stages : j = k \/ j < k \/ j > k
  BY <1>1
<1>4. \A i, j \in Rollout!Stages : j < i /\ n.stage[i] \in {"RUNNING", "SUCCEEDED", "PAUSED"} =>
        n.stage[j] \in {"SUCCEEDED", "PAUSED"}
  BY <1>1, <1>3
<1>5. \A i \in Rollout!Stages : n.stage[i] = "SUCCEEDED" => Has(deployment, i, {"SUCCEEDED"})
  BY <1>2, <1>3 DEF InOrder
<1>6. \A i \in Rollout!Stages : n.stage[i] = "PAUSED" => Has(deployment, i, Rollout!Failures)
  BY <1>2, <1>3 DEF InOrder
<1>7. \A i \in Rollout!Stages : n.stage[i] \notin {"SKIPPED", "ABSENT"}
  BY <1>2, <1>3
<1>8. \A i \in Rollout!Stages : n.stage[i] = "PENDING" => r.stage[i] = "PENDING"
  BY <1>2, <1>3
<1> QED BY <1>4, <1>5, <1>6, <1>7, <1>8 DEF InOrder, Onward

LEMMA AdvancedInOrder ==
  ASSUME NEW r \in Rollout!Rows, InOrder(deployment, r), r.rollout = "RUNNING"
  PROVE  /\ Rollout!Advanced(r) \in Rollout!Rows
         /\ InOrder(deployment, Rollout!Advanced(r)) /\ Onward(r, Rollout!Advanced(r))
<1> DEFINE i == Rollout!Current(r)
           next == Rollout!In(r, "PENDING") \ {i}
           decided == [r EXCEPT !.stage[i] = Rollout!Decided(i)]
           n == Rollout!Advanced(r)
<1>c. Rollout!Stages = 1..StageCount /\ StageCount \in Nat \ {0}
  BY RolloutConstants
<1>d. \A j : Rollout!Decided(j) \in {"PAUSED", "SUCCEEDED", "RUNNING"}
             /\ (Rollout!Verdict(j) = "COMPLETE" => Rollout!Decided(j) = "SUCCEEDED")
  BY DEF Rollout!Decided
<1>a. n = IF i = 0 \/ Rollout!Verdict(i) # "COMPLETE" THEN IF i = 0 THEN r ELSE decided
          ELSE IF next = {} THEN [decided EXCEPT !.rollout = "COMPLETED"]
          ELSE [decided EXCEPT !.stage[Rollout!Min(next)] = Rollout!Decided(Rollout!Min(next))]
  BY DEF Rollout!Advanced
<1> HIDE DEF n
<1>1. CASE i = 0
  <2>1. n = r
    BY <1>a, <1>1
  <2> QED BY <2>1 DEF n, Onward
<1>2. CASE i # 0
  <2>1. /\ i \in Rollout!Stages /\ r.stage[i] \in {"RUNNING", "PENDING"}
        /\ \A j \in Rollout!Stages : j < i => r.stage[j] \in {"SUCCEEDED", "PAUSED"}
        /\ \A j \in Rollout!Stages : j > i => r.stage[j] = "PENDING"
    BY <1>2, CurrentStage
  <2>n. next = {j \in Rollout!Stages : j > i}
    BY <1>c, <2>1 DEF Rollout!In
  <2> HIDE DEF i, next
  <2>2. /\ decided \in Rollout!Rows /\ decided.rollout = "RUNNING"
        /\ \A j \in Rollout!Stages : decided.stage[j] = IF j = i THEN Rollout!Decided(i) ELSE r.stage[j]
    BY <1>d, <2>1 DEF Rollout!Rows, Rollout!StageStates
  <2> HIDE DEF decided
  <2>3. CASE Rollout!Verdict(i) # "COMPLETE"
    <3>1. n = decided
      BY <1>a, <1>2, <2>3
    <3>2. n \in Rollout!Rows
      BY <2>2, <3>1
    <3> QED BY <1>c, <2>1, <2>2, <3>1, <3>2, DecidedInOrder DEF n
  <2>4. CASE Rollout!Verdict(i) = "COMPLETE" /\ next = {}
    <3>1. n = [decided EXCEPT !.rollout = "COMPLETED"]
      BY <1>a, <1>2, <2>4
    <3>2. n \in Rollout!Rows /\ n.rollout = "COMPLETED" /\ n.stage = decided.stage
      BY <2>2, <3>1 DEF Rollout!Rows
    <3>3. i = StageCount
      BY <1>c, <2>1, <2>4, <2>n
    <3>4. n.stage[StageCount] = "SUCCEEDED"
      BY <1>d, <2>1, <2>2, <2>4, <3>2, <3>3
    <3> QED BY <1>c, <2>1, <2>2, <3>2, <3>4, DecidedInOrder DEF n
  <2>5. CASE Rollout!Verdict(i) = "COMPLETE" /\ next # {}
    <3> DEFINE k == Rollout!Min(next)
    <3>1. k \in next /\ \A j \in next : k <= j
      BY <2>5, <2>n, LeastStage
    <3>2. n = [decided EXCEPT !.stage[k] = Rollout!Decided(k)]
      BY <1>a, <1>2, <2>5
    <3> HIDE DEF k
    <3>3. k \in Rollout!Stages /\ k > i /\ \A j \in Rollout!Stages : j < k => j = i \/ j < i
      BY <1>c, <2>1, <2>n, <3>1
    <3>4. /\ n \in Rollout!Rows /\ n.rollout = "RUNNING"
          /\ \A j \in Rollout!Stages : n.stage[j] = IF j = k THEN Rollout!Decided(k) ELSE decided.stage[j]
      BY <1>d, <2>2, <3>2, <3>3 DEF Rollout!Rows, Rollout!StageStates
    <3>5. \A j \in Rollout!Stages : j < k => n.stage[j] \in {"SUCCEEDED", "PAUSED"}
      BY <1>c, <1>d, <2>1, <2>2, <2>5, <3>3, <3>4
    <3>6. \A j \in Rollout!Stages : j > k => n.stage[j] = "PENDING" /\ r.stage[j] = "PENDING"
      BY <1>c, <2>1, <2>2, <3>3, <3>4
    <3>7. \A j \in Rollout!Stages : j < k => n.stage[j] = r.stage[j] \/ n.stage[j] = Rollout!Decided(j)
      BY <1>c, <2>1, <2>2, <3>3, <3>4
    <3> QED BY <3>3, <3>4, <3>5, <3>6, <3>7, DecidedInOrder DEF n
  <2> QED BY <2>3, <2>4, <2>5
<1> QED BY <1>1, <1>2

\* Every operation, accepted, makes rows in order of rows in order.
LEMMA AfterInOrder ==
  ASSUME Rollout!TypeOK, InOrder(deployment, rows), NEW op \in Rollout!Operations, Rollout!Accepts(op)
  PROVE  /\ Rollout!After(op, rows) \in Rollout!Rows
         /\ InOrder(deployment, Rollout!After(op, rows)) /\ Onward(rows, Rollout!After(op, rows))
<1> DEFINE n == Rollout!After(op, rows)
<1>1. rows \in Rollout!Rows /\ StageCount \in Rollout!Stages
  BY RolloutConstants DEF Rollout!TypeOK
<1>2. CASE op = "build"
  <2>1. n = [rows EXCEPT !.stage = [i \in Rollout!Stages |-> "PENDING"]]
    BY <1>2 DEF Rollout!After
  <2> HIDE DEF n
  <2>2. /\ n \in Rollout!Rows /\ n.rollout = rows.rollout /\ \A i \in Rollout!Stages : n.stage[i] = "PENDING"
    BY <1>1, <2>1 DEF Rollout!Rows, Rollout!StageStates
  <2>3. \A i \in Rollout!Stages : rows.stage[i] = "ABSENT"
    BY <1>2 DEF Rollout!Accepts, Rollout!In
  <2> QED BY <1>1, <2>2, <2>3 DEF n, InOrder, Onward
<1>3. CASE op \in {"start", "resume", "pause"}
  <2> DEFINE s == IF op = "pause" THEN "PAUSED" ELSE "RUNNING"
  <2>1. n = [rows EXCEPT !.rollout = s]
    BY <1>3 DEF Rollout!After
  <2> HIDE DEF n
  <2>2. n \in Rollout!Rows /\ n.rollout = s /\ n.stage = rows.stage
    BY <1>1, <2>1 DEF Rollout!Rows
  <2>3. rows.rollout \in {"DRAFT", "PAUSED", "RUNNING"}
    BY <1>3 DEF Rollout!Accepts
  <2> QED BY <2>2, <2>3 DEF n, InOrder, Onward
<1>4. CASE op = "advance"
  <2>1. n = Rollout!Advanced(rows) /\ rows.rollout = "RUNNING"
    BY <1>4 DEF Rollout!After, Rollout!Accepts
  <2> QED BY <1>1, <2>1, AdvancedInOrder
<1>5. CASE op = "stop"
  <2>1. n = [rollout |-> "STOPPED", stage |->
               [i \in Rollout!Stages |-> IF rows.stage[i] = "PENDING" THEN "SKIPPED" ELSE rows.stage[i]]]
    BY <1>5 DEF Rollout!After
  <2> HIDE DEF n
  <2>2. /\ n \in Rollout!Rows /\ n.rollout = "STOPPED"
        /\ \A i \in Rollout!Stages : n.stage[i] = IF rows.stage[i] = "PENDING" THEN "SKIPPED" ELSE rows.stage[i]
    BY <1>1, <2>1 DEF Rollout!Rows, Rollout!StageStates
  <2> QED BY <1>1, <2>2 DEF n, InOrder, Onward
<1> QED BY <1>2, <1>3, <1>4, <1>5 DEF Rollout!Operations

\* An advance raises only where a stage succeeded while it was pending.
LEMMA RaisesEarly ==
  ASSUME Rollout!TypeOK, InOrder(deployment, rows), Noticed(deployment, rows, early), Rollout!Raises(rows)
  PROVE  early
<1>1. PICK i \in Rollout!Stages : rows.stage[i] = "PENDING" /\ Rollout!Verdict(i) = "COMPLETE"
  <2>1. rows \in Rollout!Rows /\ rows.rollout = "RUNNING" /\ Rollout!Current(rows) # 0
        /\ Rollout!Verdict(Rollout!Current(rows)) = "COMPLETE"
    BY DEF Rollout!TypeOK, Rollout!Raises
  <2>2. CASE Rollout!In(rows, "RUNNING") = {}
    <3>1. /\ Rollout!Current(rows) \in Rollout!Stages
          /\ rows.stage[Rollout!Current(rows)] \in {"RUNNING", "PENDING"}
      BY <2>1, CurrentStage
    <3>2. rows.stage[Rollout!Current(rows)] # "RUNNING"
      BY <2>2, <3>1 DEF Rollout!In
    <3> QED BY <2>1, <3>1, <3>2
  <2>3. CASE Rollout!In(rows, "PENDING") # {} /\ Rollout!Verdict(Rollout!Min(Rollout!In(rows, "PENDING"))) = "COMPLETE"
    <3>1. Rollout!In(rows, "PENDING") \in SUBSET Rollout!Stages
      BY DEF Rollout!In
    <3>2. Rollout!Min(Rollout!In(rows, "PENDING")) \in Rollout!In(rows, "PENDING")
      BY <2>3, <3>1, LeastStage
    <3> QED BY <2>3, <3>2 DEF Rollout!In
  <2> QED BY <2>2, <2>3 DEF Rollout!Raises
<1>2. PICK d \in Deployments : deployment[d].stage = i /\ deployment[d].state = "SUCCEEDED"
  BY <1>1, VerdictMeans DEF Has
<1>3. i # 0
  BY RolloutConstants
<1> QED BY <1>1, <1>2, <1>3 DEF Noticed

LEMMA BeginKeepsRollout ==
  ASSUME RolloutInv, ~stale, NEW h \in Handlers, NEW op \in Rollout!Operations, Rollout!Begin(h, op)
  PROVE  RolloutInv'
<1> DEFINE fails == op = "advance" /\ Rollout!Raises(rows)
           new == [op |-> op, seen |-> rows, new |-> Rollout!After(op, rows)]
<1>1. /\ UNCHANGED <<rows, deployment, early, stale>> /\ raised' = (raised \/ fails) /\ Rollout!Accepts(op)
      /\ calls' = IF fails THEN calls ELSE [calls EXCEPT ![h] = new]
      /\ Rollout!TypeOK /\ InOrder(deployment, rows) /\ Noticed(deployment, rows, early) /\ CallsInOrder
      /\ raised => early
  BY DEF Rollout!Begin, RolloutInv
<1>2. /\ Rollout!After(op, rows) \in Rollout!Rows
      /\ InOrder(deployment, Rollout!After(op, rows)) /\ Onward(rows, Rollout!After(op, rows))
  BY <1>1, AfterInOrder
<1>3. new.seen = rows /\ new.new = Rollout!After(op, rows) /\ rows \in Rollout!Rows
      /\ new \in [op : Rollout!Operations \cup {"idle"}, seen : Rollout!Rows, new : Rollout!Rows]
  BY <1>1, <1>2 DEF Rollout!TypeOK
<1>4. fails => early
  BY <1>1, RaisesEarly
<1> HIDE DEF new, fails
<1>5. \A g \in Handlers : calls'[g] = calls[g] \/ calls'[g] = new
  BY <1>1 DEF Rollout!TypeOK
<1>6. Rollout!TypeOK'
  <2>1. raised' \in BOOLEAN
    BY <1>1, Zenon
  <2>2. calls' \in [Handlers -> [op : Rollout!Operations \cup {"idle"}, seen : Rollout!Rows, new : Rollout!Rows]]
    BY <1>1, <1>3 DEF Rollout!TypeOK
  <2> QED BY <1>1, <2>1, <2>2 DEF Rollout!TypeOK
<1>7. CallsInOrder'
  BY <1>1, <1>2, <1>3, <1>5 DEF CallsInOrder
<1> QED BY <1>1, <1>4, <1>6, <1>7 DEF RolloutInv

LEMMA CommitKeepsRollout ==
  ASSUME RolloutInv, ~stale, NEW h \in Handlers, Rollout!Commit(h)
  PROVE  RolloutInv'
<1> DEFINE t == calls[h]
           written == [rollout |-> Rollout!Column(t.seen.rollout, t.new.rollout, rows.rollout),
                       stage |-> [i \in Rollout!Stages |->
                                    Rollout!Column(t.seen.stage[i], t.new.stage[i], rows.stage[i])]]
<1>1. /\ t # Rollout!Idle /\ rows' = written /\ calls' = [calls EXCEPT ![h] = Rollout!Idle]
      /\ stale' = (stale \/ t.seen # rows) /\ UNCHANGED <<deployment, early, raised>>
      /\ Rollout!TypeOK /\ InOrder(deployment, rows) /\ Noticed(deployment, rows, early) /\ CallsInOrder
      /\ raised => early
  BY Zenon DEF Rollout!Commit, RolloutInv
<1>2. t.seen \in Rollout!Rows /\ t.new \in Rollout!Rows /\ rows \in Rollout!Rows
      /\ InOrder(deployment, t.new) /\ Onward(t.seen, t.new)
  BY <1>1 DEF Rollout!TypeOK, CallsInOrder
<1> HIDE DEF t
<1>3. rows' \in Rollout!Rows
  BY <1>1, <1>2 DEF Rollout!Rows, Rollout!Column
<1>4. Rollout!Idle \in [op : Rollout!Operations \cup {"idle"}, seen : Rollout!Rows, new : Rollout!Rows]
  <2>1. Rollout!NewRows \in Rollout!Rows
    BY DEF Rollout!NewRows, Rollout!Rows, Rollout!StageStates
  <2> QED BY <2>1 DEF Rollout!Idle
<1>5. Rollout!TypeOK'
  <2>1. stale' \in BOOLEAN
    BY <1>1, Zenon
  <2> QED BY <1>1, <1>3, <1>4, <2>1 DEF Rollout!TypeOK
<1>6. ASSUME ~stale'
      PROVE  InOrder(deployment', rows') /\ Noticed(deployment', rows', early') /\ CallsInOrder'
  <2>1. t.seen = rows
    BY <1>1, <1>6
  <2>2. rows' = t.new
    BY <1>1, <1>2, <2>1 DEF Rollout!Rows, Rollout!Column
  <2>3. CallsInOrder'
    BY <1>1 DEF Rollout!TypeOK, CallsInOrder
  <2>4. Noticed(deployment', rows', early')
    <3> SUFFICES ASSUME NEW d \in Deployments, deployment[d].stage # 0
                 PROVE  /\ t.new.stage[deployment[d].stage] # "ABSENT"
                        /\ deployment[d].state = "SUCCEEDED" /\ t.new.stage[deployment[d].stage] = "PENDING" => early
      BY <1>1, <2>2 DEF Noticed
    <3>1. deployment[d].stage \in Rollout!Stages
      BY <1>1, RolloutConstants DEF Rollout!TypeOK
    <3> QED BY <1>1, <1>2, <2>1, <3>1 DEF Noticed, Onward
  <2> QED BY <1>1, <1>2, <2>2, <2>3, <2>4
<1> QED BY <1>1, <1>5, <1>6 DEF RolloutInv

\* Outcomes are final: deployments move on.
LEMMA OutcomesKeepOrder ==
  ASSUME NEW D, NEW E, \A d \in Deployments : D[d].state \in {"SUCCEEDED"} \cup Rollout!Failures => E[d] = D[d], NEW r,
         InOrder(D, r)
  PROVE  InOrder(E, r)
BY DEF InOrder, Has

LEMMA DeploymentsKeepRollout ==
  ASSUME RolloutInv, ~stale, NEW d \in Deployments,
         Rollout!Execute(d) \/ Rollout!Complete(d) \/ \E i \in 0..StageCount : Rollout!Queue(d, i)
  PROVE  RolloutInv'
<1> DEFINE States == {"NONE", "QUEUED", "TRANSFERRING", "SUCCEEDED"} \cup Rollout!Failures
<1>1. /\ UNCHANGED <<rows, calls, raised, stale>> /\ Rollout!TypeOK /\ InOrder(deployment, rows)
      /\ Noticed(deployment, rows, early) /\ CallsInOrder /\ (raised => early)
  BY DEF Rollout!Execute, Rollout!Complete, Rollout!Queue, RolloutInv
<1>2. deployment \in [Deployments -> [stage : 0..StageCount, state : States]]
  BY <1>1 DEF Rollout!TypeOK
<1>3. /\ deployment' \in [Deployments -> [stage : 0..StageCount, state : States]]
      /\ \A c \in Deployments \ {d} : deployment'[c] = deployment[c]
      /\ deployment[d].state \notin {"SUCCEEDED"} \cup Rollout!Failures
      /\ early' \in BOOLEAN /\ (early => early') /\ Noticed(deployment', rows, early')
  <2>1. CASE Rollout!Execute(d)
    <3>1. deployment' = [deployment EXCEPT ![d].state = "TRANSFERRING"] /\ deployment[d].state = "QUEUED" /\ early' = early
      BY <2>1 DEF Rollout!Execute
    <3>2. deployment'[d].stage = deployment[d].stage /\ deployment'[d].state = "TRANSFERRING"
      BY <1>2, <3>1
    <3> QED BY <1>1, <1>2, <3>1, <3>2 DEF Rollout!Failures, Noticed, Rollout!TypeOK
  <2>2. ASSUME NEW i \in 0..StageCount, Rollout!Queue(d, i)
        PROVE  /\ deployment' \in [Deployments -> [stage : 0..StageCount, state : States]]
               /\ \A c \in Deployments \ {d} : deployment'[c] = deployment[c]
               /\ deployment[d].state \notin {"SUCCEEDED"} \cup Rollout!Failures
               /\ early' \in BOOLEAN /\ (early => early') /\ Noticed(deployment', rows, early')
    <3>1. deployment' = [deployment EXCEPT ![d] = [stage |-> i, state |-> "QUEUED"]] /\ deployment[d].state = "NONE"
          /\ early' = early /\ (i # 0 => rows.stage[i] # "ABSENT")
      BY <2>2 DEF Rollout!Queue
    <3>2. deployment'[d].stage = i /\ deployment'[d].state = "QUEUED"
      BY <1>2, <3>1
    <3> QED BY <1>1, <1>2, <3>1, <3>2 DEF Rollout!Failures, Noticed, Rollout!TypeOK
  <2>3. CASE Rollout!Complete(d)
    <3>1. PICK s \in Rollout!Outcomes(deployment[d].state) :
            /\ deployment' = [deployment EXCEPT ![d].state = s]
            /\ early' = (early \/ /\ s = "SUCCEEDED" /\ deployment[d].stage # 0
                                  /\ rows.stage[deployment[d].stage] = "PENDING")
      BY <2>3, Zenon DEF Rollout!Complete
    <3>2. s \in {"SUCCEEDED"} \cup Rollout!Failures /\ deployment[d].state \in {"QUEUED", "TRANSFERRING"}
      BY DEF Rollout!Outcomes
    <3>3. deployment'[d].stage = deployment[d].stage /\ deployment'[d].state = s
      BY <1>2, <3>1
    <3>4. early' \in BOOLEAN /\ (early => early')
      BY <3>1, Zenon
    <3>5. /\ deployment' \in [Deployments -> [stage : 0..StageCount, state : States]]
          /\ \A c \in Deployments \ {d} : deployment'[c] = deployment[c]
      BY <1>2, <3>1, <3>2
    <3>6. Noticed(deployment', rows, early')
      <4> SUFFICES ASSUME NEW c \in Deployments, deployment'[c].stage # 0
                   PROVE  /\ rows.stage[deployment'[c].stage] # "ABSENT"
                          /\ deployment'[c].state = "SUCCEEDED" /\ rows.stage[deployment'[c].stage] = "PENDING" => early'
        BY DEF Noticed
      <4>1. CASE c = d
        BY <1>1, <3>1, <3>3, <4>1 DEF Noticed
      <4>2. CASE c # d
        BY <1>1, <3>4, <3>5, <4>2 DEF Noticed
      <4> QED BY <4>1, <4>2
    <3> QED BY <3>2, <3>4, <3>5, <3>6 DEF Rollout!Failures
  <2> QED BY <2>1, <2>2, <2>3
<1>4. \A c \in Deployments : deployment[c].state \in {"SUCCEEDED"} \cup Rollout!Failures => deployment'[c] = deployment[c]
  BY <1>3
<1>5. InOrder(deployment', rows')
  BY <1>1, <1>4, OutcomesKeepOrder
<1>6. CallsInOrder'
  <2> SUFFICES ASSUME NEW h \in Handlers, calls[h] # Rollout!Idle
               PROVE  InOrder(deployment', calls[h].new) /\ Onward(calls[h].seen, calls[h].new)
    BY <1>1 DEF CallsInOrder
  <2> QED BY <1>1, <1>4, OutcomesKeepOrder DEF CallsInOrder
<1>7. Rollout!TypeOK'
  BY <1>1, <1>3 DEF Rollout!TypeOK
<1> QED BY <1>1, <1>3, <1>5, <1>6, <1>7 DEF RolloutInv

LEMMA RolloutBegins == Rollout!Init => RolloutInv
<1> SUFFICES ASSUME Rollout!Init PROVE RolloutInv
  OBVIOUS
<1>1. Rollout!NewRows \in Rollout!Rows
  BY DEF Rollout!NewRows, Rollout!Rows, Rollout!StageStates
<1>2. Rollout!Idle \in [op : Rollout!Operations \cup {"idle"}, seen : Rollout!Rows, new : Rollout!Rows]
  BY <1>1 DEF Rollout!Idle
<1>3. StageCount \in Nat /\ Rollout!Stages = 1..StageCount /\ StageCount \in Rollout!Stages
  BY RolloutConstants
<1>4. {early, raised, stale} \subseteq BOOLEAN /\ ~raised
  BY Zenon DEF Rollout!Init
<1>5. deployment = [d \in Deployments |-> [stage |-> 0, state |-> "NONE"]] /\ rows = Rollout!NewRows
      /\ calls = [h \in Handlers |-> Rollout!Idle]
  BY DEF Rollout!Init
<1>6. Rollout!TypeOK
  BY <1>1, <1>2, <1>3, <1>4, <1>5 DEF Rollout!TypeOK
<1>7. InOrder(deployment, rows) /\ Noticed(deployment, rows, early)
  BY <1>3, <1>5 DEF InOrder, Noticed, Rollout!NewRows
<1>8. CallsInOrder
  BY <1>5 DEF CallsInOrder
<1> QED BY <1>4, <1>6, <1>7, <1>8 DEF RolloutInv

LEMMA RolloutStep == RolloutInv /\ [Rollout!Next]_(Rollout!vars) => RolloutInv'
<1> SUFFICES ASSUME RolloutInv, [Rollout!Next]_(Rollout!vars) PROVE RolloutInv'
  OBVIOUS
<1>1. CASE Rollout!Next
  <2>1. ~stale
    BY <1>1 DEF Rollout!Next
  <2>2. ASSUME NEW d \in Deployments,
               Rollout!Execute(d) \/ Rollout!Complete(d) \/ \E i \in 0..StageCount : Rollout!Queue(d, i)
        PROVE  RolloutInv'
    BY <2>1, <2>2, DeploymentsKeepRollout
  <2>3. ASSUME NEW h \in Handlers, Rollout!Commit(h) PROVE RolloutInv'
    BY <2>1, <2>3, CommitKeepsRollout
  <2>4. ASSUME NEW h \in Handlers, NEW op \in Rollout!Operations, Rollout!Begin(h, op) PROVE RolloutInv'
    BY <2>1, <2>4, BeginKeepsRollout
  <2> QED BY <1>1, <2>2, <2>3, <2>4 DEF Rollout!Next
<1>2. CASE UNCHANGED Rollout!vars
  <2>1. UNCHANGED <<rows, deployment, calls, early, raised, stale>>
    BY <1>2 DEF Rollout!vars
  <2> QED BY <2>1 DEF RolloutInv, Rollout!TypeOK, CallsInOrder
<1> QED BY <1>1, <1>2

\* One stage runs at a time, since stages are entered in order.
LEMMA RolloutStages == RolloutInv => StagesInOrder
<1> SUFFICES ASSUME RolloutInv, ~stale PROVE Rollout!StagesInOrder!2
  BY DEF StagesInOrder, Rollout!StagesInOrder
<1>1. InOrder(deployment, rows) /\ (raised => early)
  BY DEF RolloutInv
<1>2. Rollout!Stages = 1..StageCount /\ StageCount \in Nat
  BY RolloutConstants
<1>3. Rollout!Cardinality(Rollout!In(rows, "RUNNING")) <= 1
  <2> DEFINE R == Rollout!In(rows, "RUNNING")
  <2>1. \A i, j \in R : i = j
    BY <1>1, <1>2 DEF InOrder, Rollout!In
  <2> HIDE DEF R
  <2>2. R = {} \/ \E i : R = {i}
    BY <2>1
  <2>3. Cardinality(R) <= 1
    BY <2>2, FS_EmptySet, FS_Singleton
  <2> QED BY <2>3, RolloutConstants DEF R
<1>4. \A i \in Rollout!In(rows, "SUCCEEDED") : Rollout!Ended(i, {"SUCCEEDED"}) > 0
  BY <1>1, CountEnded DEF InOrder, Rollout!In
<1>5. \A i \in Rollout!In(rows, "PAUSED") : Rollout!Ended(i, Rollout!Failures) > 0
  BY <1>1, CountEnded DEF InOrder, Rollout!In
<1>6. Rollout!In(rows, "SKIPPED") # {} => rows.rollout = "STOPPED"
  BY <1>1 DEF InOrder, Rollout!In
<1> QED BY <1>1, <1>3, <1>4, <1>5, <1>6 DEF InOrder

---------------------------------------------------------------------------
(* Tickets and their clocks *)

Ended == {"RESOLVED", "CLOSED", "CANCELLED", "DUPLICATE"}

\* What the evaluation has read and nobody else writes: the dates of risk and
\* breach; and what it saw of the clock it decided to evaluate.
ReadingOK ==
  reading # Nothing =>
    /\ reading.breach = sla.breach /\ reading.risk = sla.risk
    /\ ~reading.paused /\ reading.status # "COMPLETED" /\ reading.status # "BREACHED"

\* The clock as the ticket's state determines it.
Follows(t, c) ==
  /\ c.paused <=> t \in PauseStates
  /\ c.paused <=> c.status = "PAUSED"
  /\ t \in Ended \ {"RESOLVED"} => c.status = "COMPLETED"
  /\ t = "RESOLVED" => c.status \in {"COMPLETED", "BREACHED"}
  /\ t \notin Ended => c.status # "COMPLETED"
  /\ c.status = "BREACHED" => c.breach
  /\ c.status = "AT_RISK" => c.risk

Announced ==
  /\ breaches = IF sla.breach THEN 1 ELSE 0
  /\ warnings = IF sla.risk THEN 1 ELSE 0

\* The ticket invariant.
TicketInv == TypeOK /\ Announced /\ ReadingOK /\ (~disturbed => Follows(ticket, sla))

\* A ticket that has ended leaves by a command that concludes its clock again,
\* and no pause state is such an end.
LEMMA EndedMoves ==
  ASSUME NEW s \in Ended, NEW t \in TICKET_TRANSITIONS[s]
  PROVE  t \in {"CLOSED", "REOPENED", "CANCELLED", "DUPLICATE"}
BY DEF Ended, TICKET_TRANSITIONS

\* The clock that a move computes is a clock.
LEMMA MoveType ==
  ASSUME TypeOK, NEW t \in Statuses
  PROVE  Concluded(t, Clock(ticket, t, sla)) \in Clocks
<1>1. Clock(ticket, t, sla) \in Clocks
  BY DEF TypeOK, Clock, Clocks
<1> QED
  BY <1>1 DEF TypeOK, Concluded, Clocks

\* A move changes neither date of the clock.
LEMMA MoveDates ==
  ASSUME TypeOK, NEW t \in Statuses
  PROVE  /\ Concluded(t, Clock(ticket, t, sla)).breach = sla.breach
         /\ Concluded(t, Clock(ticket, t, sla)).risk = sla.risk
<1>1. /\ Clock(ticket, t, sla) \in Clocks
      /\ Clock(ticket, t, sla).breach = sla.breach /\ Clock(ticket, t, sla).risk = sla.risk
  BY DEF TypeOK, Clock, Clocks
<1> QED
  BY <1>1 DEF Concluded, Clocks

\* After any command's move the clock is what the new state asks for.
LEMMA MoveFollows ==
  ASSUME TypeOK, Follows(ticket, sla),
         NEW t \in Asked(ticket) \cap TICKET_TRANSITIONS[ticket]
  PROVE  Follows(t, Concluded(t, Clock(ticket, t, sla)))
<1> DEFINE c == Clock(ticket, t, sla)
<1>0. t \in Statuses /\ c \in Clocks
  BY DEF Asked, TypeOK, Clock, Clocks
<1>p. PauseStates \cap (Ended \cup {"REOPENED"}) = {}
  BY PauseStatesAssumption DEF Ended
<1>1. CASE ticket \in Ended
  <2>1. t \in {"CLOSED", "REOPENED", "CANCELLED", "DUPLICATE"}
    BY <1>1, EndedMoves
  <2>2. c = sla /\ ~sla.paused
    BY <1>1, <2>1, <1>p DEF Clock, Follows, Ended
  <2> QED
    BY <2>1, <2>2, <1>0, <1>p DEF Follows, Concluded, Clocks, Ended
<1>2. CASE ticket \notin Ended
  <2>1. /\ c.paused <=> t \in PauseStates
        /\ c.paused <=> c.status = "PAUSED"
        /\ c.status # "COMPLETED"
        /\ c.status = "BREACHED" => c.breach
        /\ c.status = "AT_RISK" => c.risk
    BY <1>2 DEF Clock, Follows, TypeOK, Clocks
  <2> QED
    BY <2>1, <1>0, <1>p DEF Follows, Concluded, Clocks, Ended
<1> QED
  BY <1>1, <1>2

LEMMA MovePreserves ==
  ASSUME TicketInv, NEW t \in Statuses, Move(t)
  PROVE  TicketInv'
<1> USE DEF Move
<1>1. TypeOK'
  BY MoveType DEF TicketInv, TypeOK
<1>2. sla'.breach = sla.breach /\ sla'.risk = sla.risk
  BY MoveDates DEF TicketInv
<1>3. Announced' /\ ReadingOK'
  BY <1>2 DEF TicketInv, Announced, ReadingOK
<1>4. ~disturbed' => Follows(ticket, sla)'
  BY MoveFollows DEF TicketInv, Follows
<1> QED
  BY <1>1, <1>3, <1>4 DEF TicketInv

LEMMA ResetPreserves ==
  ASSUME TicketInv, NEW kind \in {"priority", "override"}, Reset(kind)
  PROVE  TicketInv'
<1> USE DEF Reset
<1>1. TypeOK'
  BY DEF TicketInv, TypeOK, Clocks
<1>2. sla'.breach = sla.breach /\ sla'.risk = sla.risk
  BY DEF TicketInv, TypeOK, Clocks
<1>3. Announced' /\ ReadingOK'
  BY <1>2 DEF TicketInv, Announced, ReadingOK
<1>4. ~disturbed' => Follows(ticket, sla)'
  BY DEF TicketInv, TypeOK, Follows, Clocks, Ended
<1> QED
  BY <1>1, <1>3, <1>4 DEF TicketInv

LEMMA ReadPreserves ==
  ASSUME TicketInv, Read
  PROVE  TicketInv'
BY DEF Read, TicketInv, TypeOK, Announced, ReadingOK, Follows

\* The three outcomes of an evaluation, taken apart.
LEMMA EvaluateCases ==
  ASSUME TicketInv, Evaluate
  PROVE  \/ /\ sla' = sla
            /\ UNCHANGED <<breaches, warnings, disturbed>>
         \/ /\ sla' = [sla EXCEPT !.status = "BREACHED", !.breach = TRUE]
            /\ ~reading.breach /\ breaches' = breaches + 1 /\ warnings' = warnings
            /\ ~disturbed' => ~disturbed /\ reading = sla
         \/ /\ sla' = [sla EXCEPT !.status = "AT_RISK", !.risk = TRUE]
            /\ ~reading.risk /\ warnings' = warnings + 1 /\ breaches' = breaches
            /\ ~disturbed' => ~disturbed /\ reading = sla
<1>1. PICK verdict \in {"fine", "risk", "over"} :
        LET breach == verdict = "over" /\ ~reading.breach
            risk == verdict = "risk" /\ ~reading.risk
        IN /\ sla' = [sla EXCEPT !.status = IF breach THEN "BREACHED" ELSE IF risk THEN "AT_RISK" ELSE @,
                                 !.breach = @ \/ breach, !.risk = @ \/ risk]
           /\ breaches' = IF breach THEN breaches + 1 ELSE breaches
           /\ warnings' = IF risk THEN warnings + 1 ELSE warnings
           /\ disturbed' = (disturbed \/ (reading # sla /\ (breach \/ risk)))
  BY Zenon DEF Evaluate
<1>0. sla \in Clocks /\ sla.breach \in BOOLEAN /\ sla.risk \in BOOLEAN /\ disturbed \in BOOLEAN
  BY DEF TicketInv, TypeOK, Clocks
<1>r. reading.breach = sla.breach /\ reading.risk = sla.risk
  BY DEF Evaluate, TicketInv, ReadingOK
<1>2. CASE verdict = "over" /\ ~reading.breach
  <2>1. sla' = [sla EXCEPT !.status = "BREACHED", !.breach = TRUE]
    BY <1>1, <1>2, <1>0 DEF Clocks
  <2> QED
    BY <1>1, <1>2, <1>0, <2>1
<1>3. CASE verdict = "risk" /\ ~reading.risk
  <2>1. sla' = [sla EXCEPT !.status = "AT_RISK", !.risk = TRUE]
    BY <1>1, <1>3, <1>0 DEF Clocks
  <2> QED
    BY <1>1, <1>3, <1>0, <2>1
<1>4. CASE ~(verdict = "over" /\ ~reading.breach) /\ ~(verdict = "risk" /\ ~reading.risk)
  <2>1. sla' = sla
    BY <1>1, <1>4, <1>0 DEF Clocks
  <2> QED
    BY <1>1, <1>4, <1>0, <2>1
<1> QED
  BY <1>2, <1>3, <1>4

LEMMA EvaluatePreserves ==
  ASSUME TicketInv, Evaluate
  PROVE  TicketInv'
<1>1. reading # Nothing /\ reading' = Nothing /\ UNCHANGED <<policy, ticket>>
  BY DEF Evaluate
<1>2. reading.breach = sla.breach /\ reading.risk = sla.risk
  BY <1>1 DEF TicketInv, ReadingOK
<1>3. CASE sla' = sla /\ UNCHANGED <<breaches, warnings, disturbed>>
  BY <1>1, <1>3 DEF TicketInv, TypeOK, Announced, ReadingOK, Follows
<1>4. CASE \/ /\ sla' = [sla EXCEPT !.status = "BREACHED", !.breach = TRUE]
              /\ ~reading.breach /\ breaches' = breaches + 1 /\ warnings' = warnings
              /\ ~disturbed' => ~disturbed /\ reading = sla
           \/ /\ sla' = [sla EXCEPT !.status = "AT_RISK", !.risk = TRUE]
              /\ ~reading.risk /\ warnings' = warnings + 1 /\ breaches' = breaches
              /\ ~disturbed' => ~disturbed /\ reading = sla
  <2>0. disturbed' \in BOOLEAN
    BY Zenon DEF Evaluate, TicketInv, TypeOK
  <2>1. sla' \in Clocks /\ breaches' \in Nat /\ warnings' \in Nat
    <3>1. sla \in Clocks /\ breaches \in Nat /\ warnings \in Nat
      BY DEF TicketInv, TypeOK
    <3>2. /\ [sla EXCEPT !.status = "BREACHED", !.breach = TRUE] \in Clocks
          /\ [sla EXCEPT !.status = "AT_RISK", !.risk = TRUE] \in Clocks
      BY <3>1 DEF Clocks
    <3> QED
      BY <1>4, <3>1, <3>2
  <2>2. TypeOK'
    BY <1>1, <2>0, <2>1 DEF TicketInv, TypeOK
  <2>3. Announced'
    <3>1. CASE sla' = [sla EXCEPT !.status = "BREACHED", !.breach = TRUE] /\ ~reading.breach
               /\ breaches' = breaches + 1 /\ warnings' = warnings
      <4>1. ~sla.breach /\ sla'.breach /\ sla'.risk = sla.risk
        BY <1>2, <3>1 DEF TicketInv, TypeOK, Clocks
      <4> QED
        BY <3>1, <4>1 DEF TicketInv, Announced
    <3>2. CASE sla' = [sla EXCEPT !.status = "AT_RISK", !.risk = TRUE] /\ ~reading.risk
               /\ warnings' = warnings + 1 /\ breaches' = breaches
      <4>1. ~sla.risk /\ sla'.risk /\ sla'.breach = sla.breach
        BY <1>2, <3>2 DEF TicketInv, TypeOK, Clocks
      <4> QED
        BY <3>2, <4>1 DEF TicketInv, Announced
    <3> QED
      BY <1>4, <3>1, <3>2
  <2>4. ReadingOK'
    BY <1>1 DEF ReadingOK
  <2>5. ASSUME ~disturbed' PROVE Follows(ticket, sla)'
    <3>1. Follows(ticket, sla) /\ reading = sla
      BY <1>4, <2>5 DEF TicketInv
    <3>2. /\ sla.status \in {"ACTIVE", "AT_RISK"} /\ ~sla.paused
          /\ ticket \notin Ended /\ ticket \notin PauseStates
      BY <1>1, <3>1 DEF TicketInv, ReadingOK, Follows, TypeOK, Clocks, Ended
    <3> QED
      BY <1>1, <1>4, <3>1, <3>2 DEF Follows, TicketInv, TypeOK, Clocks, Ended
  <2> QED
    BY <2>2, <2>3, <2>4, <2>5 DEF TicketInv
<1> QED
  BY <1>3, <1>4, EvaluateCases

LEMMA TicketBegins == Init => TicketInv
<1> SUFFICES ASSUME Init PROVE TicketInv
  OBVIOUS
<1>1. TypeOK
  BY DEF Init, TypeOK, Clocks, Statuses, TICKET_TRANSITIONS
<1>2. "NEW" \notin PauseStates \cup Ended
  BY PauseStatesAssumption DEF Ended
<1> QED BY <1>1, <1>2 DEF Init, TicketInv, Announced, ReadingOK, Follows

LEMMA TicketStep == TicketInv /\ [Next]_vars => TicketInv'
<1> SUFFICES ASSUME TicketInv, [Next]_vars PROVE TicketInv'
  OBVIOUS
<1>1. ASSUME NEW t \in Statuses, Move(t) PROVE TicketInv'
  BY <1>1, MovePreserves
<1>2. ASSUME NEW kind \in {"priority", "override"}, Reset(kind) PROVE TicketInv'
  BY <1>2, ResetPreserves
<1>3. CASE Read
  BY <1>3, ReadPreserves
<1>4. CASE Evaluate
  BY <1>4, EvaluatePreserves
<1>5. CASE UNCHANGED vars
  BY <1>5 DEF vars, TicketInv, TypeOK, Announced, ReadingOK, Follows
<1> QED BY <1>1, <1>2, <1>3, <1>4, <1>5 DEF Next

---------------------------------------------------------------------------
(* The theorems *)

\* Whatever commands, priority changes, overrides and evaluations a ticket sees,
\* its clock follows it and what is announced is announced once.
THEOREM ClockFollows == Spec => []ClockFollowsTicket
<1>1. TicketInv => ClockFollowsTicket
  BY DEF TicketInv, Announced, Follows, Ended, ClockFollowsTicket, TypeOK
<1> QED BY <1>1, TicketBegins, TicketStep, PTL DEF Spec

\* The four components keep their invariants side by side.
FieldInv == JobInv /\ RemedyInv /\ RolloutInv /\ TicketInv

LEMMA FieldStep == FieldInv /\ [FieldNext]_fieldVars => FieldInv'
<1> SUFFICES ASSUME FieldInv, [FieldNext]_fieldVars PROVE FieldInv'
  OBVIOUS
<1>1. [Configure!Next]_(Configure!vars)
  BY DEF FieldNext, fieldVars, jobVars, Configure!vars
<1>2. [Remedy!Next]_(Remedy!vars)
  BY DEF FieldNext, fieldVars, intentVars, Remedy!vars
<1>3. [Rollout!Next]_(Rollout!vars)
  BY DEF FieldNext, fieldVars, rolloutVars, Rollout!vars
<1>4. [Next]_vars
  BY DEF FieldNext, fieldVars
<1> QED BY <1>1, <1>2, <1>3, <1>4, JobsStep, RemedyStep, RolloutStep, TicketStep DEF FieldInv

LEMMA FieldAlways == FieldSpec => []FieldInv
<1>1. FieldInit => FieldInv
  BY JobsBegin, RemedyBegins, RolloutBegins, TicketBegins DEF FieldInit, FieldInv
<1> QED BY <1>1, FieldStep, PTL DEF FieldSpec

\* The types of rollouts, intents, configuration jobs and tickets.
THEOREM FieldTypes == FieldSpec => []FieldTypeOK
<1>1. FieldInv => FieldTypeOK
  BY DEF FieldInv, JobInv, RemedyInv, RolloutInv, TicketInv, FieldTypeOK
<1> QED BY <1>1, FieldAlways, PTL

\* For any number of stages, deployments and overlapping calls, and any
\* thresholds: unless a call committed over rows it had not read, stages are
\* entered in order, one at a time, and decided on an outcome of their own; and
\* an advance raises only where a deployment succeeded too early.
THEOREM RolloutsGoInOrder == FieldSpec => []StagesInOrder
<1>1. FieldInv => StagesInOrder
  BY RolloutStages DEF FieldInv
<1> QED BY <1>1, FieldAlways, PTL

\* For any intents, users and limits: unless requests overlap, what is executed
\* was approved by someone else, and rate, budget and cooldown hold, whatever is
\* committed between the gates of an execution and the execution.
THEOREM ExecutionsStayWithinLimits == FieldSpec => []ExecutionWithinLimits
<1>1. FieldInv => ExecutionWithinLimits
  BY RemedyLimits DEF FieldInv
<1> QED BY <1>1, FieldAlways, PTL

\* For any jobs, tasks and callers: a job that SUCCEEDED ran, one that failed its
\* verification was run over, and drift is measured from the job verified last,
\* unless it applied a version once more.
THEOREM ResultsAreWhatTheDeviceDid == FieldSpec => []OutcomesAreTrue
<1>1. FieldInv => OutcomesAreTrue
  BY JobOutcomes DEF FieldInv
<1> QED BY <1>1, FieldAlways, PTL
=============================================================================
