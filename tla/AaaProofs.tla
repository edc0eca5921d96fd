----------------------------- MODULE AaaProofs -----------------------------
(***************************************************************************)
(* What holds of the AAA service for every number of jobs, workers,        *)
(* redeliveries, packets, requests and commands.                           *)
(***************************************************************************)
EXTENDS AaaServices, SumFacts, TLAPS

---------------------------------------------------------------------------
(* NAS jobs *)

\* As much of the types as the proofs use.
Types ==
  /\ pc \in [Workers -> Steps]
  /\ job \in [Workers -> Jobs]
  /\ status \in [Jobs -> Final \cup {"ABSENT", "QUEUED", "RUNNING"}]
  /\ copies \in [Jobs -> Nat]
  /\ runs \in [Jobs -> Nat]
  /\ outbox \in [Jobs -> {"NONE", "PENDING", "PUBLISHED"}]
  /\ inline \subseteq Jobs

---------------------------------------------------------------------------
(* Types *)

LEMMA TypesInit == Init => Types
BY DEF Init, Types, Steps, Final

LEMMA TypesStep == Types /\ [Next]_vars => Types'
<1> SUFFICES ASSUME Types, [Next]_vars PROVE Types'
  OBVIOUS
<1> USE DEF Types, Steps, Final, Goto, Return, Redeliver
<1>1. ASSUME NEW j \in Jobs, Enqueue(j) \/ CancelRead(j) \/ CancelWrite(j) PROVE Types'
  BY <1>1 DEF Enqueue, CancelRead, CancelWrite, brokerVars
<1>2. CASE Switch
  BY <1>2 DEF Switch, brokerVars
<1>3. CASE Publish
  BY <1>3 DEF Publish, AddCopies
<1>4. ASSUME NEW S \in SUBSET Jobs, PublishPart(S) PROVE Types'
  BY <1>4 DEF PublishPart, AddCopies
<1>5. ASSUME NEW w \in Workers, Process(w) \/ Crash(w) PROVE Types'
  <2>1. CASE Consume(w)
    BY <2>1 DEF Consume
  <2>2. CASE Start(w)
    BY <2>2 DEF Start, brokerVars
  <2>3. CASE Lock(w)
    BY <2>3 DEF Lock, brokerVars
  <2>4. CASE Build(w)
    BY <2>4 DEF Build, brokerVars
  <2>5. CASE BuildFails(w)
    BY <2>5 DEF BuildFails
  <2>6. CASE Finish(w)
    BY <2>6 DEF Finish, brokerVars
  <2>7. CASE ReleaseRead(w) \/ ReleaseDelete(w)
    BY <2>7 DEF ReleaseRead, ReleaseDelete, brokerVars
  <2>8. CASE Crash(w)
    BY <2>8 DEF Crash
  <2> QED
    BY <1>5, <2>1, <2>2, <2>3, <2>4, <2>5, <2>6, <2>7, <2>8 DEF Process
<1>6. ASSUME NEW w \in Workers, NEW j \in Jobs, Receive(w, j) PROVE Types'
  BY <1>6 DEF Receive
<1>7. CASE Lapse \/ RedisComesOrGoes
  BY <1>7 DEF Lapse, RedisComesOrGoes, brokerVars
<1>8. CASE UNCHANGED vars
  BY <1>8 DEF vars, brokerVars
<1> QED
  BY <1>1, <1>2, <1>3, <1>4, <1>5, <1>6, <1>7, <1>8 DEF Next

---------------------------------------------------------------------------
(* One worker per NAS *)

Holding == {"build", "running", "release", "delete"}

\* Until a live lease lapses or Redis comes or goes, Redis answers and whoever is
\* past the lock owns its key.
OwnerHolds ==
  ~broken => redisUp /\ \A w \in Workers : pc[w] \in Holding => redis = w

LEMMA OwnerInit == Init => OwnerHolds
BY DEF Init, OwnerHolds, Holding

LEMMA OwnerStep == Types /\ OwnerHolds /\ [Next]_vars => OwnerHolds'
<1> SUFFICES ASSUME Types, OwnerHolds, [Next]_vars, ~broken' PROVE OwnerHolds'
  BY DEF OwnerHolds
<1> USE DEF OwnerHolds, Holding, Types, Goto, Return
<1>1. ASSUME NEW j \in Jobs, Enqueue(j) \/ CancelRead(j) \/ CancelWrite(j) PROVE OwnerHolds'
  BY <1>1 DEF Enqueue, CancelRead, CancelWrite, lockVars
<1>2. CASE Switch \/ Publish \/ \E S \in SUBSET Jobs : PublishPart(S)
  BY <1>2 DEF Switch, Publish, PublishPart, lockVars
<1>3. ASSUME NEW w \in Workers, Consume(w) \/ Start(w) \/ Build(w) \/ Finish(w)
      PROVE  OwnerHolds'
  BY <1>3 DEF Consume, Start, Build, Finish, lockVars
<1>4. ASSUME NEW w \in Workers, Lock(w) PROVE OwnerHolds'
  <2>1. ~broken /\ ~broken' /\ pc[w] = "lock" /\ redisUp
    BY <1>4 DEF Lock
  <2>2. CASE TakeLock(w) /\ Goto(w, "build")
    <3>1. redis = NoOwner /\ redis' = w /\ redisUp'
      BY <2>1, <2>2 DEF TakeLock
    <3>2. \A v \in Workers : pc[v] \notin Holding
      BY <2>1, <3>1, OwnersAssumption
    <3> QED
      BY <2>1, <2>2, <3>1, <3>2
  <2>3. CASE Return(w) /\ UNCHANGED lockVars
    BY <2>1, <2>3 DEF lockVars
  <2> QED
    BY <1>4, <2>2, <2>3 DEF Lock
<1>5. ASSUME NEW w \in Workers, BuildFails(w) \/ Crash(w) PROVE OwnerHolds'
  BY <1>5 DEF BuildFails, Crash, Abandon
<1>6. ASSUME NEW w \in Workers, ReleaseRead(w) \/ ReleaseDelete(w) PROVE OwnerHolds'
  BY <1>6 DEF ReleaseRead, ReleaseDelete
<1>7. ASSUME NEW w \in Workers, NEW j \in Jobs, Receive(w, j) PROVE OwnerHolds'
  BY <1>7 DEF Receive, lockVars
<1>8. CASE Lapse
  BY <1>8, OwnersAssumption DEF Lapse
<1>9. CASE RedisComesOrGoes
  BY <1>9 DEF RedisComesOrGoes
<1>10. CASE UNCHANGED vars
  BY <1>10 DEF vars, lockVars
<1> QED
  BY <1>1, <1>2, <1>3, <1>4, <1>5, <1>6, <1>7, <1>8, <1>9, <1>10 DEF Next, Process

LEMMA OwnersAreOne == OwnerHolds => OneWorkerPerNas
<1> SUFFICES ASSUME OwnerHolds, ~broken
             PROVE  Cardinality({w \in Workers : pc[w] = "running"}) <= 1
  BY DEF OneWorkerPerNas
<1>1. {w \in Workers : pc[w] = "running"} \subseteq {redis}
  BY DEF OwnerHolds, Holding
<1>2. IsFiniteSet({redis}) /\ Cardinality({redis}) = 1
  BY FS_Singleton
<1> QED
  BY <1>1, <1>2, FS_Subset, FS_CardinalityType
---------------------------------------------------------------------------
(* One run per claim *)

\* The workers that will start the job, and the claims there are to it: one of
\* the consumers, by the inbox, and one of a request that runs it inline.
Preparing(j) == {w \in Workers : job[w] = j /\ pc[w] \in {"start", "lock", "build"}}
Claims(j) == (IF j \in inbox THEN 1 ELSE 0) + (IF j \in inline THEN 1 ELSE 0)

\* Each claim starts the job once: it is with a worker preparing to, or used up.
ClaimsCover ==
  /\ \A j \in inline : status[j] # "ABSENT"
  /\ \A j \in Jobs :
       IsFiniteSet(Preparing(j)) /\ runs[j] + Cardinality(Preparing(j)) <= Claims(j)

\* The count of the workers preparing for a job, when one arrives or leaves.
LEMMA Arrives ==
  ASSUME NEW j, NEW w, IsFiniteSet(Preparing(j)), w \notin Preparing(j),
         Preparing(j)' = Preparing(j) \cup {w}
  PROVE  IsFiniteSet(Preparing(j)') /\ Cardinality(Preparing(j)') = Cardinality(Preparing(j)) + 1
BY FS_AddElement

LEMMA Leaves ==
  ASSUME NEW j, NEW w, IsFiniteSet(Preparing(j)), Preparing(j)' = Preparing(j) \ {w}
  PROVE  /\ IsFiniteSet(Preparing(j)')
         /\ Cardinality(Preparing(j)') =
              IF w \in Preparing(j) THEN Cardinality(Preparing(j)) - 1 ELSE Cardinality(Preparing(j))
BY FS_RemoveElement

LEMMA Counts ==
  ASSUME NEW j, IsFiniteSet(Preparing(j)) PROVE Cardinality(Preparing(j)) \in Nat
BY FS_CardinalityType

LEMMA ClaimsInit == Init => ClaimsCover
<1> SUFFICES ASSUME Init PROVE ClaimsCover
  OBVIOUS
<1>1. \A j \in Jobs : Preparing(j) = {}
  BY DEF Init, Preparing
<1>2. IsFiniteSet({}) /\ Cardinality({}) = 0
  BY FS_EmptySet
<1>3. \A j \in Jobs : runs[j] = 0 /\ Claims(j) = 0
  BY DEF Init, Claims
<1> QED
  BY <1>1, <1>2, <1>3 DEF ClaimsCover, Init

\* A worker stops preparing without a start, and nobody loses a claim.
LEMMA Dropped ==
  ASSUME Types, ClaimsCover, NEW w \in Workers, NEW step \in Steps \ {"start", "lock", "build"},
         Goto(w, step), UNCHANGED <<job, inbox, inline, runs>>,
         \A j \in inline : status'[j] # "ABSENT"
  PROVE  ClaimsCover'
<1> SUFFICES ASSUME NEW j \in Jobs
             PROVE  IsFiniteSet(Preparing(j)') /\ runs'[j] + Cardinality(Preparing(j)') <= Claims(j)'
  BY DEF ClaimsCover
<1>1. Preparing(j)' = Preparing(j) \ {w}
  BY DEF Preparing, Goto, Types
<1>2. IsFiniteSet(Preparing(j)) /\ runs[j] + Cardinality(Preparing(j)) <= Claims(j)
  BY DEF ClaimsCover
<1>3. Claims(j)' = Claims(j) /\ runs'[j] = runs[j] /\ runs[j] \in Nat /\ Claims(j) \in Nat
  BY DEF Claims, Types
<1>4. Cardinality(Preparing(j)) \in Nat
  BY <1>2, Counts
<1>5. /\ IsFiniteSet(Preparing(j)')
      /\ Cardinality(Preparing(j)') \in {Cardinality(Preparing(j)) - 1, Cardinality(Preparing(j))}
  BY <1>1, <1>2, Leaves
<1> QED
  BY <1>2, <1>3, <1>4, <1>5

\* A step that leaves the workers preparing where they are.
LEMMA Kept ==
  ASSUME ClaimsCover, UNCHANGED <<inbox, inline, runs>>,
         \A j \in Jobs : Preparing(j)' = Preparing(j),
         \A j \in inline : status'[j] # "ABSENT"
  PROVE  ClaimsCover'
BY DEF ClaimsCover, Claims

LEMMA ClaimsStep == Types /\ ClaimsCover /\ [Next]_vars => ClaimsCover'
<1> SUFFICES ASSUME Types, ClaimsCover, [Next]_vars PROVE ClaimsCover'
  OBVIOUS
<1>1. ASSUME NEW j \in Jobs, Enqueue(j) PROVE ClaimsCover'
  <2>1. j \notin inline /\ \A i \in inline : status'[i] # "ABSENT"
    BY <1>1 DEF Enqueue, ClaimsCover, Types
  <2>2. CASE UNCHANGED <<pc, job, inline>>
    BY <1>1, <2>1, <2>2, Kept DEF Enqueue, Preparing
  <2>3. ASSUME NEW w \in Workers, pc[w] = "idle", Goto(w, "start"),
               job' = [job EXCEPT ![w] = j], inline' = inline \cup {j}
        PROVE  ClaimsCover'
    <3>1. inbox' = inbox /\ runs' = runs /\ status' = [status EXCEPT ![j] = "QUEUED"]
      BY <1>1 DEF Enqueue
    <3>2. \A i \in inline' : status'[i] # "ABSENT"
      BY <2>1, <2>3, <3>1 DEF Types
    <3>3. \A i \in Jobs \ {j} : Preparing(i)' = Preparing(i) /\ Claims(i)' = Claims(i)
      BY <2>3, <3>1 DEF Preparing, Goto, Types, Claims
    <3>4. w \notin Preparing(j) /\ Preparing(j)' = Preparing(j) \cup {w}
      BY <2>3 DEF Preparing, Goto, Types
    <3>5. Claims(j)' = Claims(j) + 1
      BY <2>1, <2>3, <3>1 DEF Claims
    <3>6. IsFiniteSet(Preparing(j)) /\ runs[j] + Cardinality(Preparing(j)) <= Claims(j)
      BY DEF ClaimsCover
    <3>7. IsFiniteSet(Preparing(j)') /\ Cardinality(Preparing(j)') = Cardinality(Preparing(j)) + 1
      BY <3>4, <3>6, Arrives
    <3>8. Cardinality(Preparing(j)) \in Nat /\ runs[j] \in Nat /\ Claims(j) \in Nat
      BY <3>6, Counts DEF Types, Claims
    <3>9. runs'[j] + Cardinality(Preparing(j)') <= Claims(j)'
      BY <3>1, <3>5, <3>6, <3>7, <3>8
    <3> QED
      BY <3>1, <3>2, <3>3, <3>7, <3>9 DEF ClaimsCover
  <2> QED
    BY <1>1, <2>2, <2>3 DEF Enqueue
<1>2. ASSUME NEW j \in Jobs, CancelRead(j) \/ CancelWrite(j) PROVE ClaimsCover'
  <2>1. UNCHANGED <<pc, job, inbox, inline, runs>>
    BY <1>2 DEF CancelRead, CancelWrite, brokerVars
  <2>2. \A i \in inline : status'[i] # "ABSENT"
    BY <1>2 DEF CancelRead, CancelWrite, ClaimsCover, Types
  <2> QED
    BY <2>1, <2>2, Kept DEF Preparing
<1>3. CASE Switch \/ Publish \/ \E S \in SUBSET Jobs : PublishPart(S)
  BY <1>3, Kept DEF Switch, Publish, PublishPart, Preparing, ClaimsCover, brokerVars
<1>4. ASSUME NEW w \in Workers, NEW j \in Jobs, Receive(w, j) PROVE ClaimsCover'
  <2>1. \A i \in Jobs : Preparing(i)' = Preparing(i)
    BY <1>4 DEF Receive, Preparing, Goto, Types
  <2> QED
    BY <1>4, <2>1, Kept DEF Receive, ClaimsCover
<1>5. ASSUME NEW w \in Workers, Consume(w) PROVE ClaimsCover'
  <2>1. \A i \in inline : status'[i] # "ABSENT"
    BY <1>5 DEF Consume, ClaimsCover
  <2>2. CASE job[w] \in inbox
    <3>1. Goto(w, "idle") /\ UNCHANGED <<job, inbox, inline, runs>>
      BY <1>5, <2>2 DEF Consume, Return
    <3> QED
      BY <2>1, <3>1, Dropped DEF Steps
  <2>3. CASE job[w] \notin inbox
    <3> PICK j \in Jobs : j = job[w]
      BY DEF Types
    <3>1. /\ Goto(w, "start") /\ inbox' = inbox \cup {j} /\ UNCHANGED <<job, inline, runs>>
          /\ pc[w] = "consume" /\ j \in Jobs
      BY <1>5, <2>3 DEF Consume, Types
    <3>2. \A i \in Jobs \ {j} : Preparing(i)' = Preparing(i) /\ Claims(i)' = Claims(i)
      BY <3>1 DEF Preparing, Goto, Types, Claims
    <3>3. w \notin Preparing(j) /\ Preparing(j)' = Preparing(j) \cup {w}
      BY <3>1 DEF Preparing, Goto, Types
    <3>4. Claims(j)' = Claims(j) + 1
      BY <2>3, <3>1 DEF Claims
    <3>5. IsFiniteSet(Preparing(j)) /\ runs[j] + Cardinality(Preparing(j)) <= Claims(j)
      BY <3>1 DEF ClaimsCover
    <3>6. IsFiniteSet(Preparing(j)') /\ Cardinality(Preparing(j)') = Cardinality(Preparing(j)) + 1
      BY <3>3, <3>5, Arrives
    <3>7. Cardinality(Preparing(j)) \in Nat /\ runs[j] \in Nat /\ Claims(j) \in Nat
      BY <3>1, <3>5, Counts DEF Types, Claims
    <3>8. runs'[j] + Cardinality(Preparing(j)') <= Claims(j)'
      BY <3>1, <3>4, <3>5, <3>6, <3>7
    <3> QED
      BY <2>1, <3>1, <3>2, <3>6, <3>8 DEF ClaimsCover
  <2> QED
    BY <2>2, <2>3
<1>6. ASSUME NEW w \in Workers, Start(w) PROVE ClaimsCover'
  <2>1. \A i \in inline : status'[i] # "ABSENT"
    BY <1>6 DEF Start, ClaimsCover, Types
  <2>2. UNCHANGED <<job, inbox, inline, runs>>
    BY <1>6 DEF Start, brokerVars
  <2>3. CASE Goto(w, "idle")
    BY <2>1, <2>2, <2>3, Dropped DEF Steps
  <2>4. CASE Goto(w, "lock")
    BY <1>6, <2>1, <2>2, <2>4, Kept DEF Start, Preparing, Goto, Types
  <2> QED
    BY <1>6, <2>3, <2>4 DEF Start, Return
<1>7. ASSUME NEW w \in Workers, Lock(w) PROVE ClaimsCover'
  <2>1. UNCHANGED <<job, inbox, inline, runs, status>> /\ pc[w] = "lock"
    BY <1>7 DEF Lock, brokerVars
  <2>2. CASE Goto(w, "idle")
    BY <2>1, <2>2, Dropped DEF Steps, ClaimsCover
  <2>3. CASE Goto(w, "build")
    BY <2>1, <2>3, Kept DEF Preparing, Goto, Types, ClaimsCover
  <2> QED
    BY <1>7, <2>2, <2>3 DEF Lock, Return
<1>8. ASSUME NEW w \in Workers, Build(w) PROVE ClaimsCover'
  <2> PICK j \in Jobs : j = job[w]
    BY DEF Types
  <2>1. /\ Goto(w, "running") /\ runs' = [runs EXCEPT ![j] = @ + 1] /\ UNCHANGED <<job, inbox, inline>>
        /\ pc[w] = "build" /\ j \in Jobs
    BY <1>8 DEF Build, Types, brokerVars
  <2>2. \A i \in inline : status'[i] # "ABSENT"
    BY <1>8 DEF Build, ClaimsCover, Types
  <2>3. \A i \in Jobs : Claims(i)' = Claims(i)
    BY <2>1 DEF Claims
  <2>4. \A i \in Jobs \ {j} : Preparing(i)' = Preparing(i) /\ runs'[i] = runs[i]
    BY <2>1 DEF Preparing, Goto, Types
  <2>5. w \in Preparing(j) /\ Preparing(j)' = Preparing(j) \ {w} /\ runs'[j] = runs[j] + 1
    BY <2>1 DEF Preparing, Goto, Types
  <2>6. IsFiniteSet(Preparing(j)) /\ runs[j] + Cardinality(Preparing(j)) <= Claims(j)
    BY <2>1 DEF ClaimsCover
  <2>7. IsFiniteSet(Preparing(j)') /\ Cardinality(Preparing(j)') = Cardinality(Preparing(j)) - 1
    BY <2>5, <2>6, Leaves
  <2>8. Cardinality(Preparing(j)) \in Nat /\ runs[j] \in Nat /\ Claims(j) \in Nat
    BY <2>1, <2>6, Counts DEF Types, Claims
  <2>9. runs'[j] + Cardinality(Preparing(j)') <= Claims(j)'
    BY <2>1, <2>3, <2>5, <2>6, <2>7, <2>8
  <2> QED
    BY <2>1, <2>2, <2>3, <2>4, <2>7, <2>9 DEF ClaimsCover
<1>9. ASSUME NEW w \in Workers, BuildFails(w) \/ Crash(w) PROVE ClaimsCover'
  <2>1. \A i \in inline : status'[i] # "ABSENT"
    BY <1>9 DEF BuildFails, Crash, ClaimsCover, Types
  <2>2. Goto(w, "idle") /\ UNCHANGED <<job, inbox, inline, runs>>
    BY <1>9 DEF BuildFails, Crash, Return
  <2> QED
    BY <2>1, <2>2, Dropped DEF Steps
<1>10. ASSUME NEW w \in Workers, Finish(w) \/ ReleaseRead(w) \/ ReleaseDelete(w) PROVE ClaimsCover'
  <2>1. \A i \in inline : status'[i] # "ABSENT"
    BY <1>10 DEF Finish, ReleaseRead, ReleaseDelete, ClaimsCover, Types
  <2>2. UNCHANGED <<job, inbox, inline, runs>> /\ \E step \in {"release", "delete", "idle"} : Goto(w, step)
    BY <1>10 DEF Finish, ReleaseRead, ReleaseDelete, Return, brokerVars
  <2> QED
    BY <2>1, <2>2, Dropped DEF Steps
<1>11. CASE Lapse \/ RedisComesOrGoes \/ UNCHANGED vars
  BY <1>11, Kept DEF Lapse, RedisComesOrGoes, vars, Preparing, ClaimsCover, brokerVars
<1> QED
  BY <1>1, <1>2, <1>3, <1>4, <1>5, <1>6, <1>7, <1>8, <1>9, <1>10, <1>11 DEF Next, Process

LEMMA ClaimsBound == Types /\ ClaimsCover => OneRunPerClaim
<1> SUFFICES ASSUME Types, ClaimsCover, NEW j \in Jobs PROVE runs[j] <= Claims(j)
  BY DEF OneRunPerClaim, Claims
<1>1. IsFiniteSet(Preparing(j)) /\ runs[j] + Cardinality(Preparing(j)) <= Claims(j)
  BY DEF ClaimsCover
<1>2. Cardinality(Preparing(j)) \in Nat /\ runs[j] \in Nat /\ Claims(j) \in Nat
  BY <1>1, Counts DEF Types, Claims
<1> QED
  BY <1>1, <1>2

\* However many workers, redeliveries and faults there are: one worker at a time
\* configures the NAS until a live lease lapses or Redis comes or goes, and a job
\* starts at most once for its consumers and once for a request that runs it inline.
THEOREM RunsOnce == Spec => []OneRunAtATime
<1>1. Init => Types /\ OwnerHolds /\ ClaimsCover
  BY TypesInit, OwnerInit, ClaimsInit
<1>2. Types /\ OwnerHolds /\ ClaimsCover /\ [Next]_vars => Types' /\ OwnerHolds' /\ ClaimsCover'
  BY TypesStep, OwnerStep, ClaimsStep
<1>3. Types /\ OwnerHolds /\ ClaimsCover => OneRunAtATime
  BY OwnersAreOne, ClaimsBound DEF OneRunAtATime
<1> QED
  BY <1>1, <1>2, <1>3, PTL DEF Spec

---------------------------------------------------------------------------
(* No job is forgotten *)

WorkerAt(j, places) == \E w \in Workers : job[w] = j /\ pc[w] \in places

\* A QUEUED job whose event is not in the inbox is still to be published, in the
\* queue, or with a consumer; one whose event is there is being prepared, and a
\* RUNNING one runs, unless it was left behind.
Placed(j) ==
  /\ status[j] = "QUEUED" /\ j \notin inbox =>
       outbox[j] = "PENDING" \/ copies[j] > 0 \/ WorkerAt(j, {"consume"})
  /\ status[j] = "QUEUED" /\ j \in inbox => j \in stranded \/ WorkerAt(j, {"start", "lock", "build"})
  /\ status[j] = "RUNNING" => j \in stranded \/ WorkerAt(j, {"running"})
  /\ status[j] = "ABSENT" =>
       j \notin inbox /\ copies[j] = 0 /\ outbox[j] = "NONE" /\ ~WorkerAt(j, Steps \ {"idle"})

\* And a consumer at its first step holds the message it would give back.
JobsPlaced ==
  /\ \A w \in Workers : pc[w] = "consume" => w \in holdsMsg
  /\ \A j \in Jobs : Placed(j)

LEMMA PlacedMeansCarried == Types /\ JobsPlaced => EveryJobIsCarried
BY DEF JobsPlaced, Placed, EveryJobIsCarried, Carried, WorkerAt, AtJob, Types

LEMMA PlacedInit == Init => JobsPlaced
BY DEF Init, JobsPlaced, Placed, WorkerAt

LEMMA PlacedStep == Types /\ JobsPlaced /\ [Next]_vars => JobsPlaced'
<1> SUFFICES ASSUME Types, JobsPlaced, [Next]_vars PROVE JobsPlaced'
  OBVIOUS
<1> USE DEF Types, JobsPlaced, Placed, WorkerAt, Goto, Return
<1>1. ASSUME NEW j \in Jobs, Enqueue(j) PROVE JobsPlaced'
  BY <1>1 DEF Enqueue, Steps
<1>2. ASSUME NEW j \in Jobs, CancelRead(j) \/ CancelWrite(j) PROVE JobsPlaced'
  BY <1>2 DEF CancelRead, CancelWrite, brokerVars, Steps
<1>3. CASE Switch \/ Lapse \/ RedisComesOrGoes \/ UNCHANGED vars
  BY <1>3 DEF Switch, Lapse, RedisComesOrGoes, vars, brokerVars
<1>4. CASE Publish
  BY <1>4 DEF Publish, Pending, AddCopies
<1>5. ASSUME NEW S \in SUBSET Jobs, PublishPart(S) PROVE JobsPlaced'
  BY <1>5 DEF PublishPart, Pending, AddCopies
<1>6. ASSUME NEW w \in Workers, NEW j \in Jobs, Receive(w, j) PROVE JobsPlaced'
  BY <1>6 DEF Receive, Steps
<1>7. ASSUME NEW w \in Workers, Consume(w) PROVE JobsPlaced'
  BY <1>7 DEF Consume, Steps
<1>8. ASSUME NEW w \in Workers, Start(w) PROVE JobsPlaced'
  BY <1>8 DEF Start, brokerVars, Steps
<1>9. ASSUME NEW w \in Workers, Lock(w) PROVE JobsPlaced'
  BY <1>9 DEF Lock, brokerVars, Steps
<1>10. ASSUME NEW w \in Workers, Build(w) PROVE JobsPlaced'
  BY <1>10 DEF Build, brokerVars, Steps
<1>11. ASSUME NEW w \in Workers, BuildFails(w) PROVE JobsPlaced'
  BY <1>11 DEF BuildFails, Redeliver, Steps
<1>12. ASSUME NEW w \in Workers, Finish(w) PROVE JobsPlaced'
  BY <1>12 DEF Finish, brokerVars, Steps
<1>13. ASSUME NEW w \in Workers, ReleaseRead(w) \/ ReleaseDelete(w) PROVE JobsPlaced'
  BY <1>13 DEF ReleaseRead, ReleaseDelete, brokerVars, Steps
<1>14. ASSUME NEW w \in Workers, Crash(w) PROVE JobsPlaced'
  BY <1>14 DEF Crash, Redeliver, AtJob, Steps
<1> QED
  BY <1>1, <1>2, <1>3, <1>4, <1>5, <1>6, <1>7, <1>8, <1>9, <1>10, <1>11, <1>12, <1>13, <1>14
  DEF Next, Process

\* However jobs are queued, cancelled, published, redelivered and run, and whatever
\* fails: one that is not finished has its event on the way or a worker at it, or
\* was left behind by a refused lock or a dead worker.
THEOREM JobsAreCarried == Spec => []EveryJobIsCarried
<1>1. Types /\ JobsPlaced /\ [Next]_vars => Types' /\ JobsPlaced'
  BY TypesStep, PlacedStep
<1> QED
  BY <1>1, TypesInit, PlacedInit, PlacedMeansCarried, PTL DEF Spec

---------------------------------------------------------------------------
(* The broker's copies *)

Holders(j) == {w \in holdsMsg : job[w] = j}

\* A worker between two jobs holds no message, and the copies of an event that
\* are out, unacknowledged ones included, stay within the bound.
CopiesBounded ==
  /\ \A w \in holdsMsg : pc[w] # "idle"
  /\ \A j \in Jobs : InFlight(j) <= MaxCopies

NasInv == TypeOK /\ CopiesBounded /\ OwnerHolds /\ ClaimsCover /\ JobsPlaced

LEMMA NasWorkers == IsFiniteSet(Workers)
BY AaaAssumption DEF Cmd!CommandsAssumption, Cmd!IsFiniteSet, IsFiniteSet

LEMMA HoldersCount ==
  ASSUME TypeOK, NEW j \in Jobs
  PROVE  /\ IsFiniteSet(Holders(j)) /\ Cardinality(Holders(j)) \in Nat
         /\ InFlight(j) = copies[j] + Cardinality(Holders(j)) /\ copies[j] \in Nat
<1>1. Holders(j) \subseteq Workers
  BY DEF TypeOK, Holders
<1> QED BY <1>1, NasWorkers, FS_Subset, FS_CardinalityType, BoundsAssumption
     DEF TypeOK, InFlight, Holders

\* A step after which no more messages are held, for the copies it adds.
LEMMA CopiesKept ==
  ASSUME TypeOK, CopiesBounded, UNCHANGED copies,
         \A w \in holdsMsg' : w \in holdsMsg /\ job'[w] = job[w] /\ pc'[w] # "idle"
  PROVE  CopiesBounded'
<1> SUFFICES ASSUME NEW j \in Jobs PROVE InFlight(j)' <= MaxCopies
  BY DEF CopiesBounded
<1>1. Holders(j)' \subseteq Holders(j)
  BY DEF Holders
<1>2. IsFiniteSet(Holders(j)) /\ Cardinality(Holders(j)) \in Nat /\ copies[j] \in Nat
  BY HoldersCount
<1>3. IsFiniteSet(Holders(j)') /\ Cardinality(Holders(j)') <= Cardinality(Holders(j))
  BY <1>1, <1>2, FS_Subset
<1>4. Cardinality(Holders(j)') \in Nat
  BY <1>3, FS_CardinalityType
<1>5. InFlight(j) <= MaxCopies /\ InFlight(j) = copies[j] + Cardinality(Holders(j))
  BY HoldersCount DEF CopiesBounded
<1>6. InFlight(j)' = copies[j] + Cardinality(Holders(j)')
  BY DEF InFlight, Holders
<1> QED BY <1>2, <1>3, <1>4, <1>5, <1>6, BoundsAssumption

LEMMA CopiesRedelivered ==
  ASSUME TypeOK, CopiesBounded, NEW w \in Workers, Return(w), Redeliver(w), UNCHANGED job
  PROVE  CopiesBounded' /\ copies' \in [Jobs -> 0..MaxCopies]
<1>1. /\ pc' = [pc EXCEPT ![w] = "idle"] /\ holdsMsg' = holdsMsg \ {w}
      /\ copies' = [copies EXCEPT ![job[w]] = @ + IF w \in holdsMsg THEN 1 ELSE 0]
      /\ job[w] \in Jobs /\ job' = job
  BY DEF Return, Redeliver, Goto, TypeOK
<1>2. \A v \in holdsMsg' : pc'[v] # "idle"
  BY <1>1 DEF TypeOK, CopiesBounded
<1>3. ASSUME NEW j \in Jobs
      PROVE  InFlight(j)' <= MaxCopies /\ copies'[j] \in 0..MaxCopies
  <2>1. /\ IsFiniteSet(Holders(j)) /\ Cardinality(Holders(j)) \in Nat /\ copies[j] \in Nat
        /\ InFlight(j) = copies[j] + Cardinality(Holders(j)) /\ InFlight(j) <= MaxCopies
    BY HoldersCount DEF CopiesBounded
  <2>2. Holders(j)' = Holders(j) \ {w}
    BY <1>1 DEF Holders
  <2>3. InFlight(j)' = copies'[j] + Cardinality(Holders(j)')
    BY <1>1 DEF InFlight, Holders
  <2>4. Cardinality(Holders(j)') = IF w \in Holders(j) THEN Cardinality(Holders(j)) - 1
                                   ELSE Cardinality(Holders(j))
    BY <2>1, <2>2, FS_RemoveElement
  <2>5. copies'[j] = IF w \in Holders(j) THEN copies[j] + 1 ELSE copies[j]
    BY <1>1, <2>1 DEF Holders, TypeOK
  <2>6. Cardinality(Holders(j)') \in Nat
    BY <2>1, <2>2, FS_RemoveElement, FS_CardinalityType
  <2> QED BY <2>1, <2>3, <2>4, <2>5, <2>6, BoundsAssumption
<1> QED BY <1>1, <1>2, <1>3 DEF CopiesBounded, TypeOK

\* A step that leaves the messages with the workers who hold them, and adds a
\* copy of each event of S.
LEMMA CopiesAdded ==
  ASSUME TypeOK, CopiesBounded, NEW S \in SUBSET Jobs, \A j \in S : InFlight(j) < MaxCopies,
         AddCopies(S), UNCHANGED <<pc, job, holdsMsg>>
  PROVE  CopiesBounded' /\ copies' \in [Jobs -> 0..MaxCopies]
<1>1. \A w \in holdsMsg' : pc'[w] # "idle"
  BY DEF CopiesBounded
<1>2. ASSUME NEW j \in Jobs
      PROVE  InFlight(j)' <= MaxCopies /\ copies'[j] \in 0..MaxCopies
  <2>1. /\ Cardinality(Holders(j)) \in Nat /\ copies[j] \in Nat
        /\ InFlight(j) = copies[j] + Cardinality(Holders(j)) /\ InFlight(j) <= MaxCopies
    BY HoldersCount DEF CopiesBounded
  <2>2. Holders(j)' = Holders(j) /\ InFlight(j)' = copies'[j] + Cardinality(Holders(j))
    BY DEF InFlight, Holders
  <2>3. copies'[j] = copies[j] + IF j \in S THEN 1 ELSE 0
    BY DEF AddCopies
  <2> QED BY <2>1, <2>2, <2>3, BoundsAssumption
<1> QED BY <1>1, <1>2 DEF CopiesBounded, AddCopies

LEMMA CopiesReceived ==
  ASSUME TypeOK, CopiesBounded, NEW w \in Workers, NEW k \in Jobs, Receive(w, k)
  PROVE  CopiesBounded' /\ copies' \in [Jobs -> 0..MaxCopies]
<1>1. /\ pc' = [pc EXCEPT ![w] = "consume"] /\ holdsMsg' = holdsMsg \cup {w}
      /\ copies' = [copies EXCEPT ![k] = @ - 1] /\ copies[k] > 0
      /\ job' = [job EXCEPT ![w] = k] /\ pc[w] = "idle"
  BY DEF Receive, Goto
<1>2. w \notin holdsMsg /\ \A v \in holdsMsg' : pc'[v] # "idle"
  BY <1>1 DEF TypeOK, CopiesBounded
<1>3. ASSUME NEW j \in Jobs
      PROVE  InFlight(j)' <= MaxCopies /\ copies'[j] \in 0..MaxCopies
  <2>1. /\ IsFiniteSet(Holders(j)) /\ Cardinality(Holders(j)) \in Nat /\ copies[j] \in Nat
        /\ InFlight(j) = copies[j] + Cardinality(Holders(j)) /\ InFlight(j) <= MaxCopies
    BY HoldersCount DEF CopiesBounded
  <2>2. InFlight(j)' = copies'[j] + Cardinality(Holders(j)')
    BY DEF InFlight, Holders
  <2>3. CASE j = k
    <3>1. Holders(j)' = Holders(j) \cup {w} /\ w \notin Holders(j)
      BY <1>1, <1>2, <2>3 DEF Holders, TypeOK
    <3>2. Cardinality(Holders(j)') = Cardinality(Holders(j)) + 1
      BY <2>1, <3>1, FS_AddElement
    <3>3. copies'[j] = copies[j] - 1
      BY <1>1, <2>3 DEF TypeOK
    <3> QED BY <1>1, <2>1, <2>2, <2>3, <3>2, <3>3, BoundsAssumption
  <2>4. CASE j # k
    <3>1. Holders(j)' = Holders(j) /\ copies'[j] = copies[j]
      BY <1>1, <1>2, <2>4 DEF Holders, TypeOK
    <3> QED BY <2>1, <2>2, <3>1, BoundsAssumption
  <2> QED BY <2>3, <2>4
<1> QED BY <1>1, <1>2, <1>3 DEF CopiesBounded, TypeOK

\* The counters and messages of every step.
LEMMA CopiesStep ==
  ASSUME TypeOK, CopiesBounded, [Next]_vars
  PROVE  CopiesBounded' /\ copies' \in [Jobs -> 0..MaxCopies]
<1>0. copies \in [Jobs -> 0..MaxCopies]
  BY DEF TypeOK
<1>1. ASSUME NEW j \in Jobs, Enqueue(j) PROVE CopiesBounded' /\ copies' = copies
  <2>1. copies' = copies /\ holdsMsg' = holdsMsg
    BY <1>1 DEF Enqueue
  <2>2. \A w \in holdsMsg : pc[w] # "idle" /\ job'[w] = job[w] /\ pc'[w] = pc[w]
    BY <1>1 DEF Enqueue, Goto, TypeOK, CopiesBounded
  <2> QED BY <2>1, <2>2, CopiesKept
<1>2. ASSUME NEW j \in Jobs, CancelRead(j) \/ CancelWrite(j) PROVE CopiesBounded' /\ copies' = copies
  <2>1. UNCHANGED <<copies, holdsMsg, job, pc>>
    BY <1>2 DEF CancelRead, CancelWrite, brokerVars
  <2> QED BY <2>1, CopiesKept DEF CopiesBounded
<1>3. CASE Switch \/ Lapse \/ RedisComesOrGoes \/ UNCHANGED vars
  <2>1. UNCHANGED <<copies, holdsMsg, job, pc>>
    BY <1>3 DEF Switch, Lapse, RedisComesOrGoes, vars, brokerVars
  <2> QED BY <1>0, <2>1, CopiesKept DEF CopiesBounded
<1>4. CASE Publish
  <2>1. /\ UNCHANGED <<pc, job, holdsMsg>> /\ AddCopies(Pending) /\ Pending \in SUBSET Jobs
        /\ \A j \in Pending : InFlight(j) < MaxCopies
    BY <1>4 DEF Publish, Pending
  <2> QED BY <2>1, CopiesAdded
<1>5. ASSUME NEW S \in SUBSET Jobs, PublishPart(S)
      PROVE  CopiesBounded' /\ copies' \in [Jobs -> 0..MaxCopies]
  <2>1. UNCHANGED <<pc, job, holdsMsg>> /\ AddCopies(S) /\ S \subseteq Pending
        /\ \A j \in Pending : InFlight(j) + 1 < MaxCopies
    BY <1>5 DEF PublishPart
  <2>2. ASSUME NEW j \in S PROVE InFlight(j) < MaxCopies
    <3>1. j \in Jobs /\ InFlight(j) + 1 < MaxCopies
      BY <2>1
    <3>2. InFlight(j) \in Nat
      BY <3>1, HoldersCount
    <3> QED BY <3>1, <3>2, BoundsAssumption
  <2> QED BY <2>1, <2>2, CopiesAdded
<1>6. ASSUME NEW w \in Workers, NEW j \in Jobs, Receive(w, j)
      PROVE  CopiesBounded' /\ copies' \in [Jobs -> 0..MaxCopies]
  BY <1>6, CopiesReceived
<1>7. ASSUME NEW w \in Workers,
             Consume(w) \/ Start(w) \/ Lock(w) \/ Build(w) \/ Finish(w) \/ ReleaseRead(w)
               \/ ReleaseDelete(w)
      PROVE  CopiesBounded' /\ copies' = copies
  <2>1. UNCHANGED <<copies, job>>
    BY <1>7 DEF Consume, Start, Lock, Build, Finish, ReleaseRead, ReleaseDelete, brokerVars
  <2>2. \/ Return(w)
        \/ holdsMsg' = holdsMsg /\ \E step \in Steps \ {"idle"} : Goto(w, step)
    BY <1>7 DEF Consume, Start, Lock, Build, Finish, ReleaseRead, ReleaseDelete, Steps
  <2>3. \A v \in holdsMsg' : v \in holdsMsg /\ pc'[v] # "idle"
    BY <2>2 DEF Return, Goto, TypeOK, CopiesBounded
  <2> QED BY <2>1, <2>3, CopiesKept
<1>8. ASSUME NEW w \in Workers, BuildFails(w) \/ Crash(w)
      PROVE  CopiesBounded' /\ copies' \in [Jobs -> 0..MaxCopies]
  <2>1. Return(w) /\ Redeliver(w) /\ UNCHANGED job
    BY <1>8 DEF BuildFails, Crash
  <2> QED BY <2>1, CopiesRedelivered
<1> QED BY <1>0, <1>1, <1>2, <1>3, <1>4, <1>5, <1>6, <1>7, <1>8 DEF Next, Process

---------------------------------------------------------------------------
(* The invariant of NAS jobs *)

LEMMA NasTypes == TypeOK => Types
BY BoundsAssumption DEF TypeOK, Types

\* The sets and owners of every step.
LEMMA NasSets ==
  ASSUME TypeOK, [Next]_vars
  PROVE  /\ {inbox, cancelling, inline, stranded}' \subseteq SUBSET Jobs
         /\ holdsMsg' \subseteq Workers /\ faults' \in 0..MaxFaults
         /\ {redis, db}' \subseteq Owners
<1> DEFINE Goal == /\ {inbox, cancelling, inline, stranded}' \subseteq SUBSET Jobs
                   /\ holdsMsg' \subseteq Workers /\ faults' \in 0..MaxFaults
                   /\ {redis, db}' \subseteq Owners
<1> USE DEF TypeOK, Return, lockVars, brokerVars
<1>1. ASSUME NEW j \in Jobs, Enqueue(j) \/ CancelRead(j) \/ CancelWrite(j) PROVE Goal
  BY <1>1 DEF Enqueue, CancelRead, CancelWrite
<1>2. CASE Switch \/ Publish \/ \E S \in SUBSET Jobs : PublishPart(S)
  BY <1>2 DEF Switch, Publish, PublishPart
<1>3. ASSUME NEW w \in Workers, NEW j \in Jobs, Receive(w, j) PROVE Goal
  BY <1>3 DEF Receive
<1>4. ASSUME NEW w \in Workers, Consume(w) PROVE Goal
  BY <1>4 DEF Consume
<1>5. ASSUME NEW w \in Workers, Start(w) \/ Build(w) \/ Finish(w) PROVE Goal
  BY <1>5 DEF Start, Build, Finish
<1>6. ASSUME NEW w \in Workers, Lock(w) PROVE Goal
  <2>1. {redis, db}' \subseteq Owners
    BY <1>6 DEF Lock, TakeLock, Owners
  <2>2. stranded' \in SUBSET Jobs
    BY <1>6 DEF Lock
  <2> QED BY <1>6, <2>1, <2>2 DEF Lock
<1>7. ASSUME NEW w \in Workers, BuildFails(w) \/ Crash(w) PROVE Goal
  <2>1. {redis, db}' \subseteq Owners
    BY <1>7 DEF BuildFails, Crash, Abandon, Owners
  <2>2. stranded' \in SUBSET Jobs /\ faults' \in 0..MaxFaults
    BY <1>7, BoundsAssumption DEF BuildFails, Crash, Fault
  <2> QED BY <1>7, <2>1, <2>2 DEF BuildFails, Crash
<1>8. ASSUME NEW w \in Workers, ReleaseRead(w) \/ ReleaseDelete(w) PROVE Goal
  BY <1>8 DEF ReleaseRead, ReleaseDelete, Owners
<1>9. CASE Lapse \/ RedisComesOrGoes
  BY <1>9, BoundsAssumption DEF Lapse, RedisComesOrGoes, Fault, Owners
<1>10. CASE UNCHANGED vars
  BY <1>10 DEF vars
<1> QED BY <1>1, <1>2, <1>3, <1>4, <1>5, <1>6, <1>7, <1>8, <1>9, <1>10 DEF Next, Process

\* The flags of every step.
LEMMA NasFlags ==
  ASSUME {enabled, redisUp, dbExpired, broken} \subseteq BOOLEAN, [Next]_vars
  PROVE  {enabled, redisUp, dbExpired, broken}' \subseteq BOOLEAN
<1> DEFINE Goal == {enabled, redisUp, dbExpired, broken}' \subseteq BOOLEAN
<1>1. CASE UNCHANGED <<enabled, redisUp, dbExpired, broken>>
  BY <1>1
<1>2. CASE Switch
  BY <1>2, Zenon DEF Switch, lockVars
<1>3. ASSUME NEW w \in Workers, Lock(w) PROVE Goal
  <2>1. dbExpired' \in BOOLEAN /\ redisUp' = redisUp
    BY <1>3, Zenon DEF Lock, TakeLock, lockVars
  <2> QED BY <1>3, <2>1, Zenon DEF Lock
<1>4. CASE Lapse
  BY <1>4, Zenon DEF Lapse
<1>5. CASE RedisComesOrGoes
  BY <1>5, Zenon DEF RedisComesOrGoes
<1>6. ASSUME NEW w \in Workers, Process(w), ~Lock(w)
      PROVE  UNCHANGED <<enabled, redisUp, dbExpired, broken>>
  BY <1>6 DEF Process, Consume, Start, Build, BuildFails, Finish, ReleaseRead, ReleaseDelete,
     Abandon, lockVars
<1>7. ASSUME NEW w \in Workers, NEW j \in Jobs, Receive(w, j)
      PROVE  UNCHANGED <<enabled, redisUp, dbExpired, broken>>
  BY <1>7 DEF Receive, lockVars
<1>8. ASSUME NEW j \in Jobs, Enqueue(j) \/ CancelRead(j) \/ CancelWrite(j)
      PROVE  UNCHANGED <<enabled, redisUp, dbExpired, broken>>
  BY <1>8 DEF Enqueue, CancelRead, CancelWrite, lockVars
<1>9. ASSUME NEW w \in Workers, Crash(w)
      PROVE  UNCHANGED <<enabled, redisUp, dbExpired, broken>>
  BY <1>9 DEF Crash, Abandon
<1>10. CASE Publish \/ \E S \in SUBSET Jobs : PublishPart(S)
  BY <1>1, <1>10 DEF Publish, PublishPart, lockVars
<1>11. CASE UNCHANGED vars
  BY <1>1, <1>11 DEF vars, lockVars
<1> QED BY <1>1, <1>2, <1>3, <1>4, <1>5, <1>6, <1>7, <1>8, <1>9, <1>10, <1>11 DEF Next

LEMMA NasBegins == Init => NasInv
<1> SUFFICES ASSUME Init PROVE NasInv
  OBVIOUS
<1>1. Types /\ OwnerHolds /\ ClaimsCover /\ JobsPlaced
  BY TypesInit, OwnerInit, ClaimsInit, PlacedInit
<1>2. TypeOK
  <2>1. {enabled, redisUp, dbExpired, broken} \subseteq BOOLEAN
    BY Zenon DEF Init
  <2>2. copies \in [Jobs -> 0..MaxCopies] /\ faults \in 0..MaxFaults
    BY BoundsAssumption DEF Init
  <2> QED BY <1>1, <2>1, <2>2 DEF Init, TypeOK, Types, Owners
<1>3. CopiesBounded
  <2>1. ASSUME NEW j \in Jobs PROVE InFlight(j) = 0
    <3>1. Holders(j) = {} /\ copies[j] = 0
      BY DEF Init, Holders
    <3> QED BY <3>1, FS_EmptySet DEF InFlight, Holders
  <2> QED BY <2>1, BoundsAssumption DEF CopiesBounded, Init
<1> QED BY <1>1, <1>2, <1>3 DEF NasInv

LEMMA NasStep == NasInv /\ [Next]_vars => NasInv'
<1> SUFFICES ASSUME NasInv, [Next]_vars PROVE NasInv'
  OBVIOUS
<1>1. Types /\ Types'
  BY NasTypes, TypesStep DEF NasInv
<1>2. OwnerHolds' /\ ClaimsCover' /\ JobsPlaced'
  BY <1>1, OwnerStep, ClaimsStep, PlacedStep DEF NasInv
<1>3. CopiesBounded' /\ copies' \in [Jobs -> 0..MaxCopies]
  BY CopiesStep DEF NasInv
<1>4. {enabled, redisUp, dbExpired, broken}' \subseteq BOOLEAN
  BY NasFlags DEF NasInv, TypeOK
<1>5. /\ {inbox, cancelling, inline, stranded}' \subseteq SUBSET Jobs
      /\ holdsMsg' \subseteq Workers /\ faults' \in 0..MaxFaults
      /\ {redis, db}' \subseteq Owners
  BY NasSets DEF NasInv
<1>6. TypeOK'
  BY <1>1, <1>3, <1>4, <1>5 DEF TypeOK, Types
<1> QED BY <1>2, <1>3, <1>6 DEF NasInv

---------------------------------------------------------------------------
(* RADIUS commands *)

\* The workers that have read a command as QUEUED and will send it.
Takers(c) == {w \in Workers : taking[w] = c}

\* A command that may still be taken was not sent, and each of the workers can
\* send it once.
AttemptsBounded ==
  \A c \in Commands :
    /\ command[c] \in {"ABSENT", "QUEUED"} => attempts[c] = 0
    /\ attempts[c] + Cardinality(Takers(c)) <= Cardinality(Workers)

CmdInv == Cmd!TypeOK /\ AttemptsBounded /\ DisconnectedByNas

\* The cardinality of the commands' module is that of this one.
LEMMA CmdCardinality == Cmd!Cardinality(Workers) = Cardinality(Workers)
BY DEF Cmd!Cardinality, Cardinality

LEMMA TakersCount ==
  ASSUME NEW c
  PROVE  /\ IsFiniteSet(Takers(c)) /\ Cardinality(Takers(c)) \in Nat /\ Cardinality(Workers) \in Nat
         /\ Cardinality(Takers(c)) <= Cardinality(Workers)
<1>1. Takers(c) \subseteq Workers
  BY DEF Takers
<1> QED BY <1>1, NasWorkers, FS_Subset, FS_CardinalityType

LEMMA CmdBegins == Cmd!Init => CmdInv
<1> SUFFICES ASSUME Cmd!Init PROVE CmdInv
  OBVIOUS
<1>1. ASSUME NEW c \in Commands PROVE attempts[c] = 0 /\ 0 + Cardinality(Takers(c)) <= Cardinality(Workers)
  BY TakersCount DEF Cmd!Init
<1>2. Cardinality(Workers) \in Nat
  BY TakersCount
<1>3. Cmd!TypeOK
  BY <1>2, CmdCardinality DEF Cmd!Init, Cmd!TypeOK, Cmd!Outcomes, Cmd!ActionOutcomes, Cmd!SessionStatus
<1> QED BY <1>1, <1>3 DEF CmdInv, AttemptsBounded, DisconnectedByNas, Cmd!DisconnectedByNas, Cmd!Init

\* The attempts stay bounded when nobody is sent to a command anew.
LEMMA AttemptsKept ==
  ASSUME AttemptsBounded, UNCHANGED attempts,
         \A c \in Commands : attempts[c] \in Nat /\ Takers(c)' \subseteq Takers(c),
         \A c \in Commands :
           command'[c] \in {"ABSENT", "QUEUED"} => command[c] \in {"ABSENT", "QUEUED"}
  PROVE  AttemptsBounded'
<1> SUFFICES ASSUME NEW c \in Commands
             PROVE  /\ command'[c] \in {"ABSENT", "QUEUED"} => attempts[c] = 0
                    /\ attempts[c] + Cardinality(Takers(c)') <= Cardinality(Workers)
  BY DEF AttemptsBounded
<1>1. /\ IsFiniteSet(Takers(c)) /\ Cardinality(Takers(c)) \in Nat /\ Cardinality(Workers) \in Nat
      /\ attempts[c] + Cardinality(Takers(c)) <= Cardinality(Workers) /\ attempts[c] \in Nat
  BY TakersCount DEF AttemptsBounded
<1>2. Cardinality(Takers(c)') <= Cardinality(Takers(c)) /\ IsFiniteSet(Takers(c)')
  BY <1>1, FS_Subset
<1>3. Cardinality(Takers(c)') \in Nat
  BY <1>2, FS_CardinalityType
<1> QED BY <1>1, <1>2, <1>3 DEF AttemptsBounded

LEMMA CmdPick ==
  ASSUME CmdInv, NEW w \in Workers, NEW c \in Commands, Cmd!Pick(w, c),
         request' \subseteq request,
         UNCHANGED <<session, command, attempts, action, sending, acked, silent>>
  PROVE  CmdInv'
<1>1. command[c] = "QUEUED" /\ taking' = [taking EXCEPT ![w] = c]
  BY DEF Cmd!Pick
<1>2. Cmd!TypeOK'
  BY <1>1 DEF CmdInv, Cmd!TypeOK
<1>3. ASSUME NEW d \in Commands
      PROVE  attempts[d] + Cardinality(Takers(d)') <= Cardinality(Workers)
  <2>1. attempts[d] \in Nat /\ attempts[d] + Cardinality(Takers(d)) <= Cardinality(Workers)
    BY CmdCardinality, TakersCount DEF CmdInv, Cmd!TypeOK, AttemptsBounded
  <2>2. CASE d = c
    <3>1. attempts[d] = 0 /\ Takers(d)' \subseteq Workers
      BY <1>1, <2>2 DEF CmdInv, AttemptsBounded, Takers
    <3>2. Cardinality(Takers(d)') <= Cardinality(Workers) /\ IsFiniteSet(Takers(d)')
      BY <3>1, NasWorkers, FS_Subset
    <3>3. Cardinality(Takers(d)') \in Nat
      BY <3>2, FS_CardinalityType
    <3> QED BY <3>1, <3>2, <3>3
  <2>3. CASE d # c
    <3>1. Takers(d)' \subseteq Takers(d)
      BY <1>1, <2>3 DEF Takers, CmdInv, Cmd!TypeOK
    <3>2. /\ IsFiniteSet(Takers(d)) /\ Cardinality(Takers(d)) \in Nat /\ Cardinality(Workers) \in Nat
      BY TakersCount
    <3>3. Cardinality(Takers(d)') <= Cardinality(Takers(d)) /\ IsFiniteSet(Takers(d)')
      BY <3>1, <3>2, FS_Subset
    <3>4. Cardinality(Takers(d)') \in Nat
      BY <3>3, FS_CardinalityType
    <3> QED BY <2>1, <3>2, <3>3, <3>4
  <2> QED BY <2>2, <2>3
<1>4. AttemptsBounded'
  BY <1>3 DEF CmdInv, AttemptsBounded
<1>5. DisconnectedByNas'
  BY DEF CmdInv, DisconnectedByNas, Cmd!DisconnectedByNas
<1> QED BY <1>2, <1>4, <1>5 DEF CmdInv

LEMMA CmdTake ==
  ASSUME CmdInv, NEW w \in Workers, Cmd!Take(w) PROVE CmdInv'
<1> PICK c : c = taking[w]
  OBVIOUS
<1>1. /\ c \in Commands /\ taking' = [taking EXCEPT ![w] = Unnamed] /\ taking[w] = c
      /\ command' = [command EXCEPT ![c] = "SENDING"] /\ attempts' = [attempts EXCEPT ![c] = @ + 1]
      /\ sending' = [sending EXCEPT ![w] = c]
      /\ UNCHANGED <<session, action, request, acked, silent>>
  BY DEF Cmd!Take, CmdInv, Cmd!TypeOK
<1>2. Unnamed \notin Commands
  BY AaaAssumption DEF Cmd!CommandsAssumption
<1>3. ASSUME NEW d \in Commands
      PROVE  /\ attempts'[d] \in 0..Cardinality(Workers)
             /\ command'[d] \in {"ABSENT", "QUEUED"} => attempts'[d] = 0
             /\ attempts'[d] + Cardinality(Takers(d)') <= Cardinality(Workers)
  <2>1. /\ attempts[d] \in Nat /\ attempts[d] + Cardinality(Takers(d)) <= Cardinality(Workers)
        /\ command[d] \in {"ABSENT", "QUEUED"} => attempts[d] = 0
        /\ Cardinality(Workers) \in Nat /\ Cardinality(Takers(d)) \in Nat /\ IsFiniteSet(Takers(d))
    BY CmdCardinality, TakersCount DEF CmdInv, Cmd!TypeOK, AttemptsBounded
  <2>2. CASE d = c
    <3>1. Takers(d)' = Takers(d) \ {w} /\ w \in Takers(d)
      BY <1>1, <1>2, <2>2 DEF Takers, CmdInv, Cmd!TypeOK
    <3>2. /\ Cardinality(Takers(d)') = Cardinality(Takers(d)) - 1
          /\ IsFiniteSet(Takers(d)')
      BY <2>1, <3>1, FS_RemoveElement
    <3>3. Cardinality(Takers(d)') \in Nat
      BY <3>2, FS_CardinalityType
    <3>4. attempts'[d] = attempts[d] + 1 /\ command'[d] = "SENDING"
      BY <1>1, <2>2 DEF CmdInv, Cmd!TypeOK
    <3> QED BY <2>1, <3>2, <3>3, <3>4
  <2>3. CASE d # c
    <3>1. Takers(d)' = Takers(d) /\ attempts'[d] = attempts[d] /\ command'[d] = command[d]
      BY <1>1, <1>2, <2>3 DEF Takers, CmdInv, Cmd!TypeOK
    <3> QED BY <2>1, <3>1
  <2> QED BY <2>2, <2>3
<1>4. Cmd!TypeOK'
  BY <1>1, <1>3, CmdCardinality DEF CmdInv, Cmd!TypeOK
<1>5. AttemptsBounded'
  BY <1>3 DEF AttemptsBounded
<1>6. DisconnectedByNas'
  BY <1>1 DEF CmdInv, DisconnectedByNas, Cmd!DisconnectedByNas
<1> QED BY <1>4, <1>5, <1>6 DEF CmdInv

LEMMA CmdSend ==
  ASSUME CmdInv, NEW w \in Workers, NEW outcome \in Cmd!Outcomes, Cmd!Send(w, outcome)
  PROVE  CmdInv'
<1> PICK c : c = sending[w]
  OBVIOUS
<1> PICK s : s = CommandSession[c]
  OBVIOUS
<1>1. /\ c \in Commands /\ command' = [command EXCEPT ![c] = outcome]
      /\ session' = [session EXCEPT ![s] = Cmd!SessionAfter(c, outcome, @)]
      /\ acked' = acked \cup {t \in {s} : outcome = "ACKNOWLEDGED" /\ c \in Disconnects}
      /\ silent' = silent \cup {t \in {s} : outcome = "TIMED_OUT"}
      /\ sending' = [sending EXCEPT ![w] = Unnamed]
      /\ UNCHANGED <<attempts, action, request, taking>>
  BY DEF Cmd!Send, CmdInv, Cmd!TypeOK
<1>2. s \in Targets
  BY <1>1, AaaAssumption DEF Cmd!CommandsAssumption
<1>3. Cmd!TypeOK'
  <2>1. session' \in [Targets -> Cmd!SessionStatus]
    BY <1>1, <1>2 DEF CmdInv, Cmd!TypeOK, Cmd!SessionAfter, Cmd!SessionStatus
  <2>2. {acked, silent}' \subseteq SUBSET Targets
    BY <1>1, <1>2 DEF CmdInv, Cmd!TypeOK
  <2> QED BY <1>1, <2>1, <2>2 DEF CmdInv, Cmd!TypeOK
<1>4. AttemptsBounded'
  <2>1. \A d \in Commands : Takers(d)' = Takers(d) /\ attempts[d] \in Nat
    BY <1>1, CmdCardinality, TakersCount DEF Takers, CmdInv, Cmd!TypeOK
  <2>2. \A d \in Commands : command'[d] \in {"ABSENT", "QUEUED"} => command[d] \in {"ABSENT", "QUEUED"}
    BY <1>1 DEF CmdInv, Cmd!TypeOK, Cmd!Outcomes
  <2> QED BY <1>1, <2>1, <2>2, AttemptsKept DEF CmdInv
<1>5. DisconnectedByNas'
  BY <1>1, <1>2 DEF CmdInv, Cmd!TypeOK, DisconnectedByNas, Cmd!DisconnectedByNas, Cmd!SessionAfter
<1> QED BY <1>3, <1>4, <1>5 DEF CmdInv

LEMMA CmdStep ==
  ASSUME CmdInv, [Cmd!Next]_(Cmd!vars) PROVE CmdInv'
<1> USE DEF CmdInv
<1>0. \A c \in Commands : attempts[c] \in Nat
  BY CmdCardinality, TakersCount DEF Cmd!TypeOK
<1>1. ASSUME NEW c \in Commands, Cmd!Create(c) PROVE CmdInv'
  <2>1. CommandSession[c] \in Targets
    BY AaaAssumption DEF Cmd!CommandsAssumption
  <2>2. Cmd!TypeOK'
    BY <1>1, <2>1 DEF Cmd!Create, Cmd!TypeOK, Cmd!SessionStatus
  <2>3. DisconnectedByNas'
    BY <1>1, <2>1 DEF Cmd!Create, Cmd!TypeOK, DisconnectedByNas, Cmd!DisconnectedByNas
  <2>4. \A d \in Commands : command'[d] \in {"ABSENT", "QUEUED"} => command[d] \in {"ABSENT", "QUEUED"}
    BY <1>1 DEF Cmd!Create, Cmd!TypeOK
  <2>5. AttemptsBounded'
    BY <1>0, <1>1, <2>4, AttemptsKept DEF Cmd!Create, Takers
  <2> QED BY <2>2, <2>3, <2>5
<1>2. ASSUME NEW c \in Commands, NEW outcome \in Cmd!ActionOutcomes,
             Cmd!RecordOutcome(c, outcome)
      PROVE  CmdInv'
  <2>1. UNCHANGED <<session, command, attempts, request, taking, sending, acked, silent>>
    BY <1>2 DEF Cmd!RecordOutcome
  <2>2. action' \in [Actions -> Cmd!ActionOutcomes \cup {"ABSENT", "PENDING"}]
    BY <1>2 DEF Cmd!RecordOutcome, Cmd!TypeOK
  <2> QED BY <2>1, <2>2 DEF Cmd!TypeOK, AttemptsBounded, Takers, DisconnectedByNas, Cmd!DisconnectedByNas
<1>3. ASSUME NEW c \in Commands, Cmd!Retry(c) PROVE CmdInv'
  <2>1. UNCHANGED <<session, command, attempts, request, taking, sending, acked, silent>>
    BY <1>3 DEF Cmd!Retry
  <2>2. action' \in [Actions -> Cmd!ActionOutcomes \cup {"ABSENT", "PENDING"}]
    BY <1>3 DEF Cmd!Retry, Cmd!TypeOK
  <2> QED BY <2>1, <2>2 DEF Cmd!TypeOK, AttemptsBounded, Takers, DisconnectedByNas, Cmd!DisconnectedByNas
<1>4. ASSUME NEW s \in Targets, Cmd!Account(s) PROVE CmdInv'
  <2>1. UNCHANGED <<command, attempts, action, request, taking, sending, acked, silent>>
    BY <1>4 DEF Cmd!Account
  <2>2. PICK next \in {"ACTIVE", "STOPPED", "STALE"} : session' = [session EXCEPT ![s] = next]
    BY <1>4 DEF Cmd!Account
  <2> QED BY <2>1, <2>2 DEF Cmd!TypeOK, Cmd!SessionStatus, AttemptsBounded, Takers,
       DisconnectedByNas, Cmd!DisconnectedByNas
<1>5. ASSUME NEW w \in Workers, Cmd!Take(w) PROVE CmdInv'
  BY <1>5, CmdTake
<1>6. ASSUME NEW w \in Workers, NEW outcome \in Cmd!Outcomes, Cmd!Send(w, outcome) PROVE CmdInv'
  BY <1>6, CmdSend
<1>7. ASSUME NEW w \in Workers, Cmd!Die(w) PROVE CmdInv'
  <2>1. /\ UNCHANGED <<session, command, attempts, action, request, acked, silent>>
        /\ taking' = [taking EXCEPT ![w] = Unnamed] /\ sending' = [sending EXCEPT ![w] = Unnamed]
    BY <1>7 DEF Cmd!Die
  <2>2. \A c \in Commands : Takers(c)' \subseteq Takers(c)
    BY <2>1, AaaAssumption DEF Takers, Cmd!TypeOK, Cmd!CommandsAssumption
  <2>3. AttemptsBounded'
    BY <1>0, <2>1, <2>2, AttemptsKept
  <2> QED BY <2>1, <2>3 DEF Cmd!TypeOK, DisconnectedByNas, Cmd!DisconnectedByNas
<1>8. ASSUME NEW w \in Workers, NEW c \in Commands, Cmd!Consume(w, c) PROVE CmdInv'
  <2>1. /\ request' = request \ {c}
        /\ UNCHANGED <<session, command, attempts, action, sending, acked, silent>>
    BY <1>8 DEF Cmd!Consume
  <2>2. UNCHANGED taking
    BY <1>8 DEF Cmd!Consume, Cmd!CommandInEvent
  <2> QED BY <2>1, <2>2 DEF Cmd!TypeOK, AttemptsBounded, Takers, DisconnectedByNas, Cmd!DisconnectedByNas
<1>9. ASSUME NEW w \in Workers, NEW c \in Commands, Cmd!Schedule(w, c) PROVE CmdInv'
  BY <1>9, CmdPick DEF Cmd!Schedule
<1>10. CASE UNCHANGED Cmd!vars
  BY <1>10 DEF Cmd!vars, Cmd!TypeOK, AttemptsBounded, Takers, DisconnectedByNas, Cmd!DisconnectedByNas
<1> QED BY <1>1, <1>2, <1>3, <1>4, <1>5, <1>6, <1>7, <1>8, <1>9, <1>10 DEF Cmd!Next

---------------------------------------------------------------------------
(* Accounting *)

\* A request at a packet has read the counter its session still has, and the
\* usage that still is, as long as no two of them overlapped.
AcctRead ==
  /\ \A h \in Handlers : handler[h] # "idle" => packet[h] \in Packets
  /\ ~overlapped => \A h \in Handlers :
       /\ handler[h] # "idle" => seenRow[h].octets = octets[PacketSession[packet[h]]]
       /\ handler[h] = "write" => seenUsage[h].octets = usage /\ (seenUsage[h].fup <=> fup)

\* The counters of the packets received for a session, and none.
Counted(s, ps) == {0} \cup {CountOf[p] : p \in {q \in ps : PacketSession[q] = s}}

AcctInv == Acct!TypeOK /\ AcctRead /\ UsageIsExact

\* What is assumed of the constants, in terms of this module's operators.
LEMMA AcctConstants ==
  /\ IsFiniteSet(Sessions) /\ IsFiniteSet(Packets)
  /\ \A p \in Packets : PacketSession[p] \in Sessions /\ CountOf[p] \in Nat
  /\ Threshold \in Nat \ {0}
  /\ \A p \in Packets : TypeOf[p] = "Accounting-On" => CountOf[p] = 0
BY AaaAssumption DEF Acct!AccountingAssumption, Acct!IsFiniteSet, IsFiniteSet

LEMMA AcctSum == \A f : Acct!SumOver(f, Sessions) = SumOver(f, Sessions)
BY DEF Acct!SumOver, SumOver, Acct!MapThenSumSet, Acct!MapThenFoldSet, MapThenSumSet, MapThenFoldSet

\* The maximum of a finite set of numbers is one of them and bounds them all.
LEMMA MaxBounds ==
  ASSUME NEW S \in SUBSET Nat, IsFiniteSet(S), S # {}
  PROVE  Acct!Max(S) \in S /\ \A y \in S : y <= Acct!Max(S)
<1> DEFINE From(x) == {y \in S : y >= x}
           Tails == {From(x) : x \in S}
<1>1. PICK T \in Tails : \A U \in Tails : U \subseteq T => U = T
  <2>1. Tails \in SUBSET SUBSET S
    OBVIOUS
  <2>2. Tails # {}
    OBVIOUS
  <2>3. IsFiniteSet(S)
    OBVIOUS
  <2> HIDE DEF Tails, From
  <2>4. PICK R : R = S
    OBVIOUS
  <2>5. IsFiniteSet(R)
    BY <2>3, <2>4
  <2>6. \A D \in SUBSET SUBSET R : D # {} => \E T \in D : \A U \in D : U \subseteq T => U = T
    BY <2>5, Smallest
  <2> QED BY <2>1, <2>2, <2>4, <2>6
<1>2. PICK x \in S : T = From(x)
  OBVIOUS
<1>3. ASSUME NEW y \in S PROVE y <= x
  <2>1. CASE y > x
    <3>1. x \in From(x) /\ x \notin From(y)
      BY <1>3, <2>1
    <3>2. From(y) \in Tails
      OBVIOUS
    <3>3. From(y) \subseteq From(x)
      <4> SUFFICES ASSUME NEW z \in S, z >= y PROVE z >= x
        OBVIOUS
      <4>1. x \in Nat /\ y \in Nat /\ z \in Nat
        BY <1>3
      <4> QED BY <2>1, <4>1
    <3> HIDE DEF Tails, From
    <3> QED BY <1>1, <1>2, <3>1, <3>2, <3>3
  <2> QED BY <1>3, <2>1
<1>4. \E m \in S : \A y \in S : m >= y
  BY <1>3
<1> QED BY <1>4 DEF Acct!Max

\* It is the number that does both.
LEMMA MaxIs ==
  ASSUME NEW S \in SUBSET Nat, NEW m \in S, \A y \in S : y <= m
  PROVE  Acct!Max(S) = m
<1>1. \E x \in S : \A y \in S : x >= y
  OBVIOUS
<1>2. Acct!Max(S) \in S /\ \A y \in S : Acct!Max(S) >= y
  BY <1>1 DEF Acct!Max
<1>3. Acct!Max(S) \in Nat /\ m \in Nat /\ Acct!Max(S) >= m /\ Acct!Max(S) <= m
  BY <1>2
<1> QED BY <1>3

\* All counters together bound each of them.
LEMMA CountersBounded == \E n \in Nat : \A p \in Packets : CountOf[p] <= n
<1>1. SumOver(CountOf, Packets) \in Nat /\ \A p \in Packets : CountOf[p] <= SumOver(CountOf, Packets)
  BY AcctConstants, SumNat
<1> QED BY <1>1

\* What is counted is a finite set of numbers.
LEMMA CountedType ==
  ASSUME NEW s, NEW ps \in SUBSET Packets
  PROVE  /\ Counted(s, ps) \in SUBSET Nat /\ IsFiniteSet(Counted(s, ps)) /\ 0 \in Counted(s, ps)
<1>1. PICK n \in Nat : \A p \in Packets : CountOf[p] <= n
  BY CountersBounded
<1>2. Counted(s, ps) \in SUBSET Nat /\ 0 \in Counted(s, ps)
  BY AcctConstants DEF Counted
<1>3. \A y \in Counted(s, ps) : y <= n
  BY <1>1 DEF Counted
<1> QED BY <1>2, <1>3, FS_BoundedSetOfNaturals

LEMMA TopBounds ==
  Acct!Top \in Nat /\ \A p \in Packets : CountOf[p] \in 0..Acct!Top
<1> DEFINE S == {0} \cup {CountOf[p] : p \in Packets}
<1>2. S \in SUBSET Nat /\ S # {}
  BY AcctConstants
<1>1. IsFiniteSet(S)
  <2>1. PICK n \in Nat : \A p \in Packets : CountOf[p] <= n
    BY CountersBounded
  <2>2. \A y \in S : y <= n
    BY <2>1
  <2> HIDE DEF S
  <2> QED BY <1>2, <2>2, FS_BoundedSetOfNaturals
<1>3. Acct!Max(S) \in S /\ \A y \in S : y <= Acct!Max(S)
  <2> HIDE DEF S
  <2> QED BY <1>1, <1>2, MaxBounds
<1>4. Acct!Top = Acct!Max(S)
  BY DEF Acct!Top
<1> QED BY <1>2, <1>3, <1>4, AcctConstants

\* The counter of a session after one more packet.
LEMMA CountedMore ==
  ASSUME NEW s, NEW ps \in SUBSET Packets, NEW p \in Packets, PacketSession[p] = s
  PROVE  LET m == Acct!Max(Counted(s, ps))
         IN  Acct!Max(Counted(s, ps \cup {p})) = IF CountOf[p] > m THEN CountOf[p] ELSE m
<1> DEFINE m == Acct!Max(Counted(s, ps))
<1>1. Counted(s, ps \cup {p}) = Counted(s, ps) \cup {CountOf[p]}
  BY DEF Counted
<1>2. m \in Counted(s, ps) /\ \A y \in Counted(s, ps) : y <= m
  BY CountedType, MaxBounds
<1>3. Counted(s, ps) \in SUBSET Nat /\ CountOf[p] \in Nat /\ m \in Nat
  BY <1>2, CountedType, AcctConstants
<1> HIDE DEF m
<1>4. CASE CountOf[p] > m
  <2>1. \A y \in Counted(s, ps) \cup {CountOf[p]} : y <= CountOf[p]
    BY <1>2, <1>3, <1>4
  <2> QED BY <1>1, <1>3, <1>4, <2>1, MaxIs DEF m
<1>5. CASE ~(CountOf[p] > m)
  <2>1. \A y \in Counted(s, ps) \cup {CountOf[p]} : y <= m
    BY <1>2, <1>3, <1>5
  <2>2. m \in Counted(s, ps) \cup {CountOf[p]} /\ Counted(s, ps) \cup {CountOf[p]} \in SUBSET Nat
    BY <1>2, <1>3
  <2>3. Acct!Max(Counted(s, ps) \cup {CountOf[p]}) = m
    BY <2>1, <2>2, MaxIs
  <2> QED BY <1>1, <1>5, <2>3 DEF m
<1> QED BY <1>4, <1>5 DEF m

\* The property in these terms.
LEMMA UsageTerms ==
  UsageIsExact <=>
    (~overlapped =>
       /\ usage + forgiven = SumOver(octets, Sessions)
       /\ \A s \in Sessions : octets[s] = Acct!Max(Counted(s, received))
       /\ fup <=> usage >= Threshold)
BY AcctSum DEF UsageIsExact, Acct!UsageIsExact, Counted

LEMMA AcctBegins == Acct!Init => AcctInv
<1> SUFFICES ASSUME Acct!Init PROVE AcctInv
  OBVIOUS
<1>1. Acct!TypeOK
  <2>1. fup \in BOOLEAN /\ overlapped \in BOOLEAN
    BY Zenon DEF Acct!Init
  <2> QED BY <2>1, TopBounds DEF Acct!Init, Acct!TypeOK, Acct!SessionStatus, Acct!NoRow, Acct!NoUsage, Acct!Keys
<1>2. AcctRead
  BY DEF Acct!Init, AcctRead
<1>3. UsageIsExact
  <2>1. SumOver(octets, Sessions) = 0
    BY AcctConstants, SumZero DEF Acct!Init
  <2>2. ASSUME NEW s \in Sessions PROVE Acct!Max(Counted(s, received)) = 0
    <3>1. Counted(s, received) = {0}
      BY DEF Acct!Init, Counted
    <3> QED BY <3>1, MaxIs
  <2> QED BY <2>1, <2>2, UsageTerms, AcctConstants DEF Acct!Init
<1> QED BY <1>1, <1>2, <1>3 DEF AcctInv

LEMMA AcctReceive ==
  ASSUME AcctInv, NEW h \in Handlers, NEW p \in Packets, Acct!Receive(h, p) PROVE AcctInv'
<1> DEFINE row == [status |-> sessionStatus[PacketSession[p]], octets |-> octets[PacketSession[p]]]
<1>1. /\ handler' = [handler EXCEPT ![h] = "usage"] /\ packet' = [packet EXCEPT ![h] = p]
      /\ seenRow' = [seenRow EXCEPT ![h] = row]
      /\ UNCHANGED <<received, sessionStatus, octets, usage, fup, commands, seenUsage, forgiven, overlapped>>
  BY DEF Acct!Receive, Acct!sessionVars, Acct!usageVars
<1>2. /\ row \in [status : Acct!SessionStatus, octets : 0..Acct!Top]
      /\ row.octets = octets[PacketSession[p]]
  BY AcctConstants DEF AcctInv, Acct!TypeOK
<1> HIDE DEF row
<1>3. Acct!TypeOK'
  BY <1>1, <1>2 DEF AcctInv, Acct!TypeOK
<1>4. AcctRead'
  BY <1>1, <1>2 DEF AcctInv, AcctRead, Acct!TypeOK
<1>5. UsageIsExact'
  BY <1>1 DEF AcctInv, UsageIsExact, Acct!UsageIsExact
<1> QED BY <1>3, <1>4, <1>5 DEF AcctInv

LEMMA AcctReadUsage ==
  ASSUME AcctInv, NEW h \in Handlers, Acct!ReadUsage(h) PROVE AcctInv'
<1> DEFINE seen == [octets |-> usage, fup |-> fup]
<1>1. /\ handler[h] = "usage" /\ handler' = [handler EXCEPT ![h] = "write"]
      /\ seenUsage' = [seenUsage EXCEPT ![h] = seen]
      /\ UNCHANGED <<received, sessionStatus, octets, usage, fup, commands, packet, seenRow, forgiven, overlapped>>
  BY DEF Acct!ReadUsage, Acct!sessionVars, Acct!usageVars
<1>2. /\ seen \in [octets : Nat, fup : BOOLEAN] /\ seen.octets = usage /\ seen.fup = fup
  BY DEF AcctInv, Acct!TypeOK
<1> HIDE DEF seen
<1>3. Acct!TypeOK'
  BY <1>1, <1>2 DEF AcctInv, Acct!TypeOK
<1>4. AcctRead'
  BY <1>1, <1>2 DEF AcctInv, AcctRead, Acct!TypeOK
<1>5. UsageIsExact'
  BY <1>1 DEF AcctInv, UsageIsExact, Acct!UsageIsExact
<1> QED BY <1>3, <1>4, <1>5 DEF AcctInv

\* A request ends: it holds nothing it read, and the others keep what they have.
AcctEnded(h) ==
  /\ handler' \in [Handlers -> {"idle", "usage", "write"}] /\ handler'[h] = "idle"
  /\ packet' \in [Handlers -> Packets \cup {None}]
  /\ seenRow' \in [Handlers -> [status : Acct!SessionStatus, octets : 0..Acct!Top]]
  /\ seenUsage' \in [Handlers -> [octets : Nat, fup : BOOLEAN]]
  /\ \A g \in Handlers \ {h} :
       /\ handler'[g] = handler[g] /\ packet'[g] = packet[g]
       /\ seenRow'[g] = seenRow[g] /\ seenUsage'[g] = seenUsage[g]

LEMMA AcctFinished ==
  ASSUME Acct!TypeOK, NEW h \in Handlers, Acct!Finish(h) PROVE AcctEnded(h)
<1>1. /\ Acct!NoRow \in [status : Acct!SessionStatus, octets : 0..Acct!Top]
      /\ Acct!NoUsage \in [octets : Nat, fup : BOOLEAN]
  BY TopBounds DEF Acct!NoRow, Acct!NoUsage, Acct!SessionStatus
<1> QED BY <1>1 DEF Acct!Finish, Acct!TypeOK, AcctEnded

LEMMA AcctWriteFails ==
  ASSUME AcctInv, NEW h \in Handlers, Acct!WriteFails(h) PROVE AcctInv'
<1>1. Acct!Finish(h) /\ UNCHANGED <<received, sessionStatus, octets, usage, fup, commands, forgiven, overlapped>>
  BY DEF Acct!WriteFails, Acct!sessionVars, Acct!usageVars
<1>2. AcctEnded(h)
  BY <1>1, AcctFinished DEF AcctInv
<1>3. Acct!TypeOK'
  BY <1>1, <1>2 DEF AcctInv, Acct!TypeOK, AcctEnded
<1>4. AcctRead'
  BY <1>1, <1>2 DEF AcctInv, AcctRead, AcctEnded
<1>5. UsageIsExact'
  BY <1>1 DEF AcctInv, UsageIsExact, Acct!UsageIsExact
<1> QED BY <1>3, <1>4, <1>5 DEF AcctInv

LEMMA AcctOn ==
  ASSUME AcctInv, NEW p \in Packets, Acct!AccountingOn(p) PROVE AcctInv'
<1>1. /\ TypeOf[p] = "Accounting-On" /\ received' = received \cup {p}
      /\ UNCHANGED <<octets, usage, fup, commands, handler, packet, seenRow, seenUsage, forgiven, overlapped>>
      /\ sessionStatus' \in [Sessions -> Acct!SessionStatus]
  BY DEF Acct!AccountingOn, Acct!usageVars, Acct!handlerVars, AcctInv, Acct!TypeOK, Acct!SessionStatus
<1>2. Acct!TypeOK'
  BY <1>1 DEF AcctInv, Acct!TypeOK
<1>3. AcctRead'
  BY <1>1 DEF AcctInv, AcctRead
<1>4. ASSUME NEW s \in Sessions PROVE Counted(s, received') = Counted(s, received)
  <2>1. CountOf[p] = 0
    BY <1>1, AcctConstants
  <2> QED BY <1>1, <2>1 DEF Counted
<1>5. UsageIsExact'
  <2> SUFFICES ASSUME ~overlapped'
               PROVE  /\ usage' + forgiven' = SumOver(octets', Sessions)
                      /\ \A s \in Sessions : octets'[s] = Acct!Max(Counted(s, received'))
                      /\ fup' <=> usage' >= Threshold
    BY AcctSum DEF UsageIsExact, Acct!UsageIsExact, Counted
  <2>1. /\ usage + forgiven = SumOver(octets, Sessions)
        /\ \A s \in Sessions : octets[s] = Acct!Max(Counted(s, received))
        /\ fup <=> usage >= Threshold
    BY <1>1, UsageTerms DEF AcctInv
  <2> QED BY <1>1, <1>4, <2>1
<1> QED BY <1>2, <1>3, <1>5 DEF AcctInv

LEMMA AcctReset ==
  ASSUME AcctInv, NEW key \in ResetKeys, Acct!ResetUsage(key) PROVE AcctInv'
<1>1. /\ usage' = 0 /\ fup' = FALSE /\ forgiven' = forgiven + usage
      /\ overlapped' = (overlapped \/ Acct!Busy # {})
      /\ UNCHANGED <<received, sessionStatus, octets, handler, packet, seenRow, seenUsage>>
  BY DEF Acct!ResetUsage, Acct!sessionVars, Acct!handlerVars
<1>2. overlapped' \in BOOLEAN /\ fup' \in BOOLEAN
  BY <1>1, Zenon
<1>3. commands' \subseteq Acct!Keys
  BY DEF Acct!ResetUsage, Acct!QueueCoA, AcctInv, Acct!TypeOK, Acct!Keys
<1>4. Acct!TypeOK'
  BY <1>1, <1>2, <1>3 DEF AcctInv, Acct!TypeOK
<1>5. AcctRead'
  BY <1>1 DEF AcctInv, AcctRead, Acct!Busy
<1>6. UsageIsExact'
  <2> SUFFICES ASSUME ~overlapped'
               PROVE  /\ usage' + forgiven' = SumOver(octets', Sessions)
                      /\ \A s \in Sessions : octets'[s] = Acct!Max(Counted(s, received'))
                      /\ fup' <=> usage' >= Threshold
    BY AcctSum DEF UsageIsExact, Acct!UsageIsExact, Counted
  <2>1. ~overlapped
    BY <1>1
  <2>2. /\ usage + forgiven = SumOver(octets, Sessions)
        /\ \A s \in Sessions : octets[s] = Acct!Max(Counted(s, received))
    BY <2>1, UsageTerms DEF AcctInv
  <2> QED BY <1>1, <2>2, AcctConstants DEF AcctInv, Acct!TypeOK
<1> QED BY <1>4, <1>5, <1>6 DEF AcctInv

\* The commit of a request that was alone: the counter becomes the larger one,
\* and the usage grows by as much.
LEMMA AcctWrite ==
  ASSUME AcctInv, NEW h \in Handlers, Acct!Write(h) PROVE AcctInv'
<1> PICK p, s : p = packet[h] /\ s = PacketSession[p]
  OBVIOUS
<1> DEFINE row == seenRow[h]
           seen == seenUsage[h]
           used == seen.octets + Acct!Delta(CountOf[p], row.octets)
           crosses == ~seen.fup /\ used >= Threshold
           next == IF TypeOf[p] = "Stop" THEN "STOPPED" ELSE "ACTIVE"
           larger == Acct!Max({row.octets, CountOf[p]})
<1>1. /\ handler[h] = "write" /\ received' = received \cup {p}
      /\ octets' = [octets EXCEPT ![s] = Acct!Column(row.octets, larger, @)]
      /\ sessionStatus' = [sessionStatus EXCEPT ![s] = Acct!Column(row.status, next, @)]
      /\ usage' = Acct!Column(seen.octets, used, usage)
      /\ fup' = (fup \/ crosses)
      /\ overlapped' = (overlapped \/ Acct!Busy # {h})
      /\ Acct!Finish(h) /\ forgiven' = forgiven
  BY DEF Acct!Write
<1>2. p \in Packets /\ s \in Sessions /\ CountOf[p] \in Nat /\ CountOf[p] \in 0..Acct!Top
  BY <1>1, AcctConstants, TopBounds DEF AcctInv, AcctRead
<1>3. /\ row \in [status : Acct!SessionStatus, octets : 0..Acct!Top]
      /\ seen \in [octets : Nat, fup : BOOLEAN] /\ row.octets \in Nat
      /\ usage \in Nat /\ forgiven \in Nat /\ octets \in [Sessions -> 0..Acct!Top]
  BY TopBounds DEF AcctInv, Acct!TypeOK
<1>4. larger = IF CountOf[p] > row.octets THEN CountOf[p] ELSE row.octets
  <2>1. {row.octets, CountOf[p]} \in SUBSET Nat
    BY <1>2, <1>3
  <2>2. CASE CountOf[p] > row.octets
    <3>1. \A y \in {row.octets, CountOf[p]} : y <= CountOf[p]
      BY <1>2, <1>3, <2>2
    <3> QED BY <2>1, <2>2, <3>1, MaxIs
  <2>3. CASE ~(CountOf[p] > row.octets)
    <3>1. \A y \in {row.octets, CountOf[p]} : y <= row.octets
      BY <1>2, <1>3, <2>3
    <3> QED BY <2>1, <2>3, <3>1, MaxIs
  <2> QED BY <2>2, <2>3
<1>5. /\ used \in Nat /\ larger \in 0..Acct!Top
      /\ used = seen.octets + (larger - row.octets)
  BY <1>2, <1>3, <1>4, TopBounds DEF Acct!Delta
<1>6. next \in Acct!SessionStatus /\ row.status \in Acct!SessionStatus
  BY <1>3 DEF Acct!SessionStatus
<1>7. commands' \subseteq Acct!Keys
  <2>1. commands' = commands \/ Acct!QueueCoA("fup")
    BY DEF Acct!Write
  <2> QED BY <2>1 DEF Acct!QueueCoA, AcctInv, Acct!TypeOK, Acct!Keys
<1>8. overlapped' \in BOOLEAN /\ fup' \in BOOLEAN
  BY <1>1, Zenon
<1>9. AcctEnded(h)
  BY <1>1, AcctFinished DEF AcctInv
<1> HIDE DEF used, larger, next, crosses
<1>10. octets' \in [Sessions -> 0..Acct!Top] /\ usage' \in Nat
  BY <1>1, <1>3, <1>5 DEF Acct!Column
<1>11. sessionStatus' \in [Sessions -> Acct!SessionStatus]
  BY <1>1, <1>6 DEF Acct!Column, AcctInv, Acct!TypeOK
<1>12. Acct!TypeOK'
  BY <1>1, <1>2, <1>3, <1>7, <1>8, <1>9, <1>10, <1>11 DEF AcctInv, Acct!TypeOK, AcctEnded
<1>13. ASSUME ~overlapped' PROVE ~overlapped /\ \A g \in Handlers \ {h} : handler[g] = "idle"
  BY <1>1, <1>13 DEF Acct!Busy
<1>14. AcctRead'
  BY <1>9, <1>13 DEF AcctInv, AcctRead, AcctEnded
<1>15. UsageIsExact'
  <2> SUFFICES ASSUME ~overlapped'
               PROVE  /\ usage' + forgiven' = SumOver(octets', Sessions)
                      /\ \A t \in Sessions : octets'[t] = Acct!Max(Counted(t, received'))
                      /\ fup' <=> usage' >= Threshold
    BY AcctSum DEF UsageIsExact, Acct!UsageIsExact, Counted
  <2>1. /\ usage + forgiven = SumOver(octets, Sessions)
        /\ \A t \in Sessions : octets[t] = Acct!Max(Counted(t, received))
        /\ fup <=> usage >= Threshold
    BY <1>13, UsageTerms DEF AcctInv
  <2>2. row.octets = octets[s] /\ seen.octets = usage /\ (seen.fup <=> fup)
    BY <1>1, <1>13 DEF AcctInv, AcctRead
  <2>3. octets'[s] = larger /\ usage' = used /\ \A t \in Sessions \ {s} : octets'[t] = octets[t]
    BY <1>1, <1>2, <1>3, <2>2 DEF Acct!Column
  <2>4. usage' + forgiven' = SumOver(octets', Sessions)
    <3>1. SumOver(octets', Sessions) = SumOver(octets, Sessions) + (octets'[s] - octets[s])
      <4>1. \A t \in Sessions : octets[t] \in Int /\ octets'[t] \in Int
        BY <1>3, <1>10, TopBounds
      <4> QED BY <1>2, <2>3, <4>1, AcctConstants, SumChange
    <3>2. SumOver(octets, Sessions) \in Int
      BY <2>1, <1>3
    <3> QED BY <1>1, <1>2, <1>3, <1>5, <2>1, <2>2, <2>3, <3>1, <3>2, TopBounds
  <2>5. ASSUME NEW t \in Sessions PROVE octets'[t] = Acct!Max(Counted(t, received'))
    <3>1. CASE t = s
      <4>1. received \in SUBSET Packets
        BY DEF AcctInv, Acct!TypeOK
      <4>2. Acct!Max(Counted(s, received \cup {p})) = IF CountOf[p] > octets[s] THEN CountOf[p] ELSE octets[s]
        BY <1>2, <2>1, <4>1, CountedMore
      <4> QED BY <1>1, <1>4, <2>2, <2>3, <3>1, <4>2
    <3>2. CASE t # s
      <4>1. Counted(t, received') = Counted(t, received)
        BY <1>1, <3>2 DEF Counted
      <4> QED BY <2>1, <2>3, <3>2, <4>1
    <3> QED BY <3>1, <3>2
  <2>6. fup' <=> usage' >= Threshold
    <3>1. used >= usage
      BY <1>2, <1>3, <1>4, <1>5, <2>2
    <3>2. fup' <=> (fup \/ (~fup /\ used >= Threshold))
      BY <1>1, <2>2 DEF crosses
    <3> QED BY <1>3, <1>5, <2>1, <2>3, <3>1, <3>2, AcctConstants
  <2> QED BY <2>4, <2>5, <2>6
<1> QED BY <1>12, <1>14, <1>15 DEF AcctInv

LEMMA AcctStep ==
  ASSUME AcctInv, [Acct!Next]_(Acct!vars) PROVE AcctInv'
<1>1. ASSUME NEW s \in Sessions, Acct!MarkStale(s) \/ Acct!MarkOrphaned(s) PROVE AcctInv'
  <2>1. UNCHANGED <<received, octets, usage, fup, commands, handler, packet, seenRow, seenUsage,
                    forgiven, overlapped>>
    BY <1>1 DEF Acct!MarkStale, Acct!MarkOrphaned, Acct!usageVars, Acct!handlerVars
  <2>2. sessionStatus' \in [Sessions -> Acct!SessionStatus]
    BY <1>1 DEF Acct!MarkStale, Acct!MarkOrphaned, AcctInv, Acct!TypeOK, Acct!SessionStatus
  <2> QED BY <2>1, <2>2 DEF AcctInv, Acct!TypeOK, AcctRead, UsageIsExact, Acct!UsageIsExact
<1>2. CASE UNCHANGED Acct!vars
  <2>1. UNCHANGED <<received, sessionStatus, octets, usage, fup, commands, handler, packet, seenRow,
                    seenUsage, forgiven, overlapped>>
    BY <1>2 DEF Acct!vars, Acct!sessionVars, Acct!usageVars, Acct!handlerVars
  <2> QED BY <2>1 DEF AcctInv, Acct!TypeOK, AcctRead, UsageIsExact, Acct!UsageIsExact
<1> QED BY <1>1, <1>2, AcctReceive, AcctReadUsage, AcctWrite, AcctWriteFails, AcctOn, AcctReset
     DEF Acct!Next, Acct!Account, Acct!Operate

---------------------------------------------------------------------------
(* The AAA service *)

\* The three components keep their invariants side by side.
AaaInv == NasInv /\ AcctInv /\ CmdInv

LEMMA AaaStep == AaaInv /\ [AaaNext]_aaaVars => AaaInv'
<1> SUFFICES ASSUME AaaInv, [AaaNext]_aaaVars PROVE AaaInv'
  OBVIOUS
<1>1. [Next]_vars
  BY DEF AaaNext, aaaVars
<1>2. [Acct!Next]_(Acct!vars)
  BY DEF AaaNext, aaaVars, accountingVars, Acct!vars, Acct!sessionVars, Acct!usageVars, Acct!handlerVars
<1>3. [Cmd!Next]_(Cmd!vars)
  BY DEF AaaNext, aaaVars, commandVars, Cmd!vars
<1> QED BY <1>1, <1>2, <1>3, NasStep, AcctStep, CmdStep DEF AaaInv

LEMMA AaaAlways == AaaSpec => []AaaInv
<1>1. AaaInit => AaaInv
  BY NasBegins, AcctBegins, CmdBegins DEF AaaInit, AaaInv
<1> QED BY <1>1, AaaStep, PTL DEF AaaSpec

\* The types of jobs, accounting and commands; an event is out in a bounded number
\* of copies, and a command is sent no more often than there are workers.
THEOREM AaaTypes == AaaSpec => []AaaTypeOK
<1>1. AaaInv => AaaTypeOK
  BY DEF AaaInv, NasInv, AcctInv, CmdInv, AaaTypeOK
<1> QED BY <1>1, AaaAlways, PTL

\* For any sessions and packets, in any order and repeated, and any resets: unless
\* two requests overlapped, the usage and what was forgiven of it add up to the
\* sessions' counters, each of which is the largest one received, and the
\* fair-usage policy is active exactly when the usage has reached its threshold.
THEOREM UsageStaysExact == AaaSpec => []UsageIsExact
<1>1. AaaInv => UsageIsExact
  BY DEF AaaInv, AcctInv
<1> QED BY <1>1, AaaAlways, PTL

\* For any commands, workers, packets and retries: a session is shown as
\* disconnected, or as silent, only on the NAS's word.
THEOREM DisconnectionsAreReal == AaaSpec => []DisconnectedByNas
<1>1. AaaInv => DisconnectedByNas
  BY DEF AaaInv, CmdInv
<1> QED BY <1>1, AaaAlways, PTL
=============================================================================
