------------------------------ MODULE NasJobs ------------------------------
(***************************************************************************)
(* The configuration jobs of one NAS (aaa-service workers.py, locks.py,    *)
(* events.py).  A request queues a job and an outbox event in one commit;  *)
(* flush_outbox publishes the event; a worker consumes it at least once,   *)
(* records it in its inbox and runs process_nas_job under the lock of the  *)
(* NAS.  The lock lives in Redis, or in a table while Redis is down, and   *)
(* is a lease.  A request may also run the job inline (sync).              *)
(*                                                                         *)
(* Left out: what a job writes on the router, the lifecycle of the NAS,    *)
(* and the completion events, which reach the same queue but name a job    *)
(* that is no longer QUEUED.                                               *)
(***************************************************************************)
EXTENDS Naturals, FiniteSets

CONSTANTS
  Jobs,       \* idempotency keys of the jobs
  Workers,    \* threads that can run a job: workers and requests
  NoOwner,    \* the lock is free
  Gone,       \* the lock's owner died, or left without releasing it
  MaxCopies,  \* bound: copies of one event in the broker, unacknowledged ones included
  MaxFaults   \* bound: crashes, lapsed leases and switches of Redis

\* An owner is a worker, nobody or a dead one.
ASSUME OwnersAssumption == NoOwner \notin Workers /\ Gone \notin Workers

ASSUME BoundsAssumption == MaxCopies \in Nat /\ MaxFaults \in Nat

VARIABLES
  status,     \* NasJob.status, or "ABSENT"
  outbox,     \* the request event: "NONE", "PENDING" or "PUBLISHED"
  copies,     \* copies of the request event in the queue nas.jobs
  inbox,      \* ConsumerInbox: events recorded as consumed
  enabled,    \* Nas.enabled
  redisUp,    \* Redis answers
  redis,      \* owner under the Redis key
  db,         \* row of nas_operation_locks: its owner
  dbExpired,  \* its expires_at has passed
  pc, job,    \* step and job of each worker
  holdsMsg,   \* workers that will acknowledge a message when they return
  cancelling, \* jobs a cancel request has read as QUEUED
  inline,     \* ghost: jobs a request runs itself
  runs,       \* ghost: how often each job was started
  stranded,   \* ghost: jobs left by a refused lock or a dead worker
  broken,     \* ghost: a live lease lapsed, or Redis came or went
  faults      \* ghost: faults so far

lockVars == <<redisUp, redis, db, dbExpired>>
brokerVars == <<outbox, copies, inbox>>
vars == <<status, brokerVars, enabled, lockVars, pc, job, holdsMsg, cancelling, inline, runs,
          stranded, broken, faults>>

Steps == {"idle", "consume", "start", "lock", "build", "running", "release", "delete"}
Final == {"SUCCEEDED", "FAILED", "CANCELLED"}
AtJob == {"start", "lock", "build", "running"}
Owners == Workers \cup {NoOwner, Gone}

\* Every variable stays in its type; the counters within their bounds.
TypeOK ==
  /\ status \in [Jobs -> Final \cup {"ABSENT", "QUEUED", "RUNNING"}]
  /\ outbox \in [Jobs -> {"NONE", "PENDING", "PUBLISHED"}]
  /\ copies \in [Jobs -> 0..MaxCopies]
  /\ {inbox, cancelling, inline, stranded} \subseteq SUBSET Jobs
  /\ {enabled, redisUp, dbExpired, broken} \subseteq BOOLEAN
  /\ {redis, db} \subseteq Owners
  /\ pc \in [Workers -> Steps]
  /\ job \in [Workers -> Jobs]
  /\ holdsMsg \subseteq Workers
  /\ runs \in [Jobs -> Nat]
  /\ faults \in 0..MaxFaults

Init ==
  /\ status = [j \in Jobs |-> "ABSENT"]
  /\ outbox = [j \in Jobs |-> "NONE"]
  /\ copies = [j \in Jobs |-> 0]
  /\ inbox = {} /\ cancelling = {} /\ inline = {} /\ stranded = {} /\ holdsMsg = {}
  /\ enabled = TRUE /\ redisUp = TRUE /\ dbExpired = FALSE /\ broken = FALSE
  /\ redis = NoOwner /\ db = NoOwner
  /\ pc = [w \in Workers |-> "idle"]
  /\ job \in {[w \in Workers |-> j] : j \in Jobs}
  /\ runs = [j \in Jobs |-> 0]
  /\ faults = 0

\* The message a worker did not acknowledge is in the queue again.
Redeliver(w) == copies' = [copies EXCEPT ![job[w]] = @ + IF w \in holdsMsg THEN 1 ELSE 0]

Goto(w, step) == pc' = [pc EXCEPT ![w] = step]

\* process_nas_job returns: the consumer acknowledges its message.
Return(w) == Goto(w, "idle") /\ holdsMsg' = holdsMsg \ {w}

---------------------------------------------------------------------------
(* Requests *)

\* enqueue_or_run: the job row and its event are committed together; an
\* idempotency key that exists queues nothing.  sync runs the job inline.
Enqueue(j) ==
  /\ status[j] = "ABSENT"
  /\ status' = [status EXCEPT ![j] = "QUEUED"]
  /\ outbox' = [outbox EXCEPT ![j] = "PENDING"]
  /\ \/ UNCHANGED <<pc, job, inline>>
     \/ \E w \in Workers :
          /\ pc[w] = "idle"
          /\ Goto(w, "start")
          /\ job' = [job EXCEPT ![w] = j]
          /\ inline' = inline \cup {j}
  /\ UNCHANGED <<copies, inbox, enabled, lockVars, holdsMsg, cancelling, runs, stranded,
                 broken, faults>>

\* cancel_nas_job reads the row, then writes CANCELLED over whatever it is.
CancelRead(j) ==
  /\ status[j] = "QUEUED"
  /\ cancelling' = cancelling \cup {j}
  /\ UNCHANGED <<status, brokerVars, enabled, lockVars, pc, job, holdsMsg, inline, runs, stranded,
                 broken, faults>>

CancelWrite(j) ==
  /\ j \in cancelling
  /\ status' = [status EXCEPT ![j] = "CANCELLED"]
  /\ cancelling' = cancelling \ {j}
  /\ UNCHANGED <<brokerVars, enabled, lockVars, pc, job, holdsMsg, inline, runs, stranded,
                 broken, faults>>

Switch ==
  /\ enabled' = ~enabled
  /\ UNCHANGED <<status, brokerVars, lockVars, pc, job, holdsMsg, cancelling, inline, runs, stranded,
                 broken, faults>>

---------------------------------------------------------------------------
(* Delivery *)

Pending == {j \in Jobs : outbox[j] = "PENDING"}

InFlight(j) == copies[j] + Cardinality({w \in holdsMsg : job[w] = j})

AddCopies(S) == copies' = [j \in Jobs |-> copies[j] + IF j \in S THEN 1 ELSE 0]

\* The whole batch reached the broker and is marked published.
Publish ==
  /\ Pending # {}
  /\ \A j \in Pending : InFlight(j) < MaxCopies
  /\ AddCopies(Pending)
  /\ outbox' = [j \in Jobs |-> IF j \in Pending THEN "PUBLISHED" ELSE outbox[j]]
  /\ UNCHANGED <<status, inbox, enabled, lockVars, pc, job, holdsMsg, cancelling, inline, runs,
                 stranded, broken, faults>>

\* The connection breaks, or the process dies before its commit: a part of
\* the batch is out and every row stays pending, to be published again.
PublishPart(S) ==
  /\ S # {} /\ S \subseteq Pending
  /\ \A j \in Pending : InFlight(j) + 1 < MaxCopies
  /\ AddCopies(S)
  /\ UNCHANGED <<status, outbox, inbox, enabled, lockVars, pc, job, holdsMsg, cancelling,
                 inline, runs, stranded, broken, faults>>

Receive(w, j) ==
  /\ pc[w] = "idle" /\ copies[j] > 0
  /\ copies' = [copies EXCEPT ![j] = @ - 1]
  /\ Goto(w, "consume")
  /\ job' = [job EXCEPT ![w] = j]
  /\ holdsMsg' = holdsMsg \cup {w}
  /\ UNCHANGED <<status, outbox, inbox, enabled, lockVars, cancelling, inline, runs, stranded,
                 broken, faults>>

\* A consumer without the inbox: every delivery runs the job.
NoInbox_Consume(w) ==
  /\ pc[w] = "consume"
  /\ Goto(w, "start")
  /\ inbox' = inbox \cup {job[w]}
  /\ UNCHANGED <<status, outbox, copies, enabled, lockVars, job, holdsMsg, cancelling, inline, runs,
                 stranded, broken, faults>>

\* consume_nas_job_once: the inbox row is committed before the job runs.
Consume(w) ==
  /\ pc[w] = "consume"
  /\ IF job[w] \in inbox
     THEN Return(w) /\ UNCHANGED inbox
     ELSE Goto(w, "start") /\ inbox' = inbox \cup {job[w]} /\ UNCHANGED holdsMsg
  /\ UNCHANGED <<status, outbox, copies, enabled, lockVars, job, cancelling, inline, runs, stranded,
                 broken, faults>>

---------------------------------------------------------------------------
(* acquire_nas_lock and release_nas_lock *)

\* A refused SET NX that falls through to the table.
FallThrough_TakeLock(w) ==
  \/ /\ redisUp /\ redis = NoOwner
     /\ redis' = w /\ UNCHANGED <<redisUp, db, dbExpired>>
  \/ /\ ~redisUp \/ redis # NoOwner
     /\ db = NoOwner \/ dbExpired
     /\ db' = w /\ dbExpired' = FALSE /\ UNCHANGED <<redisUp, redis>>

\* Redis decides while it answers; the table only when it does not.
TakeLock(w) ==
  \/ /\ redisUp /\ redis = NoOwner
     /\ redis' = w /\ UNCHANGED <<redisUp, db, dbExpired>>
  \/ /\ ~redisUp /\ (db = NoOwner \/ dbExpired)
     /\ db' = w /\ dbExpired' = FALSE /\ UNCHANGED <<redisUp, redis>>

LockRefused == IF redisUp THEN redis # NoOwner ELSE db # NoOwner /\ ~dbExpired

\* The worker is gone: nobody will release what it owns.
Abandon(w) ==
  /\ redis' = IF redis = w THEN Gone ELSE redis
  /\ db' = IF db = w THEN Gone ELSE db
  /\ UNCHANGED <<redisUp, dbExpired>>

---------------------------------------------------------------------------
(* process_nas_job *)

\* Only a QUEUED job of an enabled NAS goes on.
Start(w) ==
  /\ pc[w] = "start"
  /\ IF status[job[w]] # "QUEUED"
     THEN Return(w) /\ UNCHANGED status
     ELSE IF ~enabled
     THEN Return(w) /\ status' = [status EXCEPT ![job[w]] = "FAILED"]
     ELSE Goto(w, "lock") /\ UNCHANGED <<status, holdsMsg>>
  /\ UNCHANGED <<brokerVars, enabled, lockVars, job, cancelling, inline, runs, stranded, broken,
                 faults>>

\* LOCKED leaves the job QUEUED, although its message is used up.
Lock(w) ==
  /\ pc[w] = "lock"
  /\ \/ TakeLock(w) /\ Goto(w, "build") /\ UNCHANGED <<holdsMsg, stranded>>
     \/ /\ LockRefused
        /\ Return(w)
        /\ stranded' = stranded \cup {job[w]}
        /\ UNCHANGED lockVars
  /\ UNCHANGED <<status, brokerVars, enabled, job, cancelling, inline, runs, broken, faults>>

\* RUNNING is committed over whatever the row says by now.
Build(w) ==
  /\ pc[w] = "build"
  /\ Goto(w, "running")
  /\ status' = [status EXCEPT ![job[w]] = "RUNNING"]
  /\ runs' = [runs EXCEPT ![job[w]] = @ + 1]
  /\ UNCHANGED <<brokerVars, enabled, lockVars, job, holdsMsg, cancelling, inline, stranded,
                 broken, faults>>

\* build_adapter raises: the job is FAILED, then the finally clause reads the
\* name adapter, which was never bound, and raises before the release.  The
\* consumer rejects its message, which comes back through the retry queue.
BuildFails(w) ==
  /\ pc[w] = "build"
  /\ status' = [status EXCEPT ![job[w]] = "FAILED"]
  /\ Return(w)
  /\ Abandon(w)
  /\ Redeliver(w)
  /\ UNCHANGED <<outbox, inbox, enabled, job, cancelling, inline, runs, stranded, broken, faults>>

\* An exception handler that only rolls back.
NoHandler_Finish(w) ==
  /\ pc[w] = "running"
  /\ \/ status' = [status EXCEPT ![job[w]] = "SUCCEEDED"]
     \/ UNCHANGED status
  /\ Goto(w, "release")
  /\ UNCHANGED <<brokerVars, enabled, lockVars, job, holdsMsg, cancelling, inline, runs, stranded,
                 broken, faults>>

\* _dispatch_job answers or raises; _job_finished forces the final status.
Finish(w) ==
  /\ pc[w] = "running"
  /\ \E result \in {"SUCCEEDED", "FAILED"} : status' = [status EXCEPT ![job[w]] = result]
  /\ Goto(w, "release")
  /\ UNCHANGED <<brokerVars, enabled, lockVars, job, holdsMsg, cancelling, inline, runs, stranded,
                 broken, faults>>

\* _redis_release reads the owner in one call and deletes the key in another.
ReleaseRead(w) ==
  /\ pc[w] = "release"
  /\ IF redisUp /\ redis = w
     THEN Goto(w, "delete") /\ UNCHANGED <<db, holdsMsg>>
     ELSE Return(w) /\ db' = IF db = w THEN NoOwner ELSE db
  /\ UNCHANGED <<status, brokerVars, enabled, redisUp, redis, dbExpired, job, cancelling,
                 inline, runs, stranded, broken, faults>>

ReleaseDelete(w) ==
  /\ pc[w] = "delete"
  /\ redis' = IF redisUp THEN NoOwner ELSE redis
  /\ db' = IF db = w THEN NoOwner ELSE db
  /\ Return(w)
  /\ UNCHANGED <<status, brokerVars, enabled, redisUp, dbExpired, job, cancelling, inline, runs,
                 stranded, broken, faults>>

---------------------------------------------------------------------------
(* Faults *)

Fault == faults < MaxFaults /\ faults' = faults + 1

\* The worker dies.  Its message is delivered again; its lock stays.
Crash(w) ==
  /\ pc[w] # "idle" /\ Fault
  /\ Return(w)
  /\ Abandon(w)
  /\ Redeliver(w)
  /\ stranded' = IF pc[w] \in AtJob THEN stranded \cup {job[w]} ELSE stranded
  /\ UNCHANGED <<status, outbox, inbox, enabled, job, cancelling, inline, runs, broken>>

\* The ttl of a lease runs out, under a live owner or a dead one.
Lapse ==
  /\ Fault
  /\ \/ /\ redisUp /\ redis # NoOwner
        /\ redis' = NoOwner
        /\ broken' = (broken \/ redis # Gone)
        /\ UNCHANGED dbExpired
     \/ /\ db # NoOwner /\ ~dbExpired
        /\ dbExpired' = TRUE
        /\ broken' = (broken \/ db # Gone)
        /\ UNCHANGED redis
  /\ UNCHANGED <<status, brokerVars, enabled, redisUp, db, pc, job, holdsMsg, cancelling,
                 inline, runs, stranded>>

RedisComesOrGoes ==
  /\ Fault
  /\ redisUp' = ~redisUp
  /\ broken' = TRUE
  /\ UNCHANGED <<status, brokerVars, enabled, redis, db, dbExpired, pc, job, holdsMsg,
                 cancelling, inline, runs, stranded>>

---------------------------------------------------------------------------
Process(w) ==
  Consume(w) \/ Start(w) \/ Lock(w) \/ Build(w) \/ BuildFails(w) \/ Finish(w)
    \/ ReleaseRead(w) \/ ReleaseDelete(w)

Next ==
  \/ \E j \in Jobs : Enqueue(j) \/ CancelRead(j) \/ CancelWrite(j)
  \/ Switch \/ Publish
  \/ \E S \in SUBSET Jobs : PublishPart(S)
  \/ \E w \in Workers : Process(w) \/ Crash(w) \/ \E j \in Jobs : Receive(w, j)
  \/ Lapse \/ RedisComesOrGoes

Spec == Init /\ [][Next]_vars

---------------------------------------------------------------------------
(* Properties *)

Carried(j) ==
  \/ outbox[j] = "PENDING"
  \/ copies[j] > 0 /\ j \notin inbox
  \/ \E w \in Workers :
       job[w] = j /\ (pc[w] \in AtJob \/ (pc[w] = "consume" /\ j \notin inbox))

\* Nobody forgets a job: whatever the order of deliveries, repeated
\* publications, cancellations and crashes, a job that is QUEUED or RUNNING
\* still has its event on the way or a worker at it, unless a refused lock or
\* a dead worker left it behind (workers.py:97, events.py:152).
EveryJobIsCarried ==
  \A j \in Jobs : status[j] \in {"QUEUED", "RUNNING"} => Carried(j) \/ j \in stranded

\* Two workers configure one NAS at once only after a lease ran out under its
\* owner or Redis came or went: the two lock stores are one lock while Redis
\* keeps answering (locks.py:28-54).
OneWorkerPerNas ==
  ~broken => Cardinality({w \in Workers : pc[w] = "running"}) <= 1

\* "redelivery cannot run the same job twice" (events.py:125): the consumers
\* start a job at most once between them, however often its event is published
\* or delivered; a request that runs its job inline, racing the consumer of the
\* same event, is the one way to start it again.
OneRunPerClaim ==
  \A j \in Jobs :
    runs[j] <= (IF j \in inbox THEN 1 ELSE 0) + (IF j \in inline THEN 1 ELSE 0)

\* Both.
OneRunAtATime == OneWorkerPerNas /\ OneRunPerClaim
============================================================================
