---------------------------- MODULE AaaAccounting ----------------------------
(***************************************************************************)
(* Accounting of one subscriber on one NAS (aaa-service services.py,       *)
(* workers.py, network_control/session_registry.py).  RADIUS packets       *)
(* arrive in any order and more than once; requests handle them            *)
(* concurrently.  Each updates the projection of its session and the usage *)
(* of the month, and activates the fair-usage policy (FUP), which queues a *)
(* CoA command for every live session.  What becomes of the commands is in *)
(* RadiusCommands.                                                         *)
(*                                                                         *)
(* One direction of traffic and one month, whose usage row exists; left    *)
(* out: authentication.                                                    *)
(***************************************************************************)
EXTENDS Integers, FiniteSets, Sums

CONSTANTS
  Sessions,   \* Acct-Session-Ids of the subscriber
  Packets,    \* accounting packets, told apart by their idempotency key
  SessionOf,  \* [Packets -> Sessions]; any session for Accounting-On
  TypeOf,     \* [Packets -> {"Start", "Interim", "Stop", "Accounting-On"}]
  CountOf,    \* [Packets -> Nat]: the octet counter the packet carries
  Handlers,   \* concurrent requests
  Threshold,  \* fup_threshold_bytes of the tenant
  ResetKeys,  \* idempotency keys of usage resets
  None        \* no packet

\* What the constants may be (assumed of their values in AaaServices): the FUP
\* has a threshold above zero, and a packet for the whole NAS counts nothing.
AccountingAssumption ==
  /\ IsFiniteSet(Sessions) /\ IsFiniteSet(Packets)
  /\ SessionOf \in [Packets -> Sessions]
  /\ CountOf \in [Packets -> Nat]
  /\ Threshold \in Nat \ {0}
  /\ \A p \in Packets : TypeOf[p] = "Accounting-On" => CountOf[p] = 0

VARIABLES
  received,   \* keys of aaa_accounting_events
  status,     \* ActiveSession.status per session, or "ABSENT"
  octets,     \* ActiveSession.input_octets
  usage,      \* UsageProjection.input_octets of the month
  fup,        \* UsageProjection.fup_active
  commands,   \* idempotency keys of the CoA commands queued
  pc, packet, \* step and packet of each handler
  seenRow,    \* the session row a handler read: [status, octets]
  seenUsage,  \* the usage row it read: [octets, fup]
  forgiven,   \* ghost: octets taken off by resets
  overlapped  \* ghost: two writers of the projections overlapped

sessionVars == <<status, octets>>
usageVars == <<usage, fup>>
handlerVars == <<pc, packet, seenRow, seenUsage>>
vars == <<received, sessionVars, usageVars, commands, handlerVars,
          forgiven, overlapped>>

Live == {"STARTING", "ACTIVE"}
Keys == ({"fup"} \cup ResetKeys) \X Sessions
SessionStatus == {"ABSENT", "ACTIVE", "STOPPED", "STALE", "ORPHANED"}
Top == Max({0} \cup {CountOf[p] : p \in Packets})

\* Every variable stays in its type.
TypeOK ==
  /\ received \subseteq Packets
  /\ status \in [Sessions -> SessionStatus]
  /\ octets \in [Sessions -> 0..Top]
  /\ usage \in Nat /\ forgiven \in Nat /\ fup \in BOOLEAN /\ overlapped \in BOOLEAN
  /\ commands \subseteq Keys
  /\ pc \in [Handlers -> {"idle", "usage", "write"}]
  /\ packet \in [Handlers -> Packets \cup {None}]
  /\ seenRow \in [Handlers -> [status : SessionStatus, octets : 0..Top]]
  /\ seenUsage \in [Handlers -> [octets : Nat, fup : BOOLEAN]]

NoRow == [status |-> "ABSENT", octets |-> 0]
NoUsage == [octets |-> 0, fup |-> FALSE]

Init ==
  /\ received = {} /\ commands = {}
  /\ status = [s \in Sessions |-> "ABSENT"] /\ octets = [s \in Sessions |-> 0]
  /\ usage = 0 /\ fup = FALSE /\ forgiven = 0 /\ overlapped = FALSE
  /\ pc = [h \in Handlers |-> "idle"] /\ packet = [h \in Handlers |-> None]
  /\ seenRow = [h \in Handlers |-> NoRow] /\ seenUsage = [h \in Handlers |-> NoUsage]

Busy == {h \in Handlers : pc[h] # "idle"}

\* One command per live session, unless its idempotency key was used before.
QueueCoA(reason) ==
  commands' = commands \cup {<<reason, s>> : s \in {t \in Sessions : status[t] \in Live}}

---------------------------------------------------------------------------
(* accounting() *)

Finish(h) ==
  /\ pc' = [pc EXCEPT ![h] = "idle"]
  /\ packet' = [packet EXCEPT ![h] = None]
  /\ seenRow' = [seenRow EXCEPT ![h] = NoRow]
  /\ seenUsage' = [seenUsage EXCEPT ![h] = NoUsage]

\* The event row claims the idempotency key: a key already there answers
\* DUPLICATE, a key another request is inserting makes this one wait.  Then
\* the session row is read.
Receive(h, p) ==
  /\ pc[h] = "idle" /\ TypeOf[p] # "Accounting-On"
  /\ p \notin received
  /\ \A g \in Handlers : packet[g] # p
  /\ pc' = [pc EXCEPT ![h] = "usage"]
  /\ packet' = [packet EXCEPT ![h] = p]
  /\ seenRow' = [seenRow EXCEPT ![h] =
       [status |-> status[SessionOf[p]], octets |-> octets[SessionOf[p]]]]
  /\ UNCHANGED <<received, sessionVars, usageVars, commands, seenUsage,
                 forgiven, overlapped>>

ReadUsage(h) ==
  /\ pc[h] = "usage"
  /\ pc' = [pc EXCEPT ![h] = "write"]
  /\ seenUsage' = [seenUsage EXCEPT ![h] = [octets |-> usage, fup |-> fup]]
  /\ UNCHANGED <<received, sessionVars, usageVars, commands, packet, seenRow,
                 forgiven, overlapped>>

\* A counter taken for an increment.
Incremental_Delta(incoming, previous) == incoming

\* The octets a packet adds to the month: what exceeds the session's counter.
Delta(incoming, previous) == IF incoming > previous THEN incoming - previous ELSE 0

\* A column is written as an absolute value, and only when it differs from
\* what was read.
Column(read, new, now) == IF new = read THEN now ELSE new

\* The commit.  A session row inserted meanwhile by another request makes the
\* insert fail.  The sessions to throttle are those live before this commit.
Write(h) ==
  LET p == packet[h]
      s == SessionOf[p]
      row == seenRow[h]
      seen == seenUsage[h]
      used == seen.octets + Delta(CountOf[p], row.octets)
      crosses == ~seen.fup /\ used >= Threshold
      next == IF TypeOf[p] = "Stop" THEN "STOPPED" ELSE "ACTIVE"
  IN /\ pc[h] = "write"
     /\ row.status = "ABSENT" => status[s] = "ABSENT"
     /\ received' = received \cup {p}
     /\ octets' = [octets EXCEPT ![s] =
                     Column(row.octets, Max({row.octets, CountOf[p]}), @)]
     /\ status' = [status EXCEPT ![s] = Column(row.status, next, @)]
     /\ usage' = Column(seen.octets, used, usage)
     /\ fup' = (fup \/ crosses)
     /\ IF crosses THEN QueueCoA("fup") ELSE UNCHANGED commands
     /\ overlapped' = (overlapped \/ Busy # {h})
     /\ Finish(h)
     /\ UNCHANGED forgiven

WriteFails(h) ==
  /\ pc[h] = "write"
  /\ seenRow[h].status = "ABSENT" /\ status[SessionOf[packet[h]]] # "ABSENT"
  /\ Finish(h)
  /\ UNCHANGED <<received, sessionVars, usageVars, commands, forgiven,
                 overlapped>>

\* Accounting-On and Accounting-Off make the sessions of the NAS suspect.
AccountingOn(p) ==
  /\ TypeOf[p] = "Accounting-On" /\ p \notin received
  /\ received' = received \cup {p}
  /\ status' = [s \in Sessions |->
       IF status[s] \in Live THEN "STALE" ELSE status[s]]
  /\ UNCHANGED <<octets, usageVars, commands, handlerVars, forgiven,
                 overlapped>>

---------------------------------------------------------------------------
(* Operators and maintenance *)

\* detect_stale_sessions and classify_stale: no interim for too long.
MarkStale(s) ==
  /\ status[s] \in Live
  /\ status' = [status EXCEPT ![s] = "STALE"]
  /\ UNCHANGED <<received, octets, usageVars, commands, handlerVars,
                 forgiven, overlapped>>

MarkOrphaned(s) ==
  /\ status[s] = "STALE"
  /\ status' = [status EXCEPT ![s] = "ORPHANED"]
  /\ UNCHANGED <<received, octets, usageVars, commands, handlerVars,
                 forgiven, overlapped>>

\* reset_subscriber_usage: the month starts again, and the live sessions get
\* their normal policy back if FUP was active.
ResetUsage(key) ==
  /\ usage > 0
  /\ usage' = 0 /\ fup' = FALSE
  /\ IF fup THEN QueueCoA(key) ELSE UNCHANGED commands
  /\ forgiven' = forgiven + usage
  /\ overlapped' = (overlapped \/ Busy # {})
  /\ UNCHANGED <<received, sessionVars, handlerVars>>

---------------------------------------------------------------------------
Account ==
  \/ \E h \in Handlers : ReadUsage(h) \/ Write(h) \/ WriteFails(h)
  \/ \E h \in Handlers, p \in Packets : Receive(h, p)
  \/ \E p \in Packets : AccountingOn(p)

Operate ==
  \/ \E s \in Sessions : MarkStale(s) \/ MarkOrphaned(s)
  \/ \E key \in ResetKeys : ResetUsage(key)

Next == Account \/ Operate

Spec == Init /\ [][Next]_vars

---------------------------------------------------------------------------
(* Properties *)

\* Accounting is exact: packets that are late, repeated or out of order, and
\* resets between them, leave the month's usage equal to what the sessions
\* counted, each octet once, and FUP active exactly when the usage has reached
\* the threshold.  It is so until two writers overlap: the rows are written as
\* absolute values without a lock (services.py:130-143).
UsageIsExact ==
  ~overlapped =>
    /\ usage + forgiven = SumOver(octets, Sessions)
    /\ \A s \in Sessions :
         octets[s] = Max({0} \cup {CountOf[p] : p \in {q \in received : SessionOf[q] = s}})
    /\ fup <=> usage >= Threshold
=============================================================================
