------------------------- MODULE ResourceReservation -------------------------
(***************************************************************************)
(* Resource reservation of the OSS service (resource_service.py): the      *)
(* inventory rows of one resource type (IPV4, VLAN, PON_PORT) beside the   *)
(* reservation ledger, under concurrent database sessions.                 *)
(*                                                                         *)
(* reserve reads the available rows and claims them later with a           *)
(* compare-and-set; allocate, release and expire read a reservation,       *)
(* decide on what they read and write it back later without comparing.     *)
(***************************************************************************)
EXTENDS Naturals, FiniteSetsExt

CONSTANTS NumKeys,    \* inventory rows, ordered as ORDER BY resource_key does
          Tokens,     \* bound: reservation tokens (uuid4: never drawn twice)
          Sessions,   \* database sessions; Worker runs expire_due
          Worker,
          MaxCount,   \* bound: resources asked for in one reserve
          MaxCrashes, \* bound: transactions that die before their commit
          None

ASSUME ConstantsAssumption ==
  /\ NumKeys \in Nat /\ MaxCount \in Nat /\ MaxCrashes \in Nat
  /\ Worker \in Sessions /\ None \notin Tokens

VARIABLES inventory, \* ResourceInventory: status and reservation_token of a key
          ledger,    \* ResourceReservation: state and key of a token
          elapsed,   \* tokens whose expires_at has passed
          session,   \* what each open session has read
          crashes

vars == <<inventory, ledger, elapsed, session, crashes>>

Keys == 1..NumKeys
RowStates == {"ABSENT", "AVAILABLE", "RESERVED", "ALLOCATED"}
ReservationStates == {"NONE", "RESERVED", "ALLOCATED", "RELEASED"}
Ops == {"idle", "reserve", "allocate", "release", "expire"}

\* An open session: candidates and count of a reserve, tokens and the state a
\* ledger operation read for them.
Idle == [op |-> "idle", candidates |-> {}, count |-> 0, toks |-> {}, read |-> "NONE"]

TypeOK ==
  /\ inventory \in [Keys -> [status : RowStates, token : Tokens \cup {None}]]
  /\ ledger \in [Tokens -> [state : ReservationStates, key : Keys \cup {0}]]
  /\ elapsed \subseteq Tokens
  /\ session \in [Sessions -> [op : Ops, candidates : SUBSET Keys, count : Nat,
                               toks : SUBSET Tokens, read : ReservationStates]]
  /\ crashes \in Nat

Init ==
  /\ inventory = [k \in Keys |-> [status |-> "ABSENT", token |-> None]]
  /\ ledger = [t \in Tokens |-> [state |-> "NONE", key |-> 0]]
  /\ elapsed = {}
  /\ session = [p \in Sessions |-> Idle]
  /\ crashes = 0

Available == {k \in Keys : inventory[k].status = "AVAILABLE"}
Fresh == {t \in Tokens : ledger[t].state = "NONE"}

-----------------------------------------------------------------------------
register(k) ==
  /\ inventory[k].status = "ABSENT"
  /\ inventory' = [inventory EXCEPT ![k].status = "AVAILABLE"]
  /\ UNCHANGED <<ledger, elapsed, session, crashes>>

\* Time passes the expires_at of a reservation.
Elapse(t) ==
  /\ ledger[t].state # "NONE"
  /\ t \notin elapsed
  /\ elapsed' = elapsed \cup {t}
  /\ UNCHANGED <<inventory, ledger, session, crashes>>

\* S holds the n smallest keys of T, or all of T when it has fewer.
Smallest(S, T, n) ==
  /\ S \subseteq T
  /\ Cardinality(S) <= n
  /\ Cardinality(S) < n => S = T
  /\ \A k \in S, j \in T \ S : k < j

\* reserve: the candidates, read before any row is claimed; the loop looks at
\* the first 2 * count of them.
reserve(p, count) ==
  /\ session[p].op = "idle"
  /\ MapThenSumSet(LAMBDA q : session[q].count, Sessions) + count <= Cardinality(Fresh)
  /\ \E candidates \in SUBSET Available :
       /\ Smallest(candidates, Available, 2 * count)
       /\ session' = [session EXCEPT ![p] =
            [op |-> "reserve", candidates |-> candidates, count |-> count,
             toks |-> {}, read |-> "NONE"]]
  /\ UNCHANGED <<inventory, ledger, elapsed, crashes>>

\* Mutant: the claim without its WHERE status = 'AVAILABLE'.
StillAvailable_unchecked(p) == session[p].candidates

\* UPDATE ... WHERE id = candidate AND status = 'AVAILABLE' matches these.
StillAvailable(p) == session[p].candidates \cap Available

\* The claims of one transaction: the first count rows that are still available
\* get a token each; when they are too few the claims are undone
\* (_release_partial) and the ledger keeps them as RELEASED.
ReserveCommit(p) ==
  /\ session[p].op = "reserve"
  /\ \E claimed \in SUBSET StillAvailable(p) :
       /\ Smallest(claimed, StillAvailable(p), session[p].count)
       /\ \E token \in [claimed -> Fresh] :
            LET enough == Cardinality(claimed) = session[p].count
                KeyOf(t) == CHOOSE k \in claimed : token[k] = t
                drawn == {token[k] : k \in claimed}
            IN
            /\ \A k, j \in claimed : k # j => token[k] # token[j]
            /\ inventory' = [k \in Keys |->
                 IF k \in claimed /\ enough
                 THEN [status |-> "RESERVED", token |-> token[k]] ELSE inventory[k]]
            /\ ledger' = [t \in Tokens |->
                 IF t \in drawn
                 THEN [state |-> IF enough THEN "RESERVED" ELSE "RELEASED", key |-> KeyOf(t)]
                 ELSE ledger[t]]
  /\ session' = [session EXCEPT ![p] = Idle]
  /\ UNCHANGED <<elapsed, crashes>>

-----------------------------------------------------------------------------
(* The ledger operations: _get, then the decision on what it returned.     *)

Get(p, op, toks, read) ==
  /\ session[p].op = "idle"
  /\ session' = [session EXCEPT ![p] =
       [Idle EXCEPT !.op = op, !.toks = toks, !.read = read]]
  /\ UNCHANGED <<inventory, ledger, elapsed, crashes>>

allocate(p, t) == ledger[t].state = "RESERVED" /\ Get(p, "allocate", {t}, "RESERVED")

release(p, t) == ledger[t].state # "NONE" /\ Get(p, "release", {t}, ledger[t].state)

\* Mutant: the boundary of expires_at is missed.
Due_never == {t \in elapsed : ledger[t].state = "RESERVED" /\ t \notin elapsed}

Due == {t \in elapsed : ledger[t].state = "RESERVED"}

\* expire_due: one transaction for every reservation that is due.
expire_due(p) == Due # {} /\ Get(p, "expire", Due, "RESERVED")

SetStates(toks, state) ==
  ledger' = [t \in Tokens |-> IF t \in toks THEN [ledger[t] EXCEPT !.state = state]
                              ELSE ledger[t]]

\* UPDATE resource_inventory ... WHERE reservation_token IN toks.
UpdateRows(toks, Row(_)) ==
  inventory' = [k \in Keys |-> IF inventory[k].token \in toks THEN Row(inventory[k])
                               ELSE inventory[k]]

AllocatedRow(row) == [row EXCEPT !.status = "ALLOCATED"]
FreeRow(row) == [status |-> "AVAILABLE", token |-> None]

AllocateCommit(p) ==
  /\ session[p].op = "allocate"
  /\ SetStates(session[p].toks, "ALLOCATED")
  /\ UpdateRows(session[p].toks, AllocatedRow)
  /\ session' = [session EXCEPT ![p] = Idle]
  /\ UNCHANGED <<elapsed, crashes>>

\* release writes the state only when it differs from the one it read; it does
\* not look at it otherwise.
ReleaseCommit(p) ==
  /\ session[p].op \in {"release", "expire"}
  /\ SetStates(IF session[p].read = "RELEASED" THEN {} ELSE session[p].toks, "RELEASED")
  /\ UpdateRows(session[p].toks, FreeRow)
  /\ session' = [session EXCEPT ![p] = Idle]
  /\ UNCHANGED <<elapsed, crashes>>

\* The process dies before the commit.
Abort(p) ==
  /\ session[p].op # "idle"
  /\ crashes < MaxCrashes
  /\ crashes' = crashes + 1
  /\ session' = [session EXCEPT ![p] = Idle]
  /\ UNCHANGED <<inventory, ledger, elapsed>>

Next ==
  \/ \E k \in Keys : register(k)
  \/ \E t \in Tokens : Elapse(t)
  \/ \E p \in Sessions :
       \/ \E count \in 1..MaxCount : p # Worker /\ reserve(p, count)
       \/ ReserveCommit(p)
       \/ \E t \in Tokens : p # Worker /\ (allocate(p, t) \/ release(p, t))
       \/ p = Worker /\ expire_due(p)
       \/ AllocateCommit(p) \/ ReleaseCommit(p) \/ Abort(p)

Spec == Init /\ [][Next]_vars

\* The worker loop keeps calling expire_due (worker_runner.run_loop), and
\* the transaction it opens ends.
FairSpec ==
  /\ Spec
  /\ WF_vars(expire_due(Worker))
  /\ WF_vars(ReleaseCommit(Worker))

-----------------------------------------------------------------------------
(* Properties.                                                             *)

\* An inventory row holds a token exactly while it is occupied, and the
\* reservation of that token agrees with the row: same key, same state.
OccupiedAgrees ==
  \A k \in Keys :
    /\ inventory[k].token # None <=> inventory[k].status \in {"RESERVED", "ALLOCATED"}
    /\ inventory[k].token # None =>
         ledger[inventory[k].token] = [state |-> inventory[k].status, key |-> k]

\* A RESERVED reservation holds its row, however the sessions interleave: no two
\* orders hold reservations of one key (reserve's compare-and-set).
ReservedIsHeld ==
  \A t \in Tokens : ledger[t].state = "RESERVED" =>
    /\ ledger[t].key \in Keys
    /\ inventory[ledger[t].key].token = t

\* "concurrent workers cannot double-allocate": at most one live reservation,
\* RESERVED or ALLOCATED, for a key.
NoDoubleAllocation ==
  \A t, u \in Tokens :
    /\ ledger[t].state \in {"RESERVED", "ALLOCATED"}
    /\ ledger[u].state \in {"RESERVED", "ALLOCATED"}
    /\ ledger[t].key = ledger[u].key
    => t = u

\* "Expiry releases stale reservations": a reservation past its expires_at does
\* not stay RESERVED for ever.
ElapsedIsReleased ==
  \A t \in Tokens :
    (t \in elapsed /\ ledger[t].state = "RESERVED") ~> ledger[t].state # "RESERVED"

-----------------------------------------------------------------------------
(* The inductive invariant.                                                *)

\* A ledger session works on drawn tokens; one that read RELEASED works on a
\* token no row holds any more.
SessionOK(p) ==
  /\ \A t \in session[p].toks : ledger[t].state # "NONE"
  /\ session[p].op \in {"release", "expire"} /\ session[p].read = "RELEASED" =>
       \A k \in Keys : inventory[k].token \notin session[p].toks

\* The agreement of rows and ledger, with what the open sessions rely on.
IInv ==
  /\ TypeOK
  /\ OccupiedAgrees
  /\ ReservedIsHeld
  /\ \A p \in Sessions : SessionOK(p)
=============================================================================
