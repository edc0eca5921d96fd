------------------------------- MODULE Ledger -------------------------------
(***************************************************************************)
(* The subledger of the BSS service (app/revenue/ledger.py) in one         *)
(* accounting period.  Entries are immutable; the balance of an account is *)
(* a projection, read, changed and written by each transaction that posts  *)
(* an entry, and written anew by rebuild_projection.  Nothing locks it     *)
(* between the read and the write.                                         *)
(***************************************************************************)
EXTENDS Integers, SequencesExt, Sums

CONSTANTS
  Entries,      \* the journal entries that will be posted
  Lines,        \* [Entries -> the accounts of their lines, in order]
  Change,       \* [Entries -> [Accounts -> debit minus credit]]
  Accounts,
  MaxRebuilds,  \* bound on the rebuilds
  Handlers, Absent, None

\* What the constants may be (assumed of their values in MoneyServices): an entry
\* balances, and changes only the accounts of its lines.
LedgerAssumption ==
  /\ Absent \notin Int /\ None \notin Entries /\ MaxRebuilds \in Nat
  /\ IsFiniteSet(Entries) /\ IsFiniteSet(Accounts)
  /\ Lines \in [Entries -> Seq(Accounts)]
  /\ Change \in [Entries -> [Accounts -> Int]]
  /\ \A e \in Entries : SumOver(Change[e], Accounts) = 0
  /\ \A e \in Entries, a \in Accounts : Change[e][a] # 0 => Contains(Lines[e], a)

VARIABLES
  posted,   \* committed entries
  balance,  \* [Accounts -> LedgerBalanceProjection.balance, or Absent]
  task,     \* [Handlers -> the transaction in flight, or Idle]
  rebuilds,
  lost      \* ghost: accounts whose projection lost an update

vars == <<posted, balance, task, rebuilds, lost>>

Nothing == [a \in Accounts |-> Absent]
Idle == [op |-> "idle", entry |-> None, todo |-> <<>>, seen |-> Nothing, added |-> {}, sum |-> Nothing]
Balances == [Accounts -> Int \cup {Absent}]

\* Every variable stays in its type; the unique (account, period) lets one
\* transaction at a time have added the projection of an account.
TypeOK ==
  /\ posted \subseteq Entries /\ balance \in Balances
  /\ \A h \in Handlers :
       /\ task[h].op \in {"idle", "post", "rebuild"} /\ task[h].entry \in Entries \cup {None}
       /\ task[h].seen \in Balances /\ task[h].sum \in Balances
       /\ task[h].added \subseteq Accounts
  /\ \A g, h \in Handlers : g # h => task[g].added \cap task[h].added = {}
  /\ rebuilds \in 0..MaxRebuilds /\ lost \subseteq Accounts

Init ==
  /\ posted = {} /\ balance = Nothing
  /\ task = [h \in Handlers |-> Idle]
  /\ rebuilds = 0 /\ lost = {}

Value(b) == IF b = Absent THEN 0 ELSE b

\* What the lines of the entries say of an account.
Sum(es, a) == SumOver([e \in Entries |-> Change[e][a]], es)

---------------------------------------------------------------------------
\* post_entry, within the transaction of a capture, a refund or a manual
\* payment, which commits or fails as a whole.
Post(h, e) ==
  /\ task[h] = Idle /\ e \notin posted
  /\ \A g \in Handlers : task[g].entry # e
  /\ task' = [task EXCEPT ![h] = [Idle EXCEPT !.op = "post", !.entry = e, !.todo = Lines[e]]]
  /\ UNCHANGED <<posted, balance, rebuilds, lost>>

\* The projection of the next line: read, if it is there.
Read(h) ==
  LET t == task[h]
      a == Head(t.todo)
  IN /\ t.todo # <<>> /\ balance[a] # Absent
     /\ task' = [task EXCEPT ![h].seen[a] = balance[a], ![h].todo = Tail(@)]
     /\ UNCHANGED <<posted, balance, rebuilds, lost>>

\* It is not there: a new one is flushed, and a second transaction that adds it
\* waits for this one, and fails when this one commits.
Add(h) ==
  LET t == task[h]
      a == Head(t.todo)
  IN /\ t.op = "post" /\ t.todo # <<>> /\ balance[a] = Absent
     /\ \A g \in Handlers : a \notin task[g].added
     /\ task' = [task EXCEPT ![h].seen[a] = 0, ![h].added = @ \cup {a}, ![h].todo = Tail(@)]
     /\ UNCHANGED <<posted, balance, rebuilds, lost>>

\* The commit writes absolute values.
PostCommit(h) ==
  LET t == task[h]
      mine == {a \in Accounts : t.seen[a] # Absent}
  IN /\ t.op = "post" /\ t.todo = <<>>
     /\ posted' = posted \cup {t.entry}
     /\ balance' = [a \in Accounts |-> IF a \in mine THEN t.seen[a] + Change[t.entry][a] ELSE balance[a]]
     /\ lost' = lost \cup {a \in mine : t.seen[a] # Value(balance[a])}
     /\ task' = [task EXCEPT ![h] = Idle]
     /\ UNCHANGED rebuilds

---------------------------------------------------------------------------
\* rebuild_projection: one query sums the lines of each account, then the
\* projections are read one by one.
Rebuild(h) ==
  LET used == {a \in Accounts : \E e \in posted : Change[e][a] # 0}
  IN /\ task[h] = Idle /\ rebuilds < MaxRebuilds /\ used # {}
     /\ rebuilds' = rebuilds + 1
     /\ task' = [task EXCEPT ![h] = [Idle EXCEPT !.op = "rebuild", !.todo = SetToSeq(used),
          !.sum = [a \in Accounts |-> IF a \in used THEN Sum(posted, a) ELSE Absent]]]
     /\ UNCHANGED <<posted, balance, lost>>

\* A rebuild that adds to what it finds.
Adding_Rebuilt(t, a) == t.seen[a] + t.sum[a]

\* A balance found right is not written; the others are, whatever was
\* committed since they were read.
Rebuilt(t, a) == IF t.sum[a] # t.seen[a] THEN t.sum[a] ELSE balance[a]

RebuildCommit(h) ==
  LET t == task[h]
      mine == {a \in Accounts : t.sum[a] # Absent}
      clean == {a \in mine : t.sum[a] = Sum(posted, a) /\ t.seen[a] = balance[a]}
  IN /\ t.op = "rebuild" /\ t.todo = <<>>
     /\ balance' = [a \in Accounts |-> IF a \in mine THEN Rebuilt(t, a) ELSE balance[a]]
     /\ lost' = (lost \cup mine) \ clean
     /\ task' = [task EXCEPT ![h] = Idle]
     /\ UNCHANGED <<posted, rebuilds>>

\* The transaction fails, at the unique constraint, in a deadlock or elsewhere
\* in the operation that posts, or its process dies.
Abort(h) ==
  /\ task[h] # Idle
  /\ task' = [task EXCEPT ![h] = Idle]
  /\ UNCHANGED <<posted, balance, rebuilds, lost>>

Next ==
  \E h \in Handlers :
    \/ Read(h) \/ Add(h) \/ PostCommit(h) \/ Rebuild(h) \/ RebuildCommit(h) \/ Abort(h)
    \/ \E e \in Entries : Post(h, e)

Spec == Init /\ [][Next]_vars

---------------------------------------------------------------------------
(* Properties *)

\* "Balances are derived from journal lines and validated projections"
\* (ledger.py:4).  Unless two transactions overlapped on an account, its
\* projection is the sum of its committed lines; and a rebuild that nothing
\* overlaps makes it so again after one that did.
ProjectionIsSum == \A a \in Accounts \ lost : Value(balance[a]) = Sum(posted, a)
=============================================================================
