------------------------------ MODULE MCMoney ------------------------------
(* A small instance of MoneyServices for TLC. *)
EXTENDS MoneyServices, TLC

CONSTANTS
  t1, t2, e1, clawback, bonus, h1, h2, c1, c2, a1, a2, code,
  capture, chargeback, refund, gateway, income, loss

\* One earning, its clawback and its adjustment, over the settlements of two
\* cycles; every sum of amounts is another number.
TwoSettlements == {t1, t2}
OneEarning == {e1}
TwoCorrections == {clawback, bonus}
OneClawback == {clawback}
OfTheEarning == clawback :> e1 @@ bonus :> e1
Amounts == e1 :> 4 @@ clawback :> -1 @@ bonus :> 2

\* A payment reported by two events, with room for three refunds, one of them
\* requested here.
TwoCaptures == {c1, c2}

\* Two accounts whose codes end the same, billed in periods of one and two days.
TwoAccounts == {a1, a2}
SameSuffix == a1 :> code @@ a2 :> code
OneAndTwo == {1, 2}

\* A capture, a refund, whose lines are in the opposite order, and a chargeback.
ThreeEntries == {capture, refund, chargeback}
ThreeAccounts == {gateway, income, loss}
TwoLines ==
  capture :> <<gateway, income>> @@ refund :> <<income, gateway>> @@ chargeback :> <<loss, gateway>>
Changes ==
  capture :> (gateway :> 4 @@ income :> -4 @@ loss :> 0)
    @@ refund :> (gateway :> -1 @@ income :> 1 @@ loss :> 0)
    @@ chargeback :> (gateway :> -2 @@ income :> 0 @@ loss :> 2)

\* A stage of each kind, and one after the SUSPEND stage, which only a case
\* resumed after it reaches.
FourStages == <<"REMIND", "RESTRICT", "SUSPEND", "REMIND">>

TwoHandlers == {h1, h2}

\* Settlements, requests and accounts are interchangeable.
Symmetry == Permutations({t1, t2}) \cup Permutations({h1, h2}) \cup Permutations({a1, a2})

\* The plans of the accounts make no difference to the other components.
MCInit == MoneyInit /\ (part # "billing" => \A a \in BilledAccounts : schedule[a].cycle = 1)

MCSpec == MCInit /\ [][MoneyNext]_moneyVars
=============================================================================
