------------------------- MODULE MCRevenuePayments -------------------------
(* Small instances of RevenuePayments for TLC. *)
EXTENDS RevenuePayments, TLC

CONSTANTS i1, c1, m1, r1, r2, s1, s2

\* Two invoices of 1 and 2; one intent of 2, paid by one capture; a manual
\* payment of 2, so that the last of the two payments overpays by 1; two
\* refunds of the capture, of 2 and of 1, that cannot both be honoured.
MCTotal == <<1, 2>>
OneIntent == {i1}
MCIntentAmount == i1 :> 2
OneCapture == {c1}
OneManual == {m1}
MCAmount == c1 :> 2 @@ m1 :> 2
MCKeyOf == c1 :> c1 @@ m1 :> m1
MCIntentOf == c1 :> i1 @@ m1 :> None
TwoRefunds == {r1, r2}
MCRefundOf == r1 :> c1 @@ r2 :> c1
MCRefundAmount == r1 :> 2 @@ r2 :> 1
TwoSessions == {s1, s2}
Interchangeable == Permutations(TwoSessions)
=============================================================================
