------------------------ MODULE MCResourceReservation ------------------------
(* Small instances of ResourceReservation for TLC. *)
EXTENDS ResourceReservation

CONSTANTS t1, t2, t3, w, p1, p2

TwoTokens == {t1, t2}
ThreeTokens == {t1, t2, t3}
ThreeSessions == {w, p1, p2}
=============================================================================
