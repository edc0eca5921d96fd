-------------------------- MODULE MCOrderAggregate --------------------------
(* OrderAggregate for TLC.  Two sessions are enough for every race on the  *)
(* version of the row: a conflict is between the one that commits first    *)
(* and one other.                                                          *)
EXTENDS OrderAggregate
=============================================================================
