------------------------------- MODULE MCAaa -------------------------------
(* A small instance of AaaServices for TLC. *)
EXTENDS AaaServices, TLC

CONSTANTS s1, s2, p1, p2, p3, p4, on, h1, h2, d1, a1

\* Two sessions: one with three packets that may overtake each other, the
\* other with one that takes the usage over the threshold.
TwoSessions == {s1, s2}
FivePackets == {p1, p2, p3, p4, on}
OfSession == p1 :> s1 @@ p2 :> s1 @@ p3 :> s1 @@ p4 :> s2 @@ on :> s1
Types ==
  p1 :> "Start" @@ p2 :> "Interim" @@ p3 :> "Stop" @@ p4 :> "Interim" @@ on :> "Accounting-On"
Counts == p1 :> 0 @@ p2 :> 1 @@ p3 :> 2 @@ p4 :> 2 @@ on :> 0
TwoHandlers == {h1, h2}
OneReset == {"reset"}

\* A disconnect, the CoA of a control action and, in one run, a plain CoA for one session.
OneSession == {s1}
OneDisconnect == {d1}
OneAction == {a1}
ForTheSession == [c \in Commands |-> s1]
============================================================================
