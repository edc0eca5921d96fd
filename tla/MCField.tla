------------------------------ MODULE MCField ------------------------------
(* A small instance of FieldServices for TLC. *)
EXTENDS FieldServices, TLC

CONSTANTS d1, d2, h1, h2, alice, bob, j1, j2, j3, caller

\* Two requests at a time, of rollouts and of intents.
TwoHandlers == {h1, h2}

\* With three stages one lies between the canary and the last; of two devices a
\* stage can have a success and a failure and go on.  Two intents, one for each
\* device, compete for a rate of one an hour of one tick, with a cooldown of one;
\* an L3 intent may be executed again, once.
TwoDevices == {d1, d2}
TwoUsers == {alice, bob}

\* Three jobs, so that a version can be applied again after other parameters, and
\* one call at a time that waits for the ACS, which all other requests overtake.
ThreeJobs == {j1, j2, j3}
OneCaller == {caller}

\* Two pause states, one of which leads to the other.
TwoPauseStates == {"PENDING_CUSTOMER", "PENDING_OSS_ORDER"}

\* Devices (and their intents), requests and users are interchangeable.
Symmetry ==
  Permutations({d1, d2}) \cup Permutations({h1, h2})
    \cup Permutations({alice, bob})

MCInit ==
  /\ FieldInit
  \* Of two of the jobs, one applies the version; the third may be either.
  /\ profile[j1] = Version /\ profile[j3] = Raw
  \* The policies of the components that do not move make no difference.
  /\ part # "remediation" => level = "L2"
  /\ part # "support" => policy = "RESTART"
  /\ part # "configuration" => profile[j2] = Raw

MCSpec == MCInit /\ [][FieldNext]_fieldVars
=============================================================================
