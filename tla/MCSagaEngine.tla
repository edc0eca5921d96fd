---------------------------- MODULE MCSagaEngine ----------------------------
(* Instances of SagaEngine: the workflows of provisioning.py. *)
EXTENDS SagaEngine

CONSTANTS api, worker

OneRunner == {api}
TwoRunners == {api, worker}

Only(types) == [w \in types |-> SAGA_BUILDERS[w]]

AllWorkflows == SAGA_BUILDERS
\* The workflows that undo all they change and whose order reaches VERIFYING.
AtomicWorkflows ==
  Only({"NEW_CONNECTION", "SERVICE_SUSPENSION", "SERVICE_REACTIVATION", "PACKAGE_UPGRADE",
        "PACKAGE_DOWNGRADE"})
NewConnection == Only({"NEW_CONNECTION"})
Suspension == Only({"SERVICE_SUSPENSION"})
=============================================================================
