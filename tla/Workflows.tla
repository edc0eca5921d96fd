------------------------------ MODULE Workflows ------------------------------
(***************************************************************************)
(* The seven provisioning workflows of provisioning.py, as the saga engine *)
(* sees them: for each step whether a retryable failure pauses the saga,   *)
(* whether it has a compensation, how often it is attempted, the order     *)
(* state ensured after it, and whether it changes anything outside the     *)
(* saga (verify_readiness and wait_installation only look).                *)
(***************************************************************************)
EXTENDS Sequences

NoState == "no order state"

step(changes, undoable, ensured) ==
  [changes |-> changes, pausable |-> FALSE, undoable |-> undoable,
   max_attempts |-> 3, order_state |-> ensured]

\* wait_installation: one attempt, and a retryable failure pauses the saga.
gate == [changes |-> FALSE, pausable |-> TRUE, undoable |-> TRUE,
         max_attempts |-> 1, order_state |-> NoState]

build_new_connection_saga ==
  << step(TRUE, TRUE, NoState),                       \* create_service_subscription
     step(TRUE, TRUE, "RESOURCE_RESERVATION"),        \* reserve_resources
     step(TRUE, TRUE, "FIELD_INSTALLATION_PENDING"),  \* schedule_installation
     gate,                                            \* wait_installation
     step(TRUE, TRUE, "PROVISIONING"),                \* configure_access
     step(FALSE, FALSE, "VERIFYING"),                 \* verify_readiness
     step(TRUE, TRUE, NoState) >>                     \* commit_and_activate

build_suspension_saga ==
  << step(TRUE, TRUE, "PROVISIONING"),                \* suspend_access
     step(TRUE, TRUE, "VERIFYING"),                   \* suspend_service
     step(TRUE, TRUE, NoState) >>                     \* suspend_billing

build_reactivation_saga ==
  << step(TRUE, TRUE, "PROVISIONING"),                \* reactivate_billing
     step(TRUE, TRUE, NoState),                       \* reactivate_access
     step(TRUE, TRUE, "VERIFYING") >>                 \* reactivate_service

build_termination_saga ==
  << step(TRUE, TRUE, "PROVISIONING"),                \* terminate_access
     step(TRUE, FALSE, NoState),                      \* terminate_subscription
     step(TRUE, FALSE, "VERIFYING") >>                \* close_billing

build_plan_change_saga ==
  << step(TRUE, TRUE, "PROVISIONING"),                \* update_aaa_plan
     step(TRUE, TRUE, NoState),                       \* update_subscription_plan
     step(TRUE, FALSE, "VERIFYING") >>                \* notify_bss_plan

build_relocation_saga ==
  << step(TRUE, TRUE, "RESOURCE_RESERVATION"),        \* reserve_new_location
     step(TRUE, TRUE, "FIELD_INSTALLATION_PENDING"),  \* schedule_installation
     gate,                                            \* wait_installation
     step(TRUE, TRUE, "PROVISIONING"),                \* configure_access
     step(TRUE, TRUE, NoState) >>                     \* update_location

SAGA_BUILDERS ==
  [ NEW_CONNECTION |-> build_new_connection_saga,
    SERVICE_SUSPENSION |-> build_suspension_saga,
    SERVICE_REACTIVATION |-> build_reactivation_saga,
    SERVICE_TERMINATION |-> build_termination_saga,
    PACKAGE_UPGRADE |-> build_plan_change_saga,
    PACKAGE_DOWNGRADE |-> build_plan_change_saga,
    SERVICE_RELOCATION |-> build_relocation_saga ]
=============================================================================
