---------------------------- MODULE StateMachines ----------------------------
(***************************************************************************)
(* The validated state machines of the OSS service                         *)
(* (services/oss-service/app/state_machine.py): the order lifecycle, the   *)
(* lifecycle of a saga and the lifecycle of one saga step.  Every other    *)
(* module about orders and sagas takes its legal moves from here.          *)
(***************************************************************************)

ORDER_TRANSITIONS ==
  [ DRAFT |-> {"SUBMITTED", "CANCELLED"},
    SUBMITTED |-> {"VALIDATING", "CANCELLATION_REQUESTED", "VALIDATION_FAILED"},
    VALIDATING |-> {"PAYMENT_PENDING", "READY_FOR_FULFILMENT",
                    "VALIDATION_FAILED", "CANCELLATION_REQUESTED"},
    VALIDATION_FAILED |-> {"SUBMITTED", "CANCELLED"},
    PAYMENT_PENDING |-> {"READY_FOR_FULFILMENT", "VALIDATION_FAILED",
                         "CANCELLATION_REQUESTED"},
    READY_FOR_FULFILMENT |-> {"RESOURCE_RESERVATION", "PROVISIONING",
                              "CANCELLATION_REQUESTED", "MANUAL_INTERVENTION_REQUIRED",
                              "FAILED", "COMPENSATING"},
    RESOURCE_RESERVATION |-> {"FIELD_INSTALLATION_PENDING", "PROVISIONING", "FAILED",
                              "CANCELLATION_REQUESTED", "COMPENSATING"},
    FIELD_INSTALLATION_PENDING |-> {"PROVISIONING", "FAILED",
                                    "MANUAL_INTERVENTION_REQUIRED", "COMPENSATING"},
    PROVISIONING |-> {"VERIFYING", "FAILED", "COMPENSATING"},
    VERIFYING |-> {"COMPLETED", "FAILED", "COMPENSATING"},
    COMPLETED |-> {},
    FAILED |-> {"MANUAL_INTERVENTION_REQUIRED", "COMPENSATING", "SUBMITTED"},
    COMPENSATING |-> {"ROLLED_BACK", "FAILED", "MANUAL_INTERVENTION_REQUIRED"},
    ROLLED_BACK |-> {},
    CANCELLATION_REQUESTED |-> {"CANCELLED", "COMPENSATING", "SUBMITTED"},
    CANCELLED |-> {},
    MANUAL_INTERVENTION_REQUIRED |-> {"SUBMITTED", "PROVISIONING", "CANCELLED",
                                      "COMPENSATING"} ]

OrderStates == DOMAIN ORDER_TRANSITIONS

SAGA_TRANSITIONS ==
  [ PENDING |-> {"RUNNING", "CANCELLED"},
    RUNNING |-> {"COMPLETED", "FAILED", "COMPENSATING", "MANUAL_INTERVENTION", "TIMED_OUT"},
    COMPENSATING |-> {"COMPENSATED", "FAILED", "MANUAL_INTERVENTION"},
    COMPLETED |-> {},
    FAILED |-> {"MANUAL_INTERVENTION", "RUNNING"},
    COMPENSATED |-> {},
    MANUAL_INTERVENTION |-> {"RUNNING", "COMPENSATING", "CANCELLED"},
    TIMED_OUT |-> {"RUNNING", "MANUAL_INTERVENTION"},
    CANCELLED |-> {} ]

SagaStates == DOMAIN SAGA_TRANSITIONS

STEP_TRANSITIONS ==
  [ PENDING |-> {"RUNNING", "SKIPPED"},
    RUNNING |-> {"COMPLETED", "FAILED", "COMPENSATED"},
    COMPLETED |-> {"COMPENSATED"},
    FAILED |-> {"RUNNING", "COMPENSATED", "SKIPPED"},
    COMPENSATED |-> {},
    SKIPPED |-> {} ]

StepStates == DOMAIN STEP_TRANSITIONS

\* order_terminal: a state the table gives no way out of.
order_terminal(state) == ORDER_TRANSITIONS[state] = {}
=============================================================================
