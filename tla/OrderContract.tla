--------------------------- MODULE OrderContract ---------------------------
(***************************************************************************)
(* The published order contract (packages/contracts): the states of a work *)
(* order, the v1 transition table, the payment transition table and the    *)
(* part of the permission matrix that says which actor may apply which     *)
(* transition.  Everything here is a constant: the services of the API     *)
(* consult these tables and never change them.                             *)
(***************************************************************************)

OrderStates ==
    { "SOLICITADA", "TECNICO_ASIGNADO", "EN_CAMINO", "EN_ATENCION",
      "TRABAJO_FINALIZADO", "PENDIENTE_PAGO", "PENDIENTE_CONFORMIDAD",
      "CERRADA", "CANCELADA" }

TransitionActions ==
    { "ASSIGN_TECHNICIAN", "REASSIGN_TECHNICIAN", "CANCEL", "MARK_EN_ROUTE",
      "START_SERVICE", "FINISH_WORK", "CREATE_FIXED_PAYMENT",
      "CONFIRM_PROVIDER_PAYMENT", "CONFIRM_CLIENT_CONFORMITY" }

Transition(action, from, to) == [action |-> action, from |-> from, to |-> to]

(* The rows of ORDER_TRANSITIONS; requiresReason is ReasonActions below.   *)
OrderTransitions ==
    { Transition("ASSIGN_TECHNICIAN", "SOLICITADA", "TECNICO_ASIGNADO"),
      Transition("CANCEL", "SOLICITADA", "CANCELADA"),
      Transition("REASSIGN_TECHNICIAN", "TECNICO_ASIGNADO", "TECNICO_ASIGNADO"),
      Transition("MARK_EN_ROUTE", "TECNICO_ASIGNADO", "EN_CAMINO"),
      Transition("START_SERVICE", "TECNICO_ASIGNADO", "EN_ATENCION"),
      Transition("CANCEL", "TECNICO_ASIGNADO", "CANCELADA"),
      Transition("START_SERVICE", "EN_CAMINO", "EN_ATENCION"),
      Transition("CANCEL", "EN_CAMINO", "CANCELADA"),
      Transition("FINISH_WORK", "EN_ATENCION", "TRABAJO_FINALIZADO"),
      Transition("CREATE_FIXED_PAYMENT", "TRABAJO_FINALIZADO", "PENDIENTE_PAGO"),
      Transition("CONFIRM_PROVIDER_PAYMENT", "PENDIENTE_PAGO",
                 "PENDIENTE_CONFORMIDAD"),
      Transition("CONFIRM_CLIENT_CONFORMITY", "PENDIENTE_CONFORMIDAD", "CERRADA") }

(* The actions whose rows have requiresReason.                              *)
ReasonActions == { "CANCEL", "REASSIGN_TECHNICIAN" }

-----------------------------------------------------------------------------
(* Payments.                                                                *)

ContractPaymentStates ==
    { "CREATED", "PENDING", "APPROVED", "REJECTED", "CANCELLED" }

PaymentTransitions ==
    { <<"CREATED", "PENDING">>, <<"CREATED", "APPROVED">>,
      <<"CREATED", "REJECTED">>, <<"CREATED", "CANCELLED">>,
      <<"PENDING", "APPROVED">>, <<"PENDING", "REJECTED">>,
      <<"PENDING", "CANCELLED">> }

CanAdvanceOrderAfterPayment(paymentState) == paymentState = "APPROVED"

-----------------------------------------------------------------------------
(* Who may apply which transition: canActorApplyOrderTransition over the   *)
(* permission matrix.  Both operator roles hold UPDATE_OPERATIONAL_STATE,  *)
(* the verified provider holds APPLY_VERIFIED_PROVIDER_PAYMENT and the     *)
(* client CONFIRM_OWN_CONFORMITY.                                          *)

OperatorRoles == { "DISPATCHER", "ADMIN" }

OperationalTransitions ==
    { "ASSIGN_TECHNICIAN", "REASSIGN_TECHNICIAN", "CANCEL", "MARK_EN_ROUTE",
      "START_SERVICE", "FINISH_WORK", "CREATE_FIXED_PAYMENT" }

CanActorApplyOrderTransition(role, action) ==
    \/ action \in OperationalTransitions /\ role \in OperatorRoles
    \/ action = "CONFIRM_PROVIDER_PAYMENT" /\ role = "VERIFIED_PROVIDER"
    \/ action = "CONFIRM_CLIENT_CONFORMITY" /\ role = "CLIENT"

=============================================================================
