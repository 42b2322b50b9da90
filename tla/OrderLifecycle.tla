--------------------------- MODULE OrderLifecycle ---------------------------
(***************************************************************************)
(* What the work-order service promises, with every read, lock, retry and  *)
(* crash forgotten: a service request gets at most one order, an order is  *)
(* placed by its first assignment, and from then on it only moves along    *)
(* rows of the published table, one log entry per move and the log never   *)
(* rewritten.                                                              *)
(***************************************************************************)
EXTENDS OrderContract, Sequences, Naturals

CONSTANTS Orders,     \* identities of work orders
          Requests,   \* service requests
          NoRequest   \* not a request: an order that does not exist yet has it

VARIABLES request,    \* request[o]: the service request the order serves
          state,      \* state[o]: where the order stands
          log         \* log[o]: the transitions it took, oldest first

lifecycleVars == <<request, state, log>>

LifecycleInit ==
    /\ request = [o \in Orders |-> NoRequest]
    /\ state = [o \in Orders |-> "SOLICITADA"]
    /\ log = [o \in Orders |-> << >>]

Move(o, row) ==
    /\ row \in OrderTransitions
    /\ row.from = state[o]
    /\ state' = [state EXCEPT ![o] = row.to]
    /\ log' = [log EXCEPT ![o] = Append(@, row)]

Place(o, r) ==
    /\ request[o] = NoRequest
    /\ \A other \in Orders : request[other] # r
    /\ Move(o, Transition("ASSIGN_TECHNICIAN", "SOLICITADA", "TECNICO_ASIGNADO"))
    /\ request' = [request EXCEPT ![o] = r]

Advance(o, row) ==
    /\ request[o] # NoRequest
    /\ Move(o, row)
    /\ UNCHANGED request

LifecycleNext ==
    \E o \in Orders : \/ \E r \in Requests : Place(o, r)
                      \/ \E row \in OrderTransitions : Advance(o, row)

LifecycleSpec == LifecycleInit /\ [][LifecycleNext]_lifecycleVars

=============================================================================
