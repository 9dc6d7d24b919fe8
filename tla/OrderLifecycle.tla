--------------------------- MODULE OrderLifecycle ---------------------------
(***************************************************************************)
(* What the lifecycle contract of domain/order_lifecycle.py promises about *)
(* an execution order record: it appears as ACCEPTED_BY_EXECUTION and then *)
(* moves only along the table of allowed transitions.  ExecutionManager    *)
(* implements this specification.                                          *)
(***************************************************************************)
CONSTANT Clients   \* client order ids

VARIABLE state     \* lifecycle_state of the record of each client order id

\* OrderLifecycleState of a stored record, and "NONE" where there is no record.
States ==
    {"CREATED", "ACCEPTED_BY_EXECUTION", "REJECTED_BY_PERMISSION",
     "REJECTED_BY_VALIDATION", "SUBMISSION_REQUESTED", "SUBMITTED_TO_VENUE",
     "ACKNOWLEDGED_BY_VENUE", "PARTIALLY_FILLED", "FILLED",
     "CANCEL_REQUESTED", "CANCEL_ACKNOWLEDGED", "CANCELED",
     "REPLACE_REQUESTED", "REPLACED", "EXPIRED", "VENUE_REJECTED",
     "UNKNOWN_ON_VENUE", "RECONCILIATION_REQUIRED", "CLOSED"}

\* _ACTIVE_VENUE_STATES: the states that may also turn UNKNOWN_ON_VENUE.
ActiveVenueStates ==
    {"SUBMISSION_REQUESTED", "SUBMITTED_TO_VENUE", "ACKNOWLEDGED_BY_VENUE",
     "PARTIALLY_FILLED", "CANCEL_REQUESTED", "REPLACE_REQUESTED"}

\* The states from which closure is the only way on.
SettledStates ==
    {"REJECTED_BY_PERMISSION", "REJECTED_BY_VALIDATION", "FILLED", "CANCELED",
     "REPLACED", "EXPIRED", "VENUE_REJECTED", "RECONCILIATION_REQUIRED"}

\* _ALLOWED_TRANSITIONS with the loop that extends it; "NONE" is
\* previous_state=None.
Allowed ==
    {<<"NONE", "CREATED">>}
    \cup {"CREATED"} \X {"ACCEPTED_BY_EXECUTION", "REJECTED_BY_PERMISSION",
                         "REJECTED_BY_VALIDATION"}
    \cup {"ACCEPTED_BY_EXECUTION"} \X {"SUBMISSION_REQUESTED",
                                       "CANCEL_REQUESTED", "REPLACE_REQUESTED"}
    \cup {<<"SUBMISSION_REQUESTED", "SUBMITTED_TO_VENUE">>}
    \cup {"SUBMITTED_TO_VENUE"} \X {"ACKNOWLEDGED_BY_VENUE", "VENUE_REJECTED"}
    \cup {"ACKNOWLEDGED_BY_VENUE"} \X {"PARTIALLY_FILLED", "FILLED", "EXPIRED",
                                       "CANCEL_REQUESTED", "REPLACE_REQUESTED",
                                       "VENUE_REJECTED"}
    \cup {"PARTIALLY_FILLED"} \X {"PARTIALLY_FILLED", "FILLED",
                                  "CANCEL_REQUESTED", "REPLACE_REQUESTED"}
    \cup {<<"CANCEL_REQUESTED", "CANCEL_ACKNOWLEDGED">>,
          <<"CANCEL_ACKNOWLEDGED", "CANCELED">>,
          <<"REPLACE_REQUESTED", "REPLACED">>,
          <<"UNKNOWN_ON_VENUE", "RECONCILIATION_REQUIRED">>}
    \cup ActiveVenueStates \X {"UNKNOWN_ON_VENUE"}
    \cup SettledStates \X {"CLOSED"}

\* A record is stored for the first time, already accepted, or moves on.
Moves(from, to) ==
    \/ from = "NONE" /\ to = "ACCEPTED_BY_EXECUTION"
    \/ from # "NONE" /\ <<from, to>> \in Allowed

Init == state = [c \in Clients |-> "NONE"]

\* One call may move two records: a replacement and the order it replaces.
Next ==
    /\ state' \in [Clients -> States \cup {"NONE"}]
    /\ \A c \in Clients : state'[c] = state[c] \/ Moves(state[c], state'[c])

Spec == Init /\ [][Next]_state
=============================================================================
