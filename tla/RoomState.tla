----------------------------- MODULE RoomState -----------------------------
(***************************************************************************)
(* internal/domain/room_state.go: the states of a room.  The transitions   *)
(* the package lists (CanTransitionTo) are not modelled: only the HTTP     *)
(* layer's state machine page reads them, and the SQL service never does.  *)
(***************************************************************************)

DomainStates == {"OPEN", "ACTIVE", "CLOSED", "PURGED"}

=============================================================================
