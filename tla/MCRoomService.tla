--------------------------- MODULE MCRoomService ---------------------------
(***************************************************************************)
(* RoomService for TLC.  The agents are symmetric except for the owner.    *)
(***************************************************************************)
EXTENDS RoomService, TLC

ReqSymmetry == Permutations(Requests)

=============================================================================
