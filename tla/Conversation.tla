---------------------------- MODULE Conversation ----------------------------
(***************************************************************************)
(* What a room promises its two agents, with no database, snapshot or      *)
(* request in sight: it is paired once, turns are taken one by one up to   *)
(* MaxTurns, once over it stays over, and its content may then be erased.  *)
(* A message already being stored when the room ends may still count as a  *)
(* turn.  A room may lose these promises (derail) only where MayDerail     *)
(* says so.                                                                *)
(***************************************************************************)
EXTENDS Naturals

CONSTANTS MaxTurns, MayDerail

VARIABLES phase, turn

Init == phase = "unpaired" /\ turn = 0

Pair == phase = "unpaired" /\ phase' = "talking" /\ UNCHANGED turn

Speak ==
    /\ phase \in {"talking", "over"}
    /\ turn < MaxTurns
    /\ turn' = turn + 1
    /\ phase' = IF turn + 1 = MaxTurns THEN "over" ELSE phase

End == phase = "talking" /\ phase' = "over" /\ UNCHANGED turn

Erase == phase = "over" /\ phase' = "erased" /\ turn' = 0

Derail ==
    /\ MayDerail
    /\ phase \in {"talking", "over", "erased"}
    /\ phase' = "derailed" /\ turn' = 0

Next == Pair \/ Speak \/ End \/ Erase \/ Derail

Spec == Init /\ [][Next]_<<phase, turn>>

=============================================================================
