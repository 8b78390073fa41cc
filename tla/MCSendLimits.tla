--------------------------- MODULE MCSendLimits ----------------------------
(* Agents and rooms are interchangeable in SendLimits. *)
EXTENDS SendLimits, TLC

Symmetry == Permutations(Agents) \cup Permutations(Rooms)
=============================================================================
