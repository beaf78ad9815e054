------------------------- MODULE MCManagedRuntimes -------------------------
(* The bimanual session: one managed launch of each side, in the order of    *)
(* self._sides.                                                              *)
EXTENDS ManagedRuntimes

CONSTANTS left1, right1

MCLaunches == {left1, right1}
MCOrder == <<left1, right1>>
MCSideOf == [l \in Launches |-> IF l = right1 THEN "right" ELSE "left"]
MCManaged == [l \in Launches |-> "managed"]
=============================================================================
