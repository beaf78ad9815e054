--------------------------- MODULE MCJointSafety ---------------------------
(* Two joints and a few instants: enough for the first joint to warn while   *)
(* the next one leaves its bounds or recovers.                               *)
EXTENDS JointSafety
=============================================================================
