----------------------------- MODULE PairStream -----------------------------
(***************************************************************************)
(* What the robot state receiver promises to the collection: the states it *)
(* hands over bring every side's newest packet forward, and the packets of *)
(* one state were taken at about the same time.                            *)
(***************************************************************************)
EXTENDS Integers

CONSTANTS Sides, MaxSkew

VARIABLE pair    \* the instant of each side's packet in the last state

PairInit == pair = [s \in Sides |-> -1]

HandOver ==
  /\ pair' \in [Sides -> Nat]
  /\ \A s \in Sides : pair'[s] > pair[s]
  /\ \A s, o \in Sides : pair'[s] - pair'[o] <= MaxSkew

PairSpec == PairInit /\ [][HandOver]_pair
=============================================================================
