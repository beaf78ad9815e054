-------------------------- MODULE MCXAirLifecycle --------------------------
(* Two launches: of the left side, started one after the other (a restart    *)
(* after a failure or a crash; the second is a managed one), or one of each  *)
(* side at once, the right one isolated, whichever `cast` says.              *)
EXTENDS XAirLifecycle

CONSTANTS left1, left2, right1

MCThree == {left1, left2, right1}
MCSideOf == [l \in Launches |-> IF l = right1 THEN "right" ELSE "left"]
MCModeOf == [l \in Launches |-> IF l = right1 THEN "isolated"
                                ELSE IF l = left2 THEN "managed" ELSE "shared"]

VARIABLE cast

Restart == {left1, left2}
Isolation == {left1, right1}
CrashesOf == [c \in {Restart, Isolation} |-> IF c = Restart THEN MaxCrashes ELSE 1]

CastInit == Init /\ cast \in {Restart, Isolation}

CastNext ==
  /\ LifecycleNext /\ UNCHANGED cast
  /\ \A l \in Launches \ cast : pc'[l] = "idle"
  /\ crashes' <= CrashesOf[cast]

CastSpec == CastInit /\ [][CastNext]_<<vars, cast>> /\ Fairness
=============================================================================
