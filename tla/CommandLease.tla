---------------------------- MODULE CommandLease ----------------------------
(***************************************************************************)
(* What exclusive command ownership promises, whatever the session does    *)
(* inside: one owner at a time, and within one tenure the commands 0, 1,   *)
(* 2, ... each carrying evidence strictly newer than everything before it, *)
(* the grant included.  A command recorded before the grant can therefore  *)
(* never be issued under it, even when the owner's name is reused.         *)
(***************************************************************************)
EXTENDS Integers

CONSTANTS LeaseIds,   \* names a caller may present
          NoLease,    \* "nobody owns the robot"
          Instants    \* readings of the monotonic clock, in nanoseconds

None == -1            \* Python's None in a field of non-negative integers

VARIABLES owner,      \* who may command
          issued,     \* commands issued in this tenure
          horizon     \* newest instant this tenure has evidence for

leaseVars == <<owner, issued, horizon>>

LeaseInit == owner = NoLease /\ issued = 0 /\ horizon = None

Grant(lease) ==
  /\ owner = NoLease
  /\ owner' = lease
  /\ issued' = 0
  /\ horizon' \in Instants

Issue ==
  /\ owner # NoLease
  /\ issued' = issued + 1
  /\ horizon' \in {t \in Instants : t > horizon}
  /\ UNCHANGED owner

Revoke ==
  /\ owner # NoLease
  /\ owner' = NoLease
  /\ issued' = 0
  /\ horizon' = None

LeaseNext == (\E lease \in LeaseIds : Grant(lease)) \/ Issue \/ Revoke

LeaseSpec == LeaseInit /\ [][LeaseNext]_leaseVars
=============================================================================
