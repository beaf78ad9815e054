------------------------------ MODULE MCSessions ------------------------------
(* The two sessions, each on its own, whichever `kind` says: the command     *)
(* session of a native driver, with two lease names (a rightful owner and    *)
(* anyone else) and a clock of six readings and an invalid one; or the       *)
(* collection session of the operator.                                       *)
EXTENDS CommandSession, CollectionSession

MCInstants == -1 .. 5
MCSequences == 0 .. 2
MCSources == <<"state", "camera", "ft", "scale">>
MCResetAfter == {"save"}

VARIABLE kind

sessionsVars == <<kind, vars, sessionVars>>

OfCommand(Action) == kind = "command" /\ Action /\ UNCHANGED <<kind, sessionVars>>
OfCollection(Action) == kind = "collection" /\ Action /\ UNCHANGED <<kind, vars>>

SessionsInit == kind \in {"command", "collection"} /\ Init /\ SessionInit

SessionsSpec ==
  /\ SessionsInit
  /\ [][OfCommand(Next) \/ OfCollection(SessionNext)]_sessionsVars
  /\ WF_sessionsVars(OfCollection(Steps))
=============================================================================
