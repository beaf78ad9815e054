SPECIFICATION SessionsSpec
CONSTANTS
  LeaseIds = {leaseA, leaseB}
  NoLease = NoLease
  Instants <- MCInstants
  Sequences <- MCSequences
  LivenessTimeout = 3
  InactivityTimeout = 2
  CommandReady = TRUE
  Sources <- MCSources
  BeforeCollection = TRUE
  ResetAfter <- MCResetAfter
  MaxEpisodes = 2
  MaxFrames = 1
  MaxTyped = 2
  MaxSessions = 2
INVARIANTS
  TenureStartsAfresh
  ResultsTruthful
  EndsClean
PROPERTIES
  AcceptedInOrder
  ImplementsLease
  NothingLost
  PublishedAsDecided
  SessionEnds
CHECK_DEADLOCK FALSE
