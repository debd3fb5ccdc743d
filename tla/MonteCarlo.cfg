CONSTANTS
  Seed <- MCSeed
  Call <- MCCall
  Seeds <- MCSeeds
  Script <- MCScript
  Answer <- Result
  NextFeed <- Feed
SPECIFICATION FairSpec
CHECK_DEADLOCK FALSE
INVARIANTS
  TypeOK
  StreamsMatchTable
PROPERTIES
  ImplementsReplications
  CallReturns
