SPECIFICATION FairSpec
CONSTANTS
  SetupCount = 2
  HasInitialize = TRUE
  MaxIterations = 3
  VerifierCount = 2
  Required <- MCRequired
  MandatoryCount = 1
  HasPublish = TRUE
INVARIANTS
  TypeOK
  CompletedIsVerified
  FailedPhaseTrue
PROPERTIES
  PublishesOnlyVerified
  NothingAfterTheEnd
  FeedbackCurrent
  TerminationReported
  WorkflowEnds
