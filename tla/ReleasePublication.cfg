SPECIFICATION MCFairSpec
CONSTANTS
  Source = {1, 2}
  Build = {1, 2}
  Payload = {"slv"}
  Foreign = foreign
  Partial = partial
  None = None
  Id = {1, 2, 3, 4, 5, 6, 7, 8, 9, 10, 11, 12}
  MaxAttempt = 2
  MaxFault = 2
INVARIANT TypeOK
INVARIANT PublishedVerified
INVARIANT PublishedAtTag
INVARIANT OneAttempt
PROPERTY RetryPublishes
CHECK_DEADLOCK FALSE
