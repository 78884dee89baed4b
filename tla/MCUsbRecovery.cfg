SPECIFICATION Spec
CONSTANTS
  Mode = "Recover"
  StallMs = 1
  WakeRetryMs = 1
  DetachMs = 2
  HostActiveGuardMs = 1
  BackoffBaseMs = 3
  BackoffMaxMs = 4
  RecoveryWindowMs = 2
  MaxAttempts = 2
  Capacity = 1
  StaleMs = 1
  ForcedAttachMs = 3
  Room = 1
  MaxFaults = 2
PROPERTIES BackoffRespected PromptHostIsLeftAlone DeafHostIsLeftAlone
  WaitingSurvives AttachFollows HostRecovers
