SPECIFICATION Spec
CONSTANTS
  Configs <- MCConfigs
  MaxCams = 3
  HasWebhook = TRUE
INVARIANT TypeOK
INVARIANT NoDeadRegistration
INVARIANT LiveServed
CHECK_DEADLOCK FALSE
