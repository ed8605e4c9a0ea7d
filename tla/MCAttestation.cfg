SPECIFICATION AttestationSpec
CONSTANTS
  StaleAfter = 0
  SilentAfter = 1
  WireCap = 1
  DbFails = TRUE
PROPERTIES
  VerdictExact
  RestartKeepsStatus
  DetachmentShown
