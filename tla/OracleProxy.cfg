SPECIFICATION FairSpec
CONSTANTS
  Clients = {c1}
  MaxRounds = 2
  BindFails = TRUE
  TerminalFails = TRUE
INVARIANTS
  NoGuardLeaks
  TerminalLostOnlyByFailure
PROPERTIES
  LockServesAll
  QuitObeyed
  RoundReachesScreen
