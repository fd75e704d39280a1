SPECIFICATION FairSpec
CONSTANTS
  Clients = {c1}
  MaxRounds = 0
  BindFails = TRUE
  TerminalFails = FALSE
INVARIANTS
  TerminalAlwaysRestored
