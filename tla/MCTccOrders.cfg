SPECIFICATION OrderSpec
CONSTANTS
  Tcc <- MCTcc
  Count <- MCCount
INVARIANTS CancelBeforeTryIsRemembered
