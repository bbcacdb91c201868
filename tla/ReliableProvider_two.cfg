CONSTANTS
  chat = chat
  digest = digest
  summary = summary
  primary = primary
  backup = backup
  large = large
  small = small
  Calls = {chat, digest, summary}
  Guarded = {digest, summary}
  Providers <- TwoProviders
  Timed = {primary}
  ModelChain <- Chains
  MaxRetries = 1
  Threshold = 2
SPECIFICATION FairSpec
INVARIANTS FailedMeansExhausted
PROPERTIES CallsEnd
CHECK_DEADLOCK FALSE
