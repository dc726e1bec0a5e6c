SPECIFICATION DecodeSpec
CONSTANTS
  Tokens <- MCTokens
  EosIds <- MCEosIds
  Prompt <- MCPrompt
  SpecKs <- MCSpecKs
  MaxNews <- MCMaxNews
  Horizon = 6
INVARIANTS
  CacheIsExact
PROPERTIES
  TextIsGoal
  ImplementsGreedy
