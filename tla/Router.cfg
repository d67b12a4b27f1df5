SPECIFICATION Spec
CONSTANTS
  Char = {"/", "1", "a"}
  Digit = {"1"}
  MaxDigits = 2
  Urls <- MCUrls
  RuleMenu <- MCMenu
  MaxRules = 3
  Bases <- MCBases
  FsUrl <- MCFsUrl
  Method = {"get", "post"}
INVARIANTS
  TypeOK
  TrieSpells
  BestRule
  OwnParams
  UnambiguousServed
CHECK_DEADLOCK FALSE
