SPECIFICATION TextSpec
CONSTANTS
  Tokens <- MCTokens
  Empty = ""
  ValidTokens <- MCValidTokens
  LowerCase <- MCLowerCase
  KeysTried <- KeysWithDigit
  MaxNodes = 4
  Characters = {"%", "{", "}", "d", "q", " "}
  Letters = {"d", "q"}
  event <- MCEvent
  PatternLength = 6
  Ints = {0, 7}
INVARIANT ConvertsBothWays
