SPECIFICATION Spec
CONSTANTS
  Tokens <- MCTokens
  Empty = ""
  ValidTokens <- MCValidTokens
  LowerCase <- MCLowerCase
  KeysTried <- KeysWithDigit
  MaxNodes = 4
INVARIANT Capitals
