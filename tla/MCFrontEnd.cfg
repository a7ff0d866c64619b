SPECIFICATION Spec
CONSTANTS
  Files <- MCFiles
  Rewrites <- MCRewrites
  FirstCap <- MCFirstCap
  Letters <- MCLetters
  Digits <- MCDigits
  Code <- MCCode
  KeywordKind <- MCKeywordKind
  IntMax <- MCIntMax
  LongMax <- MCLongMax
INVARIANTS
  TypeOK
  StaysInBuffer
  TextTerminated
  DeliversFile
  OnlyStringsOverrun
  TokensAsCInPlainStrings
  ErrorsNameTheLine
PROPERTIES
  AlwaysEnds
CHECK_DEADLOCK FALSE
