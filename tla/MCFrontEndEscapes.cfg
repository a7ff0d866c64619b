SPECIFICATION Spec
CONSTANTS
  Files <- MCFiles
  Rewrites <- MCRewrites
  FirstCap <- MCFirstCap
  Letters <- MCLetters
  Digits <- MCDigits
  Code <- MCCode
  KeywordKind <- MCKeywordKind
  IntMax <- MCIntMax
  LongMax <- MCLongMax
INVARIANT TokensAsC
CHECK_DEADLOCK FALSE
