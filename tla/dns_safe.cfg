SPECIFICATION Spec
CONSTANTS
  Names = {n1, n2, n3, n4, n5}
  NoName = NoName
  Max = 3
  MaxQuestions = 3
INVARIANTS DnsInv AnswersHold
PROPERTY NameKept
