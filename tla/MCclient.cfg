CONSTANTS
  Repository <- MCRepository
  Registry <- MCRegistry
  Host <- MCHost
  None = None
  Word <- MCWord
  Dotted <- MCDotted
  Written <- MCWritten
SPECIFICATION FairSpec
INVARIANTS TokensStayHome ReadsAsIntended
PROPERTIES ImplementsExchange CallsEnd
