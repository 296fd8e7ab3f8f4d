\* The translators on queries of two conditions and two filters.
CONSTANTS
  Symbol <- MCSymbol
  Name = {"app", "env"}
  Column = {"duration"}
  Stream = {"s1", "s2"}
  Number <- MCNumber
  Text <- MCText
  Matches <- MCMatches
  Query <- MCQuery
SPECIFICATION Spec
INVARIANTS
  
  SelectsAllThatIsAsked
CHECK_DEADLOCK FALSE
