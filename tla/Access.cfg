SPECIFICATION Spec
CONSTANTS
  f1 = f1
  f2 = f2
  s1 = s1
  s2 = s2
  None = None
  Forms = {f1, f2}
  Subs = {s1, s2}
  Tokens = {t1}
  Rules <- MCRules
  FormOf <- MCFormOf
  Typed <- MCTyped
  Texts <- MCTexts
  maxHitsPerField = 3
  ScopeNames = {"read", "write", "delete"}
  ScopeChoices = {{}, {"read"}, {"write", "delete"}, {"read", "admin"}}
INVARIANTS
  NeverMoreThanAsked
  AsIfOnlyItsForms
  AnswersAreFiltered
  OnlyTheFileErrs
  RedactionIsClean
  RedactionSaysWhat
PROPERTIES
  BoundedStaysInside
