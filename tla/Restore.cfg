SPECIFICATION Spec
CONSTANTS
  Importers = {i, j}
  Requests = {r, s}
  None = None
  MaxCrashes = 2
SYMMETRY Symmetry
INVARIANTS
  LastCopySurvives
  AnswersAreTrue
  CredentialsStayBehind
PROPERTIES
  ServesOrSaysSo
CHECK_DEADLOCK FALSE
