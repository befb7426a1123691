SPECIFICATION Spec
CONSTANTS
  Totals = {1, 3}
  Texts <- MCTexts
INVARIANTS
  ParsesExactly
  OutcomeExact
CHECK_DEADLOCK FALSE
