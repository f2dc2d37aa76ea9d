CONSTANTS
  Figure = {1, 4}
  MaxFacts = 1
  MaxCuts = 0

SPECIFICATION FactSpec
PROPERTIES FiledFactIsNeverTouched
CHECK_DEADLOCK FALSE
