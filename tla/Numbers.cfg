CONSTANTS
  Width = 16
  Lo = 2
  Hi = 40
SPECIFICATION Spec
INVARIANTS RoundTrip ItoaPrints PrimeRight GcdRight WeightRight
CHECK_DEADLOCK FALSE
