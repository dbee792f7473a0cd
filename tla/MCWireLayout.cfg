SPECIFICATION Spec
CONSTANTS
  MaxAlign = 8
  MaxResults = 2
INVARIANTS
  WireCompatible
