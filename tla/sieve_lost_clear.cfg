SPECIFICATION Spec
CONSTANTS
  Max = 9
  WordBits = 8
INVARIANT SieveExact
