SPECIFICATION Spec
CONSTANTS
  Max = 16
  WordBits = 4
INVARIANTS TypeOK PrimesStay OnlySharedWordsFail
PROPERTY BuildEnds
