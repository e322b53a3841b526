SPECIFICATION Spec
CONSTANTS
  MaxPending = 1
  MaxRestarts = 1
INVARIANT TypeOK
INVARIANT ModesAgree
INVARIANT CommandReadBack
INVARIANT ResponseReadBack
INVARIANT IndicationReadBack
