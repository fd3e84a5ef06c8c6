\* Two inits without a remove between them.
CONSTANTS
  b1 = b1
  b2 = b2
  Bus = {b1, b2}
  MaxInits = 2
SPECIFICATION Spec
INVARIANT ExclusiveBus
