\* Any sequence of API calls, up to three successful inits on two buses.
CONSTANTS
  b1 = b1
  b2 = b2
  Bus = {b1, b2}
  MaxInits = 3
SYMMETRY MCBusSymmetry
SPECIFICATION Spec
INVARIANTS TypeOK DevLive
