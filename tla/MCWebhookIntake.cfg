SPECIFICATION Spec
CONSTANTS
  Instances = {i1, i2}
  Deliveries = {d1, d2}
  MaxRequests = 2
  BatchSize = 2
INVARIANT IntakeInv
INVARIANT DispatchedOnceEachWay
INVARIANT MarkedAfterwards
INVARIANT BatchesAreApart
SYMMETRY Symmetry
