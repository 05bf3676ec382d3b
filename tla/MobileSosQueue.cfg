SPECIFICATION Spec
CONSTANTS
  Items = {i1, i2}
  None = None
  MaxFaults = 2
INVARIANTS
  OneMarkedAsSending
PROPERTIES
  KeepsPromise
  EverySosSettles
