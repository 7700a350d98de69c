SPECIFICATION Spec
CONSTANTS
  MaxElts = 2
  Elts = {a, b}
  Unset = Unset
  Producers = {p1}
  Consumers = {c1, c2}
  NoThread = NoThread
  MaxInterrupts = 1
INVARIANTS TokenAccounting NeverRefused PeekedSlotStable
PROPERTY ImplementsFifo
