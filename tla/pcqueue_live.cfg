SPECIFICATION FairSpec
CONSTANTS
  MaxElts = 1
  Elts = {a}
  Unset = Unset
  Producers = {p1, p2}
  Consumers = {c1, c2}
  NoThread = NoThread
  MaxInterrupts = 0
PROPERTIES ElementBecomesAvailable SpaceBecomesAvailable
