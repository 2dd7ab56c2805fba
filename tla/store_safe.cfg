CONSTANTS
  Actors = {p1, p2}
  Groups = {g1, g2}
  Default = g2
  Guids = {x1, x2, x3}
  None = None
  MaxHazards = 2
SPECIFICATION Spec
SYMMETRY Symmetry
INVARIANTS StoreInv ListedHavePayload
PROPERTIES SelectionIsSpared DamageKeepsPayloads
CHECK_DEADLOCK FALSE
