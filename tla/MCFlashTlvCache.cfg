SPECIFICATION Spec
CONSTANTS
  Tags = {t1, t2, t3, t4}
  Addresses = {p1, p2}
  CacheMax = 3
  AgeMax = 3
  Nil = Nil
SYMMETRY Symmetry
INVARIANTS
  TypeOK
  OneSlotPerTag
PROPERTIES
  ImplementsTagCache
