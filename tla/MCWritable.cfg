\* WritableStore: an entity that may change and one that may not, three
\* blocks, a queue of two.
SPECIFICATION Spec
CONSTANTS
  k1 = k1
  k2 = k2
  a = a
  b = b
  Keys <- MCKeys
  Immutable <- MCImmutable
  Vals = {a, b}
  Absent = Absent
  BlockNumberMax = 9
  Capacity = 2
  LastBlock = 3
  Wanted <- MCWanted
INVARIANTS
  TypeOK
  VersionsDisjoint
  GoesTheRightWay
  PointerIsLast
PROPERTIES
  KeepsPromise
  CallsReturn
