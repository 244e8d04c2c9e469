SPECIFICATION StoreSpec
CONSTANTS
  None = None
  Events <- MCEvents
  Listeners = {l1, l2}
  MaxListeners = 3
  SportEventIds = {s1, s2}
  Kinds = {k1, k2}
  Marks = {v1, v2}
SYMMETRY Symmetry
INVARIANTS
  StoreTypeOK
  KindIndexExact
PROPERTY
  CalledAsRegistered
