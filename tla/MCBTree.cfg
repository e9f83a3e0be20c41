SPECIFICATION Spec
CONSTANTS
  InternalMax = 4
  LeafMax = 2
  Keys = {1, 2, 3, 4, 5, 6}
  KeepLinks = FALSE
INVARIANTS
  BTreeTypeOK
  LookupIsTheMap
  IterationIsTheMap
  NodesSound
