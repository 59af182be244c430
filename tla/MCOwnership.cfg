SPECIFICATION Spec
CONSTANTS
  Groups <- MCGroups
  MaxObjects <- MCObjects
  MaxRefs = 2
INVARIANTS NoUseAfterFree NoLeak MutIsUnique
