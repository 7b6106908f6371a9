SPECIFICATION Spec
CONSTANTS
  Ptrs = {"p", "q", "r"}
  Objects = {"o1", "o2"}
  MaxRaw = 1
  MemPtrs = {"m", "n"}
  Allocators = {"a", "b"}
  Blocks = {"k1", "k2"}
  Calls = {"c"}
INVARIANTS TypeOK RefsExact BlocksOwnedOnce CallsBalanced
PROPERTIES MovesKeepObject
