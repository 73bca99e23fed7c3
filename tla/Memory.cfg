SPECIFICATION Spec
CONSTANTS
  Tensor = {t1, t2}
  Handle = {h1, h2}
  Buffer = {b1, b2, b3}
  Addr = {a1, a2}
  Foreign = {Null, f1}
  Bytes = {0, 1, 2}
  Null = Null
SYMMETRY Symmetry
INVARIANT OwnersReadLiveMemory
INVARIANT TensorsFit
INVARIANT OnlyHeapIsFreed
INVARIANT NoLeak
PROPERTY MemoryStaysPut

