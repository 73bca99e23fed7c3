SPECIFICATION Spec
CONSTANTS
  Tensor = {t1, t2}
  Handle = {}
  Buffer = {b1, b2, b3}
  Addr = {a1, a2}
  Foreign = {Null, f1}
  Bytes = {0, 2}
  Null = Null
INVARIANT PromisedHasMemory

