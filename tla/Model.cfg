SPECIFICATION Spec
CONSTANTS
  Files <- MCFiles
  MaxOpen = 5
  MaxCreate = 2
  IntLimit = 32
  SizeLimit = 1024
  Buffer <- MCBuffer
  HostBuffer <- MCHost
  size <- MCSize
  Null = Null
  thread_num = 3
INVARIANT OneFile
INVARIANT ReadsRunOut
INVARIANT HeadsFit
INVARIANT WeightsDisjoint
INVARIANT KernelReadsDevice
INVARIANT AddsOneTooMany
INVARIANT HostSeesNoSum
CHECK_DEADLOCK FALSE

