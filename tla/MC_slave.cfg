\* A thread of a second, non-master process opens an interface.
CONSTANTS
  t1 = t1  t2 = t2  t3 = t3  pMaster = pMaster  pSlave = pSlave
  T1 = T1  T2 = T2  i1 = i1  i2 = i2  i3 = i3  s1 = s1  s2 = s2
  NoOwner = NoOwner  NoName = NoName  NoSlot = NoSlot  NoHandle = NoHandle
  Threads <- MCThreads3
  Procs = {pMaster, pSlave}
  ProcOf <- MCProcOfSlave
  Master = pMaster
  Types = {T1}
  KnownTypes = {T1}
  Ids = {i1}
  Slots = {s1, s2}
  MaxOpens = 4
SPECIFICATION Spec
\* The leaked arena lock deadlocks every process; the property is what is checked.
CHECK_DEADLOCK FALSE
PROPERTY LocksEventuallyReleased
