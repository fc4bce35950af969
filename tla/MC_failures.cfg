\* Failed opens: a type libinterfaces.so lacks, and a thread of a non-master
\* process, next to a master thread.  The exceptions leave the locks
\* held, so the system really stops: deadlock is not a finding of this run.
CONSTANTS
  t1 = t1  t2 = t2  t3 = t3  pMaster = pMaster  pSlave = pSlave
  T1 = T1  T2 = T2  i1 = i1  i2 = i2  i3 = i3  s1 = s1  s2 = s2
  NoOwner = NoOwner  NoName = NoName  NoSlot = NoSlot  NoHandle = NoHandle
  Threads <- MCThreadsMS
  Procs = {pMaster, pSlave}
  ProcOf <- MCProcOfMS
  Master = pMaster
  Types = {T1, T2}
  KnownTypes = {T1}
  Ids = {i1}
  Slots = {s1}
  MaxOpens = 4
SPECIFICATION Spec
CHECK_DEADLOCK FALSE
INVARIANTS TypeOK ChunkRefcounting
