\* Master and slave process: two master threads, three ids competing for
\* two arena slots (chunks are freed and reused), and the failing opens: a
\* type libinterfaces.so lacks and a thread of a non-master process.  Those
\* exceptions leave the locks held, so the system really stops: deadlock is
\* not a finding of this run.
CONSTANTS
  t1 = t1  t2 = t2  t3 = t3  pMaster = pMaster  pSlave = pSlave
  T1 = T1  T2 = T2  i1 = i1  i2 = i2  i3 = i3  s1 = s1  s2 = s2
  NoOwner = NoOwner  NoName = NoName  NoSlot = NoSlot  NoHandle = NoHandle
  Threads <- MCThreads3
  Procs = {pMaster, pSlave}
  ProcOf <- MCProcOfSlave
  Master = pMaster
  Types = {T1, T2}
  KnownTypes = {T1}
  Ids = {i1, i2, i3}
  Slots = {s1, s2}
  MaxOpens = 4
SPECIFICATION Spec
CHECK_DEADLOCK FALSE
INVARIANTS TypeOK ChunkRefcounting SingleWriter ChunkIdentityUnique WriterReachable
SYMMETRY MCSymmetry
