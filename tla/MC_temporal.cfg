\* Master process only: refinement of InterfaceRegistry and eventual lock
\* release.  Two ids and two slots: a second chunk for the same id can be
\* allocated, so a missed lookup shows; alloc fails when both are taken.
\* No symmetry: it is unsound with temporal properties.
CONSTANTS
  t1 = t1  t2 = t2  t3 = t3  pMaster = pMaster  pSlave = pSlave
  T1 = T1  T2 = T2  i1 = i1  i2 = i2  i3 = i3  s1 = s1  s2 = s2
  NoOwner = NoOwner  NoName = NoName  NoSlot = NoSlot  NoHandle = NoHandle
  Threads <- MCThreads2
  Procs = {pMaster}
  ProcOf <- MCProcOfMaster
  Master = pMaster
  Types = {T1}
  KnownTypes = {T1}
  Ids = {i1, i2}
  Slots = {s1, s2}
  MaxOpens = 4
SPECIFICATION Spec
PROPERTIES RefinesRegistry LocksEventuallyReleased
