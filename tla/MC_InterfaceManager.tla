------------------------ MODULE MC_InterfaceManager ------------------------
(* Instantiation of InterfaceManager for TLC: model values for threads,    *)
(* processes, types, ids and arena slots.                                  *)
EXTENDS InterfaceManager

CONSTANTS t1, t2, t3, pMaster, pSlave, T1, T2, i1, i2, i3, s1, s2

\* Two threads of the master process.
MCThreads2 == {t1, t2}
MCProcOfMaster == [t \in {t1, t2} |-> pMaster]
\* Two master threads and a thread of a second (slave) process.
MCThreads3 == {t1, t2, t3}
\* One master thread and one thread of the slave process.
MCThreadsMS == {t1, t3}
MCProcOfMS == [t \in {t1, t3} |-> IF t = t3 THEN pSlave ELSE pMaster]
MCProcOfSlave == [t \in {t1, t2, t3} |-> IF t = t3 THEN pSlave ELSE pMaster]

\* Threads of one process, ids and slots are interchangeable (safety runs
\* only; findInterfaceInMemory's CHOOSE ranges over at most one slot).
MCSymmetry == Permutations({t1, t2}) \cup Permutations({i1, i2, i3})
                \cup Permutations({s1, s2})
=============================================================================
