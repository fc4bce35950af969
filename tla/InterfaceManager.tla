-------------------------- MODULE InterfaceManager --------------------------
(***************************************************************************)
(* The BlackBoard interface manager of                                     *)
(* src/src/libs/blackboard/interface_manager.cpp.                          *)
(*                                                                         *)
(* Threads of one or more processes open and close interfaces.  Each       *)
(* process has its own BlackBoardInterfaceManager with a private mutex,    *)
(* writer registry, rwlock table and instance serial counter; the chunks   *)
(* of the shared memory arena and the arena (memory manager) lock are      *)
(* shared by all processes.  An arena chunk is a slot: a fixed place in    *)
(* the segment whose header bytes stay as they were when it is freed, so   *)
(* a header field the code does not initialise reads what the slot held.  *)
(***************************************************************************)
EXTENDS Integers, FiniteSets, FiniteSetsExt, TLC

CONSTANTS
  Threads,      \* threads calling the manager
  Procs,        \* processes mapping the segment
  ProcOf,       \* [Threads -> Procs]
  Master,       \* the process constructed with bb_master = true
  Types,        \* interface type names callers pass
  KnownTypes,   \* types for which libinterfaces.so has newX / deleteX
  Ids,          \* interface identifiers callers pass
  Slots,        \* places for a chunk in the arena (alloc fails when all used)
  MaxOpens,     \* bound on the master's instance serial counter
  NoOwner, NoName, NoSlot, NoHandle

ASSUME /\ ProcOf \in [Threads -> Procs] /\ Master \in Procs
       /\ KnownTypes \subseteq Types /\ MaxOpens \in Nat \ {0}

VARIABLES
  pc,                 \* [Threads -> call in progress]
  args,               \* [Threads -> [type, id]] of the open in progress
  cur,                \* [Threads -> handle being registered or closed]
  mutex,              \* [Procs -> owner of the manager's Mutex]
  arenaLock,          \* owner of the memory manager lock
  slot,               \* [Slots -> interface_header_t bytes]
  allocated,          \* slots the memory manager holds as allocated chunks
  handles,            \* open Interface instances
  instance_serial,    \* the master's next instance serial
  writer_interfaces,  \* master's writer registry: mem serial -> instance serial
  rwlocks             \* master's rwlock table: mem serial -> RefCountRWLock count

vars == <<pc, args, cur, mutex, arenaLock, slot, allocated, handles,
          instance_serial, writer_interfaces, rwlocks>>

Serials == 0..MaxOpens
Header  == [type : Types \cup {NoName}, id : Ids \cup {NoName}, serial : Serials,
            refcount : Nat, writer : BOOLEAN]
Handle  == [inst : 1..MaxOpens, owner : Threads, slot : Slots,
            serial : Serials, write : BOOLEAN]
Calls   == {"idle", "openForReading", "openForWriting", "register", "close", "free"}

NoArgs == [type |-> NoName, id |-> NoName]

\* A fresh shared memory segment is zero-filled.
ZeroHeader == [type |-> NoName, id |-> NoName, serial |-> 0, refcount |-> 0, writer |-> FALSE]

\* The constructor: instance_serial = 1, empty writer and rwlock tables.
Init ==
  /\ pc = [t \in Threads |-> "idle"]
  /\ args = [t \in Threads |-> NoArgs]
  /\ cur = [t \in Threads |-> NoHandle]
  /\ mutex = [p \in Procs |-> NoOwner]
  /\ arenaLock = NoOwner
  /\ slot = [s \in Slots |-> ZeroHeader]
  /\ allocated = {}
  /\ handles = {}
  /\ instance_serial = 1
  /\ writer_interfaces = <<>>
  /\ rwlocks = <<>>

(***************************************************************************)
(* Helpers of the manager.                                                 *)
(***************************************************************************)
\* Mutant: the scan never matches, so every open allocates a new chunk.
findInterfaceInMemory_noMatch(type, id) == NoSlot

findInterfaceInMemory(type, id) ==
  LET found == {s \in allocated : slot[s].type = type /\ slot[s].id = id}
  IN  IF found = {} THEN NoSlot ELSE CHOOSE s \in found : TRUE

\* Mutants: the serial is not advanced past the largest one / skips one.
getNextMemSerial_noIncrement(chunks) == Max({1} \cup {slot[c].serial : c \in chunks})
getNextMemSerial_skip(chunks) == 2 + Max({0} \cup {slot[c].serial : c \in chunks})

\* One more than the largest serial among the chunks the memory manager lists.
getNextMemSerial(chunks) == 1 + Max({0} \cup {slot[c].serial : c \in chunks})

\* newInterfaceInstance throws before or in getNextInstanceSerial.
newInterfaceInstanceThrows(t, type) == type \notin KnownTypes \/ ProcOf[t] # Master

getWriterForMemSerial(serial) ==
  IF serial \in DOMAIN writer_interfaces THEN writer_interfaces[serial] ELSE NoHandle

\* Mutant: openForWriting does not look at the writer flag.
flagWriterActive_ignored(s) == FALSE

\* The found chunk's header has flag_writer_active set.
flagWriterActive(s) == s # NoSlot /\ slot[s].writer

existsWriter(h) == h.serial \in DOMAIN writer_interfaces

Unlock(t) == mutex' = [mutex EXCEPT ![ProcOf[t]] = NoOwner]

\* Mutant: the header refcount of a found chunk is raised before the
\* instance is made, so the exception leaves it raised.
ThrowHoldingLocks_afterRef(t) ==
  LET s == findInterfaceInMemory(args[t].type, args[t].id) IN
  /\ arenaLock' = t
  /\ pc' = [pc EXCEPT ![t] = "idle"]
  /\ args' = [args EXCEPT ![t] = NoArgs]
  /\ slot' = IF s = NoSlot THEN slot ELSE [slot EXCEPT ![s].refcount = @ + 1]
  /\ UNCHANGED <<cur, mutex, allocated, handles, instance_serial,
                 writer_interfaces, rwlocks>>

\* An exception escapes with the manager mutex and the arena lock held.
ThrowHoldingLocks(t) ==
  /\ arenaLock' = t
  /\ pc' = [pc EXCEPT ![t] = "idle"]
  /\ args' = [args EXCEPT ![t] = NoArgs]
  /\ UNCHANGED <<cur, mutex, slot, allocated, handles, instance_serial,
                 writer_interfaces, rwlocks>>

\* Mutant: a failed open (no handle) forgets mutex->unlock().
ReturnUnlocked_keepOnError(t, h) ==
  /\ IF h = NoHandle THEN UNCHANGED mutex ELSE Unlock(t)
  /\ args' = [args EXCEPT ![t] = NoArgs]
  /\ pc' = [pc EXCEPT ![t] = IF h # NoHandle /\ h.write THEN "register" ELSE "idle"]
  /\ cur' = [cur EXCEPT ![t] = IF h # NoHandle /\ h.write THEN h ELSE NoHandle]

\* memmgr->unlock(); mutex->unlock(); then return or throw.
ReturnUnlocked(t, h) ==
  /\ Unlock(t)
  /\ args' = [args EXCEPT ![t] = NoArgs]
  /\ pc' = [pc EXCEPT ![t] = IF h # NoHandle /\ h.write THEN "register" ELSE "idle"]
  /\ cur' = [cur EXCEPT ![t] = IF h # NoHandle /\ h.write THEN h ELSE NoHandle]

\* Mutant: the found path does not increment the header refcount.
OpenExisting_noRef(t, s, write) ==
  LET h == [inst |-> instance_serial, owner |-> t, slot |-> s,
            serial |-> slot[s].serial, write |-> write]
  IN  /\ instance_serial' = instance_serial + 1
      /\ rwlocks' = [rwlocks EXCEPT ![slot[s].serial] = @ + 1]
      /\ slot' = [slot EXCEPT ![s].writer = @ \/ write]
      /\ handles' = handles \cup {h}
      /\ ReturnUnlocked(t, h)
      /\ UNCHANGED <<arenaLock, allocated, writer_interfaces>>

\* Found chunk: new instance bound to it, rwlock ref'd, refcount incremented.
OpenExisting(t, s, write) ==
  LET h == [inst |-> instance_serial, owner |-> t, slot |-> s,
            serial |-> slot[s].serial, write |-> write]
  IN  /\ instance_serial' = instance_serial + 1
      /\ rwlocks' = [rwlocks EXCEPT ![slot[s].serial] = @ + 1]
      /\ slot' = [slot EXCEPT ![s].refcount = @ + 1, ![s].writer = @ \/ write]
      /\ handles' = handles \cup {h}
      /\ ReturnUnlocked(t, h)
      /\ UNCHANGED <<arenaLock, allocated, writer_interfaces>>

\* createInterface: the instance is made before alloc; alloc may fail.
\* Header type, id, refcount and serial are written; flag_writer_active is
\* not, so a reader sees whatever the slot held.
createInterface(t, write) ==
  \/ /\ Slots \ allocated = {}
     /\ instance_serial' = instance_serial + 1
     /\ ReturnUnlocked(t, NoHandle)
     /\ UNCHANGED <<arenaLock, slot, allocated, handles, writer_interfaces, rwlocks>>
  \/ \E f \in Slots \ allocated :
       LET ser == getNextMemSerial(allocated \cup {f})
           h   == [inst |-> instance_serial, owner |-> t, slot |-> f,
                   serial |-> ser, write |-> write]
       IN  /\ allocated' = allocated \cup {f}
           /\ slot' = [slot EXCEPT ![f] = [type |-> args[t].type, id |-> args[t].id,
                         serial |-> ser, refcount |-> 1, writer |-> @.writer \/ write]]
           /\ rwlocks' = (ser :> 1) @@ rwlocks
           /\ instance_serial' = instance_serial + 1
           /\ handles' = handles \cup {h}
           /\ ReturnUnlocked(t, h)
           /\ UNCHANGED <<arenaLock, writer_interfaces>>

(***************************************************************************)
(* Operations.                                                             *)
(***************************************************************************)
\* mutex->lock() at the start of openForReading / openForWriting.
BeginOpen(t) ==
  /\ pc[t] = "idle"
  /\ mutex[ProcOf[t]] = NoOwner
  /\ instance_serial <= MaxOpens
  /\ \E op \in {"openForReading", "openForWriting"}, type \in Types, id \in Ids :
       /\ pc' = [pc EXCEPT ![t] = op]
       /\ args' = [args EXCEPT ![t] = [type |-> type, id |-> id]]
  /\ mutex' = [mutex EXCEPT ![ProcOf[t]] = t]
  /\ UNCHANGED <<cur, arenaLock, slot, allocated, handles, instance_serial,
                 writer_interfaces, rwlocks>>

\* The rest of openForReading, under memmgr->lock().
openForReading(t) ==
  LET s == findInterfaceInMemory(args[t].type, args[t].id) IN
  /\ pc[t] = "openForReading"
  /\ arenaLock = NoOwner
  /\ \/ newInterfaceInstanceThrows(t, args[t].type) /\ ThrowHoldingLocks(t)
     \/ /\ ~newInterfaceInstanceThrows(t, args[t].type)
        /\ \/ s # NoSlot /\ OpenExisting(t, s, FALSE)
           \/ s = NoSlot /\ createInterface(t, FALSE)

\* The rest of openForWriting, under memmgr->lock().
openForWriting(t) ==
  LET s == findInterfaceInMemory(args[t].type, args[t].id) IN
  /\ pc[t] = "openForWriting"
  /\ arenaLock = NoOwner
  /\ \/ /\ flagWriterActive(s)              \* WriterActiveException
        /\ ReturnUnlocked(t, NoHandle)
        /\ UNCHANGED <<arenaLock, slot, allocated, handles, instance_serial,
                       writer_interfaces, rwlocks>>
     \/ /\ ~flagWriterActive(s)
        /\ \/ newInterfaceInstanceThrows(t, args[t].type) /\ ThrowHoldingLocks(t)
           \/ /\ ~newInterfaceInstanceThrows(t, args[t].type)
              /\ \/ s # NoSlot /\ OpenExisting(t, s, TRUE)
                 \/ s = NoSlot /\ createInterface(t, TRUE)

\* writer_interfaces[mem_serial] = iface, after both locks are released.
registerWriter(t) ==
  /\ pc[t] = "register"
  /\ writer_interfaces' = (cur[t].serial :> cur[t].inst) @@ writer_interfaces
  /\ pc' = [pc EXCEPT ![t] = "idle"]
  /\ cur' = [cur EXCEPT ![t] = NoHandle]
  /\ UNCHANGED <<args, mutex, arenaLock, slot, allocated, handles, instance_serial, rwlocks>>

\* mutex->lock() at the start of close, on a handle the thread owns.
BeginClose(t) ==
  /\ pc[t] = "idle"
  /\ mutex[ProcOf[t]] = NoOwner
  /\ \E h \in handles : h.owner = t /\ cur' = [cur EXCEPT ![t] = h]
  /\ pc' = [pc EXCEPT ![t] = "close"]
  /\ mutex' = [mutex EXCEPT ![ProcOf[t]] = t]
  /\ UNCHANGED <<args, arenaLock, slot, allocated, handles, instance_serial,
                 writer_interfaces, rwlocks>>

\* Mutant: the registry entry is erased whichever handle closes.
eraseWriter_always(h) ==
  [x \in DOMAIN writer_interfaces \ {h.serial} |-> writer_interfaces[x]]

\* writer_interfaces.erase(mem_serial) when the closed handle was the writer.
eraseWriter(h) ==
  IF h.write THEN [x \in DOMAIN writer_interfaces \ {h.serial} |-> writer_interfaces[x]]
  ELSE writer_interfaces

\* --refcount; at zero the chunk is freed next, otherwise a writer clears
\* the flag and its registry entry; the instance is deleted either way.
close(t) ==
  LET h == cur[t]
      s == h.slot
  IN  /\ pc[t] = "close"
      /\ handles' = handles \ {h}
      /\ \/ /\ slot[s].refcount - 1 = 0
            /\ slot' = [slot EXCEPT ![s].refcount = 0]
            /\ pc' = [pc EXCEPT ![t] = "free"]
            /\ UNCHANGED <<mutex, cur, writer_interfaces>>
         \/ /\ slot[s].refcount - 1 # 0
            /\ slot' = [slot EXCEPT ![s].refcount = @ - 1,
                                    ![s].writer = @ /\ ~h.write]
            /\ writer_interfaces' = eraseWriter(h)
            /\ Unlock(t)
            /\ pc' = [pc EXCEPT ![t] = "idle"]
            /\ cur' = [cur EXCEPT ![t] = NoHandle]
      /\ UNCHANGED <<args, arenaLock, allocated, instance_serial, rwlocks>>

\* memmgr->free(mem_real_ptr) takes the arena lock; then the instance is
\* deleted and the mutex released.
closeFree(t) ==
  /\ pc[t] = "free"
  /\ arenaLock = NoOwner
  /\ allocated' = allocated \ {cur[t].slot}
  /\ Unlock(t)
  /\ pc' = [pc EXCEPT ![t] = "idle"]
  /\ cur' = [cur EXCEPT ![t] = NoHandle]
  /\ UNCHANGED <<args, arenaLock, slot, handles, instance_serial, writer_interfaces, rwlocks>>

\* The model's bound is spent and every handle is closed.
BoundReached ==
  /\ instance_serial > MaxOpens /\ handles = {}
  /\ \A t \in Threads : pc[t] = "idle"
  /\ UNCHANGED vars

Next ==
  \/ \E t \in Threads :
       \/ BeginOpen(t) \/ openForReading(t) \/ openForWriting(t) \/ registerWriter(t)
       \/ BeginClose(t) \/ close(t) \/ closeFree(t)
  \/ BoundReached

\* A call in progress keeps running; starting a call is up to the client.
Fairness ==
  \A t \in Threads :
    /\ WF_vars(openForReading(t)) /\ WF_vars(openForWriting(t))
    /\ WF_vars(registerWriter(t)) /\ WF_vars(close(t)) /\ WF_vars(closeFree(t))

Spec == Init /\ [][Next]_vars /\ Fairness

(***************************************************************************)
(* Refinement: the open handles, seen through the headers of their chunks, *)
(* and the instance serial counter implement InterfaceRegistry.            *)
(***************************************************************************)
Registry == INSTANCE InterfaceRegistry WITH
  open   <- {[inst |-> h.inst, owner |-> h.owner, type |-> slot[h.slot].type,
              id |-> slot[h.slot].id, write |-> h.write] : h \in handles},
  issued <- instance_serial

(***************************************************************************)
(* Properties.                                                             *)
(***************************************************************************)
TypeOK ==
  /\ pc \in [Threads -> Calls]
  /\ mutex \in [Procs -> Threads \cup {NoOwner}]
  /\ arenaLock \in Threads \cup {NoOwner}
  /\ slot \in [Slots -> Header]
  /\ allocated \subseteq Slots
  /\ handles \subseteq Handle
  /\ cur \in [Threads -> Handle \cup {NoHandle}]
  /\ instance_serial \in 1..MaxOpens + 1
  /\ writer_interfaces \in [DOMAIN writer_interfaces -> 1..MaxOpens]
  /\ rwlocks \in [DOMAIN rwlocks -> Nat]

HandlesOn(s) == {h \in handles : h.slot = s}
WritersOn(s) == {h \in HandlesOn(s) : h.write}

\* Chunk lifetime (open, close and free): every open handle is bound to an
\* allocated chunk that still carries its mem serial, and a chunk's header
\* refcount equals the number of open handles bound to it.  Broken by a
\* refcount update lost on some path or a chunk freed while still in use.
ChunkRefcounting ==
  /\ \A h \in handles : h.slot \in allocated /\ slot[h.slot].serial = h.serial
  /\ \A s \in allocated : slot[s].refcount = Cardinality(HandlesOn(s))

\* openForWriting / close: at most one writer handle per chunk, and the
\* chunk's flag_writer_active is set while it is open.
SingleWriter ==
  \A s \in allocated :
    /\ Cardinality(WritersOn(s)) <= 1
    /\ WritersOn(s) # {} => slot[s].writer

\* findInterfaceInMemory and getNextMemSerial: no two live chunks share a
\* (type, id) or a mem serial, although serials of freed chunks are reused.
ChunkIdentityUnique ==
  \A s1, s2 \in allocated : s1 # s2 =>
    /\ <<slot[s1].type, slot[s1].id>> # <<slot[s2].type, slot[s2].id>>
    /\ slot[s1].serial # slot[s2].serial

\* getWriterForMemSerial: once openForWriting has returned, the writer
\* registry leads from the chunk's mem serial to that writer until it is
\* closed (what the message manager relies on to reach the writer).
WriterReachable ==
  \A h \in handles :
    (h.write /\ pc[h.owner] # "register") => getWriterForMemSerial(h.serial) = h.inst

\* Every exit of open and close, the exception paths included, releases
\* the manager mutex and the arena lock: no thread outside a call holds one.
LocksReleasedOnReturn ==
  /\ \A p \in Procs : mutex[p] # NoOwner => pc[mutex[p]] # "idle"
  /\ arenaLock # NoOwner => pc[arenaLock] # "idle"

\* Chunks with open handles (a chunk whose refcount reached zero is being freed).
InUse == {s \in allocated : slot[s].refcount > 0}

\* Header invariant of the spec: flag_writer_active of a chunk in use is
\* set exactly when a writer handle is open on it (so openForWriting throws
\* WriterActiveException only when another writer exists).
WriterFlagExact ==
  \A s \in InUse : slot[s].writer <=> WritersOn(s) # {}

\* A writer registry entry for the serial of a chunk in use names an open
\* writer of that chunk (getWriterForMemSerial and existsWriter never
\* answer with a deleted instance).
RegistryEntriesLive ==
  \A s \in InUse : slot[s].serial \in DOMAIN writer_interfaces =>
    \E h \in WritersOn(s) : h.inst = writer_interfaces[slot[s].serial]

\* Nothing of a writer survives its close into a chunk in use: the header's
\* flag_writer_active and the writer_interfaces entry for the chunk's serial
\* both describe the writers open on that chunk now (spec section 3), even
\* after a writer's last close freed the chunk and its slot or serial was
\* reused by the next createInterface.
WriterStateCleared == WriterFlagExact /\ RegistryEntriesLive

\* RefCountRWLock attach/detach contract: the rwlock count of a chunk in
\* use equals the number of handles bound to the chunk.
RWLockRefsMatchHandles ==
  \A s \in InUse : rwlocks[slot[s].serial] = Cardinality(HandlesOn(s))

\* Refinement: every step of open, close and free is a step the registry
\* allows: a writer is admitted only when no writer of that (type, id) is
\* open, each open handle keeps its identity, and a close removes only the
\* closed handle.
RefinesRegistry == Registry!Spec

\* Liveness: whichever thread takes the manager mutex or the arena lock
\* releases it again, so callers are not blocked forever.
LocksEventuallyReleased ==
  /\ \A p \in Procs : mutex[p] # NoOwner ~> mutex[p] = NoOwner
  /\ arenaLock # NoOwner ~> arenaLock = NoOwner

=============================================================================
