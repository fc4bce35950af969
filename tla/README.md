# TLA+ models of Fawkes: BlackBoard interface manager, TF, navgraph, Lua context

This directory holds TLA+ specifications of parts of the repository under
`src/`, with TLC configurations that check them. The main subject is
`src/src/libs/blackboard/interface_manager.cpp` (`BlackBoardInterfaceManager`).
It turns a shared-memory arena into named, reference-counted interfaces and
allows at most one writer per interface. Further modules cover the TF frame
table and lookup, the navgraph static list constraint and the Lua context.

## 1. Inventory

### Components and the state each keeps

| Component | Source | State | Operations |
|---|---|---|---|
| Interface manager | `libs/blackboard/interface_manager.cpp` | Per process: `mutex`, `writer_interfaces` (mem serial → writer instance), `rwlocks` (mem serial → RefCountRWLock), `instance_serial`, `bb_master`. In shared memory: one `interface_header_t` per chunk (`type`, `id`, `serial`, `refcount`, `flag_writer_active`). | constructor, `openForReading`, `openForWriting`, `close`, `getWriterForMemSerial`, `existsWriter`, `notifyOfDataChange` (no-op), `getMemoryManager`, helpers `createInterface`, `findInterfaceInMemory`, `getNextMemSerial`, `getNextInstanceSerial`, `newInterfaceInstance`, `deleteInterfaceInstance`, `stripClassType` |
| Memory manager (arena) | not under `src/` | allocated chunks, free space, one lock shared by every process | `lock`, `unlock`, `alloc_nolock`, `free`, chunk iteration |
| RefCountRWLock | not under `src/` | a reference count and a read/write lock | `ref` (the manager never calls `unref`) |
| Interface factory (`libinterfaces.so` loaded through ModuleDL) | not under `src/` | `newX`/`deleteX` symbols per type | symbol lookup |
| Message manager / MessageQueue | not under `src/` | one queue per instance | constructed by the manager |
| TF transformer | `libs/tf/transformer.cpp` | frame-name → number table, a `TimeCache` per frame, `frame_mutex_` | `set_transform`, `lookup_transform`, `clear`, `frame_exists`, `walkToTopParent`, `getLatestCommonTime`, `lookupOrInsertFrameNumber` |
| Lua context | `libs/lua/context.cpp` | Lua state, mutex, watchers, start script, packages | `lock`/`try_lock`/`unlock`, `restart`, `do_file`/`do_string`, many stack wrappers, watcher add/remove, FAM events |
| Navgraph static list node constraint | `plugins/navgraph/constraints/static_list_node_constraint.cpp` | vector of blocked nodes | `add_node`, `add_nodes`, `remove_node`, `has_node`, `clear_nodes` |
| Skill GUI, Graphviz plugin, interface chooser dialog | `tools/skillgui/*`, `libs/gui_utils/interface_chooser_dialog.cpp` | GTK widgets, BlackBoard connections | UI callbacks |
| AMCL laser model | `plugins/amcl/sensors/amcl_laser.cpp` | model parameters | floating-point beam and likelihood-field models |
| CLIPS REST model, RRD web thread, laser sensor thread header, opening filter header, service browser | (files listed in `PROJECT.json`) | plain data, declarations | JSON conversion, plugin registration |

### How the parts interact

A caller's `openForReading` or `openForWriting` does the following. It takes
the process's manager mutex and then the arena lock, which all processes
share. It scans the allocated chunks for the (type, id). It either binds a new
instance to the chunk it found, or allocates a new chunk and gives it a mem
serial one higher than the largest serial in the arena. The instance comes
from the factory, gets an instance serial from the master's counter, is tied to
the chunk's RefCountRWLock, and gets a new MessageQueue. The header refcount is
then incremented, and a write-open also sets `flag_writer_active`. Both locks
are released. A writer is registered in `writer_interfaces` only after that
release.

`close` takes only the manager mutex and decrements the refcount. At zero, it
frees the chunk through the memory manager. Otherwise, if the handle is the
writer, it clears the flag and erases the registry entry. In either case the
instance is then deleted.

Only the master process can issue instance serials. In a non-master process,
every open that gets as far as making an instance throws `BBNotMasterException`.

### What is hard here

- **Exception paths and locks.** `newInterfaceInstance` throws on an unknown
  type or in a non-master process. Both callers have taken both locks by then,
  and neither catches the exception.
- **Memory reuse.** Header fields that `createInterface` does not write keep
  the bytes of whatever chunk used that memory before.
- **Serial reuse.** Mem serials are unique only among live chunks. Anything
  keyed by serial (`writer_interfaces`, `rwlocks`) can outlive its chunk and be
  matched to a later one.
- **Cross-process sharing.** Headers and the arena lock are shared between
  processes. The mutex, the registry and the rwlock table are per process.
- **The writer-registration window** after the locks are released.

### Properties that make the manager correct

- The header refcount equals the number of open handles on the chunk. No handle
  outlives its chunk.
- At most one writer per chunk, and the writer flag is set exactly while one is
  open.
- No two live chunks share a (type, id) or a mem serial.
- The writer registry leads to the open writer and to nothing else.
- Every lock taken is released, on every exit path.
- The rwlock count follows attach and detach.
- The manager implements the abstract registry of open handles.

## 2. Plan

In order of importance. The status after the second sitting is given with
each step.

1. `InterfaceManager` (done): threads of a master and a non-master process.
   Covers open, close, the registration window, memory and serial reuse, and
   the exception paths.
2. `InterfaceRegistry` (done): the abstract specification, with the refinement
   `RefinesRegistry` checked through `INSTANCE ... WITH`.
3. Failure runs (done): one violation run per disagreement found (§5).
4. `NavGraphStaticListNodeConstraint` (done): `add_node`, `add_nodes`,
   `remove_node` and `clear_nodes` on a sequence. The erase-then-increment
   loop of `remove_node` is a RECURSIVE operator.
5. `TfTransformer` (done): the frame table and `lookup_transform` with its
   `walkToTopParent` and `getLatestCommonTime` walks as RECURSIVE operators.
   They are checked against a reference product of transforms along parent
   links. `TfUnlockedLookup` adds the unlocked reader.
6. `LuaContext` (done, partly): the lock, the registries and `restart()`
   split at its unlock and relock, with `RestartAtomic` covering the lost
   update of the registries. Still open: the unlocked iteration of
   `watchers_` and the destructor (§6).
7. Next: a composition of `InterfaceManager` with a message-queue model,
   and the `LuaContext` destructor with deadlock checking (both need a run
   of their own).

## 3. Modules

### `InterfaceManager.tla`

- **Constants.** `Threads`, `Procs`, `ProcOf`, `Master`, `Types` and
  `KnownTypes` (the types with factory symbols), `Ids`, `Slots` (where a chunk
  can sit in the arena) and `MaxOpens` (the bound on the instance counter).
- **Variables and their code counterparts:**
  - `slot[s]` is the `interface_header_t` bytes at slot `s`. They are kept when
    the slot is freed, which is how the uninitialised flag and serial are read.
  - `allocated` is the memory manager's chunk list.
  - `mutex[p]` and `arenaLock` are the lock owners.
  - `handles` are the open `Interface` instances, with their `mem_real_ptr`
    (slot), `mem_serial` and `write_access`.
  - `instance_serial`, `writer_interfaces` and `rwlocks` are the master's
    manager fields.
  - `pc`, `args` and `cur` record the call each thread is in.
- **Actions:**
  - `BeginOpen` is `mutex->lock()`.
  - `openForReading` and `openForWriting` are the rest of each function under
    the arena lock. Their disjuncts are: `WriterActiveException`, an exception
    from `newInterfaceInstance` (`ThrowHoldingLocks`), binding to a found chunk
    (`OpenExisting`), and `createInterface` (out of memory, or a new chunk).
  - `registerWriter` is the registry insert after unlocking.
  - `BeginClose`, then `close` (decrement, and the writer cleanup when the
    count is not zero), then `closeFree` (`memmgr->free`, delete, unlock).
  - `BoundReached` is the stop once the counter bound is spent.
- **Helpers** (named after the code): `findInterfaceInMemory`,
  `getNextMemSerial`, `getWriterForMemSerial`, `existsWriter`.
- **Mutant operators.** The definitions named `<name>_<change>` exist only as
  plausible bugs, to show that each checked property can catch one.

### `InterfaceRegistry.tla`

The abstract promise. It holds a set of open handles, each a
(type, id, read/write) with a fresh instance serial, and admits at most one
writer per (type, id). `Close` removes the handle closed, and an open may fail
after consuming a serial. `InterfaceManager` maps `open` to its handles, seen
through their chunk headers, and maps `issued` to `instance_serial`.

### `MC_InterfaceManager.tla`

Model values, thread sets, the process assignment and the symmetry set used
by the `.cfg` files.

### `TfTransformer.tla` and `MC_TfTransformer.tla`

`src/src/libs/tf/transformer.cpp`.

- **Variables.** `frameIDs` is `frameIDs_` (name → number), `frames` is
  `frames_` (number → the latest entry of the frame's TimeCache: parent and
  transform), and `enabled` is `enabled_`. The constructor never initialises
  `enabled_`, so `Init` lets it be either value.
- **Abstractions.** A rigid transform is an element of the non-commutative
  group S3 (`Compose`, `Inv`), so a wrong order of composition changes the
  answer. A TimeCache is its latest entry plus an argument `avail`: the set of
  frames whose cache has data at the requested time.
- **Actions.** `set_transform` rejects a self-parent, a frame named "/" and
  NaN. It numbers the child, then the parent, and stores the entry only if
  the cache accepted it. The other actions are `clear` and `set_enabled`.
- **Pure operators.** `lookup_transform` is a pure operator. It checks
  `enabled` and equal names. Then `lookupFrameNumber` throws for an unknown
  name (`LookupThrows`), and it runs `walkToTopParent`. `frame_exists` is
  the locked membership test that the unlocked reader uses.
  `walkToTopParent` has two RECURSIVE walks and the `MAX_GRAPH_DEPTH` check.
  For "latest" it first runs `getLatestCommonTime`, built from one-pass step
  operators.
- **Reference.** `Chain`, `Shared` and `Through` give the set of products of
  transforms along the parent links through a shared frame. The invariants
  quantify over every name pair, time and `avail` set of every reachable
  table.

### `TfUnlockedLookup.tla` and `MC_TfUnlockedLookup.tla`

`TfUnlockedLookup` extends `TfTransformer` with a reader thread. The reader
runs `getLatestCommonTime(source_frame, target_frame)` one loop pass per step,
without `frame_mutex_`, while writers call `set_transform` and `clear` under
the lock. The ghost flag `apart` records whether the two frames were
disconnected in any table the reader overlapped.

### `NavGraphStaticListNodeConstraint.tla` and its MC module

`src/src/plugins/navgraph/constraints/static_list_node_constraint.cpp`.

- **State.** `node_list` is `node_list_`. `ub` records that the `remove_node`
  loop incremented an iterator past `end()`, which is undefined behaviour, so
  the model stops there.
- **The loop.** `RemoveFrom` is the loop as written. The code discards
  `erase`'s return value and keeps the invalidated iterator, which in
  practice points at the element moved into place. The loop header then
  increments it.
- **Other actions.** `AddNode`, `AddNodes` (a FoldLeft of `add_node`) and
  `clear_nodes`.
- **Property.** The action property `RemoveFiltersNode` is stated against
  `SelectSeq`, for every `remove_node` step whose loop stays inside the
  vector (`~ub'`). A step that passes `end()` is undefined, so no result is
  asserted for it; `NoStepPastEnd` and `RemoveNodeSound` cover that step. It is an action property rather than a refinement, because a
  `remove_node` that does nothing would refine any abstract set as a stutter.

### `LuaContext.tla` and `MC_LuaContext.tla`

`src/src/libs/lua/context.cpp`.

- **State.**
  - A `lua_State` is a number. `L` is `L_`. `created` and `closed` count what
    `luaL_newstate` and `lua_close` did. `Close` forgets a closed state's
    contents.
  - `globals` and `loaded` are the globals and packages each state has, and
    `stack` is each state's Lua stack, bottom first. A stack holds the
    `"traceback"` function and anonymous `"value"`s.
  - `fin` is each state's stage in the finalization protocol that
    `set_finalization_calls` documents, computed by `Advance`.
  - `reg[k]` is the typed registry of kind `k` (`usertypes_`, `strings_`,
    `booleans_`, `numbers_`, `integers_`, `cfuncs_`). `dirs`, `packages`,
    `script` and `watchers` are the package directory lists, `packages_`,
    `start_script_` and `watchers_`. `tracebacks` is `enable_tracebacks_`,
    chosen by the constructor.
  - `mutex` is `lua_mutex_`. `pc`, `newL` and `running` record what each
    thread is doing and on which state it runs Lua code.
- **Locked calls.** `Lock` and `Unlock` are `lock()` and `unlock()`.
  `set_value` (the six typed `set_*`), `remove_global`, `add_package_dir`,
  `add_package`, `set_start_script`, `push` (the thirteen `push_*`), `pop`,
  `remove`, `do_string` and `do_file` are each one step under their
  MutexLocker. `assert_unique_name` consults only the registry of the
  same kind, as the code does.
- **Unlocked accessors.** `table_op` (create_table, set_table, set_field,
  get_table, get_field, the raw_* calls, get_global, by their stack effect),
  `set_global`, `table_next`, `load_string`, `pcall` and `setfenv` take no
  lock in the code; the client calls them while holding `lock()`, as
  `get_lua_state` asks. A client consumes only values above the traceback
  function (`Holds`). `pop` and `remove` take any size and index the Lua API
  allows, and the code's guards decide.
- **Results.** `do_string` and `do_file` use `LUA_MULTRET`, so a chunk's
  results stay on the stack; require returns one value (Lua 5.1), so every
  `add_package`, the start script and each require of `init_state` leave
  one value.
- **restart().** It is four actions, cut where the code releases and takes
  the lock:
  - `restart_prepare`: `finalize_prepare` under the lock, then `unlock()`.
  - `init_state`: one unlocked step. Its outcome is `none`, a throwing
    package path or require (the new state stays open), or a throwing
    watcher or start script (the new state is finalized and closed). On
    failure the catch starts `finalize_cancel` on `L_`. On success the new
    state holds the registries' globals as `Restored` replays them, in
    the code's kind order.
  - `restart_swap`: `relock()`, finalize and close the old state, swap.
  - `restart_cancelled`: `finalize_cancel` ends.
- **Bounds.** `MaxStates = 3` bounds the states `init_state` creates (two
  restarts). `MaxStack = 3` bounds a stack's height: a traceback, a
  package's result and a client value, enough for `pop` and `remove` to
  meet the bottom from both ends. Two kinds (string, boolean) let one name
  sit in two registries.

## 4. Runs

| Run | cfg | Expect | What it shows |
|---|---|---|---|
| core_safety | `MC_core.cfg` | pass | `TypeOK`, `ChunkRefcounting`, `SingleWriter`, `ChunkIdentityUnique` and `WriterReachable` hold for 2 master threads, a slave-process thread, a registered and an unknown type, 3 ids, 2 slots and `MaxOpens = 4`. This reaches out-of-memory, freeing, slot and serial reuse, and the failing opens, which leave no partial chunk, refcount or handle. The leaked locks really stop the system, so deadlock is not checked. Symmetry over master threads, ids and slots. About 671k states, 40 s. |
| master_temporal | `MC_temporal.cfg` | pass | `RefinesRegistry` (every step is an `InterfaceRegistry` step or a stutter) and `LocksEventuallyReleased`, for 2 master threads, 2 ids, 2 slots and `MaxOpens = 4`. Alloc fails once both slots are taken. A second chunk for an id that is already open can be allocated, so a lookup that misses shows. No symmetry. About 279k states, 55 s. |
| lock_leak_on_throw | `MC_lock_leak.cfg` | violation | `LocksReleasedOnReturn`: an open that throws from `newInterfaceInstance` (the NotFound of a type without factory symbols, or the NotMaster of any open in a slave process) returns with the manager mutex and the shared arena lock still held. A master's open then waits forever. |
| stale_writer_state | `MC_stale_writer.cfg` | violation | `WriterStateCleared` (`WriterFlagExact` /\ `RegistryEntriesLive`): a writer closes its chunk's last handle and the chunk is freed. A new chunk in that slot then carries the writer flag, and a new chunk with the freed serial is answered for by the deleted writer's registry entry. |
| rwlock_leak | `MC_rwlock_leak.cfg` | violation | `RWLockRefsMatchHandles`: two readers open and one closes, and the rwlock count stays at 2. |
| tf_lookup | `MC_tf.cfg` | pass | For 3 frame names, `MAX_GRAPH_DEPTH = 2` and two transforms: in every reachable frame table, at "latest" and at a stamp under every set of caches with data, `LookupMatchesTree` and `LookupAnswersConnectedFrames` hold. A `NO_ERROR` answer is a product of transforms along the parent links through a shared frame, and connected loop-free frames are answered. About 5k states. |
| tf_disconnected | `MC_tf_disconnected.cfg` | violation | `DisconnectedRaisesConnectivity`: frames in two different trees get an `EXTRAPOLATION_ERROR` at a stamp, not the `ConnectivityException` the documentation promises. |
| tf_unlocked_read | `MC_tf_unlocked.cfg` | violation | `UnlockedAnswerJustified`: the unlocked reader reports `CONNECTIVITY_ERROR` for two frames that stayed connected while two `set_transform` calls re-parented them. |
| navgraph_remove | `MC_navgraph.cfg` | pass | `RemoveFiltersNode` holds from an empty or repeat-free constructor vector over 5 nodes and lists up to 5 long. About 500 states. |
| navgraph_remove_defects | `MC_navgraph_defects.cfg` | violation | `RemoveNodeSound`: `remove_node` of the last element increments the iterator past `end()` (found first). Of a vector with a node twice in a row, such as `<<v1, v1, v2>>`, it removes only one copy. |
| lua_restart | `MC_lua.cfg` | pass | `FinalizationProtocol`, `NoUseAfterClose` and `TracebackAtBottom` hold with the FAM thread restarting (`MaxStates = 3`) and a client using every modelled call, tracebacks on or off, every Lua call possibly throwing. The traceback function stays at index 1 of `L_` and of every state a restart builds, for all sizes and indices the client passes to `pop` and `remove`. About 164k states, 20 s. |
| lua_unlocked_cancel | `MC_lua_unlocked_cancel.cfg` | violation | `RestartAtomic`: `restart()` drops `lua_mutex_` around `init_state`, so it is not atomic to clients. (a) A `set_*`, `remove_global` or `add_package` made meanwhile is missing from the state swapped in (the 4-step trace TLC reports). (b) When `init_state` throws, `finalize_cancel` runs on `L_` while the client holds `lua_mutex_` (the `ExclusiveLuaState` conjunct). |

`MC_failures.cfg`, `MC_liveness.cfg` and `MC_refinement.cfg` are the
configurations the first sitting used for the failure paths, liveness and
refinement separately. `core_safety` and `master_temporal` now check the same
properties on configurations that include theirs.
`MC_unknown_type.cfg`, `MC_slave.cfg`, `MC_stale_flag.cfg`,
`MC_stale_registry.cfg`, `MC_navgraph_repeat.cfg` and
`MC_navgraph_past_end.cfg` reproduce each finding on its own, with the
narrower property `LocksEventuallyReleased`, `WriterFlagExact`,
`RegistryEntriesLive`, `RemoveFiltersNode` or `NoStepPastEnd`. The three
merged violation runs above cover the same findings.

**Bounds.**
- **InterfaceManager.** Three ids over two slots make the arena fill up and
  force chunks to be freed and reused. A reused slot has stale header bytes.
  Freeing the chunk with the highest serial makes the next chunk reuse that
  serial. The bugs above appear within 9 steps.
- **TF.** With depth 2 and three frames, the longest loop-free chain walks
  to its end without the depth exception, and only a loop raises it. `TfUnlockedLookup` uses depth 3 and four
  frames, so that two re-parentings fit into one read.
- **Navgraph.** Lists of length 5 hold every order of a few adds and removes.
- **Lua.** Three states allow two restarts, so a state that was prepared and
  cancelled is prepared again. A stack of height 3 lets `pop` and `remove`
  reach the traceback function from above with a package result and a
  client value between.
- **Coverage.** The passing runs explore every disjunct.

**Fairness.** Weak fairness applies only to the steps of a call already in
progress: the open body, the registration, the close and the free. Those steps
run on the calling thread and need nothing but the lock it waits for. Starting
a call (`BeginOpen`, `BeginClose`) is up to the client and is not fair. The
liveness property is about the locks the callers took, not about a waiting
thread acquiring them, because a pthread mutex does not guarantee that.

The TF, navgraph and Lua runs check only safety, with no fairness.
`MC_lua.cfg` checks deadlock: the client can always lock again.
`MC_tf_unlocked.cfg` and the navgraph cfgs turn deadlock checking off. Their
models stop for real: the writes are bounded, and the navgraph model stops
after the undefined step.

## 5. Findings

1. `newInterfaceInstance` throws with both locks held, from
   `interface_manager.cpp:170` (unknown type) and `:265` (not master). The
   process deadlocks, and because the arena lock is shared, the master
   deadlocks too.
2. `flag_writer_active` is never initialised for a reader-created chunk
   (`:297`). Writers can be refused forever.
3. A writer's last `close` leaves a dangling `writer_interfaces` entry (`:425`).
   Serial reuse makes it answer for a new chunk.
4. The rwlock reference count is never decremented (`:337`). The spec calls
   this a known defect.

5. `lookup_transform` at a stamp between frames of different trees throws an
   ExtrapolationException from the cache lookup (`transformer.cpp:438`). Its
   documentation promises a ConnectivityException.
6. `getLatestCommonTime(source_frame, target_frame)` reads `frames_` without
   `frame_mutex_` (`transformer.cpp:695`). With concurrent `set_transform`
   calls it reports frames as unconnected that never were.
7. `remove_node` erases inside the loop and then increments the returned
   iterator (`static_list_node_constraint.cpp:99`). The last element makes
   it step past `end()`, and of two adjacent copies it removes one.
8. When `init_state` throws during `restart()`, `finalize_cancel` runs on `L_`
   without `lua_mutex_` (`context.cpp:315`). It races with any locked user of
   the context.
9. A `set_string`, `remove_global` or `add_package` that takes `lua_mutex_`
   while `restart()` has released it (`context.cpp:292`) updates the
   registries and the old `L_` only. The swap then closes the old `L_`, and
   the new one lacks the change, although the class comment says a restart
   re-initializes the instance.

Observations from modelling `context.cpp` that no run checks (they are
listed as hazards in `PROJECT.json`):

- `assert_unique_name` consults only the registry of the same type
  (`context.cpp:634`), though its comment says it checks whether the name
  "has been used already". A name set as a boolean and then as a string
  holds the string in `L_`, but `init_state` replays strings before
  booleans (`:190`-`:218`), so after a restart it holds the boolean.
- The wrapper constructor (`:84`) leaves `enable_tracebacks_`
  uninitialized, and `init_state` gives such a wrapper to every watcher.
- `do_string`, `do_file`, `add_package` and the start script leave their
  chunks' results on the stack of `L_`, and `push_*` never calls
  `lua_checkstack`.

## 6. Not modelled

- The memory manager's byte layout, the rwlock's data locking, the factory's
  dynamic loading and message queues are not under `src/` and are abstracted
  as above.
- Concurrent `std::map` updates are atomic in the model.
- Counter wrap at 2^32 is out of reach.
- **TF:** TimeCache interpolation and time stamps (abstracted to `avail`),
  `frame_authority_`, `canTransform` and `get_frame_cache`.
- **Lua:** the read-only accessors (`type_name`, `to_*`, `is_*`,
  `objlen`, `get_lua_state`), which change no state; `try_lock`; the
  destructor, `setup_fam` and the FAM thread's own loop (restart is called
  at any time instead); the wrapper constructor `LuaContext(lua_State*)`
  and the code watchers run on it, which is client code. Which Lua table a
  table accessor touches, and the values' types, are abstracted: a stack
  item is the traceback function or a value.
- **Lua `init_state`:** it is a single step. So its unlocked iteration of
  `watchers_` (the `MutexLocker` at `context.cpp:213` is an unnamed temporary)
  is not represented. The lost update of the registries is still checked,
  because `init_state` reads them in that one step and the swap is a later
  step.
- **Lua destructor:** `~LuaContext` locks `lua_mutex_`, never unlocks it,
  and then cancels and joins the FAM thread (`context.cpp:95`-`:104`). A
  FAM thread blocked in `restart()`'s lock is not at a cancellation point,
  so the join can wait for ever. Showing this needs a deadlock-checking run
  of its own, so it is recorded as a hazard only.
- GUI, AMCL numerics, JSON models and the thin plugin files are not modelled
  (reasons in `PROJECT.json`).
- `stripClassType` (`interface_manager.cpp:143`) has no caller in the
  repository, so its throw on an all-digit name is unreachable and is not
  modelled.
- **Lua, smaller simplifications no property depends on:**
  - `set_start_script` frees and `strdup`s `start_script_` without the lock
    before its locking `do_file`/`do_string`. Because `init_state` is one
    step, the race with `init_state`'s read of it is not represented.
  - The start-script catch in `init_state` (`context.cpp:242`-`:244`) calls
    `finalize` outside a try, so a throwing `finalize` skips `lua_close`.
    The model always closes the state.
  - A watcher exception that is not a `fawkes::Exception` escapes
    `restart()`'s catch without `finalize_cancel`. The model sends every
    failure to the catch.
