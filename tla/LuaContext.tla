------------------------------ MODULE LuaContext ------------------------------
(***************************************************************************)
(* LuaContext of src/src/libs/lua/context.cpp: a wrapped lua_State L_,     *)
(* guarded by lua_mutex_, and the registries (usertypes_, strings_,        *)
(* booleans_, numbers_, integers_, cfuncs_, package_dirs_, packages_,      *)
(* start_script_, watchers_) from which init_state builds a fresh state    *)
(* when restart() is called, by the FAM thread on a changed .lua file.     *)
(*                                                                         *)
(* A lua_State is a number 1..MaxStates; of its contents the model keeps   *)
(* the globals the wrapper sets, the packages it required, its stack, and  *)
(* where it stands in the finalization protocol of                         *)
(* set_finalization_calls (the three calls are taken to be set).  Lua code *)
(* that runs is abstracted to whether it throws and how many results it    *)
(* leaves.                                                                 *)
(***************************************************************************)
EXTENDS Integers, FiniteSets, Sequences

CONSTANTS
  Threads,     \* threads using the context
  Restarters,  \* threads that call restart()
  Kinds,       \* the typed registries in use, a subset of RestoreOrder's
  Names,       \* global names
  Values,      \* values assigned to them
  Dirs,        \* package directories for add_package_dir/add_cpackage_dir
  Packages,    \* package names for add_package
  Watchers,    \* LuaContextWatcher objects
  None,        \* no value / no thread
  MaxStates,   \* bound on lua_States created by init_state
  MaxStack     \* bound on the height of a Lua stack

(* The order in which init_state replays the typed registries.             *)
RestoreOrder == <<"usertype", "string", "boolean", "number", "integer", "cfunction">>

ASSUME /\ Restarters \subseteq Threads /\ MaxStates \in Nat \ {0}
       /\ Kinds \subseteq {RestoreOrder[i] : i \in 1..Len(RestoreOrder)}

States == 1..MaxStates
NoState == 0

VARIABLES
  L,          \* L_, the state in use
  created,    \* states created so far (state k is the k-th)
  closed,     \* states passed to lua_close
  globals,    \* globals[s][n]: <<kind, value>> of global n in state s, or None
  loaded,     \* loaded[s]: the packages require'd in state s
  fin,        \* fin[s]: finalization stage of state s
  reg,        \* reg[k][n]: the value of n in the registry of kind k, or None
  dirs,       \* package_dirs_ and cpackage_dirs_
  packages,   \* packages_
  script,     \* start_script_ != NULL
  watchers,   \* watchers_
  mutex,      \* holder of lua_mutex_, or None
  pc,         \* pc[t]: where thread t is
  newL,       \* newL[t]: the state restart() of t is building
  running,    \* running[t]: the state on which t is executing Lua code
  tracebacks, \* enable_tracebacks_, fixed by the constructor
  stack       \* stack[s]: the Lua stack of state s, bottom first

(* What init_state reads, and what a restart in progress works on.         *)
registries == <<reg, dirs, packages, script, watchers>>
restarts   == <<L, created, closed, fin, newL>>
vars == <<restarts, globals, loaded, registries, mutex, pc, running,
          tracebacks, stack>>

Stages == {"fresh", "prepared", "finalized", "bad"}

NoGlobals == [n \in Names |-> None]

(* The finalization protocol of set_finalization_calls: finalize_prepare   *)
(* is run before finalization and is either cancelled, when the new state  *)
(* failed, or followed by finalize.  finalize may also come unprepared, as *)
(* on a state that is dropped during its own init_state.                   *)
Advance(stage, call) ==
  CASE call = "prepare"  -> IF stage = "fresh" THEN "prepared" ELSE "bad"
    [] call = "cancel"   -> IF stage = "prepared" THEN "fresh" ELSE "bad"
    [] call = "finalize" -> IF stage \in {"fresh", "prepared"} THEN "finalized" ELSE "bad"

(* restart's catch: finalize_cancel on L_.                                  *)
CancelOnFailure_skipped(stage) == stage
CancelOnFailure(stage) == Advance(stage, "cancel")

Call(s, call) == fin' = [fin EXCEPT ![s] = Advance(@, call)]

(* assert_unique_name: only the registry of the same kind is consulted.    *)
assert_unique_name(k, n) == reg[k][n] = None

(* The global n of a state init_state built: its loops set the registries  *)
(* in RestoreOrder, so the last kind that holds n wins.                    *)
Restored(n) ==
  LET is == {i \in 1..Len(RestoreOrder) :
               RestoreOrder[i] \in Kinds /\ reg[RestoreOrder[i]][n] # None}
      last == CHOOSE i \in is : \A j \in is : j <= i
  IN  IF is = {} THEN None ELSE <<RestoreOrder[last], reg[RestoreOrder[last]][n]>>

(* The stack init_state leaves before its loops: with tracebacks on, the   *)
(* debug.traceback function at index 1, the errfunc of every pcall.        *)
Base == IF tracebacks THEN <<"traceback">> ELSE <<>>

(* A stack s with k more values, which Lua code or the wrapper pushed.     *)
Pushed(st, k) == st \o [i \in 1..k |-> "value"]

(* lua_close(s): the state and everything in it is freed; the model keeps *)
(* only that it was closed.                                                *)
Close(s) ==
  /\ closed' = closed \cup {s}
  /\ globals' = [globals EXCEPT ![s] = NoGlobals]
  /\ loaded' = [loaded EXCEPT ![s] = {}]
  /\ stack' = [stack EXCEPT ![s] = <<>>]

(* The constructor: owns_L_, L_ = init_state() with empty registries.      *)
Init ==
  /\ L = 1 /\ created = 1 /\ closed = {}
  /\ globals = [s \in States |-> NoGlobals]
  /\ loaded = [s \in States |-> {}]
  /\ fin = [s \in States |-> "fresh"]
  /\ reg = [k \in Kinds |-> NoGlobals]
  /\ dirs = {} /\ packages = {} /\ script = FALSE /\ watchers = {}
  /\ mutex = None
  /\ pc = [t \in Threads |-> "idle"]
  /\ newL = [t \in Threads |-> NoState]
  /\ running = [t \in Threads |-> NoState]
  /\ tracebacks \in BOOLEAN
  /\ stack = [s \in States |-> IF s = 1 THEN Base ELSE <<>>]

Free(t) == pc[t] = "idle" /\ mutex = None

(* lock(), or the MutexLocker of do_string/do_file/push_*: t holds         *)
(* lua_mutex_ and runs code on L_.                                         *)
Lock(t) ==
  /\ Free(t)
  /\ mutex' = t /\ pc' = [pc EXCEPT ![t] = "locked"]
  /\ running' = [running EXCEPT ![t] = L]
  /\ UNCHANGED <<tracebacks, stack, restarts, globals, loaded, registries>>

Unlock(t) ==
  /\ pc[t] = "locked"
  /\ mutex' = None /\ pc' = [pc EXCEPT ![t] = "idle"]
  /\ running' = [running EXCEPT ![t] = NoState]
  /\ UNCHANGED <<tracebacks, stack, restarts, globals, loaded, registries>>

(* set_usertype/set_string/set_boolean/set_number/set_integer/             *)
(* set_cfunction: assert_unique_name throws if the registry of that kind   *)
(* holds the name; otherwise record it there and set the global in L_.     *)
set_value(t, k, n, v) ==
  /\ Free(t)
  /\ assert_unique_name(k, n)
  /\ reg' = [reg EXCEPT ![k][n] = v]
  /\ globals' = [globals EXCEPT ![L][n] = <<k, v>>]
  /\ UNCHANGED <<tracebacks, stack, restarts, loaded, dirs, packages, script, watchers, mutex, pc,
                 running>>

(* remove_global: erase from every registry, set the global to nil.        *)
remove_global(t, n) ==
  /\ Free(t)
  /\ reg' = [k \in Kinds |-> [reg[k] EXCEPT ![n] = None]]
  /\ globals' = [globals EXCEPT ![L][n] = None]
  /\ UNCHANGED <<tracebacks, stack, restarts, loaded, dirs, packages, script, watchers, mutex, pc,
                 running>>

(* add_package_dir/add_cpackage_dir: extend the search path in L_; a      *)
(* throwing do_string leaves the directory lists as they were.             *)
add_package_dir(t, d, ok) ==
  /\ Free(t)
  /\ dirs' = IF ok THEN dirs \cup {d} ELSE dirs
  /\ UNCHANGED <<tracebacks, stack, restarts, globals, loaded, reg, packages, script, watchers,
                 mutex, pc, running>>

(* add_package: require it in L_ unless listed; a throwing require leaves  *)
(* packages_ as it was.  require returns one value (Lua 5.1), which        *)
(* do_string's LUA_MULTRET pcall leaves on the stack of L_.                *)
add_package(t, p, ok) ==
  /\ Free(t)
  /\ p \notin packages
  /\ packages' = IF ok THEN packages \cup {p} ELSE packages
  /\ loaded' = IF ok THEN [loaded EXCEPT ![L] = @ \cup {p}] ELSE loaded
  /\ ok => Len(stack[L]) < MaxStack
  /\ stack' = IF ok THEN [stack EXCEPT ![L] = Pushed(@, 1)] ELSE stack
  /\ UNCHANGED <<tracebacks, restarts, globals, reg, dirs, script, watchers,
                 mutex, pc, running>>

(* set_start_script: store it, then run it on L_ through the locking       *)
(* do_file/do_string (whose exception leaves start_script_ set); its one  *)
(* result stays on the stack of L_.                                        *)
set_start_script(t, b, ok) ==
  /\ Free(t)
  /\ ~b => ok
  /\ script' = b
  /\ b /\ ok => Len(stack[L]) < MaxStack
  /\ stack' = IF b /\ ok THEN [stack EXCEPT ![L] = Pushed(@, 1)] ELSE stack
  /\ UNCHANGED <<tracebacks, restarts, globals, loaded, reg, dirs, packages,
                 watchers, mutex, pc, running>>

add_watcher(t, w) ==
  /\ pc[t] = "idle"
  /\ watchers' = watchers \cup {w}
  /\ UNCHANGED <<tracebacks, stack, restarts, globals, loaded, reg, dirs, packages, script, mutex,
                 pc, running>>

remove_watcher(t, w) ==
  /\ pc[t] = "idle"
  /\ watchers' = watchers \ {w}
  /\ UNCHANGED <<tracebacks, stack, restarts, globals, loaded, reg, dirs, packages, script, mutex,
                 pc, running>>

(* The client's side of the stack protocol: an operation that consumes k  *)
(* values finds k values of its own above the traceback function (the Lua *)
(* API leaves the behaviour undefined, or raises outside protected mode,  *)
(* when they are not there).                                               *)
Holds(k) == Len(stack[L]) >= Len(Base) + k

(* push_boolean, push_fstring, push_integer, push_light_user_data,         *)
(* push_lstring, push_nil, push_number, push_string, push_thread,          *)
(* push_value, push_vfstring, push_usertype, push_cfunction: under the     *)
(* MutexLocker, one value onto the stack of L_.                            *)
push(t) ==
  /\ Free(t)
  /\ Len(stack[L]) < MaxStack
  /\ stack' = [stack EXCEPT ![L] = Pushed(@, 1)]
  /\ UNCHANGED <<tracebacks, restarts, globals, loaded, registries, mutex, pc,
                 running>>

(* pop(n): with tracebacks on, refuses n >= stack_size(), which would pop  *)
(* the traceback function.                                                 *)
PopRefused_offByOne(n) == tracebacks /\ n > Len(stack[L])
PopRefused(n) == tracebacks /\ n >= Len(stack[L])

pop(t, n) ==
  /\ Free(t)
  /\ n <= Len(stack[L])
  /\ stack' = IF PopRefused(n) THEN stack
              ELSE [stack EXCEPT ![L] = SubSeq(@, 1, Len(@) - n)]
  /\ UNCHANGED <<tracebacks, restarts, globals, loaded, registries, mutex, pc,
                 running>>

(* remove(idx): with tracebacks on, refuses index 1 and its negative      *)
(* form -stack_size(); lua_remove takes the element out, shifting the ones *)
(* above it down.                                                          *)
RemoveRefused(idx) == tracebacks /\ (idx = 1 \/ idx = -Len(stack[L]))

Position(idx) == IF idx > 0 THEN idx ELSE Len(stack[L]) + idx + 1

remove(t, idx) ==
  /\ Free(t)
  /\ stack' = IF RemoveRefused(idx) THEN stack
              ELSE [stack EXCEPT ![L] = SubSeq(@, 1, Position(idx) - 1)
                                        \o SubSeq(@, Position(idx) + 1, Len(@))]
  /\ UNCHANGED <<tracebacks, restarts, globals, loaded, registries, mutex, pc,
                 running>>

(* do_string(format, ...) and do_file(filename), under the MutexLocker:    *)
(* load and pcall with LUA_MULTRET, so the chunk's r results stay on the   *)
(* stack; an error message is popped before the exception is thrown.      *)
do_string(t, r, ok) ==
  /\ Free(t)
  /\ ok => Len(stack[L]) + r <= MaxStack
  /\ stack' = IF ok THEN [stack EXCEPT ![L] = Pushed(@, r)] ELSE stack
  /\ UNCHANGED <<tracebacks, restarts, globals, loaded, registries, mutex, pc,
                 running>>

do_file(t, r, ok) == do_string(t, r, ok)

(* The accessors that take no lock -- create_table, set_table, set_field,  *)
(* get_table, get_field, raw_set, raw_seti, raw_get, raw_geti, get_global  *)
(* -- as <<values consumed, values pushed>>.  The client calls them while  *)
(* holding lock() ("Remember proper locking!").                            *)
TableOps == {<<0, 1>>, <<2, 0>>, <<1, 0>>, <<1, 1>>}

StackOp(k, j) ==
  /\ Holds(k)
  /\ Len(stack[L]) - k + j <= MaxStack
  /\ stack' = [stack EXCEPT ![L] = Pushed(SubSeq(@, 1, Len(@) - k), j)]

table_op(t, e) ==
  /\ pc[t] = "locked"
  /\ StackOp(e[1], e[2])
  /\ UNCHANGED <<tracebacks, restarts, globals, loaded, registries, mutex, pc,
                 running>>

(* set_global(name): pops the top value into the global.                   *)
set_global(t, n) ==
  /\ pc[t] = "locked"
  /\ StackOp(1, 0)
  /\ globals' = [globals EXCEPT ![L][n] = <<"stack", None>>]
  /\ UNCHANGED <<tracebacks, restarts, loaded, registries, mutex, pc, running>>

(* table_next: lua_next pops the key and pushes the next key and value,    *)
(* or nothing at the end of the table.                                     *)
table_next(t, more) ==
  /\ pc[t] = "locked"
  /\ StackOp(1, IF more THEN 2 ELSE 0)
  /\ UNCHANGED <<tracebacks, restarts, globals, loaded, registries, mutex, pc,
                 running>>

(* load_string: the chunk as a function on top; a load error pushes a     *)
(* message that is popped before the exception.                            *)
load_string(t, ok) ==
  /\ pc[t] = "locked"
  /\ StackOp(0, IF ok THEN 1 ELSE 0)
  /\ UNCHANGED <<tracebacks, restarts, globals, loaded, registries, mutex, pc,
                 running>>

(* pcall(nargs, nresults): with tracebacks on and errfunc 0, errfunc 1.   *)
(* The function and its arguments are consumed; nresults results are      *)
(* pushed, or an error message that is popped before the exception.       *)
pcall(t, nargs, nresults, ok) ==
  /\ pc[t] = "locked"
  /\ StackOp(nargs + 1, IF ok THEN nresults ELSE 0)
  /\ UNCHANGED <<tracebacks, restarts, globals, loaded, registries, mutex, pc,
                 running>>

(* setfenv (Lua > 5.1): the upvalues walked are popped again; if _ENV is   *)
(* found, the environment table on top is popped with them, otherwise     *)
(* "No environment found" is thrown with the table still on the stack.    *)
setfenv(t, found) ==
  /\ pc[t] = "locked"
  /\ StackOp(1, IF found THEN 0 ELSE 1)
  /\ UNCHANGED <<tracebacks, restarts, globals, loaded, registries, mutex, pc,
                 running>>

(* restart(), up to the unlock: under lua_mutex_ run finalize_prepare on   *)
(* L_.  If it throws, the catch runs finalize_cancel on L_, still locked,  *)
(* and the MutexLocker unlocks; otherwise lock.unlock() and init_state.    *)
restart_prepare(t, ok) ==
  /\ t \in Restarters /\ Free(t)
  /\ created < MaxStates
  /\ IF ok THEN Call(L, "prepare")
           ELSE fin' = [fin EXCEPT ![L] = CancelOnFailure(Advance(@, "prepare"))]
  /\ pc' = [pc EXCEPT ![t] = IF ok THEN "init" ELSE "idle"]
  /\ UNCHANGED <<tracebacks, stack, L, created, closed, newL, globals, loaded, registries, mutex,
                 running>>

(* init_state, with lua_mutex_ not held: luaL_newstate, then the loops     *)
(* over the registries (the package path of every directory, require of   *)
(* every package, every typed global in RestoreOrder), lua_restarted of    *)
(* every watcher on a wrapper, the start script.  A throwing path          *)
(* assignment or require leaves the function with L open; a throwing       *)
(* watcher or start script runs finalize on L and closes it.  The          *)
(* exception reaches restart's catch, which runs finalize_cancel on L_ --  *)
(* with the lock released by lock.unlock() and not yet relocked.  The     *)
(* new state's stack holds the traceback function, then the one result of *)
(* every require and of the start script; on failure, the values pushed    *)
(* before the throw are not kept.                                          *)
init_state(t, fails) ==
  /\ pc[t] = "init"
  /\ created < MaxStates
  /\ fails = "path"    => dirs # {}
  /\ fails = "require" => packages # {}
  /\ fails = "watcher" => watchers # {}
  /\ fails = "script"  => script
  /\ LET s == created + 1
         leftOpen == fails \in {"path", "require"}
         Results == Cardinality(packages) + IF script THEN 1 ELSE 0 IN
     /\ fails = "none" => Len(Base) + Results <= MaxStack
     /\ created' = s
     /\ IF fails = "none"
        THEN /\ globals' = [globals EXCEPT ![s] = [n \in Names |-> Restored(n)]]
             /\ loaded' = [loaded EXCEPT ![s] = packages]
             /\ newL' = [newL EXCEPT ![t] = s]
             /\ pc' = [pc EXCEPT ![t] = "swap"]
             /\ stack' = [stack EXCEPT ![s] = Pushed(Base, Results)]
             /\ UNCHANGED <<closed, fin, running>>
        ELSE /\ closed' = IF leftOpen THEN closed ELSE closed \cup {s}
             /\ fin' = [fin EXCEPT ![s] = IF leftOpen THEN @
                                          ELSE Advance(@, "finalize"),
                                   ![L] = CancelOnFailure(@)]
             /\ pc' = [pc EXCEPT ![t] = "cancel"]
             /\ running' = [running EXCEPT ![t] = L]
             /\ stack' = [stack EXCEPT ![s] = IF leftOpen THEN Base ELSE <<>>]
             /\ UNCHANGED <<globals, loaded, newL>>
  /\ UNCHANGED <<tracebacks, L, registries, mutex>>

(* restart() after init_state returned: lock.relock(), tL = L_, finalize   *)
(* on tL (an exception is logged and ignored), L_ = L, lua_close(tL); the  *)
(* MutexLocker unlocks on return.                                          *)
restart_swap_noRelock(t) ==
  /\ pc[t] = "swap"
  /\ Call(L, "finalize")
  /\ L' = newL[t]
  /\ Close(L)
  /\ pc' = [pc EXCEPT ![t] = "idle"]
  /\ newL' = [newL EXCEPT ![t] = NoState]
  /\ UNCHANGED <<tracebacks, created, registries, mutex, running>>

restart_swap(t) ==
  /\ pc[t] = "swap" /\ mutex = None
  /\ Call(L, "finalize")
  /\ L' = newL[t]
  /\ Close(L)
  /\ pc' = [pc EXCEPT ![t] = "idle"]
  /\ newL' = [newL EXCEPT ![t] = NoState]
  /\ UNCHANGED <<tracebacks, created, registries, mutex, running>>

(* The end of finalize_cancel in restart's catch; restart returns.         *)
restart_cancelled(t) ==
  /\ pc[t] = "cancel"
  /\ pc' = [pc EXCEPT ![t] = "idle"]
  /\ running' = [running EXCEPT ![t] = NoState]
  /\ UNCHANGED <<tracebacks, stack, restarts, globals, loaded, registries, mutex>>

Next ==
  \E t \in Threads :
    \/ Lock(t) \/ Unlock(t)
    \/ \E k \in Kinds, n \in Names, v \in Values : set_value(t, k, n, v)
    \/ \E n \in Names : remove_global(t, n)
    \/ \E d \in Dirs, ok \in BOOLEAN : add_package_dir(t, d, ok)
    \/ \E p \in Packages, ok \in BOOLEAN : add_package(t, p, ok)
    \/ \E b, ok \in BOOLEAN : set_start_script(t, b, ok)
    \/ \E w \in Watchers : add_watcher(t, w) \/ remove_watcher(t, w)
    \/ \E ok \in BOOLEAN : restart_prepare(t, ok)
    \/ \E f \in {"none", "path", "require", "watcher", "script"} : init_state(t, f)
    \/ restart_swap(t)
    \/ restart_cancelled(t)
    \/ push(t)
    \/ \E n \in 1..MaxStack : pop(t, n)
    \/ \E idx \in (1..Len(stack[L])) \cup {-i : i \in 1..Len(stack[L])} : remove(t, idx)
    \/ \E r \in 0..1, ok \in BOOLEAN : do_string(t, r, ok) \/ do_file(t, r, ok)
    \/ \E e \in TableOps : table_op(t, e)
    \/ \E n \in Names : set_global(t, n)
    \/ \E b \in BOOLEAN : table_next(t, b) \/ load_string(t, b) \/ setfenv(t, b)
    \/ \E nargs, nresults \in 0..1, ok \in BOOLEAN : pcall(t, nargs, nresults, ok)

Spec == Init /\ [][Next]_vars

-----------------------------------------------------------------------------

(* Every lua_State goes through the finalization calls in order: restart's *)
(* finalize_prepare is answered by exactly one finalize_cancel (the new    *)
(* state failed) or finalize (the state is replaced), before it may be     *)
(* prepared again; cancel never comes without prepare.                     *)
FinalizationProtocol == \A s \in States : fin[s] # "bad"

(* No code runs on a closed lua_State: L_ is never a state restart closed, *)
(* and no thread -- a lock holder or restart's finalize_cancel -- is       *)
(* executing on one.                                                       *)
NoUseAfterClose ==
  /\ L \notin closed
  /\ \A t \in Threads : running[t] \notin closed

(* Two threads never execute Lua code on the same lua_State at once:      *)
(* L_ is only used under lua_mutex_.                                       *)
ExclusiveLuaState ==
  \A t, u \in Threads : t # u /\ running[t] # NoState => running[t] # running[u]

(* restart() is documented to swap in a state "re-initialized" from the   *)
(* registries, and it drops lua_mutex_ around init_state: as if it held    *)
(* the lock throughout, no two threads execute on one lua_State, and the   *)
(* state a restart is about to install holds every registered global as   *)
(* the registries hold it now and has required every listed package, so   *)
(* no set_*, remove_global or add_package that returned during the restart *)
(* is lost when L_ is swapped.                                             *)
RestartAtomic ==
  /\ ExclusiveLuaState
  /\ \A t \in Threads : pc[t] = "swap" =>
       /\ globals[newL[t]] = [n \in Names |-> Restored(n)]
       /\ loaded[newL[t]] = packages

(* With enable_tracebacks_, the error handler pcall, do_string and do_file *)
(* pass as index 1 is the traceback function in L_ and in every state a   *)
(* restart is building: pop() and remove() never take it away, whatever   *)
(* stack sizes and indices the client passes, and init_state puts it at   *)
(* the bottom of every new state before its loops push results.           *)
TracebackAtBottom ==
  tracebacks =>
    \A s \in ({L} \cup {newL[t] : t \in Threads}) \ {NoState} :
      Len(stack[s]) >= 1 /\ stack[s][1] = "traceback"

=============================================================================
