\* The FAM thread restarts the context (three lua_States: two restarts)
\* while a client locks it, sets typed globals and removes them, adds a
\* package directory, a package, a start script and a watcher, and works
\* the Lua stack (height at most 3); tracebacks are on or off, and every
\* Lua call may throw.
CONSTANTS
  fam = fam  client = client  n1 = n1  v1 = v1  d1 = d1  p1 = p1  w1 = w1
  None = None
  Threads <- MCThreads
  Restarters <- MCRestarters
  Kinds <- MCKinds
  Names <- MCNames
  Dirs <- MCDirs
  Values <- MCValues
  Packages <- MCPackages
  Watchers <- MCWatchers
  MaxStates = 3
  MaxStack = 3
SPECIFICATION Spec
INVARIANT RestartAtomic
