---------------------------- MODULE MC_LuaContext ----------------------------
(* Instantiation of LuaContext for TLC: the FAM thread that restarts the   *)
(* context, a client thread, and one name, package and watcher.           *)
EXTENDS LuaContext

CONSTANTS fam, client, n1, v1, d1, p1, w1

MCThreads == {fam, client}
\* fam_event() is the only caller of restart() in the repository.
MCRestarters == {fam}
MCNames == {n1}
\* Two registries, so a name can be held by both.
MCKinds == {"string", "boolean"}
MCDirs == {d1}
MCValues == {v1}
MCPackages == {p1}
MCWatchers == {w1}
=============================================================================
