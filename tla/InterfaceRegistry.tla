------------------------- MODULE InterfaceRegistry -------------------------
(***************************************************************************)
(* What the interface manager promises its callers, without chunks, locks  *)
(* or serial arithmetic: a set of open handles, each reading or writing    *)
(* one (type, id); at most one writer per (type, id); every opened         *)
(* instance gets a fresh instance serial; close removes exactly the        *)
(* handle closed.  An open may also fail after an instance serial was      *)
(* issued (the arena is full).                                             *)
(***************************************************************************)
EXTENDS Naturals

CONSTANTS Threads, Types, Ids, MaxOpens

VARIABLES
  open,     \* open handles: [inst, owner, type, id, write]
  issued    \* next instance serial to hand out

vars == <<open, issued>>

OpenHandle == [inst : 1..MaxOpens, owner : Threads, type : Types, id : Ids,
               write : BOOLEAN]

Init == open = {} /\ issued = 1

WriterOpen(type, id) == \E h \in open : h.type = type /\ h.id = id /\ h.write

Open(t, type, id, write) ==
  /\ issued <= MaxOpens
  /\ write => ~WriterOpen(type, id)
  /\ open' = open \cup {[inst |-> issued, owner |-> t, type |-> type, id |-> id,
                         write |-> write]}
  /\ issued' = issued + 1

FailAfterIssue ==
  /\ issued <= MaxOpens
  /\ issued' = issued + 1
  /\ UNCHANGED open

Close(h) ==
  /\ h \in open
  /\ open' = open \ {h}
  /\ UNCHANGED issued

Next ==
  \/ \E t \in Threads, type \in Types, id \in Ids, write \in BOOLEAN :
       Open(t, type, id, write)
  \/ FailAfterIssue
  \/ \E h \in open : Close(h)

Spec == Init /\ [][Next]_vars

=============================================================================
