---------------------------- MODULE TfTransformer ----------------------------
(***************************************************************************)
(* The frame table and tree walks of the tf Transformer,                   *)
(* src/src/libs/tf/transformer.cpp.                                       *)
(*                                                                         *)
(* Publishers call set_transform(child, parent, x): the frame names are    *)
(* numbered by lookupOrInsertFrameNumber (child first, then parent) and    *)
(* the child's TimeCache receives an entry naming its parent frame number  *)
(* and the transform into it.  lookup_transform(target, source, time) is   *)
(* const: it is modelled as an operator over the table, evaluated in every *)
(* reachable table by the properties.                                      *)
(*                                                                         *)
(* A rigid transform is abstracted to a permutation of 1..3: the group S3  *)
(* is, like the group of rigid transforms, not commutative, so composing   *)
(* in the wrong order or inverting the wrong side gives a different value. *)
(* A TimeCache (time_cache.cpp, not in this repository) is abstracted to   *)
(* its latest entry; whether it has data at the time a walk asks for is a  *)
(* choice (the set avail), as interpolation fails outside a cache's span.  *)
(***************************************************************************)
EXTENDS Integers, Sequences, SequencesExt, TLC

CONSTANTS
  Names,            \* frame ids publishers use
  NO_PARENT,        \* the name the constructor gives frame number 0
  Slash,            \* "/", the id an empty frame id is mapped to
  Xforms,           \* transforms publishers send (permutations of 1..3)
  NoData,           \* a TimeCache without entries
  MAX_GRAPH_DEPTH   \* steps a walk takes before it assumes a loop

VARIABLES
  frameIDs,   \* frameIDs_: name -> frame number
  frames,     \* frames_: frame number -> latest TimeCache entry or NoData
  enabled     \* enabled_

vars == <<frameIDs, frames, enabled>>

Id == <<1, 2, 3>>
Perms == {p \in [1..3 -> 1..3] : \A i, j \in 1..3 : i # j => p[i] # p[j]}
Compose(p, q) == [i \in 1..3 |-> p[q[i]]]
Inv(p) == [i \in 1..3 |-> CHOOSE j \in 1..3 : p[j] = i]

Entry == [parent : Nat, tf : Perms]
Codes == {"NO_ERROR", "LOOKUP_ERROR", "CONNECTIVITY_ERROR", "EXTRAPOLATION_ERROR",
          "DisabledException"}
Times == {"latest", "stamp"}   \* fawkes::Time(0,0), or a given time

\* The constructor: "NO_PARENT" is frame 0, whose frames_ entry is NULL.
\* enabled_ has no initialiser in the constructor, so it starts either way.
Init ==
  /\ frameIDs = (NO_PARENT :> 0)
  /\ frames = (0 :> NoData)
  /\ enabled \in BOOLEAN

(***************************************************************************)
(* Table helpers.                                                          *)
(***************************************************************************)
\* Mutant: a new name is numbered one below frames_.size().
lookupOrInsertFrameNumber_offByOne(ids, fr, name) ==
  IF name \in DOMAIN ids THEN <<ids[name], ids, fr>>
  ELSE LET n == Cardinality(DOMAIN fr)
       IN  <<n - 1, ids @@ (name :> n - 1), fr @@ (n :> NoData)>>

\* Returns <<number, frameIDs_, frames_>>; a new name gets frames_.size().
lookupOrInsertFrameNumber(ids, fr, name) ==
  IF name \in DOMAIN ids THEN <<ids[name], ids, fr>>
  ELSE LET n == Cardinality(DOMAIN fr)
       IN  <<n, ids @@ (name :> n), fr @@ (n :> NoData)>>

\* frame_exists: under frame_mutex_, whether frameIDs_ holds the name.
frame_exists(name) == name \in DOMAIN frameIDs

\* lookupFrameNumber: the number frameIDs_ holds for a name; it throws a
\* LookupException for a name frameIDs_ lacks (LookupThrows).
LookupThrows(name) == name \notin DOMAIN frameIDs
lookupFrameNumber(name) == frameIDs[name]

\* getFrame returns NULL for frame 0 and frames_[n] otherwise.
getFrame(n) == n # 0

HasData(n) == frames[n] # NoData

\* The latest parent of every frame of a frames_ table.
ParentsOf(fr) == [n \in DOMAIN fr |-> IF n # 0 /\ fr[n] # NoData THEN fr[n].parent ELSE 0]

\* TimeCache::getLatestTimeAndParent().second
LatestParent(n) == IF HasData(n) THEN frames[n].parent ELSE 0

\* TransformAccum::gather: getData(time) fails -> 0, else the entry's parent.
gather(n, avail) == IF HasData(n) /\ n \in avail THEN frames[n].parent ELSE 0

\* Mutant: the frame's transform applied before the sum so far.
accum_swapped(acc, n) == Compose(acc, frames[n].tf)

\* TransformAccum::accum: the frame's transform applied after the sum so far.
accum(acc, n) == Compose(frames[n].tf, acc)

Fail(code) == [code |-> code, tf |-> Id]

\* Mutant: the loop is assumed one step early.
TooDeep_atMax(depth) == depth + 1 >= MAX_GRAPH_DEPTH

\* ++depth; if (depth > MAX_GRAPH_DEPTH): the walk assumes a loop.
TooDeep(depth) == depth + 1 > MAX_GRAPH_DEPTH

(***************************************************************************)
(* getLatestCommonTime(target_id, source_id): only its error code is       *)
(* modelled, the time it computes is abstracted.  lct is the set of        *)
(* parents the source walk pushed onto lct_cache.                          *)
(***************************************************************************)
\* One pass of the first loop: follow the frame's latest parent.
LctSourceStep(frame, target, lct, depth) ==
  LET latest == LatestParent(frame)
      r(end) == [end |-> end, frame |-> frame, lct |-> lct, depth |-> depth]
  IN  IF ~getFrame(frame) \/ latest = 0 THEN r("walked")
      ELSE IF latest = target THEN r("NO_ERROR")
      ELSE IF TooDeep(depth) THEN r("LOOKUP_ERROR")
      ELSE [end |-> "more", frame |-> latest, lct |-> lct \cup {latest}, depth |-> depth + 1]

\* One pass of the second loop: look for a parent in lct_cache.
LctTargetStep(frame, source, lct, depth) ==
  LET latest == LatestParent(frame)
      r(end) == [end |-> end, frame |-> frame, lct |-> lct, depth |-> depth]
  IN  IF ~getFrame(frame) \/ latest = 0 THEN r("CONNECTIVITY_ERROR")
      ELSE IF latest \in lct THEN r("NO_ERROR")
      ELSE IF latest = source THEN r("NO_ERROR")
      ELSE IF TooDeep(depth) THEN r("LOOKUP_ERROR")
      ELSE [end |-> "more", frame |-> latest, lct |-> lct, depth |-> depth + 1]

RECURSIVE LctSourceWalk(_, _, _, _)
LctSourceWalk(frame, target, lct, depth) ==
  LET r == LctSourceStep(frame, target, lct, depth)
  IN  IF r.end = "more" THEN LctSourceWalk(r.frame, target, r.lct, r.depth) ELSE r

RECURSIVE LctTargetWalk(_, _, _, _)
LctTargetWalk(frame, source, lct, depth) ==
  LET r == LctTargetStep(frame, source, lct, depth)
  IN  IF r.end = "more" THEN LctTargetWalk(r.frame, source, r.lct, r.depth) ELSE r.end

getLatestCommonTime(target, source) ==
  IF source = target THEN "NO_ERROR"
  ELSE LET s == LctSourceWalk(source, target, {}, 0) IN
       IF s.end # "walked" THEN s.end ELSE LctTargetWalk(target, source, s.lct, 0)

(***************************************************************************)
(* walkToTopParent(f, time, target_id, source_id) with a TransformAccum.   *)
(***************************************************************************)
\* The walk from the source: stops at a frame without parent (the top
\* parent), at the target (TargetParentOfSource), or after too many steps.
RECURSIVE SourceWalk(_, _, _, _, _)
SourceWalk(frame, target, avail, acc, depth) ==
  LET parent == gather(frame, avail) IN
  IF ~getFrame(frame) \/ parent = 0 THEN [end |-> "top", top |-> frame, acc |-> acc]
  ELSE IF frame = target THEN [end |-> "TargetParentOfSource", top |-> frame, acc |-> acc]
  ELSE IF TooDeep(depth) THEN [end |-> "LOOKUP_ERROR", top |-> frame, acc |-> acc]
  ELSE SourceWalk(parent, target, avail, accum(acc, frame), depth + 1)

\* The walk from the target up to the source's top parent.
RECURSIVE TargetWalk(_, _, _, _, _, _)
TargetWalk(frame, top, source, avail, acc, depth) ==
  LET parent == gather(frame, avail) IN
  IF frame = top THEN [end |-> "FullPath", acc |-> acc]
  ELSE IF ~getFrame(frame) THEN [end |-> "CONNECTIVITY_ERROR", acc |-> acc]
  ELSE IF parent = 0 THEN [end |-> "EXTRAPOLATION_ERROR", acc |-> acc]
  ELSE IF frame = source THEN [end |-> "SourceParentOfTarget", acc |-> acc]
  ELSE IF TooDeep(depth) THEN [end |-> "LOOKUP_ERROR", acc |-> acc]
  ELSE TargetWalk(parent, top, source, avail, accum(acc, frame), depth + 1)

\* TransformAccum::finalize: the result for each way the walk ended.
finalize(end, source_to_top, target_to_top) ==
  CASE end = "TargetParentOfSource" -> source_to_top
    [] end = "SourceParentOfTarget" -> Inv(target_to_top)
    [] end = "FullPath"             -> Compose(Inv(target_to_top), source_to_top)

walkToTopParent(time, target, source, avail) ==
  LET lct == IF time = "latest" THEN getLatestCommonTime(target, source) ELSE "NO_ERROR"
      s   == SourceWalk(source, target, avail, Id, 0)
      t   == TargetWalk(target, s.top, source, avail, Id, 0)
  IN  IF source = target THEN [code |-> "NO_ERROR", tf |-> Id]
      ELSE IF lct # "NO_ERROR" THEN Fail(lct)
      ELSE IF s.end = "LOOKUP_ERROR" THEN Fail("LOOKUP_ERROR")
      ELSE IF s.end = "TargetParentOfSource"
           THEN [code |-> "NO_ERROR", tf |-> finalize(s.end, s.acc, Id)]
      ELSE IF t.end \in {"FullPath", "SourceParentOfTarget"}
           THEN [code |-> "NO_ERROR", tf |-> finalize(t.end, s.acc, t.acc)]
      ELSE Fail(t.end)

\* lookup_transform(target_frame, source_frame, time): throws when disabled,
\* answers identity for equal names without looking them up, throws a
\* LookupException for an unknown name, else maps the walk's error code
\* to its exception.
lookup_transform(target_frame, source_frame, time, avail) ==
  IF ~enabled THEN Fail("DisabledException")
  ELSE IF target_frame = source_frame THEN [code |-> "NO_ERROR", tf |-> Id]
  ELSE IF LookupThrows(target_frame) \/ LookupThrows(source_frame)
       THEN Fail("LOOKUP_ERROR")
  ELSE walkToTopParent(time, lookupFrameNumber(target_frame),
                       lookupFrameNumber(source_frame), avail)

(***************************************************************************)
(* Operations that change the table.                                       *)
(***************************************************************************)
\* set_transform: rejected for a self transform, an unset child or parent
\* id, or a NaN; otherwise, under frame_mutex_, the child is numbered, then
\* the parent, and the child's cache takes the entry unless insertData
\* refuses it (data older than the cache), which leaves the new numbers.
\* frame_authority_, written on success and read nowhere here, is left out.
set_transform(child, parent, x, nan, inserted) ==
  /\ ~(child = parent \/ child = Slash \/ parent = Slash \/ nan)
  /\ LET c == lookupOrInsertFrameNumber(frameIDs, frames, child)
         p == lookupOrInsertFrameNumber(c[2], c[3], parent)
     IN  /\ frameIDs' = p[2]
         /\ frames' = IF inserted
                      THEN [p[3] EXCEPT ![c[1]] = [parent |-> p[1], tf |-> x]]
                      ELSE p[3]
  /\ UNCHANGED enabled

\* clear: every cache but frames_[0] drops its entries.
clear ==
  /\ frames' = [n \in DOMAIN frames |-> IF n = 0 THEN frames[n] ELSE NoData]
  /\ UNCHANGED <<frameIDs, enabled>>

set_enabled(b) ==
  /\ enabled' = b
  /\ UNCHANGED <<frameIDs, frames>>

Next ==
  \/ \E child, parent \in Names \cup {NO_PARENT, Slash}, x \in Xforms,
        nan, inserted \in BOOLEAN :
       set_transform(child, parent, x, nan, inserted)
  \/ clear
  \/ \E b \in BOOLEAN : set_enabled(b)

Spec == Init /\ [][Next]_vars

(***************************************************************************)
(* Reference: the tree the table describes, stated without the walks.      *)
(***************************************************************************)
\* The parent of each frame under the data a walk can read (avail).
ParentIn(avail) == [n \in DOMAIN frames |-> IF getFrame(n) THEN gather(n, avail) ELSE 0]

\* The frames from n upward along par, each once: the sequence ends at a
\* frame without parent, or before the first frame that repeats.
RECURSIVE Chain(_, _, _)
Chain(n, par, c) ==
  IF n = 0 \/ \E i \in DOMAIN c : c[i] = n THEN c
  ELSE Chain(par[n], par, Append(c, n))

Ancestry(n, par) == Chain(n, par, <<>>)

\* The chain from n ran into a loop rather than a root.
Looped(n, par) == LET c == Ancestry(n, par) IN c # <<>> /\ par[c[Len(c)]] # 0

\* The frames on both chains.
Shared(s, t, par) == Range(Ancestry(s, par)) \cap Range(Ancestry(t, par))

\* The transform from n into its ancestor a: the product of the transforms
\* of the frames from n up to a, the nearest applied first.
RECURSIVE TfUp(_, _, _)
TfUp(n, a, par) == IF n = a THEN Id ELSE Compose(TfUp(par[n], a, par), frames[n].tf)

\* Source expressed in target through a shared frame m: up to m, then down.
\* In a tree every shared frame gives the same product; with a loop the
\* parent links allow several.
Through(s, t, par) == {Compose(Inv(TfUp(t, m, par)), TfUp(s, m, par)) : m \in Shared(s, t, par)}

Connected(s, t, par) == ~Looped(s, par) /\ ~Looped(t, par) /\ Shared(s, t, par) # {}

LatestParents == ParentsOf(frames)

(***************************************************************************)
(* Properties.                                                             *)
(***************************************************************************)
TypeOK ==
  /\ DOMAIN frameIDs \subseteq Names \cup {NO_PARENT}
  /\ DOMAIN frames = 0..(Cardinality(DOMAIN frameIDs) - 1)
  /\ \A name \in DOMAIN frameIDs : frameIDs[name] \in DOMAIN frames
  /\ \A a, b \in DOMAIN frameIDs : a # b => frameIDs[a] # frameIDs[b]
  /\ \A n \in DOMAIN frames :
       frames[n] \in Entry \cup {NoData}
       /\ (frames[n] # NoData => frames[n].parent \in DOMAIN frames)
  /\ enabled \in BOOLEAN

\* Every answer lookup_transform gives for two known frames, at the latest
\* common time or at a given time and whichever caches have data then, is
\* the transform along the parent links: from the source up to a frame on
\* both chains, then down to the target.  It is about the two
\* walks of walkToTopParent, their early outs and the order in which
\* TransformAccum::accum and finalize compose and invert transforms.
LookupMatchesTree ==
  \A tn, sn \in DOMAIN frameIDs, time \in Times, avail \in SUBSET DOMAIN frames :
    LET r == lookup_transform(tn, sn, time, avail)
        par == ParentIn(avail)
        t == frameIDs[tn]
        s == frameIDs[sn]
    IN  r.code = "NO_ERROR" /\ tn # sn => r.tf \in Through(s, t, par)

\* An enabled transformer answers every lookup of two known frames whose
\* chains meet without a loop in the data the walk reads (and, at the latest
\* common time, in the latest data getLatestCommonTime reads): the
\* MAX_GRAPH_DEPTH count of both functions, which alone tells a loop from a
\* tree, never fires on a loop-free chain, and no early out is missed.
LookupAnswersConnectedFrames ==
  \A tn, sn \in DOMAIN frameIDs, time \in Times, avail \in SUBSET DOMAIN frames :
    LET t == frameIDs[tn]
        s == frameIDs[sn]
    IN  /\ enabled
        /\ Connected(s, t, ParentIn(avail))
        /\ time = "latest" => Connected(s, t, LatestParents)
        => lookup_transform(tn, sn, time, avail).code = "NO_ERROR"

\* lookup_transform's documentation: a ConnectivityException is thrown "if
\* no connection between the source and target frame could be found in the
\* tree".  Two named frames that both received transforms, in different
\* loop-free trees whose caches all have data at the time asked, get a
\* ConnectivityException.
DisconnectedRaisesConnectivity ==
  \A tn, sn \in DOMAIN frameIDs \ {NO_PARENT}, time \in Times :
    LET par == ParentIn(DOMAIN frames)
        t == frameIDs[tn]
        s == frameIDs[sn]
    IN  /\ enabled /\ tn # sn /\ HasData(s) /\ HasData(t)
        /\ ~Looped(s, par) /\ ~Looped(t, par) /\ Shared(s, t, par) = {}
        => lookup_transform(tn, sn, time, DOMAIN frames).code = "CONNECTIVITY_ERROR"


=============================================================================
