--------------------------- MODULE TfUnlockedLookup ---------------------------
(***************************************************************************)
(* getLatestCommonTime(source_frame, target_frame), the string variant of  *)
(* src/src/libs/tf/transformer.cpp, run by one thread while publishers     *)
(* call set_transform and clear.  The writers hold frame_mutex_; the       *)
(* reader does not: frame_exists takes the lock only for its own check,    *)
(* lookupFrameNumber's MutexLocker is commented out, and the two loops of  *)
(* getLatestCommonTime(target_id, source_id) read frames_ with no lock.    *)
(* Each loop pass of the reader is one step, reading the table as it is    *)
(* then.                                                                   *)
(***************************************************************************)
EXTENDS TfTransformer

CONSTANTS MaxWrites   \* bound on set_transform / clear calls in a behaviour

VARIABLES
  reader,   \* the reader's call: pc, ids, loop position, lct_cache, result
  writes    \* writer calls so far

allvars == <<frameIDs, frames, enabled, reader, writes>>

Idle == [pc |-> "idle", tid |-> 0, sid |-> 0, frame |-> 0, depth |-> 0, lct |-> {},
         result |-> "none", apart |-> FALSE]

\* apart is history: the two frames were not connected (one chain looped,
\* or the chains did not meet) in some table since the call began.
Apart(r, fr) == ~Connected(r.sid, r.tid, ParentsOf(fr))

CInit == Init /\ reader = Idle /\ writes = 0

Finish(r, result) == [r EXCEPT !.pc = "done", !.result = result]

\* getLatestCommonTime(source_frame, target_frame): frame_exists for both,
\* then the ids are passed on as getLatestCommonTime(source_id, target_id),
\* whose parameters are (target_id, source_id): the inner source walk
\* starts at target_frame.
StartRead(source_frame, target_frame) ==
  /\ reader.pc = "idle"
  /\ LET known == frame_exists(target_frame) /\ frame_exists(source_frame)
         r == [Idle EXCEPT !.pc = "src", !.tid = lookupFrameNumber(source_frame),
                           !.sid = lookupFrameNumber(target_frame),
                           !.frame = lookupFrameNumber(target_frame)]
     IN  reader' = CASE ~known        -> Finish(Idle, "LOOKUP_ERROR")
                     [] r.tid = r.sid -> Finish(r, "NO_ERROR")
                     [] OTHER         -> [r EXCEPT !.apart = Apart(r, frames)]
  /\ UNCHANGED <<frameIDs, frames, enabled, writes>>

\* One pass of the loop the reader is in, on the table as it is now.
ReadStep ==
  /\ reader.pc \in {"src", "tgt"}
  /\ LET r == reader
         st == IF r.pc = "src" THEN LctSourceStep(r.frame, r.tid, r.lct, r.depth)
               ELSE LctTargetStep(r.frame, r.sid, r.lct, r.depth)
     IN  reader' =
           CASE st.end = "more"   -> [r EXCEPT !.frame = st.frame, !.lct = st.lct,
                                               !.depth = st.depth]
             [] st.end = "walked" -> [r EXCEPT !.pc = "tgt", !.frame = r.tid,
                                               !.lct = st.lct, !.depth = 0]
             [] OTHER             -> Finish(r, st.end)
  /\ UNCHANGED <<frameIDs, frames, enabled, writes>>

\* A writer call under frame_mutex_; the reader's history notes the table.
Observe == reader' = IF reader.pc \in {"src", "tgt"}
                     THEN [reader EXCEPT !.apart = @ \/ Apart(reader, frames')]
                     ELSE reader

Write ==
  /\ writes < MaxWrites
  /\ \/ \E child, parent \in Names \cup {NO_PARENT}, x \in Xforms, inserted \in BOOLEAN :
          set_transform(child, parent, x, FALSE, inserted)
     \/ clear
  /\ writes' = writes + 1
  /\ Observe

CNext ==
  \/ \E s, t \in Names : StartRead(s, t)
  \/ ReadStep
  \/ Write

CSpec == CInit /\ [][CNext]_allvars

\* getLatestCommonTime answers CONNECTIVITY_ERROR only for two frames that
\* were not connected in some table its unlocked reads overlapped: the two
\* loops read frames_ pass by pass while set_transform re-parents frames.
UnlockedAnswerJustified ==
  reader.pc = "done" /\ reader.result = "CONNECTIVITY_ERROR" => reader.apart

=============================================================================
