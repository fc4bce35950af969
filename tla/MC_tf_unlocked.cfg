\* One getLatestCommonTime(source_frame, target_frame) call without
\* frame_mutex_ against set_transform / clear calls holding it.  Four
\* writes build two frames under a common parent and move them under
\* another; the run ends when the writes are used up, so deadlock is not
\* checked.
CONSTANTS
  f1 = f1
  f2 = f2
  f3 = f3
  f4 = f4
  Names <- MCNames
  NO_PARENT = NO_PARENT
  Slash = Slash
  NoData = NoData
  Xforms <- MCXforms
  MAX_GRAPH_DEPTH = 3
  MaxWrites = 4
SPECIFICATION CSpec
SYMMETRY MCSymmetry
CHECK_DEADLOCK FALSE
INVARIANT
  UnlockedAnswerJustified
