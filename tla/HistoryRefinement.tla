------------------------- MODULE HistoryRefinement -------------------------
(***************************************************************************)
(* The rolling state buffer implements RecordedHistory: each stored frame  *)
(* is the state that reconstructing it gives, under the frame's label.     *)
(***************************************************************************)
EXTENDS StateBuffer

HistoryOf(buf) ==
  [recorded |-> {[label |-> FrameAt(buf, slot).frame_no,
                  state |-> Reconstruct(buf.levels[slot[1]].frames, slot[2])] :
                   slot \in Slots(buf)},
   position |-> buf.currentFrameNo]

History == INSTANCE RecordedHistory
  WITH State <- States, live <- HistoryOf(current), saved <- HistoryOf(save)

\* Whatever the levels, the differences and the trimming do, to its callers the
\* buffer is a history that gives back exactly what was recorded, is thinned
\* only between its oldest and its newest state, and forgets at its old end.
ImplementsHistory == History!HistorySpec

=============================================================================
