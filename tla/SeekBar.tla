------------------------------ MODULE SeekBar ------------------------------
(***************************************************************************)
(* How a position of the seek bar names a stored frame: the function       *)
(* state_buffer_getFrameAtPercent of src/e9k-debugger/state_buffer.c.      *)
(* Positions are the whole numbers 0 .. SeekSteps, in the code the floats  *)
(* 0.0 .. 1.0.  The result is the label of the frame, all the callers use. *)
(***************************************************************************)
EXTENDS StateBuffer

CONSTANT SeekSteps

ASSUME SeekStepsAssumption == SeekSteps \in Nat \ {0}

Percent == 0 .. SeekSteps

-----------------------------------------------------------------------------

FirstNo(lvl) == lvl.frames[1].frame_no
LastNo(lvl) == lvl.frames[Len(lvl.frames)].frame_no

Filled(buf) == {i \in Level : buf.levels[i].frames # << >>}

\* The oldest frame is the first one of the last level that holds any, the
\* newest one the last of the first such level.
OldestNo(buf) ==
  FirstNo(buf.levels[CHOOSE i \in Filled(buf) : \A j \in Filled(buf) : j <= i])
NewestNo_LastLevel(buf) ==
  LastNo(buf.levels[CHOOSE i \in Filled(buf) : \A j \in Filled(buf) : j <= i])

NewestNo(buf) ==
  LastNo(buf.levels[CHOOSE i \in Filled(buf) : \A j \in Filled(buf) : i <= j])

\* The label at position p of the range of labels, rounded to the nearest.
TargetNo_FromEnd(buf, p) ==
  NewestNo(buf) - ((NewestNo(buf) - OldestNo(buf)) * p) \div SeekSteps

TargetNo(buf, p) ==
  OldestNo(buf)
    + (2 * (NewestNo(buf) - OldestNo(buf)) * p + SeekSteps) \div (2 * SeekSteps)

BinarySearch_Before(frames, target) ==
  LET N == Len(frames)
      lo[r \in (0 .. N) \X (0 .. N)] ==
        LET mid == r[1] + (r[2] - r[1]) \div 2
        IN  IF r[1] >= r[2] THEN r[1]
            ELSE IF frames[mid + 1].frame_no < target THEN lo[<< mid + 1, r[2] >>]
            ELSE lo[<< r[1], mid >>]
  IN  lo[<< 0, N >>]

\* The binary search of a level: how many of its frames are up to target, if
\* their labels are in order.  r is the range left to search.
BinarySearch(frames, target) ==
  LET N == Len(frames)
      lo[r \in (0 .. N) \X (0 .. N)] ==
        LET mid == r[1] + (r[2] - r[1]) \div 2
        IN  IF r[1] >= r[2] THEN r[1]
            ELSE IF frames[mid + 1].frame_no <= target THEN lo[<< mid + 1, r[2] >>]
            ELSE lo[<< r[1], mid >>]
  IN  lo[<< 0, N >>]

\* The frame of a level for a target not later than its last frame.
NoInLevel(lvl, target) ==
  LET n == BinarySearch(lvl.frames, target)
  IN  IF target <= FirstNo(lvl) THEN FirstNo(lvl)
      ELSE lvl.frames[IF n = 0 THEN 1 ELSE n].frame_no

\* state_buffer_getFrameAtPercent of a buffer that holds frames: the levels are
\* tried from the oldest one on.
NoAtPercent(buf, p) ==
  LET target == TargetNo(buf, p)
      tiers  == {i \in Filled(buf) : target <= LastNo(buf.levels[i])}
      tier   == CHOOSE i \in tiers : \A j \in tiers : j <= i
  IN  IF OldestNo(buf) >= NewestNo(buf) \/ tiers = {} THEN NewestNo(buf)
      ELSE NoInLevel(buf.levels[tier], target)

=============================================================================
