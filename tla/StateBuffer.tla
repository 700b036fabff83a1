---------------------------- MODULE StateBuffer ----------------------------
(***************************************************************************)
(* The rolling state buffer of src/e9k-debugger/state_buffer.c: the live   *)
(* timeline `current' and the saved one `save'.                            *)
(*                                                                         *)
(* Trimming after a capture is a loop over the levels; each iteration of   *)
(* its inner while is a step here, and trimAt is the level being trimmed   *)
(* (0 when no trim is under way).  The debugger is single threaded, so no  *)
(* other operation runs between those steps.                               *)
(*                                                                         *)
(* Next is the buffer under the use its interface is written for: frames   *)
(* are labelled in increasing order, and after going back to a frame the   *)
(* newer ones are trimmed before another is captured.  Timeline.tla has    *)
(* the calls the debugger really makes.                                    *)
(***************************************************************************)
EXTENDS StateBufferOps

CONSTANT MaxFrameNo    \* bound on the labels, for model checking only

ASSUME MaxFrameNoAssumption == MaxFrameNo \in Nat

VARIABLES
  current,    \* state_buffer.current
  save,       \* state_buffer.save
  trimAt      \* the level trimLevels is at, 0 when it is not running

vars == << current, save, trimAt >>

-----------------------------------------------------------------------------
(* Buffers *)

\* state_buffer_configureLevelBudgets: half of what remains for each level,
\* all of it for the last.
Budget(i) ==
  LET remaining[j \in Level] ==
        IF j = 1 THEN MaxBytes
        ELSE remaining[j - 1] - (remaining[j - 1] \div 2)
  IN  IF i = LevelCount THEN remaining[i] ELSE remaining[i] \div 2

EmptyBuffer ==
  [levels |-> [i \in Level |-> EmptyLevel], totalBytes |-> 0,
   paused |-> FALSE, rollingPaused |-> FALSE, currentFrameNo |-> 0]

\* buf with one level replaced, its total adjusted as the helpers do.
WithLevel(buf, i, lvl) ==
  [buf EXCEPT !.levels[i] = lvl,
              !.totalBytes = @ + lvl.totalBytes - buf.levels[i].totalBytes]

\* The positions of the frames of a buffer.
Slots(buf) ==
  UNION {{<< i, k >> : k \in 1 .. Len(buf.levels[i].frames)} : i \in Level}

FrameAt(buf, slot) == buf.levels[slot[1]].frames[slot[2]]

HasFrameNo(buf, no) == \E slot \in Slots(buf) : FrameAt(buf, slot).frame_no = no

\* state_buffer_findFrameByFrameNo: the first one, from the newest level on.
FindFrame(buf, no) ==
  CHOOSE slot \in Slots(buf) :
    /\ FrameAt(buf, slot).frame_no = no
    /\ \A other \in Slots(buf) :
         FrameAt(buf, other).frame_no = no =>
           \/ slot[1] < other[1]
           \/ slot[1] = other[1] /\ slot[2] <= other[2]

OverBudget(i) ==
  /\ Budget(i) > 0
  /\ current.levels[i].totalBytes > Budget(i)
  /\ current.levels[i].frames # << >>

-----------------------------------------------------------------------------
(* Trimming *)

\* How many of the oldest frames of level i are promoted: as many as free
\* what is over its budget, but two at least when there are two.
PromoteCount(buf, i) ==
  LET frames == buf.levels[i].frames
      free   == FramesToFree(frames, buf.levels[i].totalBytes - Budget(i))
      capped == IF free > PromoteMaxFrames THEN PromoteMaxFrames ELSE free
  IN  IF capped < 2 /\ Len(frames) >= 2 THEN 2 ELSE capped

PromotedItems_OneTooFar(frames, n) ==
  LET m    == IF n < Len(frames) THEN n + 1 ELSE n
      work == Replay(frames, 1, m)
  IN  [j \in 1 .. (m + 1) \div 2 |->
         Item(work[2*j - 1], frames[2*j - 1].frame_no, frames[2*j - 1].captured)]

\* Of the first n frames, every second one, the first included.
PromotedItems(frames, n) ==
  LET work == Replay(frames, 1, n)
  IN  [j \in 1 .. (n + 1) \div 2 |->
         Item(work[2*j - 1], frames[2*j - 1].frame_no, frames[2*j - 1].captured)]

\* state_buffer_promoteOldest: the oldest frames of level i go, thinned, to the
\* next level.  Nothing happens when the level does not begin with a keyframe.
Promoted(buf, i) ==
  LET src   == buf.levels[i]
      n     == PromoteCount(buf, i)
      left  == IF n < Len(src.frames) THEN DropConverted(src, n)
               ELSE [src EXCEPT !.frames = << >>,
                                !.totalBytes = @ - PrefixBytes(src.frames, n)]
      grown == AppendStates(buf.levels[i + 1], PromotedItems(src.frames, n))
  IN  IF src.frames[1].is_keyframe
      THEN WithLevel(WithLevel(buf, i, left), i + 1, grown)
      ELSE buf

\* state_buffer_dropOldestToFit: the oldest frames of the last level go.
DroppedOldest(buf, i) ==
  LET lvl  == buf.levels[i]
      n    == FramesToFree(lvl.frames, lvl.totalBytes - Budget(i))
      left == IF n < Len(lvl.frames) THEN DropConverted(lvl, n)
              ELSE [lvl EXCEPT !.frames = << >>, !.prevState = NoState,
                               !.totalBytes = @ - PrefixBytes(lvl.frames, n)]
  IN  IF ~lvl.frames[1].is_keyframe \/ n = 0 THEN buf
      ELSE WithLevel(buf, i, left)

TrimPromote ==
  /\ trimAt \in 1 .. LevelCount - 1
  /\ OverBudget(trimAt)
  /\ current' = Promoted(current, trimAt)
  /\ UNCHANGED << save, trimAt >>

TrimDrop ==
  /\ trimAt = LevelCount
  /\ OverBudget(trimAt)
  /\ current' = DroppedOldest(current, trimAt)
  /\ UNCHANGED << save, trimAt >>

TrimNextLevel_Once ==
  /\ trimAt \in Level
  /\ trimAt' = IF trimAt = LevelCount THEN 0 ELSE trimAt + 1
  /\ UNCHANGED << current, save >>

TrimNextLevel_PastLast ==
  /\ trimAt \in Level
  /\ ~OverBudget(trimAt)
  /\ trimAt' = trimAt + 1
  /\ UNCHANGED << current, save >>

TrimNextLevel ==
  /\ trimAt \in Level
  /\ ~OverBudget(trimAt)
  /\ trimAt' = IF trimAt = LevelCount THEN 0 ELSE trimAt + 1
  /\ UNCHANGED << current, save >>

Trim == TrimPromote \/ TrimDrop \/ TrimNextLevel

-----------------------------------------------------------------------------
(* The interface *)

Recording_IgnoresPaused == ~current.rollingPaused /\ MaxBytes > 0

Recording == ~current.paused /\ ~current.rollingPaused /\ MaxBytes > 0

\* state_buffer_capture of state s under label no.
Capture(s, no) ==
  /\ trimAt = 0
  /\ Recording
  /\ current' = [WithLevel(current, 1,
                           AppendStates(current.levels[1], << Item(s, no, s) >>))
                   EXCEPT !.currentFrameNo = no]
  /\ trimAt' = 1
  /\ UNCHANGED save

SetPaused(paused) ==
  /\ trimAt = 0
  /\ current' = [current EXCEPT !.paused = paused]
  /\ UNCHANGED << save, trimAt >>

\* state_buffer_setRollingPaused: resuming starts from an empty timeline
\* (state_buffer_clearCurrent).
SetRollingPaused(paused) ==
  /\ trimAt = 0
  /\ current.rollingPaused # paused
  /\ current' =
       IF paused
       THEN [current EXCEPT !.rollingPaused = TRUE]
       ELSE [EmptyBuffer EXCEPT !.paused = current.paused,
                                !.currentFrameNo = current.currentFrameNo]
  /\ UNCHANGED << save, trimAt >>

\* The state a restore of label no hands to the core; NoState when the label
\* is not stored or cannot be reconstructed.
RestoredState(buf, no) ==
  IF ~HasFrameNo(buf, no) THEN NoState
  ELSE LET slot == FindFrame(buf, no)
       IN  Reconstruct(buf.levels[slot[1]].frames, slot[2])

\* state_buffer_restoreFrameNo
RestoreFrameNo(no) ==
  /\ trimAt = 0
  /\ RestoredState(current, no) # NoState
  /\ current' = [current EXCEPT !.currentFrameNo = no]
  /\ UNCHANGED << save, trimAt >>

KeptUpTo_Before(frames, no) ==
  SubSeq(frames, 1, Cardinality({k \in 1 .. Len(frames) :
                                   \A j \in 1 .. k : frames[j].frame_no < no}))

\* The frames of a level that state_buffer_trimAfterFrameNo keeps: those
\* before the first one labelled later than no.
KeptUpTo(frames, no) ==
  SubSeq(frames, 1, Cardinality({k \in 1 .. Len(frames) :
                                   \A j \in 1 .. k : frames[j].frame_no <= no}))

\* A level after the first pass of state_buffer_trimAfterFrameNo.
CutLevel(lvl, no) ==
  LET kept == KeptUpTo(lvl.frames, no)
  IN  [frames     |-> kept,
       totalBytes |-> lvl.totalBytes - PrefixBytes(lvl.frames, Len(lvl.frames))
                                     + PrefixBytes(kept, Len(kept)),
       prevState  |-> IF kept = << >> THEN NoState ELSE lvl.prevState]

Last(lvl) == Reconstruct(lvl.frames, Len(lvl.frames))

\* Its second pass sets the previous state of each level to that of its last
\* remaining frame, and the whole operation ends at one that has none.
RefreshedLevels(levels) ==
  LET fails(i) == levels[i].frames # << >> /\ Last(levels[i]) = NoState
  IN  [i \in Level |->
         IF levels[i].frames # << >> /\ \A j \in 1 .. i : ~fails(j)
         THEN [levels[i] EXCEPT !.prevState = Last(levels[i])]
         ELSE levels[i]]

CanRefresh(levels) ==
  \A i \in Level : levels[i].frames # << >> => Last(levels[i]) # NoState

\* The change of size of the first i levels between two buffers.
SizeChange(from, to) ==
  LET sum[i \in 0 .. LevelCount] ==
        IF i = 0 THEN 0
        ELSE sum[i - 1] + to[i].totalBytes - from[i].totalBytes
  IN  sum[LevelCount]

\* state_buffer_trimAfterFrameNo: the newer frames go, and the next capture is
\* made against the frame restored, if the cut has left one of that label.
TrimmedAfter(buf, no) ==
  LET cut    == [i \in Level |-> CutLevel(buf.levels[i], no)]
      levels == RefreshedLevels(cut)
      left   == [buf EXCEPT !.levels = levels,
                            !.totalBytes = @ + SizeChange(buf.levels, levels)]
      exact  == RestoredState(left, no)
  IN  IF CanRefresh(cut) /\ exact # NoState
      THEN [left EXCEPT !.levels[1].prevState = exact, !.currentFrameNo = no]
      ELSE left

TrimAfterFrameNo(no) ==
  /\ trimAt = 0
  /\ HasFrameNo(current, no)
  /\ current' = TrimmedAfter(current, no)
  /\ UNCHANGED << save, trimAt >>

\* state_buffer_snapshot
Snapshot ==
  /\ trimAt = 0
  /\ save' = [current EXCEPT !.rollingPaused = FALSE]
  /\ UNCHANGED << current, trimAt >>

RestoreSnapshot_StalePrev ==
  /\ trimAt = 0
  /\ Slots(save) # {}
  /\ current' = [save EXCEPT !.paused = current.paused,
                             !.rollingPaused = current.rollingPaused,
                             !.levels[1].prevState = current.levels[1].prevState]
  /\ UNCHANGED << save, trimAt >>

RestoreSnapshot_TakesPaused ==
  /\ trimAt = 0
  /\ Slots(save) # {}
  /\ current' = [save EXCEPT !.rollingPaused = current.rollingPaused]
  /\ UNCHANGED << save, trimAt >>

\* state_buffer_restoreSnapshot
RestoreSnapshot ==
  /\ trimAt = 0
  /\ Slots(save) # {}
  /\ current' = [save EXCEPT !.paused = current.paused,
                             !.rollingPaused = current.rollingPaused]
  /\ UNCHANGED << save, trimAt >>

\* state_buffer_setSaveKeyframe
SetSaveKeyframe(s, no) ==
  /\ trimAt = 0
  /\ save' = [WithLevel(EmptyBuffer, 1,
                        AppendStates(EmptyLevel, << Item(s, no, s) >>))
                EXCEPT !.currentFrameNo = no]
  /\ UNCHANGED << current, trimAt >>

-----------------------------------------------------------------------------

Init ==
  /\ current = EmptyBuffer
  /\ save = EmptyBuffer
  /\ trimAt = 0

\* The label of the next frame, when it is newer than every stored one.
CaptureNext(s) ==
  LET no == current.currentFrameNo + 1 IN
    /\ no <= MaxFrameNo
    /\ \A slot \in Slots(current) : FrameAt(current, slot).frame_no < no
    /\ Capture(s, no)

StoredNos == {FrameAt(current, slot).frame_no : slot \in Slots(current)}

\* Recording, and going back to a frame to record from there.
NextRecord ==
  \/ Trim
  \/ \E s \in States : CaptureNext(s)
  \/ \E no \in StoredNos : TrimAfterFrameNo(no)

NextPause ==
  \/ \E b \in BOOLEAN : SetPaused(b) \/ SetRollingPaused(b)
  \/ \E no \in StoredNos : RestoreFrameNo(no)

NextSave ==
  \/ \E s \in States : SetSaveKeyframe(s, current.currentFrameNo)
  \/ Snapshot
  \/ RestoreSnapshot

Next == NextRecord \/ NextPause \/ NextSave

\* trimLevels runs to its end inside the capture that called it.
Spec == Init /\ [][Next]_vars /\ WF_vars(Trim)

\* The live timeline alone, which is model-checked on a larger instance than the
\* whole; Snapshots.tla has the exchange of the two timelines.
SpecLive == Init /\ [][NextRecord \/ NextPause]_vars /\ WF_vars(Trim)

-----------------------------------------------------------------------------
(* Properties *)

LevelType ==
  [frames : Seq(Frame), totalBytes : Int, prevState : States \cup {NoState}]

BufferType ==
  [levels : [Level -> LevelType], totalBytes : Int, paused : BOOLEAN,
   rollingPaused : BOOLEAN, currentFrameNo : Nat]

\* The buffers hold levels of well-formed frames; a previous state is one the
\* machine was in, and trimming is at a level or not under way.
TypeOK ==
  /\ current \in BufferType
  /\ save \in BufferType
  /\ trimAt \in 0 .. LevelCount

Buffers == {current, save}

\* Whatever was captured, promoted, thinned, trimmed, saved and restored, every
\* stored frame reconstructs to exactly the state captured under its label:
\* diffs are never applied to anything but the state they were taken against.
ReconstructsCapture ==
  \A buf \in Buffers : \A slot \in Slots(buf) :
    Reconstruct(buf.levels[slot[1]].frames, slot[2]) = FrameAt(buf, slot).captured

\* The running byte counts, which decide what is promoted and dropped, are the
\* bytes of the frames that are there: no path forgets to adjust them.
BytesAccounted ==
  \A buf \in Buffers :
    /\ \A i \in Level :
         LET frames == buf.levels[i].frames
         IN  buf.levels[i].totalBytes = PrefixBytes(frames, Len(frames))
    /\ buf.totalBytes =
         SizeChange([i \in Level |-> EmptyLevel], buf.levels)

\* Every level that holds frames begins with one that can be reconstructed, as
\* the comment in state_buffer_promoteOldest says of dropping a prefix.
OldestReconstructable ==
  \A buf \in Buffers : \A i \in Level :
    buf.levels[i].frames # << >> => CanReconstruct(buf.levels[i].frames, 1)

\* One timeline: labels grow along a level, and everything in a level is newer
\* than everything in the next, so that a label names at most one frame.
TimelineOrdered ==
  \A buf \in Buffers : \A a, b \in Slots(buf) :
    \/ a = b
    \/ FrameAt(buf, a).frame_no < FrameAt(buf, b).frame_no
         <=> (a[1] > b[1] \/ (a[1] = b[1] /\ a[2] < b[2]))

\* How far apart, at most, a frame of level i and the next newer one are in
\* captures: promotion keeps every second frame of level i - 1.
Spacing(i) ==
  LET spacing[j \in Level] == IF j = 1 THEN 1 ELSE 2 * spacing[j - 1]
  IN  spacing[i]

\* Thinning is even: promotion to level i keeps at least every second frame of
\* level i - 1, so between a frame of level i and the next newer one at most
\* 2^(i-1) - 1 captures are missing.
ThinnedEvenly ==
  \A a \in Slots(current) :
    LET no    == FrameAt(current, a).frame_no
        newer == {m \in StoredNos : m > no}
    IN  newer = {} \/ \E m \in newer : m - no <= Spacing(a[1])

\* A level the trim has passed is within its budget and is not filled again by
\* the older levels being trimmed, nor before the next capture.
WithinBudget ==
  \A i \in Level : (trimAt = 0 \/ i < trimAt) /\ Budget(i) > 0 =>
    current.levels[i].totalBytes <= Budget(i)

\* The trimming loop ends after every capture.
TrimEnds == trimAt # 0 ~> trimAt = 0

=============================================================================
