---------------------------- MODULE TimelineProofs ----------------------------
(***************************************************************************)
(* Proofs about the debugger's main loop over the rolling state buffer.    *)
(***************************************************************************)
EXTENDS Timeline, StateBufferProofs

-----------------------------------------------------------------------------
(* Pausing the recording while the seek bar is dragged *)

\* A buffer is the record of its fields, and replacing levels keeps the others.
IsBuffer(buf) ==
  buf = [levels |-> buf.levels, totalBytes |-> buf.totalBytes, paused |-> buf.paused,
         rollingPaused |-> buf.rollingPaused, currentFrameNo |-> buf.currentFrameNo]

LEMMA PausedSet ==
  ASSUME NEW buf, IsBuffer(buf), NEW b, NEW out, out = [buf EXCEPT !.paused = b]
  PROVE  /\ IsBuffer(out) /\ out.paused = b
         /\ out.levels = buf.levels /\ out.currentFrameNo = buf.currentFrameNo
<1>1. out = [levels |-> buf.levels, totalBytes |-> buf.totalBytes, paused |-> b,
             rollingPaused |-> buf.rollingPaused, currentFrameNo |-> buf.currentFrameNo]
  BY DEF IsBuffer
<1> QED
  BY <1>1 DEF IsBuffer

\* out is buf with other levels.
Relevelled(out, buf) ==
  /\ IsBuffer(out)
  /\ out.paused = buf.paused
  /\ out.rollingPaused = buf.rollingPaused
  /\ out.currentFrameNo = buf.currentFrameNo

LEMMA WithLevelRelevels ==
  ASSUME NEW buf, IsBuffer(buf), NEW i, NEW lvl, NEW out, out = WithLevel(buf, i, lvl)
  PROVE  Relevelled(out, buf)
<1> DEFINE t  == buf.totalBytes + lvl.totalBytes - buf.levels[i].totalBytes
           ls == [buf.levels EXCEPT ![i] = lvl]
<1>1. out = [buf EXCEPT !.levels = ls, !.totalBytes = t]
  BY DEF WithLevel, IsBuffer
<1> HIDE DEF t, ls
<1>2. out = [levels |-> ls, totalBytes |-> t, paused |-> buf.paused,
             rollingPaused |-> buf.rollingPaused, currentFrameNo |-> buf.currentFrameNo]
  BY <1>1 DEF IsBuffer
<1> QED
  BY <1>2 DEF IsBuffer, Relevelled

LEMMA TrimRelevels ==
  ASSUME NEW buf, IsBuffer(buf), NEW i
  PROVE  Relevelled(Promoted(buf, i), buf) /\ Relevelled(DroppedOldest(buf, i), buf)
<1>1. \A l1, l2, j : Relevelled(WithLevel(WithLevel(buf, i, l1), j, l2), buf)
  <2> TAKE l1, l2, j
  <2> DEFINE mid == WithLevel(buf, i, l1)
             out == WithLevel(mid, j, l2)
  <2>1. Relevelled(mid, buf)
    BY WithLevelRelevels
  <2>2. IsBuffer(mid) /\ out = WithLevel(mid, j, l2)
    BY <2>1 DEF Relevelled
  <2> HIDE DEF mid, out
  <2>3. Relevelled(out, mid)
    BY <2>2, WithLevelRelevels
  <2>4. Relevelled(out, buf)
    BY <2>1, <2>3 DEF Relevelled
  <2> QED
    BY <2>4 DEF out, mid
<1>2. \A l : Relevelled(WithLevel(buf, i, l), buf)
  BY WithLevelRelevels
<1>3. Relevelled(buf, buf)
  BY DEF Relevelled
<1> QED
  BY <1>1, <1>2, <1>3 DEF Promoted, DroppedOldest

\* Cutting the newer frames leaves everything but the levels and the label,
\* which is that of the cut or stays.
LEMMA CutRelevels ==
  ASSUME NEW buf, IsBuffer(buf), NEW no
  PROVE  /\ IsBuffer(TrimmedAfter(buf, no))
         /\ TrimmedAfter(buf, no).paused = buf.paused
         /\ TrimmedAfter(buf, no).rollingPaused = buf.rollingPaused
         /\ \/ TrimmedAfter(buf, no).currentFrameNo = no
            \/ TrimmedAfter(buf, no).currentFrameNo = buf.currentFrameNo
<1> DEFINE left  == CutBuffer(buf, no)
           exact == RestoredState(left, no)
           out   == TrimmedAfter(buf, no)
           t     == buf.totalBytes + SizeChange(buf.levels, CutLevels(buf, no))
           ls    == CutLevels(buf, no)
<1>1. out = left \/ out = WithPrev(left, exact, no)
  BY DEF TrimmedAfter, WithPrev, CutBuffer, CutLevels
<1>2. left = [buf EXCEPT !.levels = ls, !.totalBytes = t]
  BY DEF CutBuffer, IsBuffer
<1> HIDE DEF t, ls
<1>3. left = [levels |-> ls, totalBytes |-> t, paused |-> buf.paused,
              rollingPaused |-> buf.rollingPaused, currentFrameNo |-> buf.currentFrameNo]
  BY <1>2 DEF IsBuffer
<1> HIDE DEF left, exact, out
<1>4. Relevelled(left, buf)
  BY <1>3 DEF IsBuffer, Relevelled
<1>5. CASE out = left
  BY <1>4, <1>5 DEF Relevelled, out
<1>6. CASE out = WithPrev(left, exact, no)
  <2> DEFINE ls2 == [left.levels EXCEPT ![1].prevState = exact]
  <2>1. out = [left EXCEPT !.levels = ls2, !.currentFrameNo = no]
    BY <1>4, <1>6 DEF WithPrev, Relevelled, IsBuffer
  <2> HIDE DEF ls2
  <2>2. out = [levels |-> ls2, totalBytes |-> left.totalBytes, paused |-> left.paused,
               rollingPaused |-> left.rollingPaused, currentFrameNo |-> no]
    BY <2>1, <1>4 DEF Relevelled, IsBuffer
  <2> QED
    BY <2>2, <1>4 DEF Relevelled, IsBuffer, out
<1> QED
  BY <1>1, <1>5, <1>6

\* The buffer is paused exactly while the bar is dragged, and never while a
\* capture is being trimmed.
PauseInv ==
  /\ IsBuffer(current) /\ IsBuffer(save)
  /\ PausedWhileSeeking
  /\ seeking => trimAt = 0

\* A step that is none of the user's: it pauses and resumes nothing, and while
\* the bar is dragged it leaves the recorded frames alone.
Quiet ==
  /\ IsBuffer(current') /\ IsBuffer(save')
  /\ current'.paused = current.paused
  /\ seeking => trimAt' = 0 /\ current'.levels = current.levels

\* What sets the label, or nothing, is quiet.
LEMMA LabelQuiet ==
  ASSUME PauseInv, UNCHANGED << save, trimAt >>, NEW no,
         current' = current \/ current' = [current EXCEPT !.currentFrameNo = no]
  PROVE  Quiet
<1>1. \/ current' = current
      \/ current' = [levels |-> current.levels, totalBytes |-> current.totalBytes,
                     paused |-> current.paused, rollingPaused |-> current.rollingPaused,
                     currentFrameNo |-> no]
  BY DEF PauseInv, IsBuffer
<1> QED
  BY <1>1 DEF PauseInv, IsBuffer, Quiet

LEMMA CaptureQuiet ==
  ASSUME PauseInv, ExecCapture
  PROVE  Quiet
<1>1. CASE ~Recording
  BY <1>1, LabelQuiet DEF ExecCapture
<1>2. CASE Recording
  <2> DEFINE lvl == AppendStates(current.levels[1],
                                 << Item(machine, frameCounter, machine) >>)
             mid == WithLevel(current, 1, lvl)
  <2>1. current' = [mid EXCEPT !.currentFrameNo = frameCounter]
        /\ ~current.paused /\ save' = save
    BY <1>2 DEF ExecCapture, Capture, Recording
  <2>2. Relevelled(mid, current)
    BY WithLevelRelevels DEF PauseInv
  <2> HIDE DEF mid
  <2>3. current' = [levels |-> mid.levels, totalBytes |-> mid.totalBytes,
                    paused |-> mid.paused, rollingPaused |-> mid.rollingPaused,
                    currentFrameNo |-> frameCounter]
    BY <2>1, <2>2 DEF Relevelled, IsBuffer
  <2>4. ~seeking
    BY <2>1 DEF PauseInv, PausedWhileSeeking
  <2>5. IsBuffer(current') /\ current'.paused = current.paused
    BY <2>2, <2>3 DEF Relevelled, IsBuffer
  <2> QED
    BY <2>1, <2>4, <2>5 DEF Quiet, PauseInv
<1> QED
  BY <1>1, <1>2

LEMMA RestoreQuiet ==
  ASSUME PauseInv, NEW no, ExecRestore(no)
  PROVE  Quiet
BY LabelQuiet DEF ExecRestore

LEMMA TrimQuiet ==
  ASSUME PauseInv, Trim
  PROVE  Quiet
<1>1. trimAt # 0 /\ save' = save
  BY LevelsAssumption DEF Trim, TrimPromote, TrimDrop, TrimNextLevel, Level
<1>2. ~seeking
  BY <1>1 DEF PauseInv
<1>3. Relevelled(current', current)
  <2>1. Relevelled(current, current)
    BY DEF Relevelled, PauseInv
  <2>2. \/ current' = current
        \/ current' = Promoted(current, trimAt)
        \/ current' = DroppedOldest(current, trimAt)
    BY DEF Trim, TrimPromote, TrimDrop, TrimNextLevel
  <2> QED
    BY <2>1, <2>2, TrimRelevels DEF PauseInv
<1> QED
  BY <1>1, <1>2, <1>3 DEF Relevelled, Quiet, PauseInv

LEMMA UnchangedQuiet ==
  ASSUME PauseInv, UNCHANGED vars
  PROVE  Quiet
BY DEF PauseInv, Quiet, vars

LEMMA NextFrameQuiet ==
  ASSUME PauseInv, NextFrame
  PROVE  Quiet
<1>1. CASE ExecCapture
  BY <1>1, CaptureQuiet
<1>2. CASE ExecRestore(Wrap(frameCounter + 1))
  BY <1>2, RestoreQuiet
<1>3. CASE UNCHANGED << machine, current, save, trimAt >>
  BY <1>3, UnchangedQuiet DEF vars
<1> QED
  BY <1>1, <1>2, <1>3 DEF NextFrame

\* The main loop pauses and resumes nothing.
LEMMA RuntimeQuiet ==
  ASSUME PauseInv, Runtime
  PROVE  Quiet /\ seeking' = seeking
<1>1. CASE RunFrame
  BY <1>1, NextFrameQuiet DEF RunFrame, userVars
<1>2. CASE StepFrame
  <2>1. seeking' = seeking /\ (NextFrame \/ ExecRestore(Wrap(frameCounter - 2)))
    BY <1>2 DEF StepFrame
  <2> QED
    BY <2>1, NextFrameQuiet, RestoreQuiet
<1>3. CASE TrimCapture
  BY <1>3, TrimQuiet DEF TrimCapture, userVars
<1>4. CASE RefreshNext
  BY <1>4, NextFrameQuiet DEF RefreshNext, userVars
<1>5. CASE \E multiplier \in 2 .. MaxMultiplier : RunFastFrames(multiplier)
  BY <1>5, CaptureQuiet DEF RunFastFrames, userVars
<1>6. CASE CaptureNextFrame
  BY <1>6, CaptureQuiet DEF CaptureNextFrame, userVars
<1>7. CASE CoreFinishesFrame
  BY <1>7, UnchangedQuiet DEF CoreFinishesFrame, userVars
<1>8. CASE CoreBreaks
  BY <1>8, UnchangedQuiet DEF CoreBreaks
<1>9. CASE CoreIsPaused
  BY <1>9, UnchangedQuiet DEF CoreIsPaused, userVars
<1>10. CASE CountBack
  BY <1>10, UnchangedQuiet DEF CountBack, userVars
<1> QED
  BY <1>1, <1>2, <1>3, <1>4, <1>5, <1>6, <1>7, <1>8, <1>9, <1>10 DEF Runtime

\* Nor do stepping, looping, the diff command and the breaks.
LEMMA CommandsQuiet ==
  ASSUME PauseInv, Stepping \/ Looping \/ Diffing \/ Breaking
  PROVE  Quiet /\ seeking' = seeking
<1>1. CASE RefreshFrame
  BY <1>1, RestoreQuiet DEF RefreshFrame, userVars
<1>2. CASE UNCHANGED vars /\ UNCHANGED seeking
  BY <1>2, UnchangedQuiet
<1>3. Stepping => RefreshFrame \/ (UNCHANGED vars /\ UNCHANGED seeking)
  BY DEF Stepping, PressFrameStep, PressFrameStepBack, PressFrameContinue
<1>4. Looping => UNCHANGED vars /\ UNCHANGED seeking
  BY DEF Looping, SetLoop, ClearLoop
<1>5. Diffing => UNCHANGED vars /\ UNCHANGED seeking
  BY DEF Diffing, Diff, userVars
<1>6. Breaking => UNCHANGED vars /\ UNCHANGED seeking
  BY DEF Breaking, Pause, Continue, StepInstr, StepLine, userVars
<1> QED
  BY <1>1, <1>2, <1>3, <1>4, <1>5, <1>6

\* Each event of the bar pauses and resumes the buffer as it begins and ends the
\* dragging; only the release touches the frames.
LEMMA SeekPauses ==
  ASSUME PauseInv, Seek
  PROVE  /\ PauseInv'
         /\ seeking => current'.levels = current.levels \/ SeekRelease
<1>1. CASE SeekPress
  <2>1. /\ current' = [levels |-> current.levels, totalBytes |-> current.totalBytes,
                       paused |-> TRUE, rollingPaused |-> current.rollingPaused,
                       currentFrameNo |-> current.currentFrameNo]
        /\ trimAt' = 0 /\ save' = save /\ seeking' = TRUE /\ ~seeking
    BY <1>1 DEF SeekPress, SetPaused, PauseInv, IsBuffer
  <2> QED
    BY <2>1 DEF PauseInv, IsBuffer, PausedWhileSeeking
<1>2. CASE SeekMove
  <2>1. seeking' = seeking
    BY <1>2 DEF SeekMove
  <2>2. Quiet
    <3>1. PICK p \in Percent :
            ExecRestore(NoAtPercent(current, p)) \/ UNCHANGED vars
      BY <1>2 DEF SeekMove
    <3> QED
      BY <3>1, RestoreQuiet, UnchangedQuiet
  <2> QED
    BY <2>1, <2>2 DEF Quiet, PauseInv, PausedWhileSeeking
<1>3. CASE SeekRelease
  <2> DEFINE un  == [current EXCEPT !.paused = FALSE]
             cut == TrimmedAfter(un, NoAtPercent(current, percent))
  <2>1. /\ current' = un \/ current' = cut
        /\ save' = save /\ trimAt' = trimAt /\ seeking' = FALSE
    BY <1>3 DEF SeekRelease
  <2>2. un = [current EXCEPT !.paused = FALSE] /\ IsBuffer(current)
    BY DEF PauseInv
  <2> HIDE DEF un
  <2>3. IsBuffer(un) /\ un.paused = FALSE
    BY <2>2, PausedSet
  <2>4. IsBuffer(cut) /\ cut.paused = FALSE
    BY <2>3, CutRelevels
  <2> HIDE DEF cut
  <2>5. IsBuffer(current') /\ current'.paused = FALSE
    BY <2>1, <2>3, <2>4
  <2> QED
    BY <1>3, <2>1, <2>5 DEF PauseInv, PausedWhileSeeking, IsBuffer
<1> QED
  BY <1>1, <1>2, <1>3 DEF Seek

\* The Save button leaves the timeline alone; Restore and the rolling switch
\* replace it by another that is paused as it was.
LEMMA SavingPauses ==
  ASSUME PauseInv, Saving
  PROVE  /\ PauseInv'
         /\ seeking => current'.levels = current.levels \/ RestoreState \/ ToggleRolling
<1>1. CASE SaveState
  <2> DEFINE lvl == AppendStates(EmptyLevel,
                                 << Item(machine, current.currentFrameNo, machine) >>)
             mid == WithLevel(EmptyBuffer, 1, lvl)
  <2>1. /\ save' = [mid EXCEPT !.currentFrameNo = current.currentFrameNo]
        /\ current' = current /\ trimAt' = trimAt /\ seeking' = seeking
    BY <1>1 DEF SaveState, SetSaveKeyframe
  <2>2. IsBuffer(EmptyBuffer)
    BY DEF IsBuffer, EmptyBuffer
  <2>3. IsBuffer(mid)
    BY <2>2, WithLevelRelevels DEF Relevelled
  <2> HIDE DEF mid
  <2>4. save' = [levels |-> mid.levels, totalBytes |-> mid.totalBytes,
                 paused |-> mid.paused, rollingPaused |-> mid.rollingPaused,
                 currentFrameNo |-> current.currentFrameNo]
    BY <2>1, <2>3 DEF IsBuffer
  <2>5. IsBuffer(save')
    BY <2>4 DEF IsBuffer
  <2> QED
    BY <2>1, <2>5 DEF PauseInv, PausedWhileSeeking, IsBuffer
<1>2. CASE RestoreState
  <2>1. /\ current' = [levels |-> save.levels, totalBytes |-> save.totalBytes,
                       paused |-> current.paused, rollingPaused |-> current.rollingPaused,
                       currentFrameNo |-> save.currentFrameNo]
        /\ trimAt' = trimAt /\ save' = save /\ seeking' = seeking
    BY <1>2 DEF RestoreState, RestoreSnapshot, PauseInv, IsBuffer, userVars
  <2> QED
    BY <1>2, <2>1 DEF PauseInv, IsBuffer, PausedWhileSeeking
<1>3. CASE ToggleRolling
  <2>1. /\ IsBuffer(current') /\ current'.paused = current.paused
        /\ trimAt' = trimAt /\ save' = save /\ seeking' = seeking
    <3>1. CASE current' = [current EXCEPT !.rollingPaused = TRUE]
      <4>1. current' = [levels |-> current.levels, totalBytes |-> current.totalBytes,
                        paused |-> current.paused, rollingPaused |-> TRUE,
                        currentFrameNo |-> current.currentFrameNo]
        BY <3>1 DEF PauseInv, IsBuffer
      <4> QED
        BY <1>3, <4>1 DEF IsBuffer, ToggleRolling, SetRollingPaused, userVars
    <3>2. CASE current' = [EmptyBuffer EXCEPT !.paused = current.paused,
                                              !.currentFrameNo = current.currentFrameNo]
      BY <1>3, <3>2 DEF IsBuffer, EmptyBuffer, ToggleRolling, SetRollingPaused, userVars
    <3> QED
      BY <1>3, <3>1, <3>2 DEF ToggleRolling, SetRollingPaused
  <2> QED
    BY <1>3, <2>1 DEF PauseInv, PausedWhileSeeking, IsBuffer
<1> QED
  BY <1>1, <1>2, <1>3 DEF Saving

LEMMA PauseStep ==
  ASSUME PauseInv, [TimelineNext]_timelineVars
  PROVE  /\ PauseInv'
         /\ seeking => \/ current'.levels = current.levels
                       \/ SeekRelease \/ RestoreState \/ ToggleRolling
<1>1. CASE Quiet /\ seeking' = seeking
  BY <1>1 DEF Quiet, PauseInv, PausedWhileSeeking
<1>2. CASE Runtime \/ Stepping \/ Looping \/ Diffing \/ Breaking
  BY <1>1, <1>2, RuntimeQuiet, CommandsQuiet
<1>3. CASE Seek
  BY <1>3, SeekPauses
<1>4. CASE Saving
  BY <1>4, SavingPauses
<1>5. CASE UNCHANGED timelineVars
  BY <1>1, <1>5, UnchangedQuiet DEF timelineVars, vars
<1> QED
  BY <1>2, <1>3, <1>4, <1>5 DEF TimelineNext

LEMMA PauseInit ==
  ASSUME TimelineInit
  PROVE  PauseInv
BY DEF TimelineInit, Init, EmptyBuffer, PauseInv, PausedWhileSeeking, IsBuffer

\* Whatever the user does in whatever order - dragging, stepping, breaking,
\* Restore in the middle of a drag, the rolling switch - the buffer is paused
\* while the bar is dragged and at no other time: state_buffer_setPaused is
\* called by emu_seekBarDragging only, and no replaced timeline brings its own
\* flag along.
THEOREM PausedExactlyWhileSeeking == TimelineSpec => []PausedWhileSeeking
<1>1. TimelineInit => PauseInv
  BY PauseInit
<1>2. PauseInv /\ [TimelineNext]_timelineVars => PauseInv'
  BY PauseStep
<1>3. PauseInv => PausedWhileSeeking
  BY DEF PauseInv
<1> QED
  BY <1>1, <1>2, <1>3, PTL DEF TimelineSpec

\* While the bar is dragged nothing is recorded, trimmed or promoted, whatever
\* frames runtime_executeFrame runs to show the picture.
THEOREM NothingRecordedWhileSeeking == TimelineSpec => SeekingRecordsNothing
<1>1. TimelineInit => PauseInv
  BY PauseInit
<1>2. PauseInv /\ [TimelineNext]_timelineVars => PauseInv'
  BY PauseStep
<1>3. PauseInv /\ [TimelineNext]_timelineVars =>
        [seeking =>
           \/ \A i \in Level : current'.levels[i].frames = current.levels[i].frames
           \/ SeekRelease \/ RestoreState \/ ToggleRolling]_timelineVars
  BY PauseStep
<1> QED
  BY <1>1, <1>2, <1>3, PTL DEF TimelineSpec, SeekingRecordsNothing

-----------------------------------------------------------------------------
(* Recording, stepping, looping and diffing *)

Labelled(buf) == \A i \in Level : \A k \in 1 .. Size(buf, i) : No(buf, i, k) \in FrameNo

\* The recording is well formed but for the order of its labels, which stepping
\* back and looping upset; its labels are in range, and nothing is put aside.
TapeInv ==
  /\ LevelsOK(current) /\ Labelled(current) /\ current.currentFrameNo \in FrameNo
  /\ save = EmptyBuffer
  /\ trimAt \in 0 .. LevelCount
  /\ machine \in States

\* The rest of the debugger's state.
LoopInv ==
  /\ hostState \in States \cup {NoState}
  /\ corePaused \in BOOLEAN /\ suppressVblank \in BOOLEAN
  /\ stepMode \in BOOLEAN /\ seeking \in BOOLEAN
  /\ frameCounter \in FrameNo
  /\ todo \in Seq({"run", "capture", "back", "next"})
  /\ stepPending \in {-1, 0, 1} /\ (stepPending # 0 => stepMode)
  /\ loop = << >> \/ loop \in FrameNo \X FrameNo
  /\ percent \in Percent

LEMMA WrapInRange ==
  ASSUME NEW n \in Int
  PROVE  Wrap(n) \in FrameNo
<1>1. FrameNoModulus \in Nat /\ FrameNoModulus > 0
  BY FrameNoAssumption, MaxFrameNoAssumption
<1> QED
  BY <1>1 DEF Wrap, FrameNo

LEMMA FrameNoIsNat == FrameNo \subseteq Nat /\ 0 \in FrameNo
BY FrameNoAssumption, MaxFrameNoAssumption DEF FrameNo

LEMMA LabelledSlots ==
  ASSUME NEW buf
  PROVE  Labelled(buf) <=> \A slot \in Slots(buf) : FrameAt(buf, slot).frame_no \in FrameNo
<1>1. ASSUME Labelled(buf), NEW slot \in Slots(buf)
      PROVE  FrameAt(buf, slot).frame_no \in FrameNo
  BY <1>1, SlotShape DEF Labelled
<1>2. ASSUME \A slot \in Slots(buf) : FrameAt(buf, slot).frame_no \in FrameNo,
             NEW i \in Level, NEW k \in 1 .. Size(buf, i)
      PROVE  No(buf, i, k) \in FrameNo
  <2>1. << i, k >> \in Slots(buf)
    BY DEF Slots, Size
  <2> QED
    BY <1>2, <2>1 DEF FrameAt, No
<1> QED
  BY <1>1, <1>2 DEF Labelled

\* The flags and the current label have no part in the levels.
LEMMA SameLevelsTape ==
  ASSUME NEW buf, LevelsOK(buf), Labelled(buf), NEW out \in BufferType,
         out.levels = buf.levels
  PROVE  LevelsOK(out) /\ Labelled(out)
BY DEF LevelsOK, Labelled, Size, No

LEMMA CaptureTape ==
  ASSUME SameSize, NEW buf, LevelsOK(buf), Labelled(buf), NEW s \in States, NEW no \in FrameNo,
         NEW out, out = WithLevel(buf, 1, AppendStates(buf.levels[1], << Item(s, no, s) >>))
  PROVE  LevelsOK(out) /\ Labelled(out)
<1> DEFINE l1  == buf.levels[1]
           lvl == AppendStates(l1, << Item(s, no, s) >>)
<1>1. 1 \in Level /\ no \in Nat
  BY LevelsAssumption, FrameNoIsNat DEF Level
<1>2. LevelOK(l1) /\ l1.frames \in Seq(Frame)
  BY <1>1, LevelsShape DEF LevelsOK
<1>3. lvl = AppendStates(l1, << Item(s, no, s) >>) /\ out = WithLevel(buf, 1, lvl)
  OBVIOUS
<1>4. \A k \in 1 .. Len(l1.frames) : l1.frames[k].frame_no \in FrameNo
  BY <1>1 DEF Labelled, Size, No
<1>5. buf \in BufferType /\ \A i \in Level : LevelOK(buf.levels[i])
  BY DEF LevelsOK
<1> HIDE DEF lvl, l1
<1>6. LevelOK(lvl)
  BY <1>1, <1>2, <1>3, AppendOne
<1>7. Len(lvl.frames) = Len(l1.frames) + 1
  BY <1>1, <1>2, <1>3, AppendOne
<1>8. \A k \in 1 .. Len(l1.frames) : lvl.frames[k] = l1.frames[k]
  BY <1>1, <1>2, <1>3, AppendOne
<1>9. lvl.frames[Len(l1.frames) + 1].frame_no = no
  BY <1>1, <1>2, <1>3, AppendOne
<1>10. \A k \in 1 .. Len(lvl.frames) : lvl.frames[k].frame_no \in FrameNo
  <2> TAKE k \in 1 .. Len(lvl.frames)
  <2>1. Len(l1.frames) \in Nat
    BY <1>2, LenProperties
  <2>2. k \in 1 .. Len(l1.frames) \/ k = Len(l1.frames) + 1
    BY <2>1, <1>7
  <2> QED
    BY <2>2, <1>4, <1>8, <1>9
<1>11. /\ out \in BufferType
       /\ \A j \in Level : out.levels[j] = IF j = 1 THEN lvl ELSE buf.levels[j]
  BY <1>1, <1>3, <1>5, <1>6, WithLevelIs DEF LevelOK
<1>12. LevelsOK(out)
  BY <1>5, <1>6, <1>11 DEF LevelsOK
<1>13. Labelled(out)
  BY <1>10, <1>11 DEF Labelled, Size, No
<1> QED
  BY <1>12, <1>13

LEMMA PromotedTape ==
  ASSUME SameSize, NEW buf, LevelsOK(buf), Labelled(buf), NEW i \in Level, i + 1 \in Level,
         buf.levels[i].frames # << >>, NEW out, out = Promoted(buf, i)
  PROVE  LevelsOK(out) /\ Labelled(out)
<1> DEFINE n == PromoteCount(buf, i)
           m == Size(buf, i + 1)
<1>1. LevelsOK(out) /\ Promotes(out, buf, i, n)
  BY LevelsPromoted DEF LevelsOK
<1>2. n \in Nat /\ m \in Nat /\ Size(buf, i) \in Nat
  BY LevelsPromoteCount, LevelsShape
<1> HIDE DEF n, m
<1>3. \A p, k, q, l : Same(out, p, k, buf, q, l) => No(out, p, k) \in FrameNo
  BY DEF Same, Labelled
<1>4. ASSUME NEW j \in Level, NEW k \in 1 .. Size(out, j)
      PROVE  No(out, j, k) \in FrameNo
  <2>1. CASE j # i /\ j # i + 1
    BY <2>1, <1>1, <1>4 DEF Promotes, Labelled, No, Size
  <2>2. CASE j = i
    BY <2>2, <1>1, <1>3, <1>4 DEF Promotes
  <2>3. CASE j = i + 1
    <3>1. /\ Size(out, i + 1) = m + ((n + 1) \div 2)
          /\ \A x \in 1 .. m : Same(out, i + 1, x, buf, i + 1, x)
          /\ \A x \in 1 .. (n + 1) \div 2 : Same(out, i + 1, m + x, buf, i, 2 * x - 1)
      BY <1>1 DEF Promotes, m
    <3>2. k \in 1 .. m \/ (k - m \in 1 .. (n + 1) \div 2 /\ m + (k - m) = k)
      BY <2>3, <3>1, <1>2, <1>4
    <3> QED
      BY <2>3, <3>1, <3>2, <1>3
  <2> QED
    BY <2>1, <2>2, <2>3
<1> QED
  BY <1>1, <1>4 DEF Labelled

LEMMA DroppedTape ==
  ASSUME SameSize, NEW buf, LevelsOK(buf), Labelled(buf), NEW i \in Level,
         NEW out, out = DroppedOldest(buf, i)
  PROVE  LevelsOK(out) /\ Labelled(out)
<1>1. LevelsOK(out) /\ \E n \in 0 .. Size(buf, i) : Drops(out, buf, i, n)
  <2>1. out \in BufferType
    BY LevelsDropped
  <2>2. \A j \in Level : LevelOK(out.levels[j])
    BY LevelsDropped
  <2>3. \E n \in 0 .. Size(buf, i) : Drops(out, buf, i, n)
    BY LevelsDropped
  <2> QED
    BY <2>1, <2>2, <2>3 DEF LevelsOK
<1>2. PICK n \in 0 .. Size(buf, i) : Drops(out, buf, i, n)
  BY <1>1
<1>3. ASSUME NEW j \in Level, NEW k \in 1 .. Size(out, j)
      PROVE  No(out, j, k) \in FrameNo
  <2>1. CASE j # i
    BY <2>1, <1>2, <1>3 DEF Drops, Labelled, No, Size
  <2>2. CASE j = i
    BY <2>2, <1>2, <1>3 DEF Drops, Same, Labelled
  <2> QED
    BY <2>1, <2>2
<1> QED
  BY <1>1, <1>3 DEF Labelled

\* A restore of a label gives a state of the machine, or none.
LEMMA RestoredTape ==
  ASSUME SameSize, NEW buf, LevelsOK(buf), NEW no
  PROVE  RestoredState(buf, no) = NoState \/ RestoredState(buf, no) \in States
BY RestoreLevels DEF RestoredState

LEMMA LabelTape ==
  ASSUME TapeInv, NEW no \in FrameNo,
         current' = current \/ current' = [current EXCEPT !.currentFrameNo = no]
  PROVE  LevelsOK(current') /\ Labelled(current') /\ current'.currentFrameNo \in FrameNo
<1>1. no \in Nat /\ current \in BufferType
  BY FrameNoIsNat DEF TapeInv, LevelsOK
<1>2. CASE current' = current
  BY <1>2 DEF TapeInv
<1>3. CASE current' = [current EXCEPT !.currentFrameNo = no]
  <2>1. /\ current' \in BufferType /\ current'.levels = current.levels
        /\ current'.currentFrameNo = no
    BY <1>1, <1>3 DEF BufferType
  <2> QED
    BY <2>1, SameLevelsTape DEF TapeInv
<1> QED
  BY <1>2, <1>3

LEMMA ExecCaptureTape ==
  ASSUME SameSize, TapeInv, frameCounter \in FrameNo, ExecCapture
  PROVE  TapeInv'
<1>1. CASE ~Recording
  BY <1>1, LabelTape DEF ExecCapture, TapeInv
<1>2. CASE Recording
  <2> DEFINE buf == current
             mid == WithLevel(buf, 1, AppendStates(buf.levels[1],
                                        << Item(machine, frameCounter, machine) >>))
             out == current'
  <2>1. /\ out = [mid EXCEPT !.currentFrameNo = frameCounter]
        /\ save' = save /\ trimAt' = 1 /\ machine' = machine
    BY <1>2 DEF ExecCapture, Capture
  <2>2. LevelsOK(buf) /\ Labelled(buf) /\ machine \in States
    BY DEF TapeInv
  <2>3. mid = WithLevel(buf, 1, AppendStates(buf.levels[1],
                                  << Item(machine, frameCounter, machine) >>))
    OBVIOUS
  <2> HIDE DEF buf, mid, out
  <2>4. LevelsOK(mid) /\ Labelled(mid)
    BY <2>2, <2>3, CaptureTape
  <2>5. frameCounter \in Nat /\ mid \in BufferType
    BY <2>4, FrameNoIsNat DEF LevelsOK
  <2>6. out \in BufferType /\ out.levels = mid.levels /\ out.currentFrameNo = frameCounter
    BY <2>1, <2>5 DEF BufferType
  <2>7. LevelsOK(out) /\ Labelled(out)
    BY <2>4, <2>6, SameLevelsTape
  <2>8. 1 \in 0 .. LevelCount
    BY LevelsAssumption
  <2> QED
    BY <2>1, <2>6, <2>7, <2>8 DEF TapeInv, out
<1> QED
  BY <1>1, <1>2

LEMMA ExecRestoreTape ==
  ASSUME SameSize, TapeInv, NEW no \in FrameNo, ExecRestore(no)
  PROVE  TapeInv'
<1>1. RestoredState(current, no) = NoState \/ RestoredState(current, no) \in States
  BY RestoredTape DEF TapeInv
<1>2. machine' \in States
  BY <1>1 DEF ExecRestore, TapeInv
<1>3. current' = [current EXCEPT !.currentFrameNo = no] /\ save' = save /\ trimAt' = trimAt
  BY DEF ExecRestore
<1> QED
  BY <1>2, <1>3, LabelTape DEF TapeInv

LEMMA TrimTape ==
  ASSUME SameSize, TapeInv, Trim, machine' = machine
  PROVE  TapeInv'
<1> DEFINE buf == current
           out == current'
<1>0. LevelCount \in Nat /\ LevelCount >= 1
  BY LevelsAssumption
<1>1. LevelsOK(buf) /\ Labelled(buf) /\ buf \in BufferType
  BY DEF TapeInv, LevelsOK
<1>2. /\ LevelsOK(out) /\ Labelled(out)
      /\ trimAt' \in 0 .. LevelCount /\ save' = save
  <2>1. CASE TrimPromote
    <3>1. /\ trimAt \in 1 .. LevelCount - 1 /\ buf.levels[trimAt].frames # << >>
          /\ out = Promoted(buf, trimAt) /\ save' = save /\ trimAt' = trimAt
      BY <2>1 DEF TrimPromote, OverBudget
    <3>2. trimAt \in Level /\ trimAt + 1 \in Level
      BY <3>1, <1>0 DEF Level
    <3> HIDE DEF buf, out
    <3>3. LevelsOK(out) /\ Labelled(out)
      BY <1>1, <3>1, <3>2, PromotedTape
    <3> QED
      BY <3>1, <3>3, <1>0
  <2>2. CASE TrimDrop
    <3>1. /\ trimAt = LevelCount /\ out = DroppedOldest(buf, trimAt)
          /\ save' = save /\ trimAt' = trimAt
      BY <2>2 DEF TrimDrop
    <3>2. trimAt \in Level
      BY <3>1, <1>0 DEF Level
    <3> HIDE DEF buf, out
    <3>3. LevelsOK(out) /\ Labelled(out)
      BY <1>1, <3>1, <3>2, DroppedTape
    <3> QED
      BY <3>1, <3>3, <1>0
  <2>3. CASE TrimNextLevel
    <3>1. /\ trimAt \in Level /\ trimAt' = IF trimAt = LevelCount THEN 0 ELSE trimAt + 1
          /\ current' = current /\ save' = save
      BY <2>3 DEF TrimNextLevel
    <3>2. trimAt' \in 0 .. LevelCount
      BY <3>1, <1>0 DEF Level
    <3> QED
      BY <3>1, <3>2, <1>1
  <2> QED
    BY <2>1, <2>2, <2>3 DEF Trim
<1>3. out.currentFrameNo = buf.currentFrameNo
  <2>1. IsBuffer(buf)
    BY <1>1 DEF BufferType, IsBuffer
  <2>2. \/ out = buf \/ out = Promoted(buf, trimAt) \/ out = DroppedOldest(buf, trimAt)
    BY DEF Trim, TrimPromote, TrimDrop, TrimNextLevel
  <2> HIDE DEF buf, out
  <2> QED
    BY <2>1, <2>2, TrimRelevels DEF Relevelled
<1> QED
  BY <1>2, <1>3 DEF TapeInv

LEMMA NextFrameTape ==
  ASSUME SameSize, TapeInv, LoopInv, NextFrame
  PROVE  /\ TapeInv' /\ frameCounter' \in FrameNo
         /\ todo' \in Seq({"run", "capture", "back", "next"})
<1>0. frameCounter \in FrameNo /\ frameCounter \in Nat
      /\ << >> \in Seq({"run", "capture", "back", "next"})
      /\ << "run" >> \in Seq({"run", "capture", "back", "next"})
  BY FrameNoIsNat DEF LoopInv
<1>1. CASE ExecCapture /\ todo' = << "run" >> /\ UNCHANGED frameCounter
  BY <1>0, <1>1, ExecCaptureTape
<1>2. CASE ExecRestore(Wrap(frameCounter + 1)) /\ todo' = << "run" >> /\ UNCHANGED frameCounter
  <2>1. Wrap(frameCounter + 1) \in FrameNo
    BY <1>0, WrapInRange
  <2> QED
    BY <1>0, <1>2, <2>1, ExecRestoreTape
<1>3. CASE /\ loop # << >> /\ frameCounter' = loop[1] /\ todo' = << >>
           /\ UNCHANGED << machine, current, save, trimAt >>
  BY <1>0, <1>3 DEF LoopInv, TapeInv
<1> QED
  BY <1>1, <1>2, <1>3 DEF NextFrame

\* The core ends its frame in a state, and the frame is counted.
LEMMA CountedInRange ==
  ASSUME frameCounter \in FrameNo, NEW b, NEW a, NEW broke
  PROVE  Counted(Blanks(b, a, broke)) \in FrameNo
<1>1. Blanks(b, a, broke) \in {0, 1}
  BY DEF Blanks
<1>2. frameCounter + Blanks(b, a, broke) \in Int
  BY <1>1, FrameNoIsNat
<1> QED
  BY <1>2, WrapInRange DEF Counted

LEMMA TodoTail ==
  ASSUME todo \in Seq({"run", "capture", "back", "next"}), todo # << >>
  PROVE  /\ Tail(todo) \in Seq({"run", "capture", "back", "next"})
         /\ << "run" >> \o Tail(todo) \in Seq({"run", "capture", "back", "next"})
<1>1. Tail(todo) \in Seq({"run", "capture", "back", "next"})
  OBVIOUS
<1>2. << "run" >> \in Seq({"run", "capture", "back", "next"})
  OBVIOUS
<1> QED
  BY <1>1, <1>2

\* Every action of the main loop keeps both parts.
LEMMA RuntimeTape ==
  ASSUME SameSize, TapeInv, LoopInv, Runtime
  PROVE  TapeInv' /\ LoopInv'
<1> DEFINE Todos == Seq({"run", "capture", "back", "next"})
           FrameInv == /\ TapeInv' /\ frameCounter' \in FrameNo /\ todo' \in Todos
<1>0. /\ frameCounter \in FrameNo /\ frameCounter \in Nat /\ todo \in Todos
  BY FrameNoIsNat DEF LoopInv
<1>1. CASE RunFrame
  <2>1. FrameInv
    BY <1>1, NextFrameTape DEF RunFrame
  <2> QED
    BY <1>1, <2>1 DEF RunFrame, LoopInv, userVars
<1>2. CASE StepFrame
  <2>1. FrameInv
    <3>1. CASE NextFrame
      BY <3>1, NextFrameTape
    <3>2. CASE /\ ExecRestore(Wrap(frameCounter - 2)) /\ todo' = << "run", "back" >>
               /\ UNCHANGED frameCounter
      <4>1. Wrap(frameCounter - 2) \in FrameNo
        BY <1>0, WrapInRange
      <4>2. << "run", "back" >> \in Todos
        OBVIOUS
      <4> QED
        BY <1>0, <3>2, <4>1, <4>2, ExecRestoreTape
    <3> QED
      BY <1>2, <3>1, <3>2 DEF StepFrame
  <2>2. stepPending' = 0 /\ UNCHANGED << corePaused, suppressVblank, stepMode, loop, seeking,
                                         percent, hostState >>
    BY <1>2 DEF StepFrame
  <2> QED
    BY <2>1, <2>2 DEF LoopInv
<1>3. CASE TrimCapture
  <2>1. TapeInv'
    BY <1>3, TrimTape DEF TrimCapture, coreVars
  <2> QED
    BY <1>3, <2>1 DEF TrimCapture, LoopInv, userVars, coreVars
<1>4. CASE RefreshNext
  <2>1. FrameInv
    BY <1>4, NextFrameTape DEF RefreshNext
  <2> QED
    BY <1>4, <2>1 DEF RefreshNext, LoopInv, userVars
<1>5. ASSUME NEW multiplier \in 2 .. MaxMultiplier, RunFastFrames(multiplier)
      PROVE  TapeInv' /\ LoopInv'
  <2>1. TapeInv'
    BY <1>0, <1>5, ExecCaptureTape DEF RunFastFrames
  <2>2. todo' \in Todos
    <3> DEFINE rest == [k \in 1 .. multiplier - 1 |-> "capture"]
    <3>1. multiplier - 1 \in Nat
      BY MultiplierAssumption
    <3>2. rest \in Todos
      BY <3>1
    <3>3. << "run" >> \in Todos
      OBVIOUS
    <3>4. todo' = << "run" >> \o rest
      BY <1>5 DEF RunFastFrames
    <3> HIDE DEF rest
    <3> QED
      BY <3>2, <3>3, <3>4, ConcatProperties
  <2> QED
    BY <1>5, <2>1, <2>2 DEF RunFastFrames, LoopInv, userVars
<1>6. CASE CaptureNextFrame
  <2>1. TapeInv'
    BY <1>0, <1>6, ExecCaptureTape DEF CaptureNextFrame
  <2>2. todo' \in Todos
    BY <1>0, <1>6, TodoTail DEF CaptureNextFrame, Doing
  <2> QED
    BY <1>6, <2>1, <2>2 DEF CaptureNextFrame, LoopInv, userVars
<1>7. CASE CoreFinishesFrame
  <2>1. machine' \in States /\ frameCounter' \in FrameNo /\ todo' \in Todos
    BY <1>0, <1>7, CountedInRange, TodoTail DEF CoreFinishesFrame, Doing, AfterRunTodo
  <2> QED
    BY <1>7, <2>1 DEF CoreFinishesFrame, LoopInv, TapeInv, userVars, vars
<1>8. CASE CoreBreaks
  <2>1. machine' \in States /\ frameCounter' \in FrameNo /\ todo' \in Todos
    BY <1>0, <1>8, CountedInRange, TodoTail DEF CoreBreaks, Doing, AfterRunTodo
  <2> QED
    BY <1>8, <2>1 DEF CoreBreaks, LoopInv, TapeInv, vars
<1>9. CASE CoreIsPaused
  <2>1. todo' \in Todos
    BY <1>0, <1>9, TodoTail DEF CoreIsPaused, Doing, AfterRunTodo
  <2> QED
    BY <1>9, <2>1 DEF CoreIsPaused, LoopInv, TapeInv, userVars, coreVars, vars
<1>10. CASE CountBack
  <2>1. todo' \in Todos /\ frameCounter' \in FrameNo
    BY <1>0, <1>10, TodoTail, WrapInRange DEF CountBack, Doing
  <2> QED
    BY <1>10, <2>1 DEF CountBack, LoopInv, TapeInv, userVars, coreVars, vars
<1> QED
  BY <1>1, <1>2, <1>3, <1>4, <1>5, <1>6, <1>7, <1>8, <1>9, <1>10 DEF Runtime

\* The stored labels, for the loop and for diff, are in range.
LEMMA StoredInRange ==
  ASSUME TapeInv
  PROVE  StoredNos \subseteq FrameNo
BY LabelledSlots DEF TapeInv, StoredNos

\* diff leaves a state of the machine behind.
LEMMA DiffTape ==
  ASSUME SameSize, TapeInv, NEW from, NEW to, Diff(from, to)
  PROVE  machine' \in States /\ frameCounter' \in FrameNo
<1>1. \A no : RestoredState(current, no) = NoState \/ RestoredState(current, no) \in States
  BY RestoredTape DEF TapeInv
<1>2. machine' \in States
  BY <1>1 DEF Diff, TapeInv
<1>3. frameCounter' = current.currentFrameNo
  BY DEF Diff
<1> QED
  BY <1>2, <1>3 DEF TapeInv

LEMMA CommandsTape ==
  ASSUME SameSize, TapeInv, LoopInv, Stepping \/ Looping \/ Diffing \/ Pause \/ Continue
  PROVE  TapeInv' /\ LoopInv'
<1>1. CASE RefreshFrame
  <2>1. frameCounter - 2 \in FrameNo
    BY <1>1, FrameNoAssumption, MaxFrameNoAssumption DEF RefreshFrame, LoopInv, FrameNo
  <2>2. TapeInv'
    BY <1>1, <2>1, ExecRestoreTape DEF RefreshFrame
  <2>3. << "run", "back", "next" >> \in Seq({"run", "capture", "back", "next"})
    OBVIOUS
  <2> QED
    BY <1>1, <2>2, <2>3 DEF RefreshFrame, LoopInv, userVars
<1>2. CASE PressFrameStep \/ PressFrameStepBack \/ PressFrameContinue
  <2>1. TapeInv'
    BY <1>2 DEF PressFrameStep, PressFrameStepBack, PressFrameContinue, TapeInv, vars, coreVars
  <2>2. /\ stepMode' \in BOOLEAN /\ stepPending' \in {-1, 0, 1} /\ (stepPending' # 0 => stepMode')
        /\ UNCHANGED << hostState, corePaused, suppressVblank, seeking, frameCounter, todo, loop,
                        percent >>
    BY <1>2 DEF PressFrameStep, PressFrameStepBack, PressFrameContinue, coreVars
  <2> QED
    BY <2>1, <2>2 DEF LoopInv
<1>3. CASE Looping
  <2>1. TapeInv'
    BY <1>3 DEF Looping, SetLoop, ClearLoop, TapeInv, vars, coreVars
  <2>2. loop' = << >> \/ loop' \in FrameNo \X FrameNo
    BY <1>3, StoredInRange DEF Looping, SetLoop, ClearLoop
  <2>3. UNCHANGED << hostState, corePaused, suppressVblank, seeking, frameCounter, todo,
                     percent, stepMode, stepPending >>
    BY <1>3 DEF Looping, SetLoop, ClearLoop, coreVars
  <2> QED
    BY <2>1, <2>2, <2>3 DEF LoopInv
<1>4. CASE Diffing
  <2>1. PICK from \in StoredNos, to \in StoredNos : Diff(from, to)
    BY <1>4 DEF Diffing
  <2>2. machine' \in States /\ frameCounter' \in FrameNo
    BY <2>1, DiffTape
  <2>3. UNCHANGED << vars, corePaused, suppressVblank, todo, userVars >>
    BY <2>1 DEF Diff
  <2> QED
    BY <2>2, <2>3 DEF TapeInv, LoopInv, vars, userVars
<1>5. CASE Pause \/ Continue
  <2>1. TapeInv'
    BY <1>5 DEF Pause, Continue, TapeInv, vars
  <2> QED
    BY <1>5, <2>1 DEF Pause, Continue, LoopInv, userVars
<1> QED
  BY <1>1, <1>2, <1>3, <1>4, <1>5 DEF Stepping

LEMMA StepSpecStep ==
  ASSUME SameSize, TapeInv, LoopInv,
         [Runtime \/ Stepping \/ Looping \/ Diffing \/ Pause \/ Continue]_timelineVars
  PROVE  TapeInv' /\ LoopInv'
<1>1. CASE UNCHANGED timelineVars
  BY <1>1 DEF timelineVars, TapeInv, LoopInv
<1> QED
  BY <1>1, RuntimeTape, CommandsTape

LEMMA StepSpecInit ==
  ASSUME TimelineInit
  PROVE  TapeInv /\ LoopInv
<1>1. LevelsOK(EmptyBuffer) /\ Labelled(EmptyBuffer)
  <2>1. \A i \in Level : Size(EmptyBuffer, i) = 0
    BY DEF Size, EmptyBuffer, EmptyLevel
  <2> QED
    BY <2>1, EmptyBufferOK DEF BufferOK, Labelled
<1>2. EmptyBuffer.currentFrameNo = 0 /\ 0 \in 0 .. LevelCount /\ SeekSteps \in Percent
  BY LevelsAssumption, SeekStepsAssumption DEF EmptyBuffer, Percent
<1>3. << >> \in Seq({"run", "capture", "back", "next"})
  OBVIOUS
<1> QED
  BY <1>1, <1>2, <1>3, FrameNoIsNat DEF TimelineInit, Init, TapeInv, LoopInv

\* Whatever is recorded, restored, stepped, looped over and compared, the machine
\* is in one of its states: runtime_executeFrame and the diff command give the
\* core nothing but states it has been in, and every label is in range.
THEOREM TimelineTyped ==
  ASSUME SameSize
  PROVE  StepSpec => []TimelineTypeOK
<1>1. TimelineInit => TapeInv /\ LoopInv
  BY StepSpecInit
<1>2. TapeInv /\ LoopInv
        /\ [Runtime \/ Stepping \/ Looping \/ Diffing \/ Pause \/ Continue]_timelineVars
      => (TapeInv /\ LoopInv)'
  BY StepSpecStep
<1>3. TapeInv /\ LoopInv => TimelineTypeOK
  BY LabelledSlots DEF TapeInv, LoopInv, TimelineTypeOK
<1> QED
  BY <1>1, <1>2, <1>3, PTL DEF StepSpec

\* The oldest frame of every level can be reconstructed also when frames are
\* recorded out of order, by stepping back and by looping: state_buffer_capture
\* takes its differences against the last frame captured, whatever was restored
\* since.
THEOREM OldestReconstructableStepping ==
  ASSUME SameSize
  PROVE  StepSpec => []OldestReconstructable
<1>1. TimelineInit => TapeInv /\ LoopInv
  BY StepSpecInit
<1>2. TapeInv /\ LoopInv
        /\ [Runtime \/ Stepping \/ Looping \/ Diffing \/ Pause \/ Continue]_timelineVars
      => (TapeInv /\ LoopInv)'
  BY StepSpecStep
<1>3. TapeInv => OldestReconstructable
  <2> SUFFICES ASSUME TapeInv, NEW buf \in Buffers, NEW i \in Level,
                      buf.levels[i].frames # << >>
               PROVE  CanReconstruct(buf.levels[i].frames, 1)
    BY DEF OldestReconstructable
  <2> DEFINE frames == buf.levels[i].frames
  <2>1. LevelsOK(buf)
    BY EmptyBufferOK DEF TapeInv, Buffers, BufferOK
  <2>2. Chain(frames) /\ frames \in Seq(Frame) /\ frames # << >>
    BY <2>1 DEF LevelsOK, LevelOK, Chain
  <2> HIDE DEF frames
  <2>3. 1 \in 1 .. Len(frames)
    BY <2>2
  <2>4. CanReconstruct(frames, 1)
    BY <2>2, <2>3, ReconstructExact
  <2> QED
    BY <2>4 DEF frames
<1> QED
  BY <1>1, <1>2, <1>3, PTL DEF StepSpec

-----------------------------------------------------------------------------
(* Recording and seeking: the labels *)

\* What the order of the labels needs to know of frames, levels and buffers:
\* that they are records and sequences, whatever the frames reconstruct to.
IsFrame(f) ==
  /\ f = [frame_no |-> f.frame_no, is_keyframe |-> f.is_keyframe,
          state_size |-> f.state_size, payload |-> f.payload, captured |-> f.captured]
  /\ f.frame_no \in 0 .. MaxFrameNo

IsList(s, n) == n \in Nat /\ s = [k \in 1 .. n |-> s[k]] /\ Len(s) = n

IsTape(frames) ==
  /\ \E S : frames \in Seq(S)
  /\ \A k \in 1 .. Len(frames) : IsFrame(frames[k])

IsLevel(lvl) ==
  /\ lvl = [frames |-> lvl.frames, totalBytes |-> lvl.totalBytes, prevState |-> lvl.prevState]
  /\ IsTape(lvl.frames)

HasTapes(buf) ==
  /\ IsBuffer(buf)
  /\ buf.levels = [i \in Level |-> buf.levels[i]]
  /\ \A i \in Level : IsLevel(buf.levels[i])

LEMMA TapeShape ==
  ASSUME NEW frames, IsTape(frames)
  PROVE  /\ Len(frames) \in Nat
         /\ frames = [k \in 1 .. Len(frames) |-> frames[k]]
         /\ \A k \in 1 .. Len(frames) :
              frames[k].frame_no \in 0 .. MaxFrameNo /\ frames[k].frame_no \in Nat
<1>1. PICK S : frames \in Seq(S)
  BY DEF IsTape
<1>2. Len(frames) \in Nat /\ frames = [k \in 1 .. Len(frames) |-> frames[k]]
  BY <1>1, LenProperties
<1> QED
  BY <1>2, MaxFrameNoAssumption DEF IsTape, IsFrame

\* A list of frames is a tape.
LEMMA TapeOf ==
  ASSUME NEW n \in Nat, NEW frames, frames = [k \in 1 .. n |-> frames[k]],
         \A k \in 1 .. n : IsFrame(frames[k])
  PROVE  IsTape(frames) /\ Len(frames) = n
<1> DEFINE S == {frames[k] : k \in 1 .. n}
<1>1. frames \in [1 .. n -> S]
  <2>1. \A k \in 1 .. n : frames[k] \in S
    OBVIOUS
  <2> HIDE DEF S
  <2> QED
    BY <2>1
<1> HIDE DEF S
<1>2. frames \in Seq(S) /\ Len(frames) = n
  BY <1>1
<1> QED
  BY <1>2 DEF IsTape

LEMMA LevelOf ==
  ASSUME NEW frames, IsTape(frames), NEW bytes, NEW prev, NEW out,
         out = [frames |-> frames, totalBytes |-> bytes, prevState |-> prev]
  PROVE  IsLevel(out) /\ out.frames = frames
BY DEF IsLevel

LEMMA KeyedFrame ==
  ASSUME NEW f, NEW b, NEW key, NEW g,
         f = [frame_no |-> f.frame_no, is_keyframe |-> f.is_keyframe,
              state_size |-> f.state_size, payload |-> f.payload, captured |-> f.captured],
         g = [[f EXCEPT !.payload = key] EXCEPT !.is_keyframe = b]
  PROVE  g = [frame_no |-> f.frame_no, is_keyframe |-> b, state_size |-> f.state_size,
              payload |-> key, captured |-> f.captured]
OBVIOUS

\* What becomes of frame n + 1: a keyframe, unless its state is of another size
\* than that of the first frame.
MadeKey(f, frames, n) ==
  \/ /\ f = frames[n + 1]
     /\ f.is_keyframe \/ f.state_size # frames[1].state_size
  \/ /\ f.is_keyframe /\ f.state_size = frames[n + 1].state_size
     /\ f.payload = Replay(frames, 1, n + 1)[n + 1]

\* Making a frame a keyframe changes no label.
LEMMA ConvertLabels ==
  ASSUME NEW frames, IsTape(frames), NEW n \in Nat, n < Len(frames), NEW out,
         out = ConvertNewOldest(frames, n)
  PROVE  /\ IsTape(out) /\ Len(out) = Len(frames)
         /\ \A k \in 1 .. Len(frames) : /\ out[k].frame_no = frames[k].frame_no
                                        /\ out[k].captured = frames[k].captured
                                        /\ k # n + 1 => out[k] = frames[k]
         /\ MadeKey(out[n + 1], frames, n)
<1> DEFINE key == Replay(frames, 1, n + 1)[n + 1]
           f   == frames[n + 1]
           g   == [frame_no |-> f.frame_no, is_keyframe |-> TRUE,
                   state_size |-> f.state_size, payload |-> key, captured |-> f.captured]
<1>1. /\ Len(frames) \in Nat /\ frames = [k \in 1 .. Len(frames) |-> frames[k]]
      /\ \A k \in 1 .. Len(frames) : IsFrame(frames[k])
  BY TapeShape DEF IsTape
<1>2. CASE /\ out = frames
           /\ frames[n + 1].is_keyframe \/ frames[n + 1].state_size # frames[1].state_size
  BY <1>2 DEF MadeKey
<1>3. CASE out = [frames EXCEPT ![n + 1].payload = key, ![n + 1].is_keyframe = TRUE]
  <2>1. n + 1 \in 1 .. Len(frames) /\ IsFrame(f)
    BY <1>1
  <2> HIDE DEF key
  <2>2. [[f EXCEPT !.payload = key] EXCEPT !.is_keyframe = TRUE] = g
    <3>1. f = [frame_no |-> f.frame_no, is_keyframe |-> f.is_keyframe,
               state_size |-> f.state_size, payload |-> f.payload, captured |-> f.captured]
      BY <2>1 DEF IsFrame
    <3> DEFINE h == [[f EXCEPT !.payload = key] EXCEPT !.is_keyframe = TRUE]
    <3>2. h = [[f EXCEPT !.payload = key] EXCEPT !.is_keyframe = TRUE]
      OBVIOUS
    <3> HIDE DEF f, h
    <3>3. h = g
      BY <3>1, <3>2, KeyedFrame
    <3> QED
      BY <3>3 DEF h
  <2>3. out = [frames EXCEPT ![n + 1] = g]
    BY <2>1, <2>2, <1>1, <1>3
  <2>4. /\ IsFrame(g) /\ g.frame_no = f.frame_no /\ g.captured = f.captured
        /\ g.is_keyframe /\ g.state_size = f.state_size /\ g.payload = key
    BY <2>1 DEF IsFrame
  <2>5. \A k \in 1 .. Len(frames) : out[k] = IF k = n + 1 THEN g ELSE frames[k]
    BY <1>1, <2>3
  <2>6. out = [k \in 1 .. Len(frames) |-> out[k]]
    BY <1>1, <2>3
  <2> HIDE DEF g
  <2>7. \A k \in 1 .. Len(frames) : IsFrame(out[k])
    BY <1>1, <2>4, <2>5
  <2>8. IsTape(out) /\ Len(out) = Len(frames)
    BY <1>1, <2>6, <2>7, TapeOf
  <2>9. MadeKey(out[n + 1], frames, n)
    BY <2>1, <2>4, <2>5 DEF MadeKey, key
  <2> QED
    BY <2>4, <2>5, <2>8, <2>9
<1> QED
  BY <1>2, <1>3 DEF ConvertNewOldest

\* What is left of a level keeps its labels.
LEMMA LeftLabels ==
  ASSUME NEW lvl, IsLevel(lvl), NEW n \in 0 .. Len(lvl.frames), NEW left,
         LeftOf(lvl, n, left)
  PROVE  /\ IsLevel(left)
         /\ Len(left.frames) = Len(lvl.frames) - n
         /\ \A k \in 1 .. Len(left.frames) :
              left.frames[k].frame_no = lvl.frames[n + k].frame_no
         /\ \A k \in 1 .. Len(left.frames) :
              left.frames[k].captured = lvl.frames[n + k].captured
         /\ \A k \in 2 .. Len(left.frames) : left.frames[k] = lvl.frames[n + k]
         /\ Len(left.frames) >= 1 => MadeKey(left.frames[1], lvl.frames, n)
<1> DEFINE N == Len(lvl.frames)
<1>0. IsTape(lvl.frames) /\ N \in Nat
  BY TapeShape DEF IsLevel
<1>1. CASE n < N /\ left = DropConverted(lvl, n)
  <2> DEFINE conv  == ConvertNewOldest(lvl.frames, n)
             rest  == SubSeq(conv, n + 1, Len(conv))
             bytes == lvl.totalBytes - PayloadSize(lvl.frames[n + 1]) + PayloadSize(conv[n + 1])
                        - PrefixBytes(lvl.frames, n)
  <2>1. n \in Nat /\ n < Len(lvl.frames)
    BY <1>0, <1>1
  <2>2. /\ IsTape(conv) /\ Len(conv) = N
        /\ \A k \in 1 .. N : /\ conv[k].frame_no = lvl.frames[k].frame_no
                             /\ conv[k].captured = lvl.frames[k].captured
                             /\ k # n + 1 => conv[k] = lvl.frames[k]
        /\ MadeKey(conv[n + 1], lvl.frames, n)
    BY <1>0, <2>1, ConvertLabels
  <2>3. left = [lvl EXCEPT !.frames = rest, !.totalBytes = bytes]
    BY <1>1 DEF DropConverted, IsLevel
  <2>4. left = [frames |-> rest, totalBytes |-> bytes, prevState |-> lvl.prevState]
    <3> HIDE DEF rest, bytes
    <3> QED
      BY <2>3 DEF IsLevel
  <2> HIDE DEF bytes, conv
  <2>5. /\ rest = [k \in 1 .. N - n |-> rest[k]] /\ N - n \in Nat
        /\ \A k \in 1 .. N - n : rest[k] = conv[n + k] /\ n + k \in 1 .. N
    <3>1. PICK S : conv \in Seq(S)
      BY <2>2 DEF IsTape
    <3>2. /\ rest \in Seq(S) /\ Len(rest) = N - n
          /\ \A k \in 1 .. N - n : rest[k] = conv[n + k]
      <4>1. \A k \in n + 1 .. N : conv[k] \in S
        BY <3>1, <2>1, <2>2, ElementOfSeq
      <4>2. /\ SubSeq(conv, n + 1, N) \in Seq(S)
            /\ Len(SubSeq(conv, n + 1, N)) = IF n + 1 <= N THEN N - (n + 1) + 1 ELSE 0
            /\ \A k \in 1 .. N - (n + 1) + 1 : SubSeq(conv, n + 1, N)[k] = conv[n + 1 + k - 1]
        BY <4>1, <2>1, <1>0, SubSeqProperties
      <4>3. N - (n + 1) + 1 = N - n /\ \A k \in 1 .. N - n : n + 1 + k - 1 = n + k
        BY <2>1, <1>0
      <4> QED
        BY <4>2, <4>3, <2>1, <2>2, <1>0
    <3>3. rest = [k \in 1 .. N - n |-> rest[k]]
      BY <3>2, LenProperties
    <3> QED
      BY <3>2, <3>3, <1>0, <2>1
  <2> HIDE DEF rest
  <2>6. \A k \in 1 .. N - n : IsFrame(rest[k])
    BY <2>2, <2>5 DEF IsTape
  <2>7. IsTape(rest) /\ Len(rest) = N - n
    BY <2>5, <2>6, TapeOf
  <2>8. IsLevel(left) /\ left.frames = rest
    BY <2>4, <2>7, LevelOf
  <2>9. /\ \A k \in 2 .. N - n : rest[k] = lvl.frames[n + k]
        /\ N - n >= 1 => MadeKey(rest[1], lvl.frames, n)
    <3>1. \A k \in 2 .. N - n : k \in 1 .. N - n /\ n + k \in 1 .. N /\ n + k # n + 1
      BY <1>0, <2>1
    <3>2. \A k \in 2 .. N - n : rest[k] = lvl.frames[n + k]
      <4> TAKE k \in 2 .. N - n
      <4>1. rest[k] = conv[n + k]
        BY <3>1, <2>5
      <4>2. conv[n + k] = lvl.frames[n + k]
        BY <3>1, <2>2
      <4> QED
        BY <4>1, <4>2
    <3>3. N - n >= 1 => rest[1] = conv[n + 1]
      <4>1. N - n >= 1 => 1 \in 1 .. N - n
        BY <2>5
      <4> QED
        BY <4>1, <2>5
    <3> QED
      BY <3>2, <3>3, <2>2
  <2> QED
    BY <2>2, <2>5, <2>7, <2>8, <2>9
<1>2. CASE n = N /\ ~(n < N)
  <2>1. PICK bytes, prev :
          left = [frames |-> << >>, totalBytes |-> bytes, prevState |-> prev]
    <3> DEFINE b == lvl.totalBytes - PrefixBytes(lvl.frames, n)
    <3>1. \/ left = [lvl EXCEPT !.frames = << >>, !.totalBytes = b]
          \/ left = [lvl EXCEPT !.frames = << >>, !.prevState = NoState, !.totalBytes = b]
      BY <1>2 DEF LeftOf, IsLevel
    <3> HIDE DEF b
    <3>2. \/ left = [frames |-> << >>, totalBytes |-> b, prevState |-> lvl.prevState]
          \/ left = [frames |-> << >>, totalBytes |-> b, prevState |-> NoState]
      BY <3>1 DEF IsLevel
    <3> QED
      BY <3>2
  <2>2. IsTape(<< >>) /\ Len(<< >>) = 0
    <3>1. << >> \in Seq({})
      OBVIOUS
    <3> QED
      BY <3>1 DEF IsTape
  <2>3. IsLevel(left) /\ left.frames = << >>
    BY <2>1, <2>2, LevelOf
  <2> QED
    BY <2>2, <2>3, <1>0, <1>2
<1> QED
  BY <1>0, <1>1, <1>2 DEF LeftOf

\* f stores the item at position k of a level, against some previous state, or
\* none at the first position.
StoredAt(f, item, k) ==
  \E prev : f = StoredFrame(prev, item) /\ (k = 1 => prev = NoState)

\* Appended states come after the frames of a level, under their labels.
LEMMA AppendTape ==
  ASSUME NEW lvl, IsLevel(lvl), NEW m \in Nat, NEW items, IsList(items, m),
         \A j \in 1 .. m : items[j].frame_no \in 0 .. MaxFrameNo,
         NEW out, out = AppendStates(lvl, items)
  PROVE  /\ IsLevel(out)
         /\ Len(out.frames) = Len(lvl.frames) + m
         /\ \A k \in 1 .. Len(lvl.frames) : out.frames[k] = lvl.frames[k]
         /\ \A j \in 1 .. m : out.frames[Len(lvl.frames) + j].frame_no = items[j].frame_no
         /\ \A j \in 1 .. m : out.frames[Len(lvl.frames) + j].captured = items[j].captured
         /\ \A j \in 1 .. m :
              StoredAt(out.frames[Len(lvl.frames) + j], items[j], Len(lvl.frames) + j)
<1> DEFINE old     == lvl.frames
           N       == Len(old)
           prev(j) == IF j > 1 THEN items[j - 1].state
                      ELSE IF lvl.frames = << >> THEN NoState ELSE lvl.prevState
           new     == [j \in 1 .. m |-> StoredFrame(prev(j), items[j])]
           bytes   == lvl.totalBytes + PrefixBytes(new, Len(new))
           prevOut == IF items = << >> THEN lvl.prevState ELSE items[Len(items)].state
<1>0. Len(items) = m
  BY DEF IsList
<1>1. out = [frames |-> old \o new, totalBytes |-> bytes, prevState |-> prevOut]
  BY <1>0 DEF AppendStates
<1>2. /\ new = [j \in 1 .. m |-> new[j]]
      /\ \A j \in 1 .. m : /\ IsFrame(new[j])
                           /\ new[j].frame_no = items[j].frame_no
                           /\ new[j].captured = items[j].captured
                           /\ StoredAt(new[j], items[j], N + j)
  <2>1. \A p, item : item.frame_no \in 0 .. MaxFrameNo =>
          /\ IsFrame(StoredFrame(p, item))
          /\ StoredFrame(p, item).frame_no = item.frame_no
          /\ StoredFrame(p, item).captured = item.captured
    BY DEF StoredFrame, IsFrame
  <2>2. \A j \in 1 .. m : new[j] = StoredFrame(prev(j), items[j])
    OBVIOUS
  <2>3. new = [j \in 1 .. m |-> new[j]]
    OBVIOUS
  <2>4. ASSUME N = 0
        PROVE  prev(1) = NoState
    <3>1. PICK S : old \in Seq(S)
      BY DEF IsLevel, IsTape
    <3>2. old = << >>
      <4> HIDE DEF old
      <4> QED
        BY <2>4, <3>1, EmptySeq
    <3> QED
      BY <3>2
  <2> HIDE DEF new, prev
  <2>5. \A j \in 1 .. m : StoredAt(new[j], items[j], N + j)
    <3>1. N \in Nat
      BY TapeShape DEF IsLevel
    <3>2. \A j \in 1 .. m : N + j = 1 => N = 0 /\ j = 1
      BY <3>1
    <3>3. \A j \in 1 .. m : N + j = 1 => prev(j) = NoState
      BY <2>4, <3>2
    <3> QED
      BY <2>2, <3>3 DEF StoredAt
  <2> QED
    BY <2>1, <2>2, <2>3, <2>5
<1>3. IsTape(old) /\ N \in Nat
  BY TapeShape DEF IsLevel
<1> HIDE DEF new, bytes, prevOut, old
<1>4. IsTape(new) /\ Len(new) = m
  BY <1>2, TapeOf
<1> DEFINE both == old \o new
<1>5. /\ both = [k \in 1 .. N + m |-> both[k]]
      /\ \A k \in 1 .. N : both[k] = old[k]
      /\ \A j \in 1 .. m : both[N + j] = new[j]
  <2>1. PICK S : old \in Seq(S)
    BY <1>3 DEF IsTape
  <2>2. PICK T : new \in Seq(T)
    BY <1>4 DEF IsTape
  <2>3. old \in Seq(S \cup T) /\ new \in Seq(S \cup T)
    BY <2>1, <2>2
  <2>4. /\ both \in Seq(S \cup T) /\ Len(both) = N + m
        /\ \A k \in 1 .. N + m : both[k] = IF k <= N THEN old[k] ELSE new[k - N]
    BY <2>3, <1>4, ConcatProperties
  <2>5. both = [k \in 1 .. N + m |-> both[k]]
    BY <2>4, LenProperties
  <2>6. \A k \in 1 .. N : k \in 1 .. N + m /\ k <= N
    BY <1>3
  <2>7. \A j \in 1 .. m : N + j \in 1 .. N + m /\ ~(N + j <= N) /\ N + j - N = j
    BY <1>3
  <2> QED
    BY <2>4, <2>5, <2>6, <2>7
<1> HIDE DEF both
<1>6. \A k \in 1 .. N + m : IsFrame(both[k])
  <2> TAKE k \in 1 .. N + m
  <2>1. CASE k \in 1 .. N
    BY <2>1, <1>3, <1>5 DEF IsTape
  <2>2. CASE k \notin 1 .. N
    <3>1. k - N \in 1 .. m /\ N + (k - N) = k
      BY <2>2, <1>3
    <3> QED
      BY <3>1, <1>2, <1>5
  <2> QED
    BY <2>1, <2>2
<1>7. IsTape(both) /\ Len(both) = N + m
  <2>1. N + m \in Nat
    BY <1>3
  <2> QED
    BY <2>1, <1>5, <1>6, TapeOf
<1>8. IsLevel(out) /\ out.frames = both
  BY <1>1, <1>7, LevelOf DEF both
<1>9. \A j \in 1 .. m : StoredAt(both[N + j], items[j], N + j)
  <2> TAKE j \in 1 .. m
  <2>1. both[N + j] = new[j]
    BY <1>5
  <2> QED
    BY <2>1, <1>2
<1>10. \A j \in 1 .. m : both[N + j].frame_no = items[j].frame_no
  BY <1>2, <1>5
<1>11. \A j \in 1 .. m : both[N + j].captured = items[j].captured
  BY <1>2, <1>5
<1>12. lvl.frames = old /\ out.frames = both /\ Len(both) = N + m /\ IsLevel(out)
  BY <1>7, <1>8 DEF old
<1>13. \A k \in 1 .. N : both[k] = old[k]
  BY <1>5
<1> QED
  BY <1>9, <1>10, <1>11, <1>12, <1>13

\* What promotion takes along has the labels of every second frame.
LEMMA ItemLabels ==
  ASSUME NEW frames, IsTape(frames), NEW n \in 0 .. Len(frames), NEW items,
         items = PromotedItems(frames, n)
  PROVE  /\ IsList(items, (n + 1) \div 2)
         /\ \A j \in 1 .. (n + 1) \div 2 : 2 * j - 1 \in 1 .. n
         /\ \A j \in 1 .. (n + 1) \div 2 : items[j].frame_no = frames[2 * j - 1].frame_no
         /\ \A j \in 1 .. (n + 1) \div 2 : items[j].captured = frames[2 * j - 1].captured
         /\ \A j \in 1 .. (n + 1) \div 2 : items[j].frame_no \in 0 .. MaxFrameNo
<1> DEFINE h    == (n + 1) \div 2
           work == Replay(frames, 1, n)
<1>0. Len(frames) \in Nat /\ n \in Nat
  BY TapeShape
<1>1. h \in Nat /\ \A j \in 1 .. h : 2 * j - 1 \in 1 .. n
  BY <1>0
<1>2. items = [j \in 1 .. h |->
                 Item(work[2*j - 1], frames[2*j - 1].frame_no, frames[2*j - 1].captured)]
  BY DEF PromotedItems
<1> HIDE DEF h, work
<1>3. Len(items) = h
  BY <1>1, <1>2
<1>4. \A j \in 1 .. h : /\ items[j].frame_no = frames[2 * j - 1].frame_no
                        /\ items[j].captured = frames[2 * j - 1].captured
  BY <1>2 DEF Item
<1>5. \A j \in 1 .. h : frames[2 * j - 1].frame_no \in 0 .. MaxFrameNo
  <2> TAKE j \in 1 .. h
  <2>1. 2 * j - 1 \in 1 .. Len(frames)
    BY <1>0, <1>1
  <2> QED
    BY <2>1, TapeShape
<1>6. items = [j \in 1 .. h |-> items[j]]
  BY <1>2
<1>7. IsList(items, h)
  BY <1>1, <1>3, <1>6 DEF IsList
<1> QED
  BY <1>1, <1>4, <1>5, <1>7 DEF h

LEMMA WithLevelTapes ==
  ASSUME NEW buf, HasTapes(buf), NEW i \in Level, NEW lvl, IsLevel(lvl), NEW out,
         out = WithLevel(buf, i, lvl)
  PROVE  /\ HasTapes(out)
         /\ \A j \in Level : out.levels[j] = IF j = i THEN lvl ELSE buf.levels[j]
<1>1. IsBuffer(out)
  BY WithLevelRelevels DEF HasTapes, Relevelled
<1>2. out.levels = [buf.levels EXCEPT ![i] = lvl]
  BY DEF WithLevel, HasTapes, IsBuffer
<1>3. \A j \in Level : out.levels[j] = IF j = i THEN lvl ELSE buf.levels[j]
  BY <1>2 DEF HasTapes
<1>4. out.levels = [j \in Level |-> out.levels[j]]
  BY <1>2 DEF HasTapes
<1> QED
  BY <1>1, <1>3, <1>4 DEF HasTapes

\* What promotion and dropping write: the levels they touch, and the others.
PromotedLevels(out, buf, i, n) ==
  /\ LeftOf(buf.levels[i], n, out.levels[i])
  /\ out.levels[i + 1] =
       AppendStates(buf.levels[i + 1], PromotedItems(buf.levels[i].frames, n))
  /\ \A j \in Level : j # i /\ j # i + 1 => out.levels[j] = buf.levels[j]

DroppedLevels(out, buf, i, n) ==
  /\ LeftOf(buf.levels[i], n, out.levels[i])
  /\ \A j \in Level : j # i => out.levels[j] = buf.levels[j]

\* They move the labels, as they move the states, whatever the frames
\* reconstruct to.
LEMMA TapesPromoted ==
  ASSUME NEW buf, HasTapes(buf), NEW i \in Level, i + 1 \in Level, NEW out,
         out = Promoted(buf, i)
  PROVE  /\ HasTapes(out)
         /\ \/ out = buf
            \/ /\ Promotes(out, buf, i, PromoteCount(buf, i))
               /\ PromotedLevels(out, buf, i, PromoteCount(buf, i))
<1> DEFINE src   == buf.levels[i]
           dst   == buf.levels[i + 1]
           n     == PromoteCount(buf, i)
           left  == IF n < Len(src.frames) THEN DropConverted(src, n)
                    ELSE [src EXCEPT !.frames = << >>,
                                     !.totalBytes = @ - PrefixBytes(src.frames, n)]
           items == PromotedItems(src.frames, n)
           grown == AppendStates(dst, items)
           mid   == WithLevel(buf, i, left)
           m     == Size(buf, i + 1)
           h     == (n + 1) \div 2
<1>0. /\ i \in Nat /\ IsLevel(src) /\ IsLevel(dst)
      /\ Size(buf, i) \in Nat /\ m \in Nat /\ n \in 0 .. Size(buf, i) /\ n \in Nat
      /\ Size(buf, i) = Len(src.frames) /\ m = Len(dst.frames)
      /\ IsTape(src.frames)
  <2>1. i \in Nat /\ IsLevel(src) /\ IsLevel(dst)
    BY DEF Level, HasTapes
  <2>2. IsTape(src.frames) /\ Size(buf, i) \in Nat /\ m \in Nat
    BY <2>1, TapeShape DEF IsLevel, Size
  <2>3. n \in 0 .. Size(buf, i)
    BY <2>2, CountToPromote
  <2> QED
    BY <2>1, <2>2, <2>3 DEF Size
<1>1. out = buf \/ out = WithLevel(mid, i + 1, grown)
  BY DEF Promoted
<1>2. LeftOf(src, n, left)
  BY <1>0 DEF LeftOf
<1>3. items = PromotedItems(src.frames, n) /\ grown = AppendStates(dst, items)
      /\ mid = WithLevel(buf, i, left)
  OBVIOUS
<1>a. CASE out = buf
  BY <1>a
<1> DEFINE Goal == /\ HasTapes(out) /\ Promotes(out, buf, i, n)
                   /\ PromotedLevels(out, buf, i, n)
<1> HIDE DEF items, grown, left, mid, n, src, dst, h
<1>4. /\ IsLevel(left)
      /\ Len(left.frames) = Size(buf, i) - n
      /\ \A k \in 1 .. Len(left.frames) :
           /\ left.frames[k].frame_no = No(buf, i, n + k)
           /\ left.frames[k].captured = State(buf, i, n + k)
  <2>1. n \in 0 .. Len(src.frames)
    BY <1>0
  <2>2. IsLevel(left)
    BY <1>0, <1>2, <2>1, LeftLabels
  <2>3. Len(left.frames) = Len(src.frames) - n
    BY <1>0, <1>2, <2>1, LeftLabels
  <2>4. \A k \in 1 .. Len(left.frames) : left.frames[k].frame_no = src.frames[n + k].frame_no
    BY <1>0, <1>2, <2>1, LeftLabels
  <2>5. \A k \in 1 .. Len(left.frames) : left.frames[k].captured = src.frames[n + k].captured
    BY <1>0, <1>2, <2>1, LeftLabels
  <2> QED
    BY <2>2, <2>3, <2>4, <2>5, <1>0 DEF No, State, src
<1>5. /\ IsList(items, h) /\ h \in Nat
      /\ \A j \in 1 .. h :
           /\ 2 * j - 1 \in 1 .. n
           /\ items[j].frame_no = No(buf, i, 2 * j - 1)
           /\ items[j].captured = State(buf, i, 2 * j - 1)
           /\ items[j].frame_no \in 0 .. MaxFrameNo
  <2>1. n \in 0 .. Len(src.frames)
    BY <1>0
  <2>2. IsList(items, (n + 1) \div 2)
    BY <1>0, <1>3, <2>1, ItemLabels
  <2>3. \A j \in 1 .. (n + 1) \div 2 : 2 * j - 1 \in 1 .. n
    BY <1>0, <1>3, <2>1, ItemLabels
  <2>4. \A j \in 1 .. (n + 1) \div 2 : items[j].frame_no = src.frames[2 * j - 1].frame_no
    BY <1>0, <1>3, <2>1, ItemLabels
  <2>5. \A j \in 1 .. (n + 1) \div 2 : items[j].captured = src.frames[2 * j - 1].captured
    BY <1>0, <1>3, <2>1, ItemLabels
  <2>6. \A j \in 1 .. (n + 1) \div 2 : items[j].frame_no \in 0 .. MaxFrameNo
    BY <1>0, <1>3, <2>1, ItemLabels
  <2>7. h \in Nat
    BY <2>2 DEF IsList, h
  <2> QED
    BY <2>2, <2>3, <2>4, <2>5, <2>6, <2>7 DEF No, State, src, h
<1>6. /\ IsLevel(grown)
      /\ Len(grown.frames) = m + h
      /\ \A k \in 1 .. m : grown.frames[k] = dst.frames[k]
      /\ \A j \in 1 .. h : /\ grown.frames[m + j].frame_no = items[j].frame_no
                           /\ grown.frames[m + j].captured = items[j].captured
  <2>1. /\ IsLevel(dst) /\ h \in Nat /\ IsList(items, h) /\ grown = AppendStates(dst, items)
        /\ \A j \in 1 .. h : items[j].frame_no \in 0 .. MaxFrameNo
    BY <1>0, <1>3, <1>5
  <2>2. IsLevel(grown)
    BY <2>1, AppendTape
  <2>3. Len(grown.frames) = Len(dst.frames) + h
    BY <2>1, AppendTape
  <2>4. \A k \in 1 .. Len(dst.frames) : grown.frames[k] = dst.frames[k]
    BY <2>1, AppendTape
  <2>5. \A j \in 1 .. h : grown.frames[Len(dst.frames) + j].frame_no = items[j].frame_no
    <3>1. \A from, to : IsLevel(from) /\ to = AppendStates(from, items) =>
            \A j \in 1 .. h : to.frames[Len(from.frames) + j].frame_no = items[j].frame_no
      BY <2>1, AppendTape, SMTT(40)
    <3> QED
      BY <2>1, <3>1
  <2>6. \A j \in 1 .. h : grown.frames[Len(dst.frames) + j].captured = items[j].captured
    <3>1. \A from, to : IsLevel(from) /\ to = AppendStates(from, items) =>
            \A j \in 1 .. h : to.frames[Len(from.frames) + j].captured = items[j].captured
      BY <2>1, AppendTape, SMTT(40)
    <3> QED
      BY <2>1, <3>1
  <2> QED
    BY <2>2, <2>3, <2>4, <2>5, <2>6, <1>0
<1> SUFFICES ASSUME out = WithLevel(mid, i + 1, grown)
             PROVE  Goal
  BY <1>1, <1>a DEF n
<1>7. /\ HasTapes(out)
      /\ \A j \in Level : out.levels[j] = IF j = i + 1 THEN grown
                                          ELSE IF j = i THEN left ELSE buf.levels[j]
  <2>1. /\ HasTapes(mid)
        /\ \A j \in Level : mid.levels[j] = IF j = i THEN left ELSE buf.levels[j]
    BY <1>3, <1>4, WithLevelTapes
  <2>2. /\ HasTapes(out)
        /\ \A j \in Level : out.levels[j] = IF j = i + 1 THEN grown ELSE mid.levels[j]
    BY <2>1, <1>6, WithLevelTapes
  <2> QED
    BY <2>1, <2>2
<1>8. i # i + 1 /\ out.levels[i] = left /\ out.levels[i + 1] = grown
  BY <1>0, <1>7
<1>9. /\ Size(out, i) = Size(buf, i) - n
      /\ Size(out, i + 1) = m + h
  BY <1>4, <1>6, <1>8 DEF Size
<1>10. \A k \in 1 .. Size(out, i) : Same(out, i, k, buf, i, n + k)
  <2> TAKE k \in 1 .. Size(out, i)
  <2>1. k \in 1 .. Len(left.frames)
    BY <1>8 DEF Size
  <2>2. n + k \in 1 .. Size(buf, i)
    BY <2>1, <1>0, <1>4
  <2> QED
    BY <2>1, <2>2, <1>4, <1>8 DEF Same, No, State
<1>11. \A k \in 1 .. m : Same(out, i + 1, k, buf, i + 1, k)
  BY <1>6, <1>8 DEF Same, No, State, m, dst
<1>12. \A j \in 1 .. h : 2 * j - 1 <= n /\ Same(out, i + 1, m + j, buf, i, 2 * j - 1)
  <2> TAKE j \in 1 .. h
  <2>1. 2 * j - 1 \in 1 .. n
    BY <1>5
  <2>2. 2 * j - 1 \in 1 .. Size(buf, i) /\ 2 * j - 1 <= n
    BY <2>1, <1>0
  <2>3. /\ grown.frames[m + j].frame_no = No(buf, i, 2 * j - 1)
        /\ grown.frames[m + j].captured = State(buf, i, 2 * j - 1)
    BY <1>5, <1>6
  <2> QED
    BY <2>2, <2>3, <1>8 DEF Same, No, State
<1>13. \A j \in Level : j # i /\ j # i + 1 => out.levels[j] = buf.levels[j]
  BY <1>7
<1>14. Promotes(out, buf, i, n)
  BY <1>9, <1>10, <1>11, <1>12, <1>13 DEF Promotes, m, h
<1>15. PromotedLevels(out, buf, i, n)
  BY <1>2, <1>3, <1>8, <1>13 DEF PromotedLevels, src, dst
<1> QED
  BY <1>7, <1>14, <1>15

LEMMA TapesDropped ==
  ASSUME NEW buf, HasTapes(buf), NEW i \in Level, NEW out, out = DroppedOldest(buf, i)
  PROVE  /\ HasTapes(out)
         /\ \E n \in 0 .. Size(buf, i) :
              Drops(out, buf, i, n) /\ (out = buf \/ DroppedLevels(out, buf, i, n))
<1> DEFINE src  == buf.levels[i]
           n    == FramesToFree(src.frames, src.totalBytes - Budget(i))
           left == IF n < Len(src.frames) THEN DropConverted(src, n)
                   ELSE [src EXCEPT !.frames = << >>, !.prevState = NoState,
                                    !.totalBytes = @ - PrefixBytes(src.frames, n)]
<1>0. out = buf \/ out = WithLevel(buf, i, left)
  BY DEF DroppedOldest
<1>1. /\ IsLevel(src) /\ Size(buf, i) \in Nat
      /\ n \in 0 .. Size(buf, i) /\ Size(buf, i) = Len(src.frames)
  <2>1. IsLevel(src) /\ IsTape(src.frames) /\ Size(buf, i) \in Nat
    BY TapeShape DEF HasTapes, IsLevel, Size
  <2>2. n \in 0 .. Len(src.frames)
    BY <2>1, FreeCount DEF Size
  <2> QED
    BY <2>1, <2>2 DEF Size
<1>2. LeftOf(src, n, left)
  BY <1>1 DEF LeftOf
<1> HIDE DEF left, n, src
<1>3. /\ IsLevel(left)
      /\ Len(left.frames) = Size(buf, i) - n
      /\ \A k \in 1 .. Len(left.frames) :
           /\ left.frames[k].frame_no = No(buf, i, n + k)
           /\ left.frames[k].captured = State(buf, i, n + k)
  <2>1. n \in 0 .. Len(src.frames)
    BY <1>1
  <2>2. IsLevel(left)
    BY <1>1, <1>2, <2>1, LeftLabels
  <2>3. Len(left.frames) = Len(src.frames) - n
    BY <1>1, <1>2, <2>1, LeftLabels
  <2>4. \A k \in 1 .. Len(left.frames) : left.frames[k].frame_no = src.frames[n + k].frame_no
    BY <1>1, <1>2, <2>1, LeftLabels
  <2>5. \A k \in 1 .. Len(left.frames) : left.frames[k].captured = src.frames[n + k].captured
    BY <1>1, <1>2, <2>1, LeftLabels
  <2> QED
    BY <2>2, <2>3, <2>4, <2>5, <1>1 DEF No, State, src
<1>4. CASE out = buf
  <2>1. 0 \in 0 .. Size(buf, i) /\ \A k \in 1 .. Size(buf, i) : 0 + k = k
    BY <1>1
  <2>2. Size(out, i) = Size(buf, i) - 0
    BY <1>4, <1>1
  <2>3. Drops(out, buf, i, 0)
    BY <1>4, <2>1, <2>2 DEF Drops, Same
  <2> QED
    BY <1>4, <2>1, <2>3
<1>5. CASE out = WithLevel(buf, i, left)
  <2>1. /\ HasTapes(out)
        /\ \A j \in Level : out.levels[j] = IF j = i THEN left ELSE buf.levels[j]
    BY <1>3, <1>5, WithLevelTapes
  <2>2. \A k \in 1 .. Size(out, i) : Same(out, i, k, buf, i, n + k)
    <3> TAKE k \in 1 .. Size(out, i)
    <3>1. k \in 1 .. Len(left.frames)
      BY <2>1 DEF Size
    <3>2. n + k \in 1 .. Size(buf, i)
      BY <3>1, <1>1, <1>3
    <3> QED
      BY <3>1, <3>2, <1>3, <2>1 DEF Same, No, State
  <2>3. Drops(out, buf, i, n)
    BY <1>3, <2>1, <2>2 DEF Drops, Size
  <2>4. DroppedLevels(out, buf, i, n)
    BY <1>2, <2>1 DEF DroppedLevels, src
  <2> QED
    BY <1>1, <2>1, <2>3, <2>4
<1> QED
  BY <1>0, <1>4, <1>5

\* A label never comes before one of an older frame.
InOrder(buf) ==
  \A p, q \in Level : \A k \in 1 .. Size(buf, p) : \A l \in 1 .. Size(buf, q) :
    Older(p, k, q, l) => No(buf, p, k) <= No(buf, q, l)

UpTo(buf, no) == \A i \in Level : \A k \in 1 .. Size(buf, i) : No(buf, i, k) <= no

LEMMA TapeSizes ==
  ASSUME NEW buf, HasTapes(buf)
  PROVE  \A i \in Level :
           /\ Size(buf, i) \in Nat
           /\ \A k \in 1 .. Size(buf, i) :
                No(buf, i, k) \in 0 .. MaxFrameNo /\ No(buf, i, k) \in Nat
BY TapeShape DEF HasTapes, IsLevel, Size, No

LEMMA SameTapes ==
  ASSUME NEW buf, HasTapes(buf), NEW out, IsBuffer(out), out.levels = buf.levels
  PROVE  /\ HasTapes(out)
         /\ InOrder(buf) => InOrder(out)
         /\ \A no : UpTo(buf, no) => UpTo(out, no)
         /\ \A i : Size(out, i) = Size(buf, i)
         /\ \A i, k : No(out, i, k) = No(buf, i, k)
BY DEF HasTapes, InOrder, UpTo, Size, No

\* The oldest frames of a level go to the next, or go: the order stays, and no
\* label is new.
LEMMA TrimOrder ==
  ASSUME NEW buf, HasTapes(buf), InOrder(buf), NEW i \in Level, NEW out,
         \/ out = Promoted(buf, i) /\ i + 1 \in Level
         \/ out = DroppedOldest(buf, i)
  PROVE  HasTapes(out) /\ InOrder(out) /\ \A no : UpTo(buf, no) => UpTo(out, no)
<1>0. \A j \in Level : Size(buf, j) \in Nat
  BY TapeSizes
<1>1. CASE out = Promoted(buf, i) /\ i + 1 \in Level /\ out # buf
  <2> DEFINE n == PromoteCount(buf, i)
             m == Size(buf, i + 1)
             h == (n + 1) \div 2
  <2>1. HasTapes(out) /\ Promotes(out, buf, i, n)
    BY <1>1, TapesPromoted
  <2>2. n \in 0 .. Size(buf, i) /\ m \in Nat /\ n \in Nat
    BY <1>0, <1>1, CountToPromote
  <2>3. \A j \in Level : Size(out, j) \in Nat
    BY <2>1, TapeSizes
  <2> HIDE DEF n, m
  <2>4. InOrder(out)
    <3> SUFFICES ASSUME NEW p \in Level, NEW q \in Level,
                        NEW k \in 1 .. Size(out, p), NEW l \in 1 .. Size(out, q),
                        Older(p, k, q, l)
                 PROVE  No(out, p, k) <= No(out, q, l)
      BY DEF InOrder
    <3>0. /\ i + 1 \in Level /\ Promotes(out, buf, i, n) /\ n \in 0 .. Size(buf, i)
          /\ \A j \in Level : Size(buf, j) \in Nat /\ Size(out, j) \in Nat
      BY <1>0, <1>1, <2>1, <2>2, <2>3
    <3>1. PICK p2, k2, q2, l2 : /\ Same(out, p, k, buf, p2, k2)
                                /\ Same(out, q, l, buf, q2, l2)
                                /\ Older(p2, k2, q2, l2)
      BY <3>0, PromotesOlder
    <3>2. No(buf, p2, k2) <= No(buf, q2, l2)
      BY <3>1 DEF Same, InOrder
    <3> QED
      BY <3>1, <3>2 DEF Same
  <2>5. \A no : UpTo(buf, no) => UpTo(out, no)
    <3> SUFFICES ASSUME NEW no, UpTo(buf, no), NEW j \in Level, NEW k \in 1 .. Size(out, j)
                 PROVE  No(out, j, k) <= no
      BY DEF UpTo
    <3>1. \A q, l : Same(out, j, k, buf, q, l) => No(out, j, k) <= no
      BY DEF Same, UpTo
    <3>2. CASE j # i /\ j # i + 1
      BY <2>1, <3>2 DEF Promotes, UpTo, Size, No
    <3>3. CASE j = i
      BY <2>1, <3>1, <3>3 DEF Promotes
    <3>4. CASE j = i + 1 /\ k <= m
      <4>1. k \in 1 .. m
        BY <2>2, <2>3, <3>4
      <4> QED
        BY <2>1, <3>1, <3>4, <4>1 DEF Promotes, m
    <3>5. CASE j = i + 1 /\ k > m
      <4>1. Size(out, j) = m + h /\ h \in Nat
        BY <2>1, <2>2, <3>5 DEF Promotes, m
      <4>2. k - m \in 1 .. h /\ m + (k - m) = k
        <5> HIDE DEF h
        <5> QED
          BY <2>2, <3>5, <4>1
      <4>3. Same(out, i + 1, m + (k - m), buf, i, 2 * (k - m) - 1)
        BY <2>1, <4>2 DEF Promotes, m
      <4> QED
        BY <3>1, <3>5, <4>2, <4>3
    <3>6. k <= m \/ k > m
      BY <2>2, <2>3
    <3> QED
      BY <3>2, <3>3, <3>4, <3>5, <3>6
  <2> QED
    BY <2>1, <2>4, <2>5
<1>2. CASE out = DroppedOldest(buf, i)
  <2>1. HasTapes(out)
    BY <1>2, TapesDropped
  <2>2. PICK n \in 0 .. Size(buf, i) : Drops(out, buf, i, n)
    BY <1>2, TapesDropped
  <2>3. n \in Nat /\ \A j \in Level : Size(out, j) \in Nat
    BY <1>0, <2>1, TapeSizes
  <2>4. InOrder(out)
    <3> SUFFICES ASSUME NEW p \in Level, NEW q \in Level,
                        NEW k \in 1 .. Size(out, p), NEW l \in 1 .. Size(out, q),
                        Older(p, k, q, l)
                 PROVE  No(out, p, k) <= No(out, q, l)
      BY DEF InOrder
    <3>1. PICK k2, l2 : /\ Same(out, p, k, buf, p, k2)
                        /\ Same(out, q, l, buf, q, l2)
                        /\ Older(p, k2, q, l2)
      BY <2>2, <2>3, DropsOlder
    <3>2. No(buf, p, k2) <= No(buf, q, l2)
      BY <3>1 DEF Same, InOrder
    <3> QED
      BY <3>1, <3>2 DEF Same
  <2>5. \A no : UpTo(buf, no) => UpTo(out, no)
    BY <2>2 DEF Drops, Same, UpTo, Size, No
  <2> QED
    BY <2>1, <2>4, <2>5
<1>3. CASE out = buf
  BY <1>3
<1> QED
  BY <1>1, <1>2, <1>3

\* A capture labelled no earlier than what is stored keeps the order.
LEMMA CaptureOrder ==
  ASSUME NEW buf, HasTapes(buf), InOrder(buf), NEW s, NEW no \in 0 .. MaxFrameNo,
         UpTo(buf, no), NEW out,
         out = WithLevel(buf, 1, AppendStates(buf.levels[1], << Item(s, no, s) >>))
  PROVE  HasTapes(out) /\ InOrder(out) /\ UpTo(out, no)
<1> DEFINE l1    == buf.levels[1]
           items == << Item(s, no, s) >>
           lvl   == AppendStates(l1, items)
           N     == Size(buf, 1)
<1>0. /\ 1 \in Level /\ \A j \in Level : j \in Nat /\ j >= 1
  BY LevelsAssumption DEF Level
<1>1. IsLevel(l1) /\ N = Len(l1.frames) /\ N \in Nat /\ no \in Nat
  BY <1>0, TapeSizes, MaxFrameNoAssumption DEF HasTapes, Size
<1>2. IsList(items, 1) /\ items[1].frame_no = no
  BY DEF IsList, Item
<1>3. \A j \in 1 .. 1 : items[j].frame_no \in 0 .. MaxFrameNo
  BY <1>2
<1>4. lvl = AppendStates(l1, items) /\ out = WithLevel(buf, 1, lvl)
  OBVIOUS
<1> HIDE DEF items, lvl, l1
<1>5. IsLevel(lvl)
  BY <1>1, <1>2, <1>3, <1>4, AppendTape
<1>6. Len(lvl.frames) = Len(l1.frames) + 1
  <2>1. 1 \in Nat /\ IsLevel(l1) /\ IsList(items, 1) /\ lvl = AppendStates(l1, items)
    BY <1>1, <1>2, <1>4
  <2> QED
    BY <2>1, <1>3, AppendTape
<1>7. \A k \in 1 .. Len(l1.frames) : lvl.frames[k] = l1.frames[k]
  BY <1>1, <1>2, <1>3, <1>4, AppendTape
<1>8. \A j \in 1 .. 1 : lvl.frames[Len(l1.frames) + j].frame_no = items[j].frame_no
  BY <1>1, <1>2, <1>3, <1>4, AppendTape
<1>9. /\ HasTapes(out)
      /\ \A j \in Level : out.levels[j] = IF j = 1 THEN lvl ELSE buf.levels[j]
  BY <1>0, <1>4, <1>5, WithLevelTapes
<1>10. /\ Size(out, 1) = N + 1 /\ No(out, 1, N + 1) = no
       /\ \A k \in 1 .. N : No(out, 1, k) = No(buf, 1, k)
  <2>1. out.levels[1] = lvl /\ Size(out, 1) = N + 1
    BY <1>0, <1>1, <1>6, <1>9 DEF Size
  <2>2. lvl.frames[N + 1].frame_no = no
    BY <1>1, <1>2, <1>8
  <2>3. No(out, 1, N + 1) = no
    BY <2>1, <2>2 DEF No
  <2>4. \A k \in 1 .. N : No(out, 1, k) = No(buf, 1, k)
    BY <2>1, <1>1, <1>7 DEF No, l1
  <2> QED
    BY <2>1, <2>3, <2>4
<1>11. \A j \in Level : j # 1 =>
         Size(out, j) = Size(buf, j) /\ \A k : No(out, j, k) = No(buf, j, k)
  BY <1>9 DEF Size, No
<1>12. \A j \in Level : \A k \in 1 .. Size(out, j) :
         \/ j = 1 /\ k = N + 1 /\ No(out, j, k) = no
         \/ /\ ~(j = 1 /\ k = N + 1)
            /\ k \in 1 .. Size(buf, j) /\ No(out, j, k) = No(buf, j, k)
            /\ No(buf, j, k) <= no
  <2> TAKE j \in Level
  <2> TAKE k \in 1 .. Size(out, j)
  <2>1. CASE j # 1
    BY <2>1, <1>11 DEF UpTo
  <2>2. CASE j = 1
    <3>1. k = N + 1 \/ k \in 1 .. N
      BY <2>2, <1>1, <1>10
    <3> QED
      BY <3>1, <2>2, <1>0, <1>1, <1>10 DEF UpTo
  <2> QED
    BY <2>1, <2>2
<1>13. UpTo(out, no)
  <2> SUFFICES ASSUME NEW j \in Level, NEW k \in 1 .. Size(out, j)
               PROVE  No(out, j, k) <= no
    BY DEF UpTo
  <2> QED
    BY <1>1, <1>12
<1>14. InOrder(out)
  <2> SUFFICES ASSUME NEW p \in Level, NEW q \in Level,
                      NEW k \in 1 .. Size(out, p), NEW l \in 1 .. Size(out, q),
                      Older(p, k, q, l)
               PROVE  No(out, p, k) <= No(out, q, l)
    BY DEF InOrder
  <2>1. CASE q = 1 /\ l = N + 1
    <3>1. No(out, q, l) = no /\ No(out, p, k) <= no
      BY <2>1, <1>10, <1>13 DEF UpTo
    <3> QED
      BY <3>1
  <2>2. CASE ~(q = 1 /\ l = N + 1)
    <3>1. l \in 1 .. Size(buf, q) /\ No(out, q, l) = No(buf, q, l)
      BY <2>2, <1>12
    <3>2. ~(p = 1 /\ k = N + 1)
      <4>1. Size(buf, 1) = N /\ q \in Nat /\ q >= 1
        BY <1>0
      <4> QED
        BY <3>1, <4>1, <1>1 DEF Older
    <3>3. k \in 1 .. Size(buf, p) /\ No(out, p, k) = No(buf, p, k)
      BY <3>2, <1>12
    <3> QED
      BY <3>1, <3>3 DEF InOrder
  <2> QED
    BY <2>1, <2>2
<1> QED
  BY <1>9, <1>13, <1>14

\* Cutting after a label keeps the frames labelled up to it and no others.
LEMMA CutBufferTapes ==
  ASSUME NEW buf, HasTapes(buf), NEW no
  PROVE  /\ HasTapes(CutBuffer(buf, no))
         /\ \A i \in Level :
              /\ CutBuffer(buf, no).levels[i].frames = KeptUpTo(buf.levels[i].frames, no)
              /\ CutLevel(buf.levels[i], no).frames = KeptUpTo(buf.levels[i].frames, no)
<1> DEFINE cut   == [i \in Level |-> CutLevel(buf.levels[i], no)]
           ls    == RefreshedLevels(cut)
           kept(i) == KeptUpTo(buf.levels[i].frames, no)
           left  == CutBuffer(buf, no)
           t     == buf.totalBytes + SizeChange(buf.levels, CutLevels(buf, no))
           fails(i) == cut[i].frames # << >> /\ Last(cut[i]) = NoState
           fresh(i) == [cut[i] EXCEPT !.prevState = Last(cut[i])]
<1>1. \A i \in Level : IsTape(kept(i))
  <2> SUFFICES ASSUME NEW i \in Level
               PROVE  IsTape(kept(i))
    OBVIOUS
  <2> DEFINE frames == buf.levels[i].frames
             k2     == kept(i)
  <2>1. IsTape(frames)
    BY DEF HasTapes, IsLevel
  <2>2. PICK S : frames \in Seq(S)
    BY <2>1 DEF IsTape
  <2>3. k2 = KeptUpTo(frames, no)
    OBVIOUS
  <2> HIDE DEF frames, k2
  <2>4. k2 \in Seq(S)
    BY <2>2, <2>3, KeptIsPrefix
  <2>5. Len(k2) \in 0 .. Len(frames)
    BY <2>2, <2>3, KeptIsPrefix
  <2>6. \A k \in 1 .. Len(k2) : k2[k] = frames[k]
    BY <2>2, <2>3, KeptIsPrefix
  <2>7. \A k \in 1 .. Len(k2) : IsFrame(k2[k])
    <3>1. Len(frames) \in Nat
      BY <2>1, TapeShape
    <3> QED
      BY <2>1, <2>5, <2>6, <3>1 DEF IsTape
  <2>8. IsTape(k2)
    BY <2>4, <2>7 DEF IsTape
  <2> QED
    BY <2>8 DEF k2
<1>2. \A i \in Level : IsLevel(cut[i]) /\ cut[i].frames = kept(i)
  <2> SUFFICES ASSUME NEW i \in Level
               PROVE  IsLevel(cut[i]) /\ cut[i].frames = kept(i)
    OBVIOUS
  <2>1. PICK bytes, prev : cut[i] = [frames |-> kept(i), totalBytes |-> bytes, prevState |-> prev]
    BY DEF CutLevel
  <2>2. IsTape(kept(i))
    BY <1>1
  <2> HIDE DEF kept, cut
  <2> QED
    BY <2>1, <2>2, LevelOf
<1>3. \A i \in Level : IsLevel(fresh(i)) /\ fresh(i).frames = cut[i].frames
  <2> SUFFICES ASSUME NEW i \in Level
               PROVE  IsLevel(fresh(i)) /\ fresh(i).frames = cut[i].frames
    OBVIOUS
  <2> DEFINE lvl == cut[i]
             p   == Last(cut[i])
             new == fresh(i)
  <2>1. IsLevel(lvl) /\ new = [lvl EXCEPT !.prevState = p]
    BY <1>2
  <2> HIDE DEF lvl, p, new
  <2>2. new = [frames |-> lvl.frames, totalBytes |-> lvl.totalBytes, prevState |-> p]
    BY <2>1 DEF IsLevel
  <2>3. IsTape(lvl.frames)
    BY <2>1 DEF IsLevel
  <2>4. IsLevel(new) /\ new.frames = lvl.frames
    BY <2>2, <2>3, LevelOf
  <2> QED
    BY <2>4 DEF new, lvl
<1>4. /\ ls = [i \in Level |-> IF cut[i].frames # << >> /\ \A j \in 1 .. i : ~fails(j)
                               THEN fresh(i) ELSE cut[i]]
  BY DEF RefreshedLevels
<1>5. ls = CutLevels(buf, no)
  BY DEF CutLevels
<1> HIDE DEF cut, fresh, fails, ls, t
<1>6. /\ ls = [i \in Level |-> ls[i]]
      /\ \A i \in Level : IsLevel(ls[i]) /\ ls[i].frames = kept(i)
  BY <1>2, <1>3, <1>4
<1> HIDE DEF kept
<1>7. left = [levels |-> ls, totalBytes |-> t, paused |-> buf.paused,
              rollingPaused |-> buf.rollingPaused, currentFrameNo |-> buf.currentFrameNo]
  <2>1. left = [buf EXCEPT !.levels = ls, !.totalBytes = t]
    BY <1>5 DEF CutBuffer, HasTapes, IsBuffer, t
  <2> QED
    BY <2>1 DEF HasTapes, IsBuffer
<1> HIDE DEF left
<1>8. IsBuffer(left) /\ left.levels = ls
  BY <1>7 DEF IsBuffer
<1>9. \A i \in Level : CutLevel(buf.levels[i], no).frames = kept(i)
  BY <1>2 DEF cut
<1> QED
  BY <1>6, <1>8, <1>9 DEF HasTapes, kept, left

LEMMA CutTapes ==
  ASSUME NEW buf, HasTapes(buf), NEW no, NEW out, out = TrimmedAfter(buf, no)
  PROVE  /\ HasTapes(out)
         /\ \A i \in Level : out.levels[i].frames = KeptUpTo(buf.levels[i].frames, no)
<1> DEFINE left    == CutBuffer(buf, no)
           exact   == RestoredState(left, no)
           ls      == left.levels
           kept(i) == KeptUpTo(buf.levels[i].frames, no)
<1>1. /\ HasTapes(left) /\ IsBuffer(left)
      /\ \A i \in Level : ls[i].frames = kept(i)
  BY CutBufferTapes DEF HasTapes
<1>2. out = left \/ out = WithPrev(left, exact, no)
  BY DEF TrimmedAfter, WithPrev, CutBuffer, CutLevels
<1> HIDE DEF left, exact, kept
<1>3. CASE out = left
  BY <1>1, <1>3 DEF kept
<1>4. CASE out = WithPrev(left, exact, no)
  <2> DEFINE new == [ls[1] EXCEPT !.prevState = exact]
             ls2 == [ls EXCEPT ![1] = new]
  <2>1. out = [levels |-> ls2, totalBytes |-> left.totalBytes, paused |-> left.paused,
               rollingPaused |-> left.rollingPaused, currentFrameNo |-> no]
    <3>1. out = [left EXCEPT !.levels = ls2, !.currentFrameNo = no]
      BY <1>1, <1>4 DEF WithPrev, IsBuffer
    <3> HIDE DEF ls2
    <3> QED
      BY <1>1, <3>1 DEF IsBuffer
  <2>2. 1 \in Level
    BY LevelsAssumption DEF Level
  <2>3. IsLevel(new) /\ new.frames = ls[1].frames
    <3> DEFINE lvl == ls[1]
    <3>1. IsLevel(lvl) /\ new = [lvl EXCEPT !.prevState = exact]
      BY <1>1, <2>2 DEF HasTapes
    <3> HIDE DEF lvl, new
    <3>2. new = [frames |-> lvl.frames, totalBytes |-> lvl.totalBytes, prevState |-> exact]
      BY <3>1 DEF IsLevel
    <3>3. IsTape(lvl.frames)
      BY <3>1 DEF IsLevel
    <3>4. IsLevel(new) /\ new.frames = lvl.frames
      BY <3>2, <3>3, LevelOf
    <3> QED
      BY <3>4 DEF lvl
  <2> HIDE DEF new
  <2>4. ls = [i \in Level |-> ls[i]]
    BY <1>1 DEF HasTapes
  <2>5. /\ ls2 = [i \in Level |-> ls2[i]]
        /\ \A i \in Level : ls2[i] = IF i = 1 THEN new ELSE ls[i]
    BY <1>1, <2>2, <2>4
  <2> HIDE DEF ls2
  <2>6. IsBuffer(out) /\ out.levels = ls2
    BY <2>1 DEF IsBuffer
  <2>7. \A i \in Level : IsLevel(ls2[i]) /\ ls2[i].frames = kept(i)
    BY <1>1, <2>2, <2>3, <2>5 DEF HasTapes
  <2> QED
    BY <2>5, <2>6, <2>7 DEF HasTapes, kept
<1> QED
  BY <1>2, <1>3, <1>4

\* So under the order exactly the labels up to no are kept.
LEMMA CutLabels ==
  ASSUME NEW buf, HasTapes(buf), InOrder(buf), NEW no \in Nat, NEW out, HasTapes(out),
         \A i \in Level : out.levels[i].frames = KeptUpTo(buf.levels[i].frames, no)
  PROVE  /\ InOrder(out) /\ UpTo(out, no)
         /\ \A i \in Level : Size(out, i) <= Size(buf, i)
         /\ \A i \in Level : \A k \in 1 .. Size(out, i) : No(out, i, k) = No(buf, i, k)
         /\ \A i \in Level : \A k \in 1 .. Size(buf, i) :
              No(buf, i, k) <= no => k \in 1 .. Size(out, i)
<1>1. \A i \in Level :
        /\ Size(out, i) \in 0 .. Size(buf, i)
        /\ \A k \in 1 .. Size(out, i) : No(out, i, k) = No(buf, i, k) /\ No(out, i, k) <= no
        /\ \A k \in 1 .. Size(buf, i) :
             (\A j \in 1 .. k : No(buf, i, j) <= no) => k <= Size(out, i)
  <2> SUFFICES ASSUME NEW i \in Level
               PROVE  /\ Size(out, i) \in 0 .. Size(buf, i)
                      /\ \A k \in 1 .. Size(out, i) :
                           No(out, i, k) = No(buf, i, k) /\ No(out, i, k) <= no
                      /\ \A k \in 1 .. Size(buf, i) :
                           (\A j \in 1 .. k : No(buf, i, j) <= no) => k <= Size(out, i)
    OBVIOUS
  <2> DEFINE frames == buf.levels[i].frames
             kept   == out.levels[i].frames
  <2>1. PICK S : frames \in Seq(S)
    BY DEF HasTapes, IsLevel, IsTape
  <2>2. kept = KeptUpTo(frames, no)
    OBVIOUS
  <2> HIDE DEF frames, kept
  <2>3. Len(kept) \in 0 .. Len(frames)
    BY <2>1, <2>2, KeptIsPrefix
  <2>4. \A k \in 1 .. Len(kept) : kept[k] = frames[k] /\ frames[k].frame_no <= no
    BY <2>1, <2>2, KeptIsPrefix
  <2>5. \A k \in 1 .. Len(frames) :
          (\A j \in 1 .. k : frames[j].frame_no <= no) => k <= Len(kept)
    BY <2>1, <2>2, KeptIsPrefix
  <2> QED
    BY <2>3, <2>4, <2>5 DEF Size, No, frames, kept
<1>2. \A i \in Level : /\ Size(buf, i) \in Nat
                       /\ \A k \in 1 .. Size(buf, i) : No(buf, i, k) \in Nat
  BY TapeSizes
<1>3. ASSUME NEW i \in Level, NEW k \in 1 .. Size(buf, i), No(buf, i, k) <= no
      PROVE  k \in 1 .. Size(out, i)
  <2>1. \A j \in 1 .. k : j \in 1 .. Size(buf, i) /\ (j = k \/ Older(i, j, i, k))
    BY <1>2 DEF Older
  <2>2. \A j \in 1 .. k : No(buf, i, j) <= No(buf, i, k)
    BY <1>2, <2>1 DEF InOrder
  <2>3. \A j \in 1 .. k : No(buf, i, j) <= no
    BY <1>2, <1>3, <2>1, <2>2
  <2> QED
    BY <1>1, <1>2, <2>3
<1>4. \A i \in Level : \A k \in 1 .. Size(out, i) : k \in 1 .. Size(buf, i)
  BY <1>1, <1>2
<1>5. InOrder(out)
  BY <1>1, <1>4 DEF InOrder
<1>6. UpTo(out, no)
  BY <1>1 DEF UpTo
<1>7. \A i \in Level : Size(out, i) <= Size(buf, i)
  BY <1>1, <1>2
<1> QED
  BY <1>1, <1>3, <1>5, <1>6, <1>7

-----------------------------------------------------------------------------
(* The search of the seek bar *)

\* One step of the binary search, f giving the rest.
SearchStep(frames, target, f, r) ==
  LET mid == r[1] + (r[2] - r[1]) \div 2
  IN  IF r[1] >= r[2] THEN r[1]
      ELSE IF frames[mid + 1].frame_no <= target THEN f[<< mid + 1, r[2] >>]
      ELSE f[<< r[1], mid >>]

Ranges(frames) == (0 .. Len(frames)) \X (0 .. Len(frames))

Searches(frames, target, f) ==
  f = [r \in Ranges(frames) |-> SearchStep(frames, target, f, r)]

\* c is the number of frames up to target.
Splits(frames, target, c) ==
  \A k \in 1 .. Len(frames) : frames[k].frame_no <= target <=> k <= c

\* The middle of a range lies in it.
LEMMA Middle ==
  ASSUME NEW l \in Nat, NEW h \in Nat, l < h, NEW mid, mid = l + (h - l) \div 2
  PROVE  mid \in Nat /\ l <= mid /\ mid < h
OBVIOUS

\* What the search of a range gives: c, or the end of the range nearest to it.
Clamp(c, r) ==
  IF r[1] >= r[2] THEN r[1] ELSE IF c <= r[1] THEN r[1] ELSE IF c >= r[2] THEN r[2] ELSE c

Halves(f, c, l, h) ==
  l < h => LET mid == l + (h - l) \div 2
           IN  /\ f[<< mid + 1, h >>] = Clamp(c, << mid + 1, h >>)
               /\ f[<< l, mid >>] = Clamp(c, << l, mid >>)

LEMMA ClampStep ==
  ASSUME NEW frames, Len(frames) \in Nat, NEW target, NEW c \in 0 .. Len(frames),
         Splits(frames, target, c), NEW l \in 0 .. Len(frames), NEW h \in 0 .. Len(frames),
         NEW f, Halves(f, c, l, h)
  PROVE  SearchStep(frames, target, f, << l, h >>) = Clamp(c, << l, h >>)
<1> DEFINE mid == l + (h - l) \div 2
<1>0. l \in Nat /\ h \in Nat /\ c \in Nat
  OBVIOUS
<1>1. CASE l >= h
  BY <1>1 DEF SearchStep, Clamp
<1>2. CASE ~(l >= h)
  <2>1. mid \in Nat /\ l <= mid /\ mid < h
    BY <1>0, <1>2, Middle
  <2>2. /\ f[<< mid + 1, h >>] = Clamp(c, << mid + 1, h >>)
        /\ f[<< l, mid >>] = Clamp(c, << l, mid >>)
    BY <1>0, <1>2 DEF Halves
  <2>3. mid + 1 \in 1 .. Len(frames)
    BY <1>0, <2>1
  <2>4. SearchStep(frames, target, f, << l, h >>)
          = IF frames[mid + 1].frame_no <= target THEN f[<< mid + 1, h >>] ELSE f[<< l, mid >>]
    BY <1>2 DEF SearchStep
  <2> HIDE DEF mid
  <2>5. frames[mid + 1].frame_no <= target <=> mid + 1 <= c
    BY <2>3 DEF Splits
  <2>6. CASE mid + 1 <= c
    <3>1. Clamp(c, << mid + 1, h >>) = Clamp(c, << l, h >>)
      BY <1>0, <2>1, <2>6 DEF Clamp
    <3> QED
      BY <2>2, <2>4, <2>5, <2>6, <3>1
  <2>7. CASE ~(mid + 1 <= c)
    <3>1. Clamp(c, << l, mid >>) = Clamp(c, << l, h >>)
      BY <1>0, <2>1, <2>7 DEF Clamp
    <3> QED
      BY <2>2, <2>4, <2>5, <2>7, <3>1
  <2> QED
    BY <2>6, <2>7
<1> QED
  BY <1>1, <1>2

LEMMA SearchExists ==
  ASSUME NEW frames, Len(frames) \in Nat, NEW target, NEW c \in 0 .. Len(frames),
         Splits(frames, target, c)
  PROVE  \E f : Searches(frames, target, f)
<1> DEFINE N == Len(frames)
           f == [r \in Ranges(frames) |-> Clamp(c, r)]
<1>1. \A r \in Ranges(frames) : SearchStep(frames, target, f, r) = Clamp(c, r)
  <2> SUFFICES ASSUME NEW r \in Ranges(frames)
               PROVE  SearchStep(frames, target, f, r) = Clamp(c, r)
    OBVIOUS
  <2>0. PICK l \in 0 .. N, h \in 0 .. N : r = << l, h >>
    BY DEF Ranges
  <2> DEFINE mid == l + (h - l) \div 2
  <2>1. ASSUME l < h
        PROVE  /\ f[<< mid + 1, h >>] = Clamp(c, << mid + 1, h >>)
               /\ f[<< l, mid >>] = Clamp(c, << l, mid >>)
    <3>1. mid \in Nat /\ l <= mid /\ mid < h
      BY <2>1, Middle
    <3> HIDE DEF mid
    <3>2. << mid + 1, h >> \in Ranges(frames) /\ << l, mid >> \in Ranges(frames)
      BY <3>1 DEF Ranges
    <3> QED
      BY <3>2
  <2>2. Halves(f, c, l, h)
    BY <2>1 DEF Halves
  <2> HIDE DEF f
  <2>3. SearchStep(frames, target, f, << l, h >>) = Clamp(c, << l, h >>)
    BY <2>2, ClampStep
  <2> QED
    BY <2>0, <2>3
<1>2. f = [r \in Ranges(frames) |-> SearchStep(frames, target, f, r)]
  BY <1>1
<1> QED
  BY <1>2 DEF Searches

LEMMA SearchIs ==
  ASSUME NEW frames, Len(frames) \in Nat, NEW target, NEW c \in 0 .. Len(frames),
         Splits(frames, target, c)
  PROVE  BinarySearch(frames, target) = c
<1> DEFINE N    == Len(frames)
           lo   == CHOOSE f : Searches(frames, target, f)
<1>1. Searches(frames, target, lo)
  BY SearchExists
<1>2. BinarySearch(frames, target) = lo[<< 0, N >>]
  BY DEF BinarySearch, Searches, SearchStep, Ranges
<1> HIDE DEF lo
<1> DEFINE Bad == {d \in Nat : \E l, h \in 0 .. N :
                     h - l = d /\ lo[<< l, h >>] # Clamp(c, << l, h >>)}
<1>3. Bad = {}
  <2> SUFFICES ASSUME Bad # {}
               PROVE  FALSE
    OBVIOUS
  <2>1. Bad \in SUBSET Nat
    OBVIOUS
  <2>2. PICK d \in Bad : \A e \in Bad : ~(e < d)
    BY <2>1, LeastMember
  <2>3. PICK l \in 0 .. N, h \in 0 .. N : h - l = d /\ lo[<< l, h >>] # Clamp(c, << l, h >>)
    BY <2>2
  <2>4. \A a, b \in 0 .. N : b - a \in Nat /\ b - a < d => lo[<< a, b >>] = Clamp(c, << a, b >>)
    BY <2>2
  <2> HIDE DEF Bad
  <2> DEFINE mid == l + (h - l) \div 2
  <2>5. ASSUME l < h
        PROVE  /\ lo[<< mid + 1, h >>] = Clamp(c, << mid + 1, h >>)
               /\ lo[<< l, mid >>] = Clamp(c, << l, mid >>)
    <3>1. mid \in Nat /\ l <= mid /\ mid < h
      BY <2>5, Middle
    <3> HIDE DEF mid
    <3>2. /\ mid + 1 \in 0 .. N /\ mid \in 0 .. N
          /\ h - (mid + 1) \in Nat /\ h - (mid + 1) < d /\ mid - l \in Nat /\ mid - l < d
      BY <3>1, <2>3
    <3> QED
      BY <3>2, <2>4
  <2>6. SearchStep(frames, target, lo, << l, h >>) = Clamp(c, << l, h >>)
    <3>1. Halves(lo, c, l, h)
      BY <2>5 DEF Halves
    <3> QED
      BY <3>1, ClampStep
  <2>7. lo[<< l, h >>] = SearchStep(frames, target, lo, << l, h >>)
    <3>1. << l, h >> \in Ranges(frames)
      BY DEF Ranges
    <3> QED
      BY <3>1, <1>1 DEF Searches
  <2> QED
    BY <2>3, <2>6, <2>7
<1>4. lo[<< 0, N >>] = Clamp(c, << 0, N >>)
  <2>1. 0 \in 0 .. N /\ N \in 0 .. N /\ N - 0 \in Nat
    OBVIOUS
  <2> QED
    BY <1>3, <2>1
<1>5. Clamp(c, << 0, N >>) = c
  BY DEF Clamp
<1> QED
  BY <1>2, <1>4, <1>5

LEMMA SplitExists ==
  ASSUME NEW frames, IsTape(frames), NEW target \in Int,
         \A k, l \in 1 .. Len(frames) : k < l => frames[k].frame_no <= frames[l].frame_no
  PROVE  \E c \in 0 .. Len(frames) : Splits(frames, target, c)
<1> DEFINE N == Len(frames)
           T == {0} \cup {k \in 1 .. N : frames[k].frame_no <= target}
<1>1. N \in Nat /\ \A k \in 1 .. N : frames[k].frame_no \in Nat
  BY TapeShape
<1>2. T \in SUBSET (0 .. N) /\ T # {}
  BY <1>1
<1>3. \A k \in 1 .. N : k \in T <=> frames[k].frame_no <= target
  BY <1>1
<1>4. \A k \in T : k = 0 \/ (k \in 1 .. N /\ frames[k].frame_no <= target)
  OBVIOUS
<1> HIDE DEF T
<1>5. PICK c \in T : \A k \in T : k <= c
  BY <1>1, <1>2, GreatestMember
<1>6. Splits(frames, target, c)
  <2> SUFFICES ASSUME NEW k \in 1 .. N
               PROVE  frames[k].frame_no <= target <=> k <= c
    BY DEF Splits
  <2>1. frames[k].frame_no <= target => k <= c
    BY <1>3, <1>5
  <2>2. ASSUME k <= c
        PROVE  frames[k].frame_no <= target
    <3>1. c \in 1 .. N /\ frames[c].frame_no <= target
      BY <2>2, <1>1, <1>2, <1>4
    <3>2. k = c \/ frames[k].frame_no <= frames[c].frame_no
      BY <2>2, <3>1, <1>1
    <3> QED
      BY <3>1, <3>2, <1>1
  <2> QED
    BY <2>1, <2>2
<1> QED
  BY <1>2, <1>6

\* What the search of a level gives: its first label for a target before it,
\* else the last one up to the target.
LEMMA SearchLands ==
  ASSUME NEW lvl, IsLevel(lvl), Len(lvl.frames) >= 1, NEW target \in Int,
         \A k, l \in 1 .. Len(lvl.frames) :
           k < l => lvl.frames[k].frame_no <= lvl.frames[l].frame_no
  PROVE  \/ target <= FirstNo(lvl) /\ NoInLevel(lvl, target) = FirstNo(lvl)
         \/ /\ FirstNo(lvl) < target /\ NoInLevel(lvl, target) <= target
            /\ \E k \in 1 .. Len(lvl.frames) : NoInLevel(lvl, target) = lvl.frames[k].frame_no
            /\ \A k \in 1 .. Len(lvl.frames) :
                 lvl.frames[k].frame_no <= target =>
                   lvl.frames[k].frame_no <= NoInLevel(lvl, target)
<1> DEFINE frames == lvl.frames
           N      == Len(frames)
           no     == NoInLevel(lvl, target)
           n      == BinarySearch(frames, target)
<1>1. IsTape(frames) /\ N \in Nat /\ \A k \in 1 .. N : frames[k].frame_no \in Nat
  BY TapeShape DEF IsLevel
<1>2. PICK c \in 0 .. N : Splits(frames, target, c)
  BY <1>1, SplitExists
<1>3. n = c
  BY <1>1, <1>2, SearchIs
<1>4. FirstNo(lvl) = frames[1].frame_no /\ 1 \in 1 .. N
  BY <1>1 DEF FirstNo
<1>5. no = IF target <= FirstNo(lvl) THEN FirstNo(lvl)
           ELSE frames[IF n = 0 THEN 1 ELSE n].frame_no
  BY DEF NoInLevel
<1> HIDE DEF n, no, frames
<1>6. CASE target <= FirstNo(lvl)
  BY <1>5, <1>6 DEF no
<1>7. CASE FirstNo(lvl) < target
  <2>1. 1 <= c
    BY <1>1, <1>2, <1>4, <1>7 DEF Splits
  <2>2. no = frames[c].frame_no /\ c \in 1 .. N
    BY <2>1, <1>1, <1>3, <1>4, <1>5, <1>7
  <2>3. no <= target
    BY <1>2, <2>2 DEF Splits
  <2>4. \A k \in 1 .. N : frames[k].frame_no <= target => frames[k].frame_no <= no
    <3> SUFFICES ASSUME NEW k \in 1 .. N, frames[k].frame_no <= target
                 PROVE  frames[k].frame_no <= no
      OBVIOUS
    <3>1. k <= c
      BY <1>2 DEF Splits
    <3>2. k = c \/ frames[k].frame_no <= frames[c].frame_no
      BY <3>1, <2>2, <1>1 DEF frames
    <3> QED
      BY <3>2, <2>2, <1>1
  <2> QED
    BY <1>7, <2>2, <2>3, <2>4 DEF no, frames
<1> QED
  BY <1>1, <1>4, <1>6, <1>7

\* r is what the position of label t gives: in the oldest level that reaches to
\* t the last label up to t, or the first one when all are later.
Lands(buf, t, r) ==
  \E i \in Level :
    /\ Size(buf, i) >= 1 /\ t <= No(buf, i, Size(buf, i))
    /\ \A j \in Level : j > i /\ Size(buf, j) >= 1 => No(buf, j, Size(buf, j)) < t
    /\ \/ t <= No(buf, i, 1) /\ r = No(buf, i, 1)
       \/ /\ No(buf, i, 1) < t /\ r <= t
          /\ \E k \in 1 .. Size(buf, i) : r = No(buf, i, k)
          /\ \A k \in 1 .. Size(buf, i) : No(buf, i, k) <= t => No(buf, i, k) <= r

\* Then no stored label is nearer on either side.
LEMMA NearestLanded ==
  ASSUME NEW buf, HasTapes(buf), InOrder(buf), NEW t \in Int, NEW r, Lands(buf, t, r)
  PROVE  /\ \E i \in Level : \E k \in 1 .. Size(buf, i) : r = No(buf, i, k)
         /\ \A j \in Level : \A l \in 1 .. Size(buf, j) :
              /\ ~(r < No(buf, j, l) /\ No(buf, j, l) <= t)
              /\ ~(t <= No(buf, j, l) /\ No(buf, j, l) < r)
<1>0. /\ \A i \in Level : i \in Nat
      /\ \A i \in Level : Size(buf, i) \in Nat
      /\ \A i \in Level : \A k \in 1 .. Size(buf, i) : No(buf, i, k) \in Nat
  BY TapeSizes DEF Level
<1>1. PICK i \in Level :
        /\ Size(buf, i) >= 1 /\ t <= No(buf, i, Size(buf, i))
        /\ \A j \in Level : j > i /\ Size(buf, j) >= 1 => No(buf, j, Size(buf, j)) < t
        /\ \/ t <= No(buf, i, 1) /\ r = No(buf, i, 1)
           \/ /\ No(buf, i, 1) < t /\ r <= t
              /\ \E k \in 1 .. Size(buf, i) : r = No(buf, i, k)
              /\ \A k \in 1 .. Size(buf, i) : No(buf, i, k) <= t => No(buf, i, k) <= r
  BY DEF Lands
<1>2. 1 \in 1 .. Size(buf, i) /\ Size(buf, i) \in 1 .. Size(buf, i)
  BY <1>0, <1>1
<1>3. PICK k \in 1 .. Size(buf, i) : r = No(buf, i, k)
  BY <1>1, <1>2
<1>4. r \in Nat
  BY <1>0, <1>3
<1>5. ASSUME NEW j \in Level, NEW l \in 1 .. Size(buf, j)
      PROVE  /\ ~(r < No(buf, j, l) /\ No(buf, j, l) <= t)
             /\ ~(t <= No(buf, j, l) /\ No(buf, j, l) < r)
  <2> DEFINE m == No(buf, j, l)
  <2>0. m \in Nat /\ j \in Nat /\ i \in Nat
    BY <1>0, <1>5
  <2>1. CASE j > i
    <3>1. m <= No(buf, i, 1) /\ m <= No(buf, i, k)
      BY <1>2, <2>1 DEF InOrder, Older
    <3>2. Size(buf, j) \in 1 .. Size(buf, j) /\ Size(buf, j) >= 1 /\ l <= Size(buf, j)
      BY <1>0
    <3>3. m <= No(buf, j, Size(buf, j))
      <4>1. CASE l = Size(buf, j)
        BY <4>1, <2>0
      <4>2. CASE l # Size(buf, j)
        <5>1. Older(j, l, j, Size(buf, j))
          BY <4>2, <3>2, <1>0 DEF Older
        <5> QED
          BY <5>1, <3>2 DEF InOrder
      <4> QED
        BY <4>1, <4>2
    <3>4. No(buf, j, Size(buf, j)) < t /\ No(buf, j, Size(buf, j)) \in Nat
      BY <1>0, <1>1, <2>1, <3>2
    <3>5. m < t /\ m <= r
      BY <1>3, <2>0, <3>1, <3>3, <3>4
    <3> QED
      BY <3>5, <2>0, <1>4
  <2>2. CASE j = i
    <3>1. No(buf, i, 1) <= m
      <4>1. CASE l = 1
        BY <4>1, <2>0, <2>2
      <4>2. CASE l # 1
        <5>1. Older(i, 1, j, l)
          BY <4>2, <2>2, <1>0 DEF Older
        <5> QED
          BY <5>1, <1>2 DEF InOrder
      <4> QED
        BY <4>1, <4>2
    <3>2. No(buf, i, 1) \in Nat
      BY <1>0, <1>2
    <3> QED
      BY <1>1, <1>4, <2>0, <2>2, <3>1, <3>2
  <2>3. CASE j < i
    <3>1. No(buf, i, Size(buf, i)) <= m /\ No(buf, i, 1) <= m
      BY <1>2, <2>3 DEF InOrder, Older
    <3>2. No(buf, i, 1) \in Nat /\ No(buf, i, Size(buf, i)) \in Nat
      BY <1>0, <1>2
    <3>3. CASE t <= No(buf, i, 1) /\ r = No(buf, i, 1)
      BY <3>1, <3>2, <3>3, <2>0
    <3>4. CASE ~(t <= No(buf, i, 1) /\ r = No(buf, i, 1))
      <4>1. r <= t /\ (No(buf, i, Size(buf, i)) <= t => No(buf, i, Size(buf, i)) <= r)
        BY <1>1, <1>2, <3>4
      <4>2. t <= No(buf, i, Size(buf, i))
        BY <1>1
      <4> QED
        BY <4>1, <4>2, <3>1, <3>2, <2>0, <1>4
    <3> QED
      BY <3>3, <3>4
  <2> QED
    BY <2>0, <2>1, <2>2, <2>3
<1> QED
  BY <1>3, <1>5

\* Later targets land no earlier.
LEMMA LandsMonotone ==
  ASSUME NEW buf, HasTapes(buf), InOrder(buf), NEW t \in Int, NEW u \in Int, t <= u,
         NEW r, Lands(buf, t, r), NEW s, Lands(buf, u, s)
  PROVE  r <= s
<1>0. /\ \A i \in Level : i \in Nat
      /\ \A i \in Level : Size(buf, i) \in Nat
      /\ \A i \in Level : \A k \in 1 .. Size(buf, i) : No(buf, i, k) \in Nat
  BY TapeSizes DEF Level
<1>1. PICK i \in Level : \E k \in 1 .. Size(buf, i) : r = No(buf, i, k)
  BY NearestLanded
<1>2. PICK j \in Level : \E k \in 1 .. Size(buf, j) : s = No(buf, j, k)
  BY NearestLanded
<1>3. r \in Nat /\ s \in Nat
  BY <1>0, <1>1, <1>2
<1>4. ~(t <= s /\ s < r)
  BY <1>2, NearestLanded
<1>5. ~(s < r /\ r <= u)
  BY <1>1, NearestLanded
<1> SUFFICES ASSUME s < r
             PROVE  FALSE
  BY <1>3
<1>6. s < t /\ u < r
  BY <1>3, <1>4, <1>5
<1>7. PICK a \in Level :
        /\ Size(buf, a) >= 1 /\ t <= No(buf, a, Size(buf, a))
        /\ \A b \in Level : b > a /\ Size(buf, b) >= 1 => No(buf, b, Size(buf, b)) < t
        /\ r = No(buf, a, 1) \/ r <= t
  BY DEF Lands
<1>8. PICK b \in Level :
        /\ Size(buf, b) >= 1 /\ u <= No(buf, b, Size(buf, b))
        /\ u <= s \/ No(buf, b, 1) < u
  BY DEF Lands
<1>9. /\ 1 \in 1 .. Size(buf, a) /\ 1 \in 1 .. Size(buf, b)
      /\ Size(buf, b) \in 1 .. Size(buf, b)
  BY <1>0, <1>7, <1>8
<1>10. /\ No(buf, a, 1) \in Nat /\ No(buf, b, 1) \in Nat /\ No(buf, b, Size(buf, b)) \in Nat
       /\ a \in Nat /\ b \in Nat
  BY <1>0, <1>9
<1>11. r = No(buf, a, 1) /\ No(buf, b, 1) < u
  BY <1>3, <1>6, <1>7, <1>8
<1>12. ~(b > a)
  BY <1>3, <1>6, <1>7, <1>8, <1>10
<1>13. a # b
  BY <1>3, <1>6, <1>10, <1>11
<1>14. Older(a, 1, b, 1)
  BY <1>10, <1>12, <1>13 DEF Older
<1>15. No(buf, a, 1) <= No(buf, b, 1)
  BY <1>9, <1>14 DEF InOrder
<1> QED
  BY <1>3, <1>6, <1>10, <1>11, <1>15

-----------------------------------------------------------------------------
(* The ends of the history, and the labels positions of the bar ask for *)

OldestLevel(buf) == CHOOSE i \in Filled(buf) : \A j \in Filled(buf) : j <= i
NewestLevel(buf) == CHOOSE i \in Filled(buf) : \A j \in Filled(buf) : i <= j

LEMMA FilledSizes ==
  ASSUME NEW buf, HasTapes(buf)
  PROVE  /\ Filled(buf) \subseteq Level
         /\ \A i \in Level : i \in Filled(buf) <=> Size(buf, i) >= 1
<1> SUFFICES ASSUME NEW i \in Level
             PROVE  i \in Filled(buf) <=> Size(buf, i) >= 1
  BY DEF Filled
<1> DEFINE frames == buf.levels[i].frames
<1>1. PICK S : frames \in Seq(S)
  BY DEF HasTapes, IsLevel, IsTape
<1> HIDE DEF frames
<1>2. frames # << >> <=> Len(frames) >= 1
  BY <1>1
<1> QED
  BY <1>2 DEF Filled, Size, frames

LEMMA EndLevels ==
  ASSUME NEW buf, HasTapes(buf), Filled(buf) # {}
  PROVE  /\ OldestLevel(buf) \in Filled(buf) /\ NewestLevel(buf) \in Filled(buf)
         /\ \A j \in Filled(buf) : j <= OldestLevel(buf) /\ NewestLevel(buf) <= j
         /\ OldestNo(buf) = No(buf, OldestLevel(buf), 1)
         /\ NewestNo(buf) = No(buf, NewestLevel(buf), Size(buf, NewestLevel(buf)))
<1>1. LevelCount \in Nat /\ Filled(buf) \in SUBSET (0 .. LevelCount)
  BY FilledSizes, LevelsAssumption DEF Level
<1>2. \A i \in Filled(buf) : i \in Nat
  BY <1>1
<1>3. \E i \in Filled(buf) : \A j \in Filled(buf) : j <= i
  BY <1>1, GreatestMember
<1>4. PICK i \in Filled(buf) : \A j \in Filled(buf) : ~(j < i)
  BY <1>2, LeastMember
<1>5. \A j \in Filled(buf) : i <= j
  BY <1>2, <1>4
<1>6. /\ OldestLevel(buf) \in Filled(buf)
      /\ \A j \in Filled(buf) : j <= OldestLevel(buf)
  BY <1>3 DEF OldestLevel
<1>7. /\ NewestLevel(buf) \in Filled(buf)
      /\ \A j \in Filled(buf) : NewestLevel(buf) <= j
  BY <1>5 DEF NewestLevel
<1>8. /\ OldestNo(buf) = No(buf, OldestLevel(buf), 1)
      /\ NewestNo(buf) = No(buf, NewestLevel(buf), Size(buf, NewestLevel(buf)))
  BY DEF OldestNo, NewestNo, FirstNo, LastNo, OldestLevel, NewestLevel, No, Size
<1> QED
  BY <1>6, <1>7, <1>8

\* Under the order of the labels they are the ends of the history.
LEMMA Ends ==
  ASSUME NEW buf, HasTapes(buf), InOrder(buf), Filled(buf) # {}
  PROVE  /\ OldestNo(buf) \in Nat /\ NewestNo(buf) \in Nat /\ OldestNo(buf) <= NewestNo(buf)
         /\ \A j \in Level : \A l \in 1 .. Size(buf, j) :
              OldestNo(buf) <= No(buf, j, l) /\ No(buf, j, l) <= NewestNo(buf)
<1> DEFINE o == OldestLevel(buf)
           n == NewestLevel(buf)
<1>0. /\ \A i \in Level : i \in Nat
      /\ \A i \in Level : Size(buf, i) \in Nat
      /\ \A i \in Level : \A k \in 1 .. Size(buf, i) : No(buf, i, k) \in Nat
  BY TapeSizes DEF Level
<1>1. /\ o \in Level /\ Size(buf, o) >= 1 /\ n \in Level /\ Size(buf, n) >= 1
      /\ \A j \in Level : Size(buf, j) >= 1 => j <= o /\ n <= j
      /\ OldestNo(buf) = No(buf, o, 1) /\ NewestNo(buf) = No(buf, n, Size(buf, n))
  BY EndLevels, FilledSizes
<1> HIDE DEF o, n
<1>2. 1 \in 1 .. Size(buf, o) /\ Size(buf, n) \in 1 .. Size(buf, n)
  BY <1>0, <1>1
<1>3. ASSUME NEW j \in Level, NEW l \in 1 .. Size(buf, j)
      PROVE  No(buf, o, 1) <= No(buf, j, l) /\ No(buf, j, l) <= No(buf, n, Size(buf, n))
  <2>1. Size(buf, j) >= 1 /\ j <= o /\ n <= j /\ l >= 1 /\ l <= Size(buf, j)
    BY <1>0, <1>1
  <2>2. (j = o /\ l = 1) \/ Older(o, 1, j, l)
    BY <2>1, <1>0, <1>1 DEF Older
  <2>3. (j = n /\ l = Size(buf, n)) \/ Older(j, l, n, Size(buf, n))
    BY <2>1, <1>0, <1>1 DEF Older
  <2>4. No(buf, o, 1) <= No(buf, j, l)
    BY <2>2, <1>0, <1>1, <1>2 DEF InOrder
  <2>5. No(buf, j, l) <= No(buf, n, Size(buf, n))
    BY <2>3, <1>0, <1>1, <1>2 DEF InOrder
  <2> QED
    BY <2>4, <2>5
<1> QED
  BY <1>0, <1>1, <1>2, <1>3

\* Rounding to the nearest: from 0 at one end to d at the other, never back.
Rounded(d, p) == (2 * d * p + SeekSteps) \div (2 * SeekSteps)

LEMMA Division ==
  ASSUME NEW a \in Nat, NEW b \in Nat \ {0}
  PROVE  a \div b \in Nat /\ b * (a \div b) <= a /\ a < b * (a \div b) + b
OBVIOUS

LEMMA Quotient ==
  ASSUME NEW a \in Nat, NEW b \in Nat \ {0}, NEW q \in Nat, b * q <= a, a < b * q + b
  PROVE  a \div b = q
OBVIOUS

LEMMA DivisionOrder ==
  ASSUME NEW a \in Nat, NEW c \in Nat, a <= c, NEW b \in Nat \ {0}
  PROVE  a \div b <= c \div b
OBVIOUS

LEMMA RoundedRange ==
  ASSUME NEW d \in Nat
  PROVE  /\ \A p \in Percent : Rounded(d, p) \in 0 .. d
         /\ \A p, q \in Percent : p <= q => Rounded(d, p) <= Rounded(d, q)
         /\ Rounded(d, 0) = 0 /\ Rounded(d, SeekSteps) = d
<1> DEFINE y    == 2 * SeekSteps
           x(p) == 2 * d * p + SeekSteps
<1>1. SeekSteps \in Nat \ {0} /\ y \in Nat \ {0} /\ SeekSteps < y
  BY SeekStepsAssumption
<1>2. \A p \in Percent : p \in Nat /\ p <= SeekSteps
  BY <1>1 DEF Percent
<1>3. \A p \in Nat : x(p) \in Nat
  BY <1>1
<1>4. \A p, q \in Nat : p <= q => x(p) <= x(q)
  <2> SUFFICES ASSUME NEW p \in Nat, NEW q \in Nat, p <= q
               PROVE  x(p) <= x(q)
    OBVIOUS
  <2>1. 2 * d * p <= 2 * d * q
    OBVIOUS
  <2> QED
    BY <2>1, <1>1
<1>5. x(0) \div y = 0
  <2>1. x(0) = SeekSteps /\ y * 0 = 0
    BY <1>1
  <2>2. x(0) \in Nat /\ 0 \in Nat /\ y * 0 <= x(0) /\ x(0) < y * 0 + y
    BY <2>1, <1>1
  <2> HIDE DEF y, x
  <2> QED
    BY <2>2, <1>1, Quotient
<1>6. x(SeekSteps) \div y = d
  <2>1. y * d = 2 * d * SeekSteps
    BY <1>1
  <2>2. x(SeekSteps) \in Nat /\ y * d <= x(SeekSteps) /\ x(SeekSteps) < y * d + y
    BY <2>1, <1>1, <1>3
  <2> HIDE DEF y, x
  <2> QED
    BY <2>2, <1>1, Quotient
<1>7. \A p : Rounded(d, p) = x(p) \div y
  BY DEF Rounded
<1> HIDE DEF x, y
<1>8. \A p, q \in Percent : p <= q => x(p) \div y <= x(q) \div y
  BY <1>1, <1>2, <1>3, <1>4, DivisionOrder
<1>9. \A p \in Percent : x(p) \div y \in 0 .. d
  <2> SUFFICES ASSUME NEW p \in Percent
               PROVE  x(p) \div y \in 0 .. d
    OBVIOUS
  <2>1. x(p) \div y \in Nat
    BY <1>1, <1>2, <1>3, Division
  <2>2. SeekSteps \in Percent
    BY <1>1 DEF Percent
  <2>3. x(p) \div y <= x(SeekSteps) \div y
    BY <2>2, <1>2, <1>8
  <2> QED
    BY <2>1, <2>3, <1>6
<1> QED
  BY <1>5, <1>6, <1>7, <1>8, <1>9

LEMMA Targets ==
  ASSUME NEW buf, OldestNo(buf) \in Nat, NewestNo(buf) \in Nat, OldestNo(buf) <= NewestNo(buf)
  PROVE  /\ \A p \in Percent : TargetNo(buf, p) \in OldestNo(buf) .. NewestNo(buf)
         /\ \A p, q \in Percent : p <= q => TargetNo(buf, p) <= TargetNo(buf, q)
         /\ TargetNo(buf, 0) = OldestNo(buf) /\ TargetNo(buf, SeekSteps) = NewestNo(buf)
<1> DEFINE o == OldestNo(buf)
           d == NewestNo(buf) - OldestNo(buf)
<1>1. o \in Nat /\ d \in Nat /\ NewestNo(buf) = o + d
  OBVIOUS
<1>2. \A p : TargetNo(buf, p) = o + Rounded(d, p)
  BY DEF TargetNo, Rounded
<1> HIDE DEF o, d
<1>3. /\ \A p \in Percent : Rounded(d, p) \in 0 .. d
      /\ \A p, q \in Percent : p <= q => Rounded(d, p) <= Rounded(d, q)
      /\ Rounded(d, 0) = 0 /\ Rounded(d, SeekSteps) = d
  BY <1>1, RoundedRange
<1>4. \A p, q \in Percent : p <= q => o + Rounded(d, p) <= o + Rounded(d, q)
  BY <1>1, <1>3
<1>5. \A p \in Percent : o + Rounded(d, p) \in o .. o + d
  BY <1>1, <1>3
<1>6. OldestNo(buf) = o
  BY DEF o
<1> QED
  BY <1>1, <1>2, <1>3, <1>4, <1>5, <1>6

\* The label a position names is where its target lands.
LEMMA PositionLands ==
  ASSUME NEW buf, HasTapes(buf), InOrder(buf), Filled(buf) # {}, NEW p \in Percent
  PROVE  Lands(buf, TargetNo(buf, p), NoAtPercent(buf, p))
<1> DEFINE t     == TargetNo(buf, p)
           r     == NoAtPercent(buf, p)
           tiers == {i \in Filled(buf) : t <= LastNo(buf.levels[i])}
           tier  == CHOOSE i \in tiers : \A j \in tiers : j <= i
           n     == NewestLevel(buf)
           o     == OldestLevel(buf)
<1>0. /\ \A i \in Level : i \in Nat
      /\ \A i \in Level : Size(buf, i) \in Nat
      /\ \A i \in Level : \A k \in 1 .. Size(buf, i) : No(buf, i, k) \in Nat
      /\ \A i \in Level : i \in Filled(buf) <=> Size(buf, i) >= 1
      /\ Filled(buf) \subseteq Level
  BY TapeSizes, FilledSizes DEF Level
<1>1. /\ OldestNo(buf) \in Nat /\ NewestNo(buf) \in Nat /\ OldestNo(buf) <= NewestNo(buf)
      /\ \A j \in Level : \A l \in 1 .. Size(buf, j) :
           OldestNo(buf) <= No(buf, j, l) /\ No(buf, j, l) <= NewestNo(buf)
  BY Ends
<1>2. t \in Nat /\ OldestNo(buf) <= t /\ t <= NewestNo(buf)
  BY <1>1, Targets
<1>3. /\ n \in Filled(buf) /\ o \in Filled(buf)
      /\ \A j \in Filled(buf) : j <= o
      /\ OldestNo(buf) = No(buf, o, 1)
      /\ NewestNo(buf) = No(buf, n, Size(buf, n))
  BY EndLevels
<1>4. \A i : LastNo(buf.levels[i]) = No(buf, i, Size(buf, i)) /\ FirstNo(buf.levels[i]) = No(buf, i, 1)
  BY DEF LastNo, FirstNo, No, Size
<1>5. \A i : i \in tiers <=> i \in Filled(buf) /\ t <= No(buf, i, Size(buf, i))
  BY <1>4
<1>6. n \in tiers /\ tiers \in SUBSET (0 .. LevelCount) /\ LevelCount \in Nat
  BY <1>0, <1>2, <1>3, <1>5, LevelsAssumption DEF Level
<1>7. r = IF OldestNo(buf) >= NewestNo(buf) \/ tiers = {} THEN NewestNo(buf)
          ELSE NoInLevel(buf.levels[tier], t)
  BY DEF NoAtPercent
<1> HIDE DEF t, r, n, o, tiers
<1>8. tier \in tiers /\ \A j \in tiers : j <= tier
  <2>1. \E i \in tiers : \A j \in tiers : j <= i
    BY <1>6, GreatestMember
  <2> QED
    BY <2>1
<1> HIDE DEF tier
<1>9. CASE OldestNo(buf) >= NewestNo(buf)
  <2>1. t = OldestNo(buf) /\ r = OldestNo(buf)
    BY <1>1, <1>2, <1>7, <1>9
  <2>2. o \in Level /\ Size(buf, o) >= 1 /\ Size(buf, o) \in 1 .. Size(buf, o)
    BY <1>0, <1>3
  <2>3. t <= No(buf, o, Size(buf, o))
    BY <1>1, <2>1, <2>2
  <2>4. \A j \in Level : j > o /\ Size(buf, j) >= 1 => FALSE
    BY <1>0, <1>3
  <2>5. t <= No(buf, o, 1) /\ r = No(buf, o, 1)
    BY <1>1, <1>3, <2>1
  <2>6. Lands(buf, t, r)
    BY <2>2, <2>3, <2>4, <2>5 DEF Lands
  <2> QED
    BY <2>6 DEF t, r
<1>10. CASE ~(OldestNo(buf) >= NewestNo(buf))
  <2> DEFINE lvl == buf.levels[tier]
  <2>1. r = NoInLevel(lvl, t)
    BY <1>6, <1>7, <1>10
  <2>2. /\ tier \in Level /\ Size(buf, tier) >= 1 /\ t <= No(buf, tier, Size(buf, tier))
        /\ Len(lvl.frames) = Size(buf, tier) /\ FirstNo(lvl) = No(buf, tier, 1)
        /\ \A k : lvl.frames[k].frame_no = No(buf, tier, k)
    BY <1>0, <1>4, <1>5, <1>8 DEF Size, No
  <2>3. IsLevel(lvl)
    BY <2>2 DEF HasTapes
  <2>4. \A k, l \in 1 .. Len(lvl.frames) :
          k < l => lvl.frames[k].frame_no <= lvl.frames[l].frame_no
    BY <2>2 DEF InOrder, Older
  <2>5. Len(lvl.frames) >= 1 /\ t \in Int
    BY <1>2, <2>2
  <2> HIDE DEF lvl
  <2>6. \/ t <= FirstNo(lvl) /\ NoInLevel(lvl, t) = FirstNo(lvl)
        \/ /\ FirstNo(lvl) < t /\ NoInLevel(lvl, t) <= t
           /\ \E k \in 1 .. Len(lvl.frames) : NoInLevel(lvl, t) = lvl.frames[k].frame_no
           /\ \A k \in 1 .. Len(lvl.frames) :
                lvl.frames[k].frame_no <= t => lvl.frames[k].frame_no <= NoInLevel(lvl, t)
    BY <2>3, <2>4, <2>5, SearchLands
  <2>7. \/ t <= No(buf, tier, 1) /\ r = No(buf, tier, 1)
        \/ /\ No(buf, tier, 1) < t /\ r <= t
           /\ \E k \in 1 .. Size(buf, tier) : r = No(buf, tier, k)
           /\ \A k \in 1 .. Size(buf, tier) : No(buf, tier, k) <= t => No(buf, tier, k) <= r
    BY <2>1, <2>2, <2>6
  <2>8. ASSUME NEW j \in Level, j > tier, Size(buf, j) >= 1
        PROVE  No(buf, j, Size(buf, j)) < t
    <3>1. j \notin tiers
      BY <1>0, <1>8, <2>2, <2>8
    <3>2. ~(t <= No(buf, j, Size(buf, j)))
      BY <1>0, <1>5, <2>8, <3>1
    <3>3. No(buf, j, Size(buf, j)) \in Nat
      BY <1>0, <2>8
    <3> QED
      BY <1>2, <3>2, <3>3
  <2>9. Lands(buf, t, r)
    BY <2>2, <2>7, <2>8 DEF Lands
  <2> QED
    BY <2>9 DEF t, r
<1> QED
  BY <1>9, <1>10

\* Positions name the same labels in buffers with the same levels.
LEMMA SamePositions ==
  ASSUME NEW buf, NEW out, out.levels = buf.levels
  PROVE  /\ Filled(out) = Filled(buf)
         /\ \A p : NoAtPercent(out, p) = NoAtPercent(buf, p)
<1>1. Filled(out) = Filled(buf)
  BY DEF Filled
<1>2. OldestNo(out) = OldestNo(buf) /\ NewestNo(out) = NewestNo(buf)
  BY <1>1 DEF OldestNo, NewestNo
<1>3. \A p : TargetNo(out, p) = TargetNo(buf, p)
  BY <1>2 DEF TargetNo
<1> DEFINE tiers(b, p) == {i \in Filled(b) : TargetNo(b, p) <= LastNo(b.levels[i])}
           tier(b, p)  == CHOOSE i \in tiers(b, p) : \A j \in tiers(b, p) : j <= i
<1>4. \A p : tiers(out, p) = tiers(buf, p)
  BY <1>1, <1>3
<1>5. \A b, p : NoAtPercent(b, p) =
        IF OldestNo(b) >= NewestNo(b) \/ tiers(b, p) = {} THEN NewestNo(b)
        ELSE NoInLevel(b.levels[tier(b, p)], TargetNo(b, p))
  BY DEF NoAtPercent
<1> HIDE DEF tiers
<1>6. \A p : tier(out, p) = tier(buf, p)
  BY <1>4
<1> HIDE DEF tier
<1>7. ASSUME NEW p
      PROVE  NoAtPercent(out, p) = NoAtPercent(buf, p)
  <2>1. /\ tiers(out, p) = tiers(buf, p) /\ tier(out, p) = tier(buf, p)
        /\ TargetNo(out, p) = TargetNo(buf, p)
    BY <1>3, <1>4, <1>6
  <2> QED
    BY <1>2, <1>5, <2>1
<1> QED
  BY <1>1, <1>7

-----------------------------------------------------------------------------
(* Recording and seeking: the order is kept *)

\* The recording: its labels in order, none beyond the bound.
LabelsInv ==
  /\ HasTapes(current) /\ InOrder(current)
  /\ current.currentFrameNo \in 0 .. MaxFrameNo
  /\ trimAt \in 0 .. LevelCount

\* The turn of the main loop: only runs and captures, no stepping, no loop.
TurnInv ==
  /\ loop = << >> /\ ~stepMode /\ percent \in Percent
  /\ frameCounter \in 0 .. MaxFrameNo
  /\ todo \in Seq({"run", "capture"})
  /\ seeking => todo \in {<< >>, << "run" >>}

\* What keeps the next label from being before a stored one: while recording no
\* stored label is beyond the counter, nor beyond the label of the last frame,
\* which a click on the bar makes the counter; while the bar is dragged the
\* label it is at, all that its release will leave, is not beyond them.
AheadInv ==
  /\ ~seeking => /\ frameCounter + Len(todo) <= MaxFrameNo
                 /\ UpTo(current, frameCounter)
                 /\ UpTo(current, current.currentFrameNo)
  /\ seeking /\ Filled(current) # {} =>
       /\ NoAtPercent(current, percent) <= frameCounter
       /\ NoAtPercent(current, percent) <= current.currentFrameNo

SeekInv == PauseInv /\ LabelsInv /\ TurnInv /\ AheadInv

\* The bounds of the labels leave the counter's range alone.
LEMMA NoWrap ==
  ASSUME NEW n \in 0 .. MaxFrameNo + 1
  PROVE  Wrap(n) = n
BY FrameNoAssumption, MaxFrameNoAssumption DEF Wrap

LEMMA UpToLater ==
  ASSUME NEW buf, HasTapes(buf), NEW n \in Nat, NEW m \in Nat, n <= m, UpTo(buf, n)
  PROVE  UpTo(buf, m)
BY TapeSizes DEF UpTo

LEMMA NoFramesUpTo ==
  ASSUME NEW buf, HasTapes(buf), Filled(buf) = {}, NEW n
  PROVE  UpTo(buf, n)
BY FilledSizes, TapeSizes DEF UpTo

\* A position names a stored label.
LEMMA PositionStored ==
  ASSUME NEW buf, HasTapes(buf), InOrder(buf), Filled(buf) # {}, NEW p \in Percent
  PROVE  /\ NoAtPercent(buf, p) \in 0 .. MaxFrameNo
         /\ \A n : UpTo(buf, n) => NoAtPercent(buf, p) <= n
<1>1. Lands(buf, TargetNo(buf, p), NoAtPercent(buf, p))
  BY PositionLands
<1>2. PICK i \in Level : \E k \in 1 .. Size(buf, i) : NoAtPercent(buf, p) = No(buf, i, k)
  BY <1>1 DEF Lands
<1> QED
  BY <1>2, TapeSizes DEF UpTo

LEMMA TurnTail ==
  ASSUME todo \in Seq({"run", "capture"}), todo # << >>
  PROVE  /\ Len(todo) \in Nat /\ Len(todo) >= 1
         /\ Tail(todo) \in Seq({"run", "capture"}) /\ Len(Tail(todo)) = Len(todo) - 1
         /\ << "run" >> \o Tail(todo) \in Seq({"run", "capture"})
         /\ Len(<< "run" >> \o Tail(todo)) = Len(todo)
         /\ Head(todo) \in {"run", "capture"}
         /\ todo = << "run" >> => Tail(todo) = << >>
<1>1. /\ Len(todo) \in Nat /\ Len(todo) >= 1 /\ Head(todo) \in {"run", "capture"}
      /\ Tail(todo) \in Seq({"run", "capture"}) /\ Len(Tail(todo)) = Len(todo) - 1
  BY HeadTailProperties, EmptySeq
<1>2. << "run" >> \in Seq({"run", "capture"}) /\ Len(<< "run" >>) = 1
  OBVIOUS
<1>3. /\ << "run" >> \o Tail(todo) \in Seq({"run", "capture"})
      /\ Len(<< "run" >> \o Tail(todo)) = 1 + Len(Tail(todo))
  BY <1>1, <1>2, ConcatProperties
<1>4. todo = << "run" >> => Tail(todo) = << >>
  <2>1. ASSUME todo = << "run" >>
        PROVE  Tail(todo) = << >>
    <3>1. Len(Tail(todo)) = 0
      BY <1>1, <1>2, <2>1
    <3> QED
      BY <1>1, <3>1, EmptySeq
  <2> QED
    BY <2>1
<1> QED
  BY <1>1, <1>3, <1>4

\* A capture, or the label alone when nothing is recorded.
LEMMA ExecCaptureLabels ==
  ASSUME PauseInv, LabelsInv, TurnInv, UpTo(current, frameCounter), ExecCapture
  PROVE  LabelsInv' /\ UpTo(current', frameCounter) /\ current'.currentFrameNo = frameCounter
<1> DEFINE buf == current
           out == current'
           mid == WithLevel(buf, 1, AppendStates(buf.levels[1],
                                      << Item(machine, frameCounter, machine) >>))
<1>0. /\ HasTapes(buf) /\ InOrder(buf) /\ UpTo(buf, frameCounter)
      /\ frameCounter \in 0 .. MaxFrameNo
  BY DEF LabelsInv, TurnInv
<1>1. CASE ~Recording
  <2>1. out = [buf EXCEPT !.currentFrameNo = frameCounter] /\ trimAt' = trimAt
    BY <1>1 DEF ExecCapture
  <2> HIDE DEF out, buf
  <2>2. out = [levels |-> buf.levels, totalBytes |-> buf.totalBytes, paused |-> buf.paused,
               rollingPaused |-> buf.rollingPaused, currentFrameNo |-> frameCounter]
    BY <1>0, <2>1 DEF HasTapes, IsBuffer
  <2>3. IsBuffer(out) /\ out.levels = buf.levels /\ out.currentFrameNo = frameCounter
    BY <2>2 DEF IsBuffer
  <2>4. HasTapes(out) /\ InOrder(out) /\ UpTo(out, frameCounter)
    BY <1>0, <2>3, SameTapes
  <2> QED
    BY <1>0, <2>1, <2>3, <2>4 DEF LabelsInv, out
<1>2. CASE Recording
  <2>1. out = [mid EXCEPT !.currentFrameNo = frameCounter] /\ trimAt' = 1
    BY <1>2 DEF ExecCapture, Capture
  <2>2. mid = WithLevel(buf, 1, AppendStates(buf.levels[1],
                                  << Item(machine, frameCounter, machine) >>))
    OBVIOUS
  <2> HIDE DEF out, buf, mid
  <2>3. HasTapes(mid) /\ InOrder(mid) /\ UpTo(mid, frameCounter)
    BY <1>0, <2>2, CaptureOrder
  <2>4. out = [levels |-> mid.levels, totalBytes |-> mid.totalBytes, paused |-> mid.paused,
               rollingPaused |-> mid.rollingPaused, currentFrameNo |-> frameCounter]
    BY <2>1, <2>3 DEF HasTapes, IsBuffer
  <2>5. IsBuffer(out) /\ out.levels = mid.levels /\ out.currentFrameNo = frameCounter
    BY <2>4 DEF IsBuffer
  <2>6. HasTapes(out) /\ InOrder(out) /\ UpTo(out, frameCounter)
    BY <2>3, <2>5, SameTapes
  <2>7. 1 \in 0 .. LevelCount
    BY LevelsAssumption
  <2> QED
    BY <1>0, <2>1, <2>5, <2>6, <2>7 DEF LabelsInv, out
<1> QED
  BY <1>1, <1>2

\* One iteration of trimLevels.
LEMMA TrimLabels ==
  ASSUME PauseInv, LabelsInv, Trim
  PROVE  /\ LabelsInv' /\ trimAt # 0
         /\ current'.currentFrameNo = current.currentFrameNo
         /\ \A no : UpTo(current, no) => UpTo(current', no)
<1> DEFINE buf == current
           out == current'
<1>0. HasTapes(buf) /\ InOrder(buf) /\ IsBuffer(buf) /\ LevelCount \in Nat /\ LevelCount >= 1
  BY LevelsAssumption DEF LabelsInv, HasTapes
<1>1. CASE TrimNextLevel
  <2>1. current' = current /\ trimAt # 0 /\ trimAt' \in 0 .. LevelCount
    BY <1>0, <1>1 DEF TrimNextLevel, Level
  <2> QED
    BY <2>1 DEF LabelsInv
<1>2. CASE TrimPromote \/ TrimDrop
  <2>1. /\ trimAt \in Level /\ trimAt # 0 /\ trimAt' = trimAt
        /\ \/ out = Promoted(buf, trimAt) /\ trimAt + 1 \in Level
           \/ out = DroppedOldest(buf, trimAt)
    BY <1>0, <1>2 DEF TrimPromote, TrimDrop, Level
  <2> HIDE DEF buf, out
  <2>2. HasTapes(out) /\ InOrder(out) /\ \A no : UpTo(buf, no) => UpTo(out, no)
    BY <1>0, <2>1, TrimOrder
  <2>3. out.currentFrameNo = buf.currentFrameNo
    BY <1>0, <2>1, TrimRelevels DEF Relevelled
  <2> QED
    BY <2>1, <2>2, <2>3 DEF LabelsInv, out, buf
<1> QED
  BY <1>1, <1>2 DEF Trim

\* A run of the core counts at most one frame, and none while the bar is dragged.
LEMMA RunCounts ==
  ASSUME SeekInv, Doing("run"), NEW b, NEW a, NEW broke
  PROVE  /\ Counted(Blanks(b, a, broke)) \in 0 .. MaxFrameNo
         /\ Counted(Blanks(b, a, broke)) >= frameCounter
         /\ Counted(Blanks(b, a, broke)) <= frameCounter + 1
         /\ seeking => Counted(Blanks(b, a, broke)) = frameCounter
<1>1. todo # << >> /\ todo \in Seq({"run", "capture"}) /\ frameCounter \in 0 .. MaxFrameNo
  BY DEF SeekInv, TurnInv, Doing
<1>2. Len(todo) \in Nat /\ Len(todo) >= 1
  BY <1>1, TurnTail
<1>3. Blanks(b, a, broke) \in {0, 1}
  BY DEF Blanks
<1>4. CASE seeking
  <2>1. Counted(Blanks(b, a, broke)) = frameCounter
    BY <1>4 DEF Counted, SeekInv, PauseInv, PausedWhileSeeking
  <2> QED
    BY <1>1, <2>1, MaxFrameNoAssumption
<1>5. CASE ~seeking
  <2>1. frameCounter + Len(todo) <= MaxFrameNo
    BY <1>5 DEF SeekInv, AheadInv
  <2>2. \A n \in {0, 1} : Wrap(frameCounter + n) = frameCounter + n
    <3>1. \A n \in {0, 1} : frameCounter + n \in 0 .. MaxFrameNo + 1
      BY <1>1, MaxFrameNoAssumption
    <3> QED
      BY <3>1, NoWrap
  <2>3. Counted(Blanks(b, a, broke)) \in {frameCounter, frameCounter + 1}
    <3> DEFINE n == Blanks(b, a, broke)
    <3>1. n \in {0, 1} /\ Wrap(frameCounter + n) = frameCounter + n
      BY <1>3, <2>2
    <3>2. Counted(n) = frameCounter \/ Counted(n) = Wrap(frameCounter + n)
      BY DEF Counted
    <3> HIDE DEF n
    <3>3. Counted(n) \in {frameCounter, frameCounter + 1}
      BY <1>1, <3>1, <3>2
    <3> QED
      BY <3>3 DEF n
  <2> QED
    BY <1>1, <1>2, <1>5, <2>1, <2>3, MaxFrameNoAssumption
<1> QED
  BY <1>4, <1>5

\* The actions of the main loop.
LEMMA RuntimeLabels ==
  ASSUME SeekInv, PauseInv', Runtime
  PROVE  LabelsInv' /\ TurnInv' /\ AheadInv'
<1>0. /\ PauseInv /\ LabelsInv /\ TurnInv /\ AheadInv
      /\ HasTapes(current) /\ InOrder(current)
      /\ frameCounter \in 0 .. MaxFrameNo /\ frameCounter \in Nat
      /\ todo \in Seq({"run", "capture"}) /\ MaxFrameNo \in Nat
  BY MaxFrameNoAssumption DEF SeekInv, LabelsInv, TurnInv
<1>1. CASE RunFrame
  <2>1. /\ ~seeking /\ ExecCapture /\ todo' = << "run" >> /\ frameCounter # MaxFrameNo
        /\ frameCounter' = frameCounter /\ UNCHANGED userVars
    BY <1>1, <1>0 DEF RunFrame, NextFrame, Bounded, TurnInv
  <2>2. UpTo(current, frameCounter)
    BY <1>0, <2>1 DEF AheadInv
  <2>3. LabelsInv' /\ UpTo(current', frameCounter) /\ current'.currentFrameNo = frameCounter
    BY <1>0, <2>1, <2>2, ExecCaptureLabels
  <2>4. << "run" >> \in Seq({"run", "capture"}) /\ Len(<< "run" >>) = 1
    OBVIOUS
  <2>5. frameCounter + 1 <= MaxFrameNo
    BY <1>0, <2>1
  <2> QED
    BY <1>0, <2>1, <2>3, <2>4, <2>5 DEF TurnInv, AheadInv, userVars
<1>2. CASE StepFrame
  BY <1>0, <1>2 DEF StepFrame, TurnInv
<1>3. CASE TrimCapture
  <2>1. Trim /\ UNCHANGED << coreVars, frameCounter, todo, userVars >>
    BY <1>3 DEF TrimCapture
  <2>2. /\ LabelsInv' /\ trimAt # 0 /\ current'.currentFrameNo = current.currentFrameNo
        /\ \A no : UpTo(current, no) => UpTo(current', no)
    BY <1>0, <2>1, TrimLabels
  <2>3. ~seeking
    BY <1>0, <2>2 DEF PauseInv
  <2> QED
    BY <1>0, <2>1, <2>2, <2>3 DEF TurnInv, AheadInv, userVars
<1>4. CASE RefreshNext \/ CountBack
  <2>1. Head(todo) \in {"back", "next"} /\ todo # << >>
    BY <1>4 DEF RefreshNext, CountBack, Doing
  <2>2. Head(todo) \in {"run", "capture"}
    BY <1>0, <2>1, TurnTail
  <2> QED
    BY <2>1, <2>2
<1>5. ASSUME NEW multiplier \in 2 .. MaxMultiplier, RunFastFrames(multiplier)
      PROVE  LabelsInv' /\ TurnInv' /\ AheadInv'
  <2> DEFINE rest == [k \in 1 .. multiplier - 1 |-> "capture"]
  <2>1. /\ ~seeking /\ ExecCapture /\ todo' = << "run" >> \o rest
        /\ \A k \in 0 .. multiplier - 1 : Wrap(frameCounter + k) # MaxFrameNo
        /\ frameCounter' = frameCounter /\ UNCHANGED userVars
    BY <1>5 DEF RunFastFrames
  <2>2. UpTo(current, frameCounter)
    BY <1>0, <2>1 DEF AheadInv
  <2>3. LabelsInv' /\ UpTo(current', frameCounter) /\ current'.currentFrameNo = frameCounter
    BY <1>0, <2>1, <2>2, ExecCaptureLabels
  <2>4. multiplier \in Nat /\ multiplier - 1 \in Nat
    BY MultiplierAssumption
  <2>5. todo' \in Seq({"run", "capture"}) /\ Len(todo') = multiplier
    <3>1. rest \in Seq({"run", "capture"}) /\ Len(rest) = multiplier - 1
      BY <2>4
    <3>2. << "run" >> \in Seq({"run", "capture"}) /\ Len(<< "run" >>) = 1
      OBVIOUS
    <3> HIDE DEF rest
    <3>3. /\ << "run" >> \o rest \in Seq({"run", "capture"})
          /\ Len(<< "run" >> \o rest) = 1 + (multiplier - 1)
      BY <3>1, <3>2, ConcatProperties
    <3>4. 1 + (multiplier - 1) = multiplier
      BY <2>4
    <3> QED
      BY <2>1, <3>3, <3>4
  <2>6. frameCounter + multiplier <= MaxFrameNo
    <3>1. CASE frameCounter + multiplier > MaxFrameNo
      <4> DEFINE k == MaxFrameNo - frameCounter
      <4>1. k \in 0 .. multiplier - 1 /\ frameCounter + k = MaxFrameNo
        BY <1>0, <2>4, <3>1
      <4>2. Wrap(MaxFrameNo) = MaxFrameNo
        <5>1. MaxFrameNo \in 0 .. MaxFrameNo + 1
          BY <1>0
        <5> QED
          BY <5>1, NoWrap
      <4> HIDE DEF k
      <4> QED
        BY <2>1, <4>1, <4>2
    <3> QED
      BY <1>0, <2>4, <3>1
  <2> HIDE DEF rest
  <2> QED
    BY <1>0, <2>1, <2>3, <2>5, <2>6 DEF TurnInv, AheadInv, userVars
<1>6. CASE CaptureNextFrame
  <2>1. /\ todo # << >> /\ Head(todo) = "capture" /\ ExecCapture
        /\ todo' = << "run" >> \o Tail(todo)
        /\ frameCounter' = frameCounter /\ UNCHANGED userVars
    BY <1>6 DEF CaptureNextFrame, Doing
  <2>2. ~seeking
    <3>1. Head(<< "run" >>) = "run"
      OBVIOUS
    <3> QED
      BY <1>0, <2>1, <3>1 DEF TurnInv
  <2>3. UpTo(current, frameCounter) /\ frameCounter + Len(todo) <= MaxFrameNo
    BY <1>0, <2>2 DEF AheadInv
  <2>4. LabelsInv' /\ UpTo(current', frameCounter) /\ current'.currentFrameNo = frameCounter
    BY <1>0, <2>1, <2>3, ExecCaptureLabels
  <2>5. todo' \in Seq({"run", "capture"}) /\ Len(todo') = Len(todo)
    BY <1>0, <2>1, TurnTail
  <2> QED
    BY <1>0, <2>1, <2>2, <2>3, <2>4, <2>5 DEF TurnInv, AheadInv, userVars
<1>7. CASE CoreFinishesFrame \/ CoreBreaks \/ CoreIsPaused
  <2>1. /\ Doing("run") /\ todo # << >> /\ todo' = Tail(todo) /\ UNCHANGED vars
        /\ \/ frameCounter' = frameCounter
           \/ \E broke : frameCounter' = Counted(Blanks(machine, machine', broke))
        /\ ~stepMode' \/ stepMode' = stepMode
        /\ UNCHANGED << loop, seeking, percent >>
    BY <1>7 DEF CoreFinishesFrame, CoreBreaks, CoreIsPaused, Doing, AfterRunTodo, userVars
  <2>2. /\ frameCounter' \in 0 .. MaxFrameNo /\ frameCounter' >= frameCounter
        /\ frameCounter' <= frameCounter + 1
        /\ seeking => frameCounter' = frameCounter
    BY <1>0, <2>1, RunCounts
  <2>3. /\ todo' \in Seq({"run", "capture"}) /\ Len(todo') = Len(todo) - 1 /\ Len(todo) \in Nat
        /\ todo = << "run" >> => todo' = << >>
    BY <1>0, <2>1, TurnTail
  <2>4. LabelsInv' /\ current' = current
    BY <1>0, <2>1 DEF LabelsInv, vars
  <2>5. TurnInv'
    BY <1>0, <2>1, <2>2, <2>3 DEF TurnInv
  <2>6. ASSUME ~seeking
        PROVE  /\ frameCounter' + Len(todo') <= MaxFrameNo
               /\ UpTo(current', frameCounter') /\ UpTo(current', current'.currentFrameNo)
    <3>1. /\ frameCounter + Len(todo) <= MaxFrameNo
          /\ UpTo(current, frameCounter) /\ UpTo(current, current.currentFrameNo)
      BY <1>0, <2>6 DEF AheadInv
    <3>2. frameCounter' + Len(todo') <= MaxFrameNo /\ frameCounter' \in Nat
      BY <1>0, <2>2, <2>3, <3>1
    <3>3. UpTo(current, frameCounter')
      BY <1>0, <2>2, <3>1, <3>2, UpToLater
    <3> QED
      BY <2>4, <3>1, <3>2, <3>3
  <2>7. AheadInv'
    BY <1>0, <2>1, <2>2, <2>4, <2>6 DEF AheadInv
  <2> QED
    BY <2>4, <2>5, <2>7
<1> QED
  BY <1>1, <1>2, <1>3, <1>4, <1>5, <1>6, <1>7 DEF Runtime

\* The events of the bar.
LEMMA SeekLabels ==
  ASSUME SeekInv, PauseInv', Seek
  PROVE  LabelsInv' /\ TurnInv' /\ AheadInv'
<1>0. /\ PauseInv /\ LabelsInv /\ TurnInv /\ AheadInv
      /\ HasTapes(current) /\ InOrder(current) /\ IsBuffer(current) /\ IsBuffer(current')
      /\ current.currentFrameNo \in 0 .. MaxFrameNo
      /\ frameCounter \in 0 .. MaxFrameNo /\ percent \in Percent /\ MaxFrameNo \in Nat
  BY MaxFrameNoAssumption DEF SeekInv, PauseInv, LabelsInv, TurnInv
<1>1. CASE SeekPress
  <2>1. /\ todo = << >> /\ ~seeking /\ seeking' = TRUE /\ trimAt' = trimAt
        /\ UNCHANGED << frameCounter, todo, stepMode, loop, percent >>
        /\ current' = [current EXCEPT !.paused = TRUE]
    BY <1>1 DEF SeekPress, SeekBarShown, Idle, SetPaused
  <2>2. current'.levels = current.levels /\ current'.currentFrameNo = current.currentFrameNo
    BY <1>0, <2>1 DEF IsBuffer
  <2>3. HasTapes(current') /\ InOrder(current')
    BY <1>0, <2>2, SameTapes
  <2>4. LabelsInv' /\ TurnInv'
    BY <1>0, <2>1, <2>2, <2>3 DEF LabelsInv, TurnInv
  <2>5. UpTo(current, frameCounter) /\ UpTo(current, current.currentFrameNo)
    BY <1>0, <2>1 DEF AheadInv
  <2>6. /\ Filled(current') = Filled(current)
        /\ NoAtPercent(current', percent) = NoAtPercent(current, percent)
    BY <2>2, SamePositions
  <2>7. Filled(current) # {} => /\ NoAtPercent(current, percent) <= frameCounter
                                /\ NoAtPercent(current, percent) <= current.currentFrameNo
    BY <1>0, <2>5, PositionStored
  <2> QED
    BY <2>1, <2>2, <2>4, <2>6, <2>7 DEF AheadInv
<1>2. CASE SeekMove
  <2>1. PICK p \in Percent :
          /\ percent' = p
          /\ IF seeking /\ Filled(current) # {}
             THEN /\ ExecRestore(NoAtPercent(current, p))
                  /\ frameCounter' = NoAtPercent(current, p)
                  /\ todo' = << "run" >>
             ELSE /\ frameCounter' = current.currentFrameNo
                  /\ UNCHANGED << vars, machine, todo >>
    BY <1>2 DEF SeekMove
  <2>2. todo = << >> /\ UNCHANGED << stepMode, loop, seeking >>
    BY <1>2 DEF SeekMove, SeekBarShown, Idle
  <2>3. CASE seeking /\ Filled(current) # {}
    <3> DEFINE no == NoAtPercent(current, p)
    <3>1. /\ current' = [current EXCEPT !.currentFrameNo = no] /\ trimAt' = trimAt
          /\ frameCounter' = no /\ todo' = << "run" >> /\ percent' = p
      BY <2>1, <2>3 DEF ExecRestore
    <3>2. current'.levels = current.levels /\ current'.currentFrameNo = no
      <4> HIDE DEF no
      <4> QED
        BY <1>0, <3>1 DEF IsBuffer
    <3>3. HasTapes(current') /\ InOrder(current')
      BY <1>0, <3>2, SameTapes
    <3>4. no \in 0 .. MaxFrameNo
      BY <1>0, <2>3, PositionStored
    <3>5. NoAtPercent(current', p) = no
      BY <3>2, SamePositions
    <3> HIDE DEF no
    <3>6. << "run" >> \in Seq({"run", "capture"})
      OBVIOUS
    <3>7. LabelsInv' /\ TurnInv'
      BY <1>0, <2>2, <3>1, <3>2, <3>3, <3>4, <3>6 DEF LabelsInv, TurnInv
    <3>8. no <= no
      BY <3>4
    <3> QED
      BY <2>2, <2>3, <3>1, <3>2, <3>5, <3>7, <3>8 DEF AheadInv
  <2>4. CASE ~(seeking /\ Filled(current) # {})
    <3>1. /\ frameCounter' = current.currentFrameNo /\ current' = current /\ trimAt' = trimAt
          /\ todo' = todo /\ percent' = p
      BY <2>1, <2>4 DEF vars
    <3>2. LabelsInv' /\ TurnInv'
      BY <1>0, <2>2, <3>1 DEF LabelsInv, TurnInv
    <3>3. ~seeking => UpTo(current, current.currentFrameNo)
      BY <1>0 DEF AheadInv
    <3>4. Len(todo') = 0 /\ frameCounter' + 0 <= MaxFrameNo
      BY <1>0, <2>2, <3>1
    <3> QED
      BY <2>2, <2>4, <3>1, <3>2, <3>3, <3>4 DEF AheadInv
  <2> QED
    BY <2>3, <2>4
<1>3. CASE SeekRelease
  <2> DEFINE un  == [current EXCEPT !.paused = FALSE]
             no  == NoAtPercent(current, percent)
             cut == TrimmedAfter(un, no)
  <2>1. /\ todo = << >> /\ trimAt' = trimAt /\ seeking /\ seeking' = FALSE
        /\ percent' = SeekSteps
        /\ UNCHANGED << frameCounter, todo, stepMode, loop >>
        /\ current' = IF Filled(current) = {} THEN un ELSE cut
    BY <1>3 DEF SeekRelease, SeekBarShown, Idle
  <2>2. SeekSteps \in Percent
    BY SeekStepsAssumption DEF Percent
  <2>3. IsBuffer(un) /\ un.levels = current.levels /\ un.currentFrameNo = current.currentFrameNo
    <3>1. un = [current EXCEPT !.paused = FALSE]
      OBVIOUS
    <3> HIDE DEF un
    <3> QED
      BY <1>0, <3>1, PausedSet
  <2> HIDE DEF un
  <2>4. HasTapes(un) /\ InOrder(un)
    BY <1>0, <2>3, SameTapes
  <2>5. /\ HasTapes(current') /\ InOrder(current')
        /\ current'.currentFrameNo \in 0 .. MaxFrameNo
        /\ UpTo(current', frameCounter) /\ UpTo(current', current'.currentFrameNo)
    <3>1. CASE Filled(current) = {}
      <4>1. current' = un /\ Filled(un) = {}
        BY <2>1, <2>3, <3>1, SamePositions
      <4> QED
        BY <1>0, <2>3, <2>4, <4>1, NoFramesUpTo
    <3>2. CASE Filled(current) # {}
      <4>1. /\ current' = cut /\ no \in 0 .. MaxFrameNo /\ no \in Nat
            /\ no <= frameCounter /\ no <= current.currentFrameNo
        BY <1>0, <2>1, <3>2, PositionStored DEF AheadInv
      <4> HIDE DEF no
      <4>2. /\ HasTapes(cut)
            /\ \A i \in Level : cut.levels[i].frames = KeptUpTo(un.levels[i].frames, no)
        BY <2>4, CutTapes
      <4>3. InOrder(cut) /\ UpTo(cut, no)
        BY <2>4, <4>1, <4>2, CutLabels
      <4>4. cut.currentFrameNo = no \/ cut.currentFrameNo = current.currentFrameNo
        BY <2>3, CutRelevels
      <4>5. cut.currentFrameNo \in 0 .. MaxFrameNo /\ no <= cut.currentFrameNo
        BY <1>0, <4>1, <4>4
      <4> HIDE DEF cut
      <4>6. frameCounter \in Nat /\ cut.currentFrameNo \in Nat
        BY <1>0, <4>5
      <4>7. UpTo(cut, frameCounter) /\ UpTo(cut, cut.currentFrameNo)
        BY <4>1, <4>2, <4>3, <4>5, <4>6, UpToLater
      <4> QED
        BY <4>1, <4>2, <4>3, <4>5, <4>7
    <3> QED
      BY <3>1, <3>2
  <2> HIDE DEF cut, no
  <2>6. LabelsInv' /\ TurnInv'
    BY <1>0, <2>1, <2>2, <2>5 DEF LabelsInv, TurnInv
  <2>7. Len(todo') = 0 /\ frameCounter' + 0 <= MaxFrameNo
    BY <1>0, <2>1
  <2> QED
    BY <2>1, <2>5, <2>6, <2>7 DEF AheadInv
<1> QED
  BY <1>1, <1>2, <1>3 DEF Seek

LEMMA SeekStep ==
  ASSUME SeekInv, [Runtime \/ Seek \/ Breaking]_timelineVars
  PROVE  SeekInv'
<1>1. PauseInv'
  <2>1. [TimelineNext]_timelineVars
    BY DEF TimelineNext
  <2> QED
    BY <2>1, PauseStep DEF SeekInv
<1>2. CASE Breaking
  <2>1. /\ UNCHANGED << current, save, trimAt, frameCounter, todo, loop, seeking, percent >>
        /\ ~stepMode' \/ stepMode' = stepMode
    BY <1>2 DEF Breaking, Pause, Continue, StepInstr, StepLine, vars, userVars
  <2> QED
    BY <1>1, <2>1 DEF SeekInv, LabelsInv, TurnInv, AheadInv
<1>3. CASE UNCHANGED timelineVars
  BY <1>1, <1>3 DEF SeekInv, LabelsInv, TurnInv, AheadInv, timelineVars
<1> QED
  BY <1>1, <1>2, <1>3, RuntimeLabels, SeekLabels DEF SeekInv

LEMMA SeekInit ==
  ASSUME TimelineInit
  PROVE  SeekInv
<1>1. /\ current = EmptyBuffer /\ trimAt = 0 /\ frameCounter = 0 /\ todo = << >>
      /\ loop = << >> /\ stepMode = FALSE /\ seeking = FALSE /\ percent = SeekSteps
  BY DEF TimelineInit, Init
<1>2. PauseInv
  BY PauseInit
<1>3. IsTape(<< >>)
  <2>1. << >> \in Seq({}) /\ Len(<< >>) = 0
    OBVIOUS
  <2> QED
    BY <2>1 DEF IsTape
<1>4. IsLevel(EmptyLevel) /\ EmptyLevel.frames = << >>
  BY <1>3, LevelOf DEF EmptyLevel
<1>5. \A i \in Level : Size(EmptyBuffer, i) = 0
  BY <1>4 DEF EmptyBuffer, Size
<1>6. HasTapes(EmptyBuffer) /\ EmptyBuffer.currentFrameNo = 0
  BY <1>4 DEF HasTapes, EmptyBuffer, IsBuffer
<1>7. InOrder(EmptyBuffer) /\ UpTo(EmptyBuffer, 0)
  BY <1>5 DEF InOrder, UpTo
<1>8. /\ MaxFrameNo \in Nat /\ 0 \in 0 .. LevelCount /\ SeekSteps \in Percent
      /\ << >> \in Seq({"run", "capture"}) /\ Len(<< >>) = 0
  BY MaxFrameNoAssumption, LevelsAssumption, SeekStepsAssumption DEF Percent
<1>9. LabelsInv
  BY <1>1, <1>6, <1>7, <1>8 DEF LabelsInv
<1>10. TurnInv
  BY <1>1, <1>8 DEF TurnInv
<1>11. AheadInv
  BY <1>1, <1>6, <1>7, <1>8 DEF AheadInv
<1> QED
  BY <1>2, <1>9, <1>10, <1>11 DEF SeekInv

\* The labels of the slots of a buffer.
LEMMA NosOfSlots ==
  ASSUME NEW buf
  PROVE  \A m : m \in {FrameAt(buf, slot).frame_no : slot \in Slots(buf)} <=>
           \E i \in Level : \E k \in 1 .. Size(buf, i) : m = No(buf, i, k)
<1> DEFINE nos == {FrameAt(buf, slot).frame_no : slot \in Slots(buf)}
<1>1. ASSUME NEW m, m \in nos
      PROVE  \E i \in Level : \E k \in 1 .. Size(buf, i) : m = No(buf, i, k)
  <2>1. PICK slot \in Slots(buf) : m = FrameAt(buf, slot).frame_no
    BY <1>1
  <2> QED
    BY <2>1, SlotShape
<1>2. ASSUME NEW i \in Level, NEW k \in 1 .. Size(buf, i)
      PROVE  No(buf, i, k) \in nos
  <2>1. << i, k >> \in Slots(buf)
    BY DEF Slots, Size
  <2>2. FrameAt(buf, << i, k >>).frame_no = No(buf, i, k)
    BY DEF FrameAt, No
  <2> QED
    BY <2>1, <2>2
<1> QED
  BY <1>1, <1>2

\* What the invariant says of them.
LEMMA LabelsOfSlots ==
  ASSUME HasTapes(current), InOrder(current)
  PROVE  /\ LabelsInOrder
         /\ \A m : m \in StoredNos <=>
              \E i \in Level : \E k \in 1 .. Size(current, i) : m = No(current, i, k)
<1>1. ASSUME NEW a \in Slots(current), NEW b \in Slots(current),
             a[1] > b[1] \/ (a[1] = b[1] /\ a[2] < b[2])
      PROVE  FrameAt(current, a).frame_no <= FrameAt(current, b).frame_no
  <2>1. /\ a[1] \in Level /\ a[2] \in 1 .. Size(current, a[1])
        /\ FrameAt(current, a).frame_no = No(current, a[1], a[2])
    BY SlotShape
  <2>2. /\ b[1] \in Level /\ b[2] \in 1 .. Size(current, b[1])
        /\ FrameAt(current, b).frame_no = No(current, b[1], b[2])
    BY SlotShape
  <2>3. Older(a[1], a[2], b[1], b[2])
    BY <1>1 DEF Older
  <2> QED
    BY <2>1, <2>2, <2>3 DEF InOrder
<1> QED
  BY <1>1, NosOfSlots DEF LabelsInOrder, StoredNos

LEMMA SeekFinds ==
  ASSUME HasTapes(current), InOrder(current)
  PROVE  SeekNearest /\ SeekEnds /\ SeekMonotone
<1> SUFFICES ASSUME Filled(current) # {}
             PROVE  SeekNearest /\ SeekEnds /\ SeekMonotone
  BY DEF SeekNearest, SeekEnds, SeekMonotone
<1> DEFINE Near(no, t) == /\ no \in StoredNos
                          /\ \A m \in StoredNos : ~(no < m /\ m <= t) /\ ~(t <= m /\ m < no)
<1>0. \A m : m \in StoredNos <=>
        \E i \in Level : \E k \in 1 .. Size(current, i) : m = No(current, i, k)
  BY LabelsOfSlots
<1>1. /\ OldestNo(current) \in Nat /\ NewestNo(current) \in Nat
      /\ OldestNo(current) <= NewestNo(current)
      /\ \A m \in StoredNos : OldestNo(current) <= m /\ m <= NewestNo(current)
      /\ \A m \in StoredNos : m \in Nat
  BY <1>0, Ends, TapeSizes
<1>2. /\ \A p \in Percent : TargetNo(current, p) \in OldestNo(current) .. NewestNo(current)
      /\ \A p, q \in Percent : p <= q => TargetNo(current, p) <= TargetNo(current, q)
      /\ TargetNo(current, 0) = OldestNo(current)
      /\ TargetNo(current, SeekSteps) = NewestNo(current)
  BY <1>1, Targets
<1>3. \A p \in Percent : TargetNo(current, p) \in Int
  BY <1>1, <1>2
<1>4. \A p \in Percent : Lands(current, TargetNo(current, p), NoAtPercent(current, p))
  BY PositionLands
<1>5. ASSUME NEW p \in Percent
      PROVE  Near(NoAtPercent(current, p), TargetNo(current, p))
  <2> DEFINE no == NoAtPercent(current, p)
             t  == TargetNo(current, p)
  <2>1. t \in Int /\ Lands(current, t, no)
    BY <1>3, <1>4
  <2> HIDE DEF no, t
  <2>2. /\ \E i \in Level : \E k \in 1 .. Size(current, i) : no = No(current, i, k)
        /\ \A j \in Level : \A l \in 1 .. Size(current, j) :
             /\ ~(no < No(current, j, l) /\ No(current, j, l) <= t)
             /\ ~(t <= No(current, j, l) /\ No(current, j, l) < no)
    BY <2>1, NearestLanded
  <2>3. Near(no, t)
    BY <1>0, <2>2
  <2> QED
    BY <2>3 DEF no, t
<1>6. SeekNearest
  BY <1>5 DEF SeekNearest
<1>7. 0 \in Percent /\ SeekSteps \in Percent
  BY SeekStepsAssumption DEF Percent
<1>8. SeekEnds
  <2>1. Near(NoAtPercent(current, 0), OldestNo(current))
    BY <1>2, <1>5, <1>7
  <2>2. Near(NoAtPercent(current, SeekSteps), NewestNo(current))
    BY <1>2, <1>5, <1>7
  <2>3. \A m \in StoredNos : NoAtPercent(current, 0) <= m
    BY <1>1, <2>1
  <2>4. \A m \in StoredNos : m <= NoAtPercent(current, SeekSteps)
    BY <1>1, <2>2
  <2> QED
    BY <2>3, <2>4 DEF SeekEnds
<1>9. SeekMonotone
  <2> SUFFICES ASSUME NEW p \in Percent, NEW q \in Percent, p <= q
               PROVE  NoAtPercent(current, p) <= NoAtPercent(current, q)
    BY DEF SeekMonotone
  <2>1. TargetNo(current, p) <= TargetNo(current, q)
    BY <1>2
  <2> QED
    BY <1>3, <1>4, <2>1, LandsMonotone
<1> QED
  BY <1>6, <1>8, <1>9

\* Recording, breaking and going back with the bar never puts a label before an
\* older one: emu_seekBarDragging trims what is ahead of the bar, and the
\* counter is never behind what is stored.
THEOREM LabelsStayInOrder == SeekSpec => []LabelsInOrder
<1>1. SeekInv => LabelsInOrder
  BY LabelsOfSlots DEF SeekInv, LabelsInv
<1> QED
  BY <1>1, SeekInit, SeekStep, PTL DEF SeekSpec

\* state_buffer_getFrameAtPercent always finds a stored frame, and no stored
\* frame lies between it and the label asked for, whatever frames and levels the
\* thinning has left: its choice of a level and its binary search agree.
THEOREM SeekFindsNearest == SeekSpec => []SeekNearest
<1>1. SeekInv => SeekNearest
  BY SeekFinds DEF SeekInv, LabelsInv
<1> QED
  BY <1>1, SeekInit, SeekStep, PTL DEF SeekSpec

\* The ends of the bar are the first and the last stored frame.
THEOREM SeekReachesEnds == SeekSpec => []SeekEnds
<1>1. SeekInv => SeekEnds
  BY SeekFinds DEF SeekInv, LabelsInv
<1> QED
  BY <1>1, SeekInit, SeekStep, PTL DEF SeekSpec

\* Moving the bar to the right never goes back in time, also where one level
\* takes over from the next.
THEOREM SeekNeverGoesBack == SeekSpec => []SeekMonotone
<1>1. SeekInv => SeekMonotone
  BY SeekFinds DEF SeekInv, LabelsInv
<1> QED
  BY <1>1, SeekInit, SeekStep, PTL DEF SeekSpec

-----------------------------------------------------------------------------
(* Recording and seeking: every stored frame can be read *)

\* The number of blocks of a state, when they all have the same, and what can
\* be given to the core as a state, whatever the blocks hold.
StateSize == CHOOSE n : \A s \in States : Len(s) = n

IsImage(s) == IsList(s, StateSize)

LEMMA StatesAreImages ==
  ASSUME SameSize, NEW s \in States
  PROVE  StateSize \in Nat \ {0} /\ IsImage(s)
<1>1. s \in Seq(Block) /\ s # << >>
  BY StatesAssumption
<1>2. \A t \in States : Len(t) = Len(s)
  BY DEF SameSize
<1>3. \A t \in States : Len(t) = StateSize
  BY <1>2 DEF StateSize
<1>4. Len(s) = StateSize
  BY <1>3
<1>5. Len(s) \in Nat \ {0}
  BY <1>1, EmptySeq
<1>6. s = [k \in 1 .. Len(s) |-> s[k]]
  BY <1>1, LenProperties
<1> QED
  BY <1>4, <1>5, <1>6 DEF IsImage, IsList

\* A level whose frames can all be read: the first is a keyframe, the keyframes
\* are images, and the sizes are the same.
Reads(frames) ==
  /\ Len(frames) >= 1 => frames[1].is_keyframe
  /\ \A k \in 1 .. Len(frames) :
       /\ frames[k].state_size = StateSize
       /\ frames[k].is_keyframe => IsImage(frames[k].payload)

LEMMA AppliedImage ==
  ASSUME StateSize \in Nat, NEW s, IsImage(s), NEW f
  PROVE  IsImage(Apply(f, s))
<1> DEFINE e(b) == IF b \in DOMAIN f.payload THEN f.payload[b] ELSE s[b]
           a    == [b \in 1 .. StateSize |-> e(b)]
<1>1. DOMAIN s = 1 .. StateSize
  BY DEF IsImage, IsList
<1>2. Apply(f, s) = a
  BY <1>1 DEF Apply
<1> HIDE DEF e
<1>3. Len(a) = StateSize /\ a = [b \in 1 .. StateSize |-> a[b]]
  OBVIOUS
<1> QED
  BY <1>2, <1>3 DEF IsImage, IsList

LEMMA ReplayedImages ==
  ASSUME StateSize \in Nat, NEW frames, Len(frames) \in Nat, Reads(frames),
         NEW n \in 1 .. Len(frames), NEW k \in 1 .. n, frames[k].is_keyframe
  PROVE  \A i \in k .. n : IsImage(Replay(frames, k, n)[i])
<1> DEFINE r   == Replay(frames, k, n)
           Bad == {i \in k .. n : ~IsImage(r[i])}
<1>0. n \in Nat /\ k \in Nat /\ k <= n /\ k \in 1 .. Len(frames)
  OBVIOUS
<1>1. \A i \in k .. n : r[i] = IF i = k THEN frames[k].payload
                               ELSE Apply(frames[i], r[i - 1])
  BY <1>0, ReplayStep
<1> HIDE DEF r
<1> SUFFICES ASSUME Bad # {}
             PROVE  FALSE
  BY DEF r
<1>2. Bad \in SUBSET Nat
  BY <1>0
<1>3. PICK i \in Bad : \A j \in Bad : ~(j < i)
  BY <1>2, LeastMember
<1>4. i \in k .. n /\ ~IsImage(r[i])
  BY <1>3
<1>5. i # k
  BY <1>0, <1>1, <1>4 DEF Reads
<1>6. i - 1 \in k .. n /\ i - 1 < i
  BY <1>0, <1>4, <1>5
<1>7. IsImage(r[i - 1])
  BY <1>3, <1>6
<1> QED
  BY <1>1, <1>4, <1>5, <1>7, AppliedImage

LEMMA ReadsFrame ==
  ASSUME StateSize \in Nat \ {0}, NEW frames, Len(frames) \in Nat, Reads(frames),
         NEW idx \in 1 .. Len(frames)
  PROVE  IsImage(Reconstruct(frames, idx)) /\ Reconstruct(frames, idx) # NoState
<1> DEFINE k == KeyIndex(frames, idx)
<1>0. idx \in Nat /\ frames[1].is_keyframe
  BY DEF Reads
<1>1. k \in 1 .. idx /\ frames[k].is_keyframe
  BY <1>0, KeyIndexIs
<1> HIDE DEF k
<1>2. \A j \in k .. idx : j \in 1 .. Len(frames) /\ k \in 1 .. Len(frames)
  BY <1>0, <1>1
<1>3. CanReconstruct(frames, idx)
  BY <1>1, <1>2 DEF CanReconstruct, Reads, k
<1>4. IsImage(Replay(frames, k, idx)[idx])
  BY <1>0, <1>1, ReplayedImages
<1>5. Reconstruct(frames, idx) = Replay(frames, k, idx)[idx]
  BY <1>3 DEF Reconstruct, k
<1>6. \A s : IsImage(s) => s # NoState
  <2>1. Len(NoState) = 0
    BY DEF NoState
  <2> QED
    BY <2>1 DEF IsImage, IsList
<1> QED
  BY <1>4, <1>5, <1>6

\* A frame that is no diff holds the state itself; a diff is taken only against
\* a state of the same size.
LEMMA StoredKey ==
  ASSUME NEW p, NEW item, NEW f, f = StoredFrame(p, item)
  PROVE  /\ f.is_keyframe => f.payload = item.state
         /\ Len(p) # Len(item.state) => f.is_keyframe
<1> DEFINE diff   == DiffPayload(p, item.state)
           isDiff == /\ Len(p) = Len(item.state)
                     /\ DiffPayloadSize(diff) < Len(item.state) * BlockBytes
           isKey  == ~isDiff
           load   == IF isDiff THEN diff ELSE item.state
<1>1. f = [frame_no    |-> item.frame_no,
           is_keyframe |-> isKey,
           state_size  |-> Len(item.state),
           payload     |-> load,
           captured    |-> item.captured]
  BY DEF StoredFrame
<1> HIDE DEF diff, isKey, load
<1>2. f.is_keyframe = isKey /\ f.payload = load
  BY <1>1
<1>3. isKey => load = item.state
  BY DEF isKey, load
<1>4. Len(p) # Len(item.state) => isKey
  BY DEF isKey
<1> QED
  BY <1>2, <1>3, <1>4

LEMMA AppendReads ==
  ASSUME StateSize \in Nat \ {0}, NEW lvl, IsLevel(lvl), Reads(lvl.frames),
         NEW m \in Nat, NEW items, IsList(items, m),
         \A j \in 1 .. m : items[j].frame_no \in 0 .. MaxFrameNo,
         \A j \in 1 .. m : IsImage(items[j].state),
         NEW out, out = AppendStates(lvl, items)
  PROVE  Reads(out.frames)
<1> DEFINE old == lvl.frames
           all == out.frames
           N   == Len(lvl.frames)
<1>0. N \in Nat
  BY TapeShape DEF IsLevel
<1>1. Len(all) = N + m
  BY AppendTape
<1>2. \A k \in 1 .. N : all[k] = old[k]
  BY AppendTape
<1>3. \A j \in 1 .. m : StoredAt(all[N + j], items[j], N + j)
  BY AppendTape
<1> HIDE DEF old, all
<1>4. ASSUME NEW j \in 1 .. m
      PROVE  /\ all[N + j].state_size = StateSize
             /\ all[N + j].is_keyframe => IsImage(all[N + j].payload)
             /\ N + j = 1 => all[N + j].is_keyframe
  <2>1. PICK p : /\ all[N + j] = StoredFrame(p, items[j])
                 /\ N + j = 1 => p = NoState
    BY <1>3 DEF StoredAt
  <2>2. IsImage(items[j].state) /\ Len(items[j].state) = StateSize
    BY DEF IsImage, IsList
  <2>3. all[N + j].state_size = StateSize
    BY <2>1, <2>2 DEF StoredFrame
  <2>4. all[N + j].is_keyframe => all[N + j].payload = items[j].state
    BY <2>1, StoredKey
  <2>5. Len(p) # Len(items[j].state) => all[N + j].is_keyframe
    BY <2>1, StoredKey
  <2>6. p = NoState => Len(p) = 0
    BY DEF NoState
  <2> QED
    BY <2>1, <2>2, <2>3, <2>4, <2>5, <2>6
<1>5. \A k \in 1 .. N + m : k \in 1 .. N \/ (k - N \in 1 .. m /\ N + (k - N) = k)
  BY <1>0
<1>6. ASSUME NEW k \in 1 .. N + m
      PROVE  /\ all[k].state_size = StateSize
             /\ all[k].is_keyframe => IsImage(all[k].payload)
             /\ k = 1 => all[k].is_keyframe
  <2>1. CASE k \in 1 .. N
    <3>1. k = 1 => N >= 1
      BY <1>0, <2>1
    <3> QED
      BY <1>2, <2>1, <3>1 DEF Reads, old
  <2>2. CASE k - N \in 1 .. m /\ N + (k - N) = k
    BY <1>4, <2>2
  <2> QED
    BY <1>5, <2>1, <2>2
<1>7. Len(all) >= 1 => 1 \in 1 .. N + m
  BY <1>0, <1>1
<1> QED
  BY <1>1, <1>6, <1>7 DEF Reads, all

LEMMA LeftReads ==
  ASSUME StateSize \in Nat, NEW lvl, IsLevel(lvl), Reads(lvl.frames),
         NEW n \in 0 .. Len(lvl.frames), NEW left, LeftOf(lvl, n, left)
  PROVE  Reads(left.frames)
<1> DEFINE old == lvl.frames
           new == left.frames
<1>0. Len(old) \in Nat /\ n \in Nat
  BY TapeShape DEF IsLevel
<1>1. Len(new) = Len(old) - n
  BY LeftLabels
<1>2. \A k \in 2 .. Len(new) : new[k] = old[n + k]
  BY LeftLabels
<1>3. Len(new) >= 1 => MadeKey(new[1], old, n)
  BY LeftLabels
<1> HIDE DEF old, new
<1>4. Reads(old)
  BY DEF old
<1>5. ASSUME Len(new) >= 1
      PROVE  /\ new[1].is_keyframe /\ new[1].state_size = StateSize /\ IsImage(new[1].payload)
  <2>1. n + 1 \in 1 .. Len(old) /\ 1 \in 1 .. n + 1 /\ 1 \in 1 .. Len(old) /\ Len(old) >= 1
        /\ n + 1 \in 1 .. n + 1
    BY <1>0, <1>1, <1>5
  <2>2. /\ old[1].is_keyframe /\ old[1].state_size = StateSize
        /\ old[n + 1].state_size = StateSize
        /\ old[n + 1].is_keyframe => IsImage(old[n + 1].payload)
    BY <1>4, <2>1 DEF Reads
  <2>3. IsImage(Replay(old, 1, n + 1)[n + 1])
    BY <1>0, <1>4, <2>1, <2>2, ReplayedImages
  <2> QED
    BY <1>3, <1>5, <2>2, <2>3 DEF MadeKey
<1>6. ASSUME NEW k \in 2 .. Len(new)
      PROVE  /\ new[k].state_size = StateSize
             /\ new[k].is_keyframe => IsImage(new[k].payload)
  <2>1. n + k \in 1 .. Len(old)
    BY <1>0, <1>1
  <2> QED
    BY <1>2, <1>4, <2>1 DEF Reads
<1>7. \A k \in 1 .. Len(new) : (k = 1 /\ Len(new) >= 1) \/ k \in 2 .. Len(new)
  BY <1>0, <1>1
<1> QED
  BY <1>5, <1>6, <1>7 DEF Reads, new

LEMMA ItemImages ==
  ASSUME StateSize \in Nat, NEW frames, IsTape(frames), Reads(frames),
         NEW n \in 0 .. Len(frames), NEW items, items = PromotedItems(frames, n)
  PROVE  \A j \in 1 .. (n + 1) \div 2 : IsImage(items[j].state)
<1> DEFINE h    == (n + 1) \div 2
           work == Replay(frames, 1, n)
<1>0. Len(frames) \in Nat /\ n \in Nat
  BY TapeShape
<1>1. items = [j \in 1 .. h |->
                 Item(work[2*j - 1], frames[2*j - 1].frame_no, frames[2*j - 1].captured)]
  BY DEF PromotedItems
<1>2. \A j \in 1 .. h : 2 * j - 1 \in 1 .. n
  BY <1>0
<1>3. h \in Nat
  BY <1>0
<1>4. ASSUME NEW j \in 1 .. h
      PROVE  IsImage(work[2 * j - 1])
  <2>1. n \in 1 .. Len(frames) /\ 1 \in 1 .. n /\ 2 * j - 1 \in 1 .. n
    BY <1>0, <1>2
  <2>2. frames[1].is_keyframe
    BY <1>0, <2>1 DEF Reads
  <2> QED
    BY <1>0, <2>1, <2>2, ReplayedImages
<1> HIDE DEF h, work
<1>5. \A j \in 1 .. h : items[j].state = work[2 * j - 1]
  BY <1>1 DEF Item
<1> QED
  BY <1>4, <1>5 DEF h

\* The frames of all levels can be read.
AllRead(buf) == \A i \in Level : Reads(buf.levels[i].frames)

LEMMA TrimReads ==
  ASSUME StateSize \in Nat \ {0}, NEW buf, HasTapes(buf), AllRead(buf), NEW i \in Level, NEW out,
         \/ out = Promoted(buf, i) /\ i + 1 \in Level
         \/ out = DroppedOldest(buf, i)
  PROVE  AllRead(out)
<1> DEFINE src == buf.levels[i]
<1>0. StateSize \in Nat /\ IsLevel(src) /\ IsTape(src.frames) /\ Size(buf, i) = Len(src.frames)
      /\ Size(buf, i) \in Nat /\ Reads(src.frames) /\ i \in Nat
  BY TapeShape DEF HasTapes, AllRead, IsLevel, Size, Level
<1>1. CASE out = Promoted(buf, i) /\ i + 1 \in Level /\ out # buf
  <2> DEFINE n     == PromoteCount(buf, i)
             dst   == buf.levels[i + 1]
             items == PromotedItems(src.frames, n)
             h     == (n + 1) \div 2
             left  == out.levels[i]
             grown == out.levels[i + 1]
  <2>1. PromotedLevels(out, buf, i, n)
    BY <1>1, TapesPromoted
  <2>2. n \in 0 .. Size(buf, i)
    <3>1. \A j \in Level : Size(buf, j) \in Nat
      BY TapeSizes
    <3> QED
      BY <1>1, <3>1, CountToPromote
  <2>3. /\ LeftOf(src, n, left) /\ grown = AppendStates(dst, items)
        /\ \A j \in Level : j # i /\ j # i + 1 => out.levels[j] = buf.levels[j]
        /\ IsLevel(dst) /\ Reads(dst.frames) /\ items = PromotedItems(src.frames, n)
        /\ n \in 0 .. Len(src.frames)
    BY <1>0, <1>1, <2>1, <2>2 DEF PromotedLevels, HasTapes, AllRead
  <2> HIDE DEF n, dst, items, left, grown, src
  <2>4. Reads(left.frames)
    BY <1>0, <2>3, LeftReads
  <2>5. IsList(items, (n + 1) \div 2)
    BY <1>0, <2>3, ItemLabels
  <2>6. \A j \in 1 .. (n + 1) \div 2 : items[j].frame_no \in 0 .. MaxFrameNo
    BY <1>0, <2>3, ItemLabels
  <2>7. \A j \in 1 .. (n + 1) \div 2 : IsImage(items[j].state)
    BY <1>0, <2>3, ItemImages
  <2>8. Reads(grown.frames)
    <3>1. h \in Nat /\ IsList(items, h)
      BY <2>5 DEF IsList
    <3> QED
      BY <2>3, <2>6, <2>7, <3>1, AppendReads
  <2> QED
    BY <2>3, <2>4, <2>8 DEF AllRead, left, grown
<1>2. CASE out = DroppedOldest(buf, i)
  <2>1. PICK n \in 0 .. Size(buf, i) : out = buf \/ DroppedLevels(out, buf, i, n)
    BY <1>2, TapesDropped
  <2>2. CASE DroppedLevels(out, buf, i, n)
    <3>1. LeftOf(src, n, out.levels[i]) /\ n \in 0 .. Len(src.frames)
          /\ \A j \in Level : j # i => out.levels[j] = buf.levels[j]
      BY <1>0, <2>1, <2>2 DEF DroppedLevels
    <3> DEFINE left == out.levels[i]
    <3> HIDE DEF src, left
    <3>2. Reads(left.frames)
      BY <1>0, <3>1, LeftReads DEF left
    <3> QED
      BY <3>1, <3>2 DEF AllRead, left
  <2> QED
    BY <2>1, <2>2
<1>3. CASE out = buf
  BY <1>3
<1> QED
  BY <1>1, <1>2, <1>3

LEMMA CaptureReads ==
  ASSUME StateSize \in Nat \ {0}, NEW buf, HasTapes(buf), AllRead(buf), NEW s, IsImage(s),
         NEW no \in 0 .. MaxFrameNo, NEW out,
         out = WithLevel(buf, 1, AppendStates(buf.levels[1], << Item(s, no, s) >>))
  PROVE  AllRead(out)
<1> DEFINE l1    == buf.levels[1]
           items == << Item(s, no, s) >>
           lvl   == AppendStates(l1, items)
<1>0. 1 \in Level /\ IsLevel(l1) /\ Reads(l1.frames)
  BY LevelsAssumption DEF Level, HasTapes, AllRead
<1>1. IsList(items, 1) /\ items[1].frame_no = no /\ items[1].state = s
  BY DEF IsList, Item
<1>2. /\ \A j \in 1 .. 1 : items[j].frame_no \in 0 .. MaxFrameNo
      /\ \A j \in 1 .. 1 : IsImage(items[j].state)
  BY <1>1
<1>3. lvl = AppendStates(l1, items) /\ out = WithLevel(buf, 1, lvl)
  OBVIOUS
<1> HIDE DEF items, lvl, l1
<1>4. 1 \in Nat
  OBVIOUS
<1>5. IsLevel(lvl)
  BY <1>0, <1>1, <1>2, <1>3, <1>4, AppendTape
<1>6. Reads(lvl.frames)
  BY <1>0, <1>1, <1>2, <1>3, <1>4, AppendReads
<1>7. \A j \in Level : out.levels[j] = IF j = 1 THEN lvl ELSE buf.levels[j]
  BY <1>0, <1>3, <1>5, WithLevelTapes
<1> QED
  BY <1>6, <1>7 DEF AllRead

-----------------------------------------------------------------------------
(* Releasing the bar *)

\* Cutting leaves every frame that stays readable.
LEMMA CutReads ==
  ASSUME NEW buf, HasTapes(buf), AllRead(buf), NEW no, NEW out, HasTapes(out),
         \A i \in Level : out.levels[i].frames = KeptUpTo(buf.levels[i].frames, no)
  PROVE  AllRead(out)
<1> SUFFICES ASSUME NEW i \in Level
             PROVE  Reads(out.levels[i].frames)
  BY DEF AllRead
<1> DEFINE frames == buf.levels[i].frames
           kept   == out.levels[i].frames
<1>1. PICK S : frames \in Seq(S)
  BY DEF HasTapes, IsLevel, IsTape
<1>2. kept = KeptUpTo(frames, no) /\ Reads(frames)
  BY DEF AllRead
<1> HIDE DEF frames, kept
<1>3. Len(kept) \in 0 .. Len(frames) /\ Len(frames) \in Nat
  BY <1>1, <1>2, KeptIsPrefix
<1>4. \A k \in 1 .. Len(kept) : kept[k] = frames[k]
  BY <1>1, <1>2, KeptIsPrefix
<1>5. \A k \in 1 .. Len(kept) : k \in 1 .. Len(frames)
  BY <1>3
<1>6. Len(kept) >= 1 => 1 \in 1 .. Len(kept) /\ Len(frames) >= 1
  BY <1>3
<1> QED
  BY <1>2, <1>4, <1>5, <1>6 DEF Reads, kept

\* A stored label is restored, by a state the core can load.
LEMMA RestoreReads ==
  ASSUME StateSize \in Nat \ {0}, NEW buf, HasTapes(buf), AllRead(buf), NEW no,
         HasFrameNo(buf, no)
  PROVE  IsImage(RestoredState(buf, no)) /\ RestoredState(buf, no) # NoState
<1> DEFINE slot   == FindFrame(buf, no)
           frames == buf.levels[slot[1]].frames
<1>1. slot \in Slots(buf)
  BY FirstFound
<1>2. slot[1] \in Level /\ slot[2] \in 1 .. Len(frames)
  BY <1>1, SlotShape DEF Size
<1>3. Len(frames) \in Nat /\ Reads(frames)
  BY <1>2, TapeShape DEF HasTapes, IsLevel, AllRead
<1>4. RestoredState(buf, no) = Reconstruct(frames, slot[2])
  BY DEF RestoredState
<1> HIDE DEF slot, frames
<1> QED
  BY <1>2, <1>3, <1>4, ReadsFrame

\* So a cut after a stored label ends with its restore.
LEMMA CutRestores ==
  ASSUME StateSize \in Nat \ {0}, NEW buf, HasTapes(buf), InOrder(buf), AllRead(buf),
         NEW no \in Nat, HasFrameNo(buf, no)
  PROVE  TrimmedAfter(buf, no).currentFrameNo = no
<1> DEFINE cut   == [i \in Level |-> CutLevel(buf.levels[i], no)]
           left  == CutBuffer(buf, no)
           exact == RestoredState(left, no)
           out   == TrimmedAfter(buf, no)
           ls    == CutLevels(buf, no)
           t     == buf.totalBytes + SizeChange(buf.levels, CutLevels(buf, no))
<1>1. out = IF CanRefresh(cut) /\ exact # NoState THEN WithPrev(left, exact, no) ELSE left
  BY DEF TrimmedAfter, WithPrev, CutBuffer, CutLevels
<1>2. /\ HasTapes(left)
      /\ \A i \in Level : left.levels[i].frames = KeptUpTo(buf.levels[i].frames, no)
      /\ \A i \in Level : cut[i].frames = KeptUpTo(buf.levels[i].frames, no)
  BY CutBufferTapes
<1>3. IsBuffer(left)
  BY <1>2 DEF HasTapes
<1> HIDE DEF left
<1>4. AllRead(left)
  BY <1>2, CutReads
<1>5. HasFrameNo(left, no)
  <2>1. PICK slot \in Slots(buf) : FrameAt(buf, slot).frame_no = no
    BY DEF HasFrameNo
  <2> DEFINE i == slot[1]
             k == slot[2]
  <2>2. i \in Level /\ k \in 1 .. Size(buf, i) /\ No(buf, i, k) = no
    BY <2>1, SlotShape
  <2> HIDE DEF i, k
  <2>3. no <= no
    OBVIOUS
  <2>4. k \in 1 .. Size(left, i) /\ No(left, i, k) = no
    BY <1>2, <2>2, <2>3, CutLabels
  <2>5. << i, k >> \in Slots(left)
    BY <2>2, <2>4 DEF Slots, Size
  <2>6. FrameAt(left, << i, k >>).frame_no = no
    BY <2>4 DEF FrameAt, No
  <2> QED
    BY <2>5, <2>6 DEF HasFrameNo
<1>6. exact # NoState
  BY <1>2, <1>4, <1>5, RestoreReads
<1> HIDE DEF cut
<1>7. CanRefresh(cut)
  <2> SUFFICES ASSUME NEW i \in Level, cut[i].frames # << >>
               PROVE  Last(cut[i]) # NoState
    BY DEF CanRefresh
  <2> DEFINE frames == cut[i].frames
  <2>1. PICK S : frames \in Seq(S)
    BY <1>2 DEF HasTapes, IsLevel, IsTape
  <2>2. Reads(frames)
    BY <1>2, <1>4 DEF AllRead
  <2>3. Last(cut[i]) = Reconstruct(frames, Len(frames))
    BY DEF Last
  <2>4. frames # << >>
    OBVIOUS
  <2> HIDE DEF frames
  <2>5. Len(frames) \in Nat /\ Len(frames) \in 1 .. Len(frames)
    BY <2>1, <2>4, EmptySeq
  <2> QED
    BY <2>2, <2>3, <2>5, ReadsFrame
<1>8. out = WithPrev(left, exact, no)
  BY <1>1, <1>6, <1>7
<1> HIDE DEF exact
<1> DEFINE ls2 == [left.levels EXCEPT ![1].prevState = exact]
<1>9. out = [left EXCEPT !.levels = ls2, !.currentFrameNo = no]
  BY <1>3, <1>8 DEF WithPrev, IsBuffer
<1> HIDE DEF ls2, out
<1> QED
  BY <1>3, <1>9 DEF IsBuffer, out

-----------------------------------------------------------------------------
(* Recording and seeking: what the core is given *)

\* Every stored frame can be read, and the machine's state has the one size.
ReadInv ==
  /\ StateSize \in Nat \ {0}
  /\ AllRead(current)
  /\ IsImage(machine)

LEMMA LabelReads ==
  ASSUME NEW buf, IsBuffer(buf), AllRead(buf), NEW no, NEW out,
         out = [buf EXCEPT !.currentFrameNo = no]
  PROVE  AllRead(out)
<1>1. out.levels = buf.levels
  BY DEF IsBuffer
<1> QED
  BY <1>1 DEF AllRead

LEMMA ExecCaptureReads ==
  ASSUME SeekInv, ReadInv, UpTo(current, frameCounter), ExecCapture
  PROVE  ReadInv'
<1> DEFINE buf == current
           out == current'
           mid == WithLevel(buf, 1, AppendStates(buf.levels[1],
                                      << Item(machine, frameCounter, machine) >>))
<1>0. /\ HasTapes(buf) /\ InOrder(buf) /\ IsBuffer(buf) /\ UpTo(buf, frameCounter)
      /\ frameCounter \in 0 .. MaxFrameNo
      /\ StateSize \in Nat \ {0} /\ AllRead(buf) /\ IsImage(machine) /\ machine' = machine
  BY DEF SeekInv, LabelsInv, TurnInv, HasTapes, ReadInv, ExecCapture
<1>1. CASE ~Recording
  <2>1. out = [buf EXCEPT !.currentFrameNo = frameCounter]
    BY <1>1 DEF ExecCapture
  <2> HIDE DEF buf, out
  <2>2. AllRead(out)
    BY <1>0, <2>1, LabelReads
  <2> QED
    BY <1>0, <2>2 DEF ReadInv, out
<1>2. CASE Recording
  <2>1. out = [mid EXCEPT !.currentFrameNo = frameCounter]
    BY <1>2 DEF ExecCapture, Capture
  <2>2. mid = WithLevel(buf, 1, AppendStates(buf.levels[1],
                                  << Item(machine, frameCounter, machine) >>))
    OBVIOUS
  <2> HIDE DEF buf, out, mid
  <2>3. IsBuffer(mid)
    BY <1>0, <2>2, CaptureOrder DEF HasTapes
  <2>4. AllRead(mid)
    BY <1>0, <2>2, CaptureReads
  <2>5. AllRead(out)
    BY <2>1, <2>3, <2>4, LabelReads
  <2> QED
    BY <1>0, <2>5 DEF ReadInv, out
<1> QED
  BY <1>1, <1>2

LEMMA ExecRestoreReads ==
  ASSUME SeekInv, ReadInv, NEW no, ExecRestore(no)
  PROVE  ReadInv'
<1> DEFINE s == RestoredState(current, no)
<1>1. /\ HasTapes(current) /\ IsBuffer(current) /\ AllRead(current)
      /\ StateSize \in Nat \ {0} /\ IsImage(machine)
  BY DEF SeekInv, LabelsInv, HasTapes, ReadInv
<1>2. /\ machine' = IF s = NoState THEN machine ELSE s
      /\ current' = [current EXCEPT !.currentFrameNo = no]
  BY DEF ExecRestore
<1>3. s # NoState => HasFrameNo(current, no)
  BY DEF RestoredState
<1>4. s # NoState => IsImage(s)
  BY <1>1, <1>3, RestoreReads
<1> HIDE DEF s
<1>5. IsImage(machine')
  BY <1>1, <1>2, <1>4
<1>6. AllRead(current')
  BY <1>1, <1>2, LabelReads
<1> QED
  BY <1>1, <1>5, <1>6 DEF ReadInv

LEMMA RuntimeReads ==
  ASSUME SameSize, SeekInv, ReadInv, Runtime
  PROVE  ReadInv'
<1>0. /\ HasTapes(current) /\ AllRead(current) /\ IsImage(machine) /\ StateSize \in Nat \ {0}
      /\ loop = << >> /\ ~stepMode /\ todo \in Seq({"run", "capture"})
  BY DEF SeekInv, LabelsInv, TurnInv, ReadInv
<1>1. ASSUME ~seeking
      PROVE  UpTo(current, frameCounter)
  BY <1>1 DEF SeekInv, AheadInv
<1>2. CASE RunFrame
  BY <1>0, <1>1, <1>2, ExecCaptureReads DEF RunFrame, NextFrame
<1>3. CASE \E multiplier \in 2 .. MaxMultiplier : RunFastFrames(multiplier)
  BY <1>1, <1>3, ExecCaptureReads DEF RunFastFrames
<1>4. CASE CaptureNextFrame
  <2>1. ~seeking
    <3>1. todo # << >> /\ Head(todo) = "capture"
      BY <1>4 DEF CaptureNextFrame, Doing
    <3>2. Head(<< "run" >>) = "run"
      OBVIOUS
    <3> QED
      BY <3>1, <3>2 DEF SeekInv, TurnInv
  <2> QED
    BY <1>1, <1>4, <2>1, ExecCaptureReads DEF CaptureNextFrame
<1>5. CASE StepFrame
  BY <1>0, <1>5 DEF StepFrame
<1>6. CASE RefreshNext
  <2>1. todo # << >> /\ Head(todo) = "next"
    BY <1>6 DEF RefreshNext, Doing
  <2>2. Head(todo) \in {"run", "capture"}
    BY <1>0, <2>1, TurnTail
  <2> QED
    BY <2>1, <2>2
<1>7. CASE TrimCapture
  <2> DEFINE buf == current
             out == current'
  <2>1. machine' = machine /\ Trim
    BY <1>7 DEF TrimCapture, coreVars
  <2>2. CASE TrimNextLevel
    BY <1>0, <2>1, <2>2 DEF TrimNextLevel, ReadInv
  <2>3. CASE TrimPromote \/ TrimDrop
    <3>1. /\ trimAt \in Level
          /\ \/ out = Promoted(buf, trimAt) /\ trimAt + 1 \in Level
             \/ out = DroppedOldest(buf, trimAt)
      BY <2>3, LevelsAssumption DEF TrimPromote, TrimDrop, Level
    <3> HIDE DEF out
    <3>2. AllRead(out)
      BY <1>0, <3>1, TrimReads
    <3> QED
      BY <1>0, <2>1, <3>2 DEF ReadInv, out
  <2> QED
    BY <2>1, <2>2, <2>3 DEF Trim
<1>8. CASE CoreFinishesFrame \/ CoreBreaks
  <2>1. current' = current /\ machine' \in States
    BY <1>8 DEF CoreFinishesFrame, CoreBreaks, vars
  <2> QED
    BY <1>0, <2>1, StatesAreImages DEF ReadInv
<1>9. CASE CoreIsPaused \/ CountBack
  <2>1. current' = current /\ machine' = machine
    BY <1>9 DEF CoreIsPaused, CountBack, vars, coreVars
  <2> QED
    BY <1>0, <2>1 DEF ReadInv
<1> QED
  BY <1>2, <1>3, <1>4, <1>5, <1>6, <1>7, <1>8, <1>9 DEF Runtime

\* What the release of the bar leaves.
LEMMA ReleaseCuts ==
  ASSUME SeekInv, ReadInv, SeekRelease, Filled(current) # {}
  PROVE  LET no == NoAtPercent(current, percent) IN
           /\ AllRead(current') /\ machine' = machine
           /\ StoredNos' = {m \in StoredNos : m <= no}
           /\ current'.currentFrameNo = no
<1> DEFINE un  == [current EXCEPT !.paused = FALSE]
           no  == NoAtPercent(current, percent)
           cut == TrimmedAfter(un, no)
<1>0. /\ HasTapes(current) /\ InOrder(current) /\ IsBuffer(current) /\ percent \in Percent
      /\ AllRead(current) /\ StateSize \in Nat \ {0}
  BY DEF SeekInv, LabelsInv, TurnInv, HasTapes, ReadInv
<1>1. current' = cut /\ machine' = machine
  BY DEF SeekRelease, coreVars
<1>2. IsBuffer(un) /\ un.levels = current.levels
  <2>1. un = [current EXCEPT !.paused = FALSE]
    OBVIOUS
  <2> HIDE DEF un
  <2> QED
    BY <1>0, <2>1, PausedSet
<1> HIDE DEF un
<1>3. HasTapes(un) /\ InOrder(un)
  BY <1>0, <1>2, SameTapes
<1>4. AllRead(un)
  BY <1>0, <1>2 DEF AllRead
<1>5. no \in Nat
  BY <1>0, PositionStored
<1>6. \E i \in Level : \E k \in 1 .. Size(current, i) : no = No(current, i, k)
  BY <1>0, PositionLands DEF Lands
<1> HIDE DEF no
<1>7. HasFrameNo(un, no)
  <2>1. PICK i \in Level : \E k \in 1 .. Size(current, i) : no = No(current, i, k)
    BY <1>6
  <2>2. PICK k \in 1 .. Size(current, i) : no = No(current, i, k)
    BY <2>1
  <2>3. << i, k >> \in Slots(un) /\ FrameAt(un, << i, k >>).frame_no = no
    BY <1>2, <2>2 DEF Slots, FrameAt, Size, No
  <2> QED
    BY <2>3 DEF HasFrameNo
<1>8. cut.currentFrameNo = no
  BY <1>0, <1>3, <1>4, <1>5, <1>7, CutRestores
<1>9. /\ HasTapes(cut)
      /\ \A i \in Level : cut.levels[i].frames = KeptUpTo(un.levels[i].frames, no)
  BY <1>3, CutTapes
<1>10. AllRead(cut)
  BY <1>3, <1>4, <1>9, CutReads
<1>11. /\ InOrder(cut)
       /\ \A i \in Level : Size(cut, i) <= Size(un, i)
       /\ \A i \in Level : \A k \in 1 .. Size(cut, i) :
            No(cut, i, k) = No(un, i, k) /\ No(cut, i, k) <= no
       /\ \A i \in Level : \A k \in 1 .. Size(un, i) :
            No(un, i, k) <= no => k \in 1 .. Size(cut, i)
  BY <1>3, <1>5, <1>9, CutLabels DEF UpTo
<1>12. \A i \in Level : /\ Size(un, i) = Size(current, i)
                        /\ \A k : No(un, i, k) = No(current, i, k)
                        /\ Size(cut, i) \in Nat /\ Size(un, i) \in Nat
  BY <1>2, <1>3, <1>9, TapeSizes DEF Size, No
<1> HIDE DEF cut
<1>13. \A m : m \in StoredNos <=>
         \E i \in Level : \E k \in 1 .. Size(current, i) : m = No(current, i, k)
  BY <1>0, LabelsOfSlots
<1>14. \A m : m \in StoredNos' <=>
         \E i \in Level : \E k \in 1 .. Size(cut, i) : m = No(cut, i, k)
  <2>1. StoredNos' = {FrameAt(cut, slot).frame_no : slot \in Slots(cut)}
    BY <1>1 DEF StoredNos, FrameAt, Slots
  <2> QED
    BY <2>1, NosOfSlots
<1>15. ASSUME NEW m
       PROVE  m \in StoredNos' <=> m \in StoredNos /\ m <= no
  <2>1. ASSUME NEW i \in Level, NEW k \in 1 .. Size(cut, i), m = No(cut, i, k)
        PROVE  m \in StoredNos /\ m <= no
    <3>1. k \in 1 .. Size(current, i) /\ m = No(current, i, k)
      BY <1>11, <1>12, <2>1
    <3> QED
      BY <1>11, <1>13, <2>1, <3>1
  <2>2. ASSUME NEW i \in Level, NEW k \in 1 .. Size(current, i), m = No(current, i, k), m <= no
        PROVE  m \in StoredNos'
    <3>1. k \in 1 .. Size(cut, i) /\ m = No(cut, i, k)
      BY <1>11, <1>12, <2>2
    <3> QED
      BY <1>14, <3>1
  <2> QED
    BY <1>13, <1>14, <2>1, <2>2
<1>16. StoredNos' = {m \in StoredNos : m <= no}
  BY <1>15
<1> QED
  BY <1>1, <1>8, <1>10, <1>16 DEF no

LEMMA ReadStep ==
  ASSUME SameSize, SeekInv, ReadInv, [Runtime \/ Seek \/ Breaking]_timelineVars
  PROVE  ReadInv'
<1>0. /\ AllRead(current) /\ IsImage(machine) /\ StateSize \in Nat \ {0} /\ IsBuffer(current)
  BY DEF SeekInv, LabelsInv, HasTapes, ReadInv
<1>1. ASSUME NEW paused, current' = [current EXCEPT !.paused = paused], machine' = machine
      PROVE  ReadInv'
  <2> DEFINE buf == current
             out == current'
  <2>1. out = [buf EXCEPT !.paused = paused] /\ IsBuffer(buf)
    BY <1>0, <1>1
  <2> HIDE DEF buf, out
  <2>2. out.levels = buf.levels
    BY <2>1, PausedSet
  <2> QED
    BY <1>0, <1>1, <2>2 DEF ReadInv, AllRead, buf, out
<1>2. CASE SeekPress
  BY <1>1, <1>2 DEF SeekPress, SetPaused, coreVars
<1>3. CASE SeekMove
  <2>1. PICK p \in Percent :
          \/ ExecRestore(NoAtPercent(current, p))
          \/ UNCHANGED << vars, machine, todo >>
    BY <1>3 DEF SeekMove
  <2>2. CASE UNCHANGED << vars, machine, todo >>
    BY <1>0, <2>2 DEF ReadInv, vars
  <2> QED
    BY <2>1, <2>2, ExecRestoreReads
<1>4. CASE SeekRelease /\ Filled(current) = {}
  BY <1>1, <1>4 DEF SeekRelease, coreVars
<1>5. CASE SeekRelease /\ Filled(current) # {}
  <2>1. AllRead(current') /\ machine' = machine
    BY <1>5, ReleaseCuts
  <2> QED
    BY <1>0, <2>1 DEF ReadInv
<1>6. CASE Breaking \/ UNCHANGED timelineVars
  <2>1. current' = current /\ machine' = machine
    BY <1>6 DEF Breaking, Pause, Continue, StepInstr, StepLine, vars, timelineVars
  <2> QED
    BY <1>0, <2>1 DEF ReadInv
<1> QED
  BY <1>2, <1>3, <1>4, <1>5, <1>6, RuntimeReads DEF Seek

\* The label recorded on from while the bar is dragged: it is the bar's after a
\* move and otherwise stays, since a paused buffer counts no blank.
LEMMA DragCounts ==
  ASSUME SeekInv, [Runtime \/ Seek \/ Breaking]_timelineVars,
         seeking, Filled(current) # {}
  PROVE  IF seeking' /\ percent' # percent
         THEN frameCounter' = NoAtPercent(current, percent')
         ELSE frameCounter' = frameCounter
<1>1. todo \in Seq({"run", "capture"})
  BY DEF SeekInv, TurnInv
<1>2. ASSUME Runtime
      PROVE  percent' = percent /\ frameCounter' = frameCounter
  <2>1. ~RefreshNext /\ ~CountBack
    <3>1. todo # << >> => Head(todo) \in {"run", "capture"}
      BY <1>1, TurnTail
    <3> QED
      BY <3>1 DEF RefreshNext, CountBack, Doing
  <2>2. ~RunFrame /\ ~StepFrame /\ ~(\E n \in 2 .. MaxMultiplier : RunFastFrames(n))
    BY DEF RunFrame, StepFrame, RunFastFrames
  <2>3. CASE TrimCapture \/ CaptureNextFrame \/ CoreIsPaused
    BY <2>3 DEF TrimCapture, CaptureNextFrame, CoreIsPaused, userVars
  <2>4. CASE CoreFinishesFrame
    <3>1. frameCounter' = Counted(Blanks(machine, machine', FALSE))
      BY <2>4 DEF CoreFinishesFrame
    <3>2. percent' = percent /\ Doing("run")
      BY <2>4 DEF CoreFinishesFrame, userVars
    <3> QED
      BY <3>1, <3>2, RunCounts
  <2>5. CASE CoreBreaks
    <3>1. frameCounter' = Counted(Blanks(machine, machine', TRUE))
      BY <2>5 DEF CoreBreaks
    <3>2. percent' = percent /\ Doing("run")
      BY <2>5 DEF CoreBreaks
    <3> QED
      BY <3>1, <3>2, RunCounts
  <2> QED
    BY <1>2, <2>1, <2>2, <2>3, <2>4, <2>5 DEF Runtime
<1>3. CASE SeekMove
  BY <1>3 DEF SeekMove
<1>4. CASE SeekRelease
  BY <1>4 DEF SeekRelease
<1>5. CASE Breaking \/ UNCHANGED timelineVars
  BY <1>5 DEF Breaking, Pause, Continue, StepInstr, StepLine, userVars, timelineVars
<1>6. ~SeekPress
  BY DEF SeekPress
<1> QED
  BY <1>2, <1>3, <1>4, <1>5, <1>6 DEF Seek

\* When the states have one size, releasing the bar trims exactly the frames
\* ahead of it, whatever levels they are in: every frame left can be read, so
\* state_buffer_trimAfterFrameNo reaches its end and sets the label.  While it is
\* dragged, the label recorded on from is changed only by moving it, to its own,
\* so a bar that was moved is recorded on from, and in no case is the next label
\* before those kept.
THEOREM ReleaseCutsAhead ==
  ASSUME SameSize
  PROVE  SeekSpec => ReleaseTrimsAhead
<1>1. TimelineInit => SeekInv /\ ReadInv
  <2> SUFFICES ASSUME TimelineInit
               PROVE  SeekInv /\ ReadInv
    OBVIOUS
  <2>1. current = EmptyBuffer /\ machine \in States
    BY DEF TimelineInit, Init
  <2>2. AllRead(EmptyBuffer)
    <3>1. Len(<< >>) = 0
      OBVIOUS
    <3>2. \A i \in Level : EmptyBuffer.levels[i].frames = << >>
      BY DEF EmptyBuffer, EmptyLevel
    <3> QED
      BY <3>1, <3>2 DEF AllRead, Reads
  <2>3. ReadInv
    BY <2>1, <2>2, StatesAreImages DEF ReadInv
  <2> QED
    BY <2>3, SeekInit
<1>2. SeekInv /\ ReadInv /\ [Runtime \/ Seek \/ Breaking]_timelineVars => SeekInv' /\ ReadInv'
  BY SeekStep, ReadStep
<1>3. ASSUME SeekInv, ReadInv, [Runtime \/ Seek \/ Breaking]_timelineVars
      PROVE  [seeking /\ Filled(current) # {} =>
       /\ SeekRelease =>
            LET no == NoAtPercent(current, percent) IN
              /\ StoredNos' = {m \in StoredNos : m <= no}
              /\ current'.currentFrameNo = no
              /\ no <= frameCounter'
       /\ IF seeking' /\ percent' # percent
          THEN frameCounter' = NoAtPercent(current, percent')
          ELSE frameCounter' = frameCounter]_timelineVars
  <2> SUFFICES ASSUME seeking, Filled(current) # {}
               PROVE  /\ SeekRelease =>
                           LET no == NoAtPercent(current, percent) IN
                             /\ StoredNos' = {m \in StoredNos : m <= no}
                             /\ current'.currentFrameNo = no
                             /\ no <= frameCounter'
                      /\ IF seeking' /\ percent' # percent
                         THEN frameCounter' = NoAtPercent(current, percent')
                         ELSE frameCounter' = frameCounter
    OBVIOUS
  <2>1. ASSUME SeekRelease
        PROVE  NoAtPercent(current, percent) <= frameCounter'
    BY <1>3, <2>1 DEF SeekRelease, SeekInv, AheadInv
  <2> QED
    BY <1>3, <2>1, ReleaseCuts, DragCounts
<1> QED
  BY <1>1, <1>2, <1>3, PTL DEF SeekSpec, ReleaseTrimsAhead

=============================================================================
