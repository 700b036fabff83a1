------------------------------ MODULE Timeline ------------------------------
(***************************************************************************)
(* The debugger's main loop over the rolling state buffer: recording one   *)
(* frame after another, the seek bar, frame stepping, looping, the Save    *)
(* and Restore buttons and the diff command                                *)
(* (src/e9k-debugger/runtime.c, emu.c, ui.c, console_cmd_diff.c).          *)
(*                                                                         *)
(* runtime_executeFrame first captures or restores, then runs the core     *)
(* until the end of its frame or to a break.  todo is the sequence of what *)
(* is left to do in this turn of the main loop; user actions come between  *)
(* the turns, from the event queue of the same thread.  The debugger       *)
(* learns of a break when it polls the core at its next turn; here that is *)
(* part of the break.                                                      *)
(***************************************************************************)
EXTENDS SeekBar

CONSTANTS
  LateStates,       \* the states after the vertical blank of their frame
  MaxMultiplier,    \* the largest speed multiplier
  FrameNoModulus    \* the range of frameCounter (2^64 in the code)

ASSUME LateStatesAssumption == LateStates \subseteq States
ASSUME MultiplierAssumption == MaxMultiplier \in Nat
ASSUME FrameNoAssumption ==
  FrameNoModulus \in Nat /\ FrameNoModulus > MaxFrameNo + 2

FrameNo == 0 .. FrameNoModulus - 1

VARIABLES
  machine,         \* the state of the emulated machine
  corePaused,      \* the core is stopped at a breakpoint or by the user
  frameCounter,    \* debugger.frameCounter
  suppressVblank,  \* debugger.suppressVblankFrameCounter
  todo,            \* what is left to do in this turn of the main loop
  stepMode,        \* debugger.frameStepMode
  stepPending,     \* debugger.frameStepPending
  loop,            \* loopFrom and loopTo, << >> when looping is disabled
  seeking,         \* the seek bar is being dragged
  percent,         \* the position of the seek bar
  hostState        \* libretro_host.stateData, what Save has kept

userVars == << stepMode, stepPending, loop, seeking, percent, hostState >>
coreVars == << machine, corePaused, suppressVblank >>
timelineVars ==
  << current, save, trimAt, machine, corePaused, suppressVblank, frameCounter,
     todo, stepMode, stepPending, loop, seeking, percent, hostState >>

Wrap_Signed(n) == n

\* Arithmetic on uint64_t.
Wrap(n) == n % FrameNoModulus

Idle == todo = << >> /\ trimAt = 0

\* The next thing to do; a trim belongs to the capture that began it.
Doing(step) == todo # << >> /\ Head(todo) = step /\ trimAt = 0

-----------------------------------------------------------------------------
(* Executing a frame *)

\* runtime_executeFrame(CAPTURE) up to the run of the core; the label is set
\* whether or not the buffer records.
ExecCapture ==
  /\ IF Recording THEN Capture(machine, frameCounter)
     ELSE /\ current' = [current EXCEPT !.currentFrameNo = frameCounter]
          /\ UNCHANGED << save, trimAt >>
  /\ UNCHANGED machine

\* runtime_executeFrame(RESTORE) up to the run of the core; nothing is restored
\* when the label is not stored.  The label passes through an int, so beyond
\* 2^31 frames the code would restore another one; here it passes unchanged.
ExecRestore(no) ==
  LET s == RestoredState(current, no) IN
    /\ machine' = IF s = NoState THEN machine ELSE s
    /\ current' = [current EXCEPT !.currentFrameNo = no]
    /\ UNCHANGED << save, trimAt >>

\* runtime_executeNextFrame: capture, or the next frame of the loop; at the end
\* of the loop only the counter goes back.
NextFrame ==
  \/ /\ loop = << >>
     /\ ExecCapture
     /\ todo' = << "run" >>
     /\ UNCHANGED frameCounter
  \/ /\ loop # << >>
     /\ frameCounter \in loop[1] .. loop[2] - 1
     /\ ExecRestore(Wrap(frameCounter + 1))
     /\ todo' = << "run" >>
     /\ UNCHANGED frameCounter
  \/ /\ loop # << >>
     /\ frameCounter \notin loop[1] .. loop[2] - 1
     /\ frameCounter' = loop[1]
     /\ todo' = << >>
     /\ UNCHANGED << machine, current, save, trimAt >>

\* For model checking only: nothing new is recorded beyond the last label.
Bounded == loop # << >> \/ frameCounter # MaxFrameNo

\* The main loop starts a frame while the machine runs.
RunFrame ==
  /\ Idle /\ ~seeking /\ ~stepMode /\ ~corePaused
  /\ Bounded
  /\ NextFrame
  /\ UNCHANGED << corePaused, suppressVblank, userVars >>

\* With a speed multiplier it executes several in one turn, without regard to
\* the loop and without a look at whether the core has stopped.
RunFastFrames(multiplier) ==
  /\ Idle /\ ~seeking /\ ~stepMode /\ ~corePaused
  /\ \A k \in 0 .. multiplier - 1 : Wrap(frameCounter + k) # MaxFrameNo
  /\ ExecCapture
  /\ todo' = << "run" >> \o [k \in 1 .. multiplier - 1 |-> "capture"]
  /\ UNCHANGED << corePaused, suppressVblank, frameCounter, userVars >>

CaptureNextFrame ==
  /\ Doing("capture")
  /\ ExecCapture
  /\ todo' = << "run" >> \o Tail(todo)
  /\ UNCHANGED << corePaused, suppressVblank, frameCounter, userVars >>

\* A frame step that is pending, forward or back.
StepFrame ==
  /\ Idle /\ ~seeking /\ stepMode
  /\ \/ /\ stepPending = 1
        /\ Bounded
        /\ NextFrame
     \/ /\ stepPending = -1
        /\ ExecRestore(Wrap(frameCounter - 2))
        /\ todo' = << "run", "back" >>
        /\ UNCHANGED frameCounter
  /\ stepPending' = 0
  /\ UNCHANGED << corePaused, suppressVblank, stepMode, loop, seeking, percent,
                  hostState >>

\* The vertical blanks the core reports between two states of one frame.
Blanks(before, after, broke) ==
  IF before \notin LateStates /\ (~broke \/ after \in LateStates) THEN 1 ELSE 0

Counted_Always(blanks) == IF suppressVblank THEN frameCounter ELSE Wrap(frameCounter + blanks)

\* runtime_onVblank
Counted(blanks) ==
  IF current.paused \/ suppressVblank THEN frameCounter
  ELSE Wrap(frameCounter + blanks)

AfterRunTodo_Stays == todo

AfterRunTodo == Tail(todo)

\* The core runs to the end of its frame.
CoreFinishesFrame ==
  /\ Doing("run")
  /\ ~corePaused
  /\ machine' \in States \ LateStates
  /\ frameCounter' = Counted(Blanks(machine, machine', FALSE))
  /\ todo' = AfterRunTodo
  /\ UNCHANGED << vars, corePaused, suppressVblank, userVars >>

\* The core stops at a breakpoint in the middle of its frame.
CoreBreaks ==
  /\ Doing("run")
  /\ ~corePaused
  /\ machine' \in States
  /\ machine \in LateStates => machine' \in LateStates
  /\ frameCounter' = Counted(Blanks(machine, machine', TRUE))
  /\ corePaused' = TRUE
  /\ suppressVblank' = FALSE
  /\ stepMode' = FALSE
  /\ stepPending' = 0
  /\ todo' = AfterRunTodo
  /\ UNCHANGED << vars, loop, seeking, percent, hostState >>

\* A paused core only presents its picture again.
CoreIsPaused ==
  /\ Doing("run")
  /\ corePaused
  /\ todo' = AfterRunTodo
  /\ UNCHANGED << vars, coreVars, frameCounter, userVars >>

\* The frame restored and run was the one before last.
CountBack ==
  /\ Doing("back")
  /\ frameCounter' = Wrap(frameCounter - 2)
  /\ todo' = Tail(todo)
  /\ UNCHANGED << vars, coreVars, userVars >>

TrimCapture ==
  /\ Trim
  /\ UNCHANGED << coreVars, frameCounter, todo, userVars >>

\* runtime_refreshCurrentFrameFromPrevious: the frame before last is restored
\* and run, and then the next frame is.
RefreshFrame ==
  /\ Idle
  /\ corePaused \/ stepMode
  /\ frameCounter >= 2
  /\ ~current.rollingPaused
  /\ HasFrameNo(current, frameCounter - 2)
  /\ ExecRestore(frameCounter - 2)
  /\ todo' = << "run", "back", "next" >>
  /\ UNCHANGED << corePaused, suppressVblank, frameCounter, userVars >>

RefreshNext ==
  /\ Doing("next")
  /\ NextFrame
  /\ UNCHANGED << corePaused, suppressVblank, userVars >>

Runtime ==
  \/ RunFrame \/ StepFrame \/ TrimCapture \/ RefreshNext
  \/ (\E multiplier \in 2 .. MaxMultiplier : RunFastFrames(multiplier))
  \/ CaptureNextFrame \/ CoreFinishesFrame \/ CoreBreaks \/ CoreIsPaused
  \/ CountBack

-----------------------------------------------------------------------------
(* The user *)

Pause ==
  /\ Idle
  /\ corePaused' = TRUE
  /\ suppressVblank' = IF corePaused THEN suppressVblank ELSE FALSE
  /\ stepMode' = FALSE
  /\ stepPending' = 0
  /\ UNCHANGED << vars, machine, frameCounter, todo, loop, seeking, percent,
                  hostState >>

Continue ==
  /\ Idle
  /\ corePaused' = FALSE
  /\ suppressVblank' = FALSE
  /\ UNCHANGED << vars, machine, frameCounter, todo, userVars >>

\* libretro_host_debugStepInstr: the core runs on, its blanks not counted.
StepInstr ==
  /\ Idle
  /\ corePaused' = FALSE
  /\ suppressVblank' = TRUE
  /\ UNCHANGED << vars, machine, frameCounter, todo, userVars >>

\* libretro_host_debugStepLine, StepNext and StepOut.
StepLine ==
  /\ Idle
  /\ corePaused' = FALSE
  /\ UNCHANGED << vars, machine, suppressVblank, frameCounter, todo, userVars >>

PressFrameStep ==
  /\ Idle
  /\ stepMode' = TRUE
  /\ stepPending' = 1
  /\ UNCHANGED << vars, coreVars, frameCounter, todo, loop, seeking, percent,
                  hostState >>

PressFrameStepBack ==
  /\ Idle
  /\ ~current.rollingPaused
  /\ stepMode' = TRUE
  /\ stepPending' = -1
  /\ UNCHANGED << vars, coreVars, frameCounter, todo, loop, seeking, percent,
                  hostState >>

PressFrameContinue ==
  /\ Idle
  /\ stepMode' = FALSE
  /\ stepPending' = 0
  /\ UNCHANGED << vars, coreVars, frameCounter, todo, loop, seeking, percent,
                  hostState >>

\* The seek bar is hidden, and gets no events, while the rolling save is paused.
SeekBarShown == Idle /\ ~current.rollingPaused

\* emu_seekBarDragging(1)
SeekPress ==
  /\ SeekBarShown /\ ~seeking
  /\ SetPaused(TRUE)
  /\ seeking' = TRUE
  /\ UNCHANGED << coreVars, frameCounter, todo, stepMode, stepPending, loop,
                  percent, hostState >>

\* emu_seekBarChanged: the bar is moved, by dragging it or by a key; a frame is
\* restored only while it is dragged.
SeekMove ==
  /\ SeekBarShown
  /\ \E p \in Percent \ {percent} :
       /\ percent' = p
       /\ IF seeking /\ Filled(current) # {}
          THEN /\ ExecRestore(NoAtPercent(current, p))
               /\ frameCounter' = NoAtPercent(current, p)
               /\ todo' = << "run" >>
          ELSE /\ frameCounter' = current.currentFrameNo
               /\ UNCHANGED << vars, machine, todo >>
  /\ UNCHANGED << corePaused, suppressVblank, stepMode, stepPending, loop,
                  seeking, hostState >>

SeekRelease_KeepsAhead ==
  /\ SeekBarShown /\ seeking
  /\ current' = [current EXCEPT !.paused = FALSE]
  /\ seeking' = FALSE
  /\ percent' = SeekSteps
  /\ UNCHANGED << save, trimAt, coreVars, frameCounter, todo, stepMode,
                  stepPending, loop, hostState >>

\* emu_seekBarDragging(0): what is ahead of the bar is trimmed.
SeekRelease ==
  /\ SeekBarShown /\ seeking
  /\ LET unpaused == [current EXCEPT !.paused = FALSE] IN
       current' = IF Filled(current) = {} THEN unpaused
                  ELSE TrimmedAfter(unpaused, NoAtPercent(current, percent))
  /\ seeking' = FALSE
  /\ percent' = SeekSteps
  /\ UNCHANGED << save, trimAt, coreVars, frameCounter, todo, stepMode,
                  stepPending, loop, hostState >>

ToggleRolling ==
  /\ Idle
  /\ SetRollingPaused(~current.rollingPaused)
  /\ UNCHANGED << coreVars, frameCounter, todo, userVars >>

\* ui_saveState
SaveState ==
  /\ Idle
  /\ SetSaveKeyframe(machine, current.currentFrameNo)
  /\ hostState' = machine
  /\ UNCHANGED << coreVars, frameCounter, todo, stepMode, stepPending, loop,
                  seeking, percent >>

\* ui_restoreState
RestoreState ==
  /\ Idle
  /\ hostState # NoState
  /\ machine' = hostState
  /\ RestoreSnapshot
  /\ frameCounter' = save.currentFrameNo
  /\ UNCHANGED << corePaused, suppressVblank, todo, userVars >>

\* console_cmd_loop_command
SetLoop(from, to) ==
  /\ Idle
  /\ from < to
  /\ HasFrameNo(current, from) /\ HasFrameNo(current, to)
  /\ loop' = << from, to >>
  /\ UNCHANGED << vars, coreVars, frameCounter, todo, stepMode, stepPending,
                  seeking, percent, hostState >>

ClearLoop ==
  /\ Idle
  /\ loop' = << >>
  /\ UNCHANGED << vars, coreVars, frameCounter, todo, stepMode, stepPending,
                  seeking, percent, hostState >>

\* console_cmd_diff_command: both frames are read in turn, and then the frame
\* of the current label is restored if it is stored.
Diff(from, to) ==
  /\ Idle
  /\ HasFrameNo(current, from) /\ HasFrameNo(current, to)
  /\ LET no   == current.currentFrameNo
         back == RestoredState(current, no)
         read == IF RestoredState(current, from) = NoState THEN machine
                 ELSE IF RestoredState(current, to) = NoState
                 THEN RestoredState(current, from)
                 ELSE RestoredState(current, to)
     IN  /\ machine' = IF back = NoState THEN read ELSE back
         /\ frameCounter' = no
  /\ UNCHANGED << vars, corePaused, suppressVblank, todo, userVars >>

-----------------------------------------------------------------------------

TimelineInit ==
  /\ Init
  /\ machine \in States \ LateStates
  /\ corePaused = FALSE
  /\ frameCounter = 0
  /\ suppressVblank = FALSE
  /\ todo = << >>
  /\ stepMode = FALSE
  /\ stepPending = 0
  /\ loop = << >>
  /\ seeking = FALSE
  /\ percent = SeekSteps
  /\ hostState = NoState

Seek == SeekPress \/ SeekMove \/ SeekRelease

Stepping ==
  PressFrameStep \/ PressFrameStepBack \/ PressFrameContinue \/ RefreshFrame

Saving == SaveState \/ RestoreState \/ ToggleRolling

Looping == ClearLoop \/ \E from, to \in StoredNos : SetLoop(from, to)

Diffing == \E from, to \in StoredNos : Diff(from, to)

Breaking == Pause \/ Continue \/ StepInstr \/ StepLine

TimelineNext ==
  Runtime \/ Seek \/ Stepping \/ Saving \/ Looping \/ Diffing \/ Breaking

\* Once begun, the execution of a frame runs to its end.
ExecutesFrames ==
  WF_timelineVars(TrimCapture \/ RefreshNext \/ CaptureNextFrame \/ CountBack
                    \/ CoreFinishesFrame \/ CoreBreaks \/ CoreIsPaused)

TimelineSpec ==
  TimelineInit /\ [][TimelineNext]_timelineVars /\ ExecutesFrames

\* Parts of it that are model-checked on larger instances.
SeekSpec ==
  /\ TimelineInit
  /\ [][Runtime \/ Seek \/ Breaking]_timelineVars
  /\ ExecutesFrames

StepSpec ==
  /\ TimelineInit
  /\ [][Runtime \/ Stepping \/ Looping \/ Diffing \/ Pause \/ Continue]_timelineVars
  /\ ExecutesFrames

-----------------------------------------------------------------------------
(* Properties *)

\* The debugger's state is well formed; a pending frame step only in its mode.
TimelineTypeOK ==
  /\ machine \in States /\ hostState \in States \cup {NoState}
  /\ corePaused \in BOOLEAN /\ suppressVblank \in BOOLEAN
  /\ stepMode \in BOOLEAN /\ seeking \in BOOLEAN
  /\ frameCounter \in FrameNo
  /\ todo \in Seq({"run", "capture", "back", "next"})
  /\ stepPending \in {-1, 0, 1} /\ (stepPending # 0 => stepMode)
  /\ loop = << >> \/ loop \in FrameNo \X FrameNo
  /\ percent \in Percent
  /\ \A slot \in Slots(current) : FrameAt(current, slot).frame_no \in FrameNo

\* Recording on from a frame gone back to never leaves a label before an older
\* one, although every break and every seek makes the next capture repeat the
\* label of the last: the order the search of the seek bar relies on.
LabelsInOrder ==
  \A a, b \in Slots(current) :
    a[1] > b[1] \/ (a[1] = b[1] /\ a[2] < b[2]) =>
      FrameAt(current, a).frame_no <= FrameAt(current, b).frame_no

\* Moving the seek bar to the right never goes back in time.
SeekMonotone ==
  Filled(current) # {} =>
    \A p, q \in Percent : p <= q => NoAtPercent(current, p) <= NoAtPercent(current, q)

\* The frame a position names is stored, and no other stored frame lies between
\* it and the label asked for, however the history has been thinned.
SeekNearest ==
  Filled(current) # {} =>
    \A p \in Percent :
      LET no     == NoAtPercent(current, p)
          target == TargetNo(current, p)
      IN  /\ no \in StoredNos
          /\ \A m \in StoredNos : ~(no < m /\ m <= target) /\ ~(target <= m /\ m < no)

\* The first and last positions of the bar are the ends of the history.
SeekEnds ==
  Filled(current) # {} =>
    /\ \A m \in StoredNos : NoAtPercent(current, 0) <= m
    /\ \A m \in StoredNos : m <= NoAtPercent(current, SeekSteps)

\* Releasing the bar trims the frames ahead of it and no others, and the next
\* label is then not before those kept.  That label is the counter's, which the
\* release leaves alone: in a drag it changes only to the frame the bar is moved
\* to, whatever frames run and break meanwhile.  So a bar that has been moved is
\* recorded on from under its label; one pressed and released in place need not be.
ReleaseTrimsAhead ==
  [][seeking /\ Filled(current) # {} =>
       /\ SeekRelease =>
            LET no == NoAtPercent(current, percent) IN
              /\ StoredNos' = {m \in StoredNos : m <= no}
              /\ current'.currentFrameNo = no
              /\ no <= frameCounter'
       /\ IF seeking' /\ percent' # percent
          THEN frameCounter' = NoAtPercent(current, percent')
          ELSE frameCounter' = frameCounter]_timelineVars

\* While the bar is dragged the recording stands still, whatever frames are run
\* to show the picture: only Restore and the rolling switch replace it.
SeekingRecordsNothing ==
  [][seeking =>
       \/ \A i \in Level : current'.levels[i].frames = current.levels[i].frames
       \/ SeekRelease \/ RestoreState \/ ToggleRolling]_timelineVars

\* The buffer is paused exactly while the bar is dragged, even when the timeline
\* is replaced or cleared meanwhile.
PausedWhileSeeking == current.paused = seeking

\* Every frame that is begun ends, also when the core breaks or is paused.
FrameEnds == todo # << >> ~> todo = << >>

=============================================================================
