# A verification project for Engine9000

Engine9000 is a debugger for Neo Geo and Amiga programs.  A host program
(`src/e9k-debugger`) loads an emulator core (a libretro library: `src/geo9000`,
`src/ami9000`, `src/st9000`), runs it frame by frame, draws its picture and the
debugger's panes, and drives the debugger that is built into the core.  The host
records every frame in a rolling timeline that the user can seek in, step back
through and record on from.

This directory holds TLA+ modules of the parts where the program's own logic is,
TLC configurations that check them on small instances, and proofs that the TLA+
proof system checks for every value of the constants.

| Part | Modules | Checked by | Proved in |
| --- | --- | --- | --- |
| rolling state buffer | `StateBufferOps`, `StateBuffer` | `MCStateBuffer` | `StateBufferProofs`, `HistoryProofs` |
| what the buffer promises | `RecordedHistory`, implemented through `HistoryRefinement` | `MCStateBuffer` | `HistoryProofs` |
| Save, Restore, snapshot files, restarts | `Snapshots` | `MCSnapshots` | `SnapshotsProofs` |
| seek bar, main loop, frame steps | `SeekBar`, `Timeline` | `MCTimeline` | `TimelineProofs` |
| debugger in the core, debugger of the host | `DebugCore`, `DebugHost` | `MCDebug` | `DebugProofs` |
| protections, watchpoints, trainer | `Protect`, `Watchpoints` | `MCWatchpoints` | `WatchpointsProofs` |
| base of the text, breakpoints that move, wrapped states | `Bases` | `MCBases` | `BasesProofs` |

`StateBuffer` EXTENDS `StateBufferOps`; `SeekBar` EXTENDS `StateBuffer`;
`Timeline` EXTENDS `SeekBar` and so composes the buffer with the loop that calls
it; `Snapshots` EXTENDS `StateBuffer` and composes it with the process that starts,
ends and dies around it.  `DebugHost` EXTENDS `DebugCore` and composes the host with
the core; `Watchpoints` EXTENDS `Protect`, the memory its accesses go to.
`NaturalLemmas` has the facts about naturals the proofs share.  `HistoryProofs`,
`SnapshotsProofs` and `TimelineProofs` build on `StateBufferProofs`.

`tlc -config <cfg> <module>` repeats a run, `tlapm <module>.tla` the proofs of a
module.  `PROJECT.json` lists the runs, the code each definition stands for, the
hazards the properties are for, and for every property a fault in a mapped
definition that the property catches.  A definition whose name has an underscore
and a few words after another definition's name (`Poll_KeepsStopped`,
`StepButton_Always`) is such a fault; no specification uses it.


## Inventory

**Rolling state buffer** (`e9k-debugger/state_buffer.c`).  State: the live
timeline `current` and the saved one `save`, each six levels of frames with byte
counts and the last captured state per level.  A frame is a keyframe (a whole
serialised machine state) or a diff against the frame before it.  A capture
appends to the first level; a level over its budget hands its oldest frames to the
next, every second one, the last level drops them.  Other operations: restore a
frame, trim everything after a label, pause, pause the rolling record (which
clears), save a keyframe, exchange the timelines, read and write a snapshot file.
Called by the main loop, the seek bar, Save and Restore, `diff`.  Hard: long
sequences of captures, promotions and trims over derived state (previous states,
byte counts, keyframe conversion), where one slip shows frames later as a state
the machine never was in.  Correct means: a stored frame restores exactly what
was captured; one ordered timeline; budgets kept; the trim ends.

**Timeline control** (`e9k-debugger/runtime.c`, `emu.c`, `ui.c`,
`console_cmd_diff.c`, `console_cmd_loop.c`, `e9ui/e9ui_seek_bar.c`).  State: the
frame counter, the frame-step mode and what is pending, the loop range, the seek
bar's position and whether it is dragged, the state kept by Save.  Operations:
execute a frame (capture or restore, then run the core), several frames at a
higher speed, step a frame forward or back, refresh the current frame, press,
move and release the bar, Save, Restore, the rolling switch, `loop`, `diff`.
Interacts with the buffer by calls and with the core by its vertical blank
callback, which counts the frames.  Hard: breaks in the middle of a frame, events
between press and release, labels that repeat or go back.

**Debugger in the Neo Geo core** (`geo9000/src/e9k_debugger.c`, called from
`geo.c`, `geo_m68k.c`, `geo_z80.c`, `libretro.c`).  State: some twenty `s_`
variables: paused, one or two flags per kind of step, requests, the mirror call
stack, the breakpoint table, the watchpoints.  Operations: the step commands,
break, continue, breakpoints, the hook before every instruction, watchpoint hits,
the end-of-frame update.  Hard: steps are decided instruction by instruction
among interrupts, recursion, frame boundaries, breakpoints and a second
processor.

**Debugger of the host** (`e9k-debugger/machine.c`, `breakpoints.c`,
`debugger.c`, `ui.c`, `runtime.c`).  State: `machine.running`, the registers last
fetched, the breakpoint list, the breakpoint lifted while a step leaves it.
Operations: the buttons and prompt commands, edits of the list, the poll of the
core at each turn of the main loop.  Hard: everything about the core is known
from a sample taken once a turn, and commands come in between.

**Save, Restore and snapshot files** (`snapshot.c`, `ui.c`, the file functions of
`state_buffer.c`).  State: the state Save has serialised, the saved timeline, the
file named after the ROM, the ROM's checksum.  Operations: Save (which also writes
the file), Restore, reading the file at a start, writing it at an end.  Hard: the
process may die among the writes, the ROM may be built anew at any time, and two
copies of what was saved (the serialised state for the core, the timeline for the
buffer) are made, written and read apart.

**Protections, watchpoints, trainer** (`geo9000/src/e9k_protect.c`,
`e9k_debugger.c`, `geo_m68k.c`; `protect.c`, `train.c`, `trainer.c`, `runtime.c` and
the console commands).  State: RAM, the table of rules with the mask of the enabled
ones and the mask of pages, the table of watchpoints, the pending hit, the
trainer's slot, last address and ignore list.  Operations: reads and writes of
bytes, words and longs by the program, writes by the debugger, edits of both
tables, `train`, the poll that takes a hit.  Hard: a derived mask looked at before
the rules, several windows on one memory, what a hit says against what the filter
did, one pending hit shared by a core that makes and a poll that takes it.

**Bases** (`base_map.c`, `state_wrap.c`, `debugger.c`, `machine.c`,
`console_cmd_base.c`; `ami9000/sources/src/memory.c` for the registers a program
writes to).  State: the map (one base or a stack of hunks), the base of the machine,
the breakpoint list and the core's table, the headers of stored states.
Operations: set a base, push a hunk, reset, add, switch and remove breakpoints,
store and restore states.  Hard: going back in time changes what addresses mean,
and the breakpoints must follow through two maps.

**Everything else**, none of it modelled: input recording and the smoke and UI
tests (`input_record.c`, `smoke_test.c`, `ui_test.c`), the profilers
(`geo_profiler.c`, `e9k_checkpoint.c`), Z80 stepping (`geo_z80.c`), the Amiga and ST
cores (forks of large emulators with debuggers of the same interface), console,
line editor, expressions, debug information, panes, settings, toolkit, graphics,
tools and vendored code.  `PROJECT.json` lists each with the reason.

The hazards — what in this code is hard to test — are listed with their lines in
`PROJECT.json`; the properties below were chosen to cover them.


## The rolling state buffer

`StateBufferOps` has the pure parts: frames, diffs, reconstruction, appending,
dropping a prefix and converting the next frame to a keyframe.  A machine state is
a sequence of blocks; `DiffPayload` and `Apply` are the diff of
`state_buffer_writeDiffPayload` and its application; a frame's payload is either the
state or the changed blocks, with sizes as the code computes them (in units of
`BlockBytes`, `DiffHeaderBytes`, `DiffEntryBytes`), because the sizes decide what
is promoted and whether a diff is worth storing.  Frames carry one history field,
`captured`, the state captured under the label; no operation reads it.

`StateBuffer` has the state `current`, `save`, and `trimAt`, the level the
trimming loop is at: each iteration of the inner `while` of `state_buffer_trimLevels`
is a step, so that its termination can be stated.  The debugger is single-threaded,
so no other operation comes between.  `Next` is the buffer as its interface is
meant to be used (labels grow, going back is followed by a trim); `Timeline` has
the calls really made.

| Action | Code |
| --- | --- |
| `Capture` | `state_buffer_capture` |
| `TrimPromote`, `TrimDrop`, `TrimNextLevel` | `state_buffer_trimLevels`, `promoteOldest`, `dropOldestToFit` |
| `TrimAfterFrameNo` | `state_buffer_trimAfterFrameNo` |
| `RestoreFrameNo` | `state_buffer_restoreFrameNo` |
| `SetPaused`, `SetRollingPaused` | `state_buffer_setPaused`, `setRollingPaused` |
| `SetSaveKeyframe`, `Snapshot`, `RestoreSnapshot` | the functions of these names |

Fairness is weak fairness of `Trim`: the loop is inside the call that started it.

### Runs

* `state_buffer_live`: three levels of budgets 12, 6 and 6 bytes, states of two
  blocks of three bytes, labels to 5.  A level holds one to a few frames, so that
  promotion, cascading promotion, dropping, conversion to keyframes, thinning and
  trimming to each of the stored labels all happen within the bound.  It checks
  the type, exact reconstruction, byte counts, order, even thinning (at most every
  second frame is lost per level), budgets, that trimming ends, and that the buffer
  implements `RecordedHistory`.

### The abstract history

`RecordedHistory` says what the buffer promises its callers, without levels, diffs,
keyframes and budgets: a set of states under labels and a position.  A state is
recorded under a label newer than all; going back cuts off what is ahead and
nothing else; to make room the history is either thinned behind its oldest state
or loses its oldest part, and never its newest state; what is put aside comes back
as it was.  `HistoryRefinement` maps a buffer to the labelled states that *restoring*
each frame gives (`HistoryOf`), so the property `ImplementsHistory` fails when a
frame restores to another state, when a promotion loses the oldest or the newest
frame, when trimming cuts one too many or too few, and when the two timelines are
exchanged wrongly.  Each iteration of the trimming loop is a step of its own and
maps to `Forget` or to a stutter.

### Proofs (`StateBufferProofs`, `HistoryProofs`)

For every number of levels, budgets, sizes of blocks and diffs and promotion
limit, and any set of states **of one size** (`SameSize`, an assumption of all of
these theorems; it cannot be dropped, see *Findings*):

* `TypeCorrect`: the buffers are well-formed.
* `ExactReconstruction`: every stored frame of both timelines reconstructs to the
  state captured under its label.
* `OldestAlwaysReconstructable`: every level begins with a frame that can be
  reconstructed.
* `LabelsOrdered`: labels grow along the levels, so a label names one frame.
* `BytesAlwaysAccounted`: the byte counts are those of the frames that are stored.
* `TrimmedToBudget`: at every moment of a trim, and until the next capture, the
  levels it has passed are within their budgets: none is left too early or filled
  again by the ones after it (of the live timeline, `SpecLive`: what Restore brings
  back is trimmed at the next capture).  That a trim gets to its end is `TrimEnds`,
  which is only model-checked.
* `RefinesHistory`: the buffer implements `RecordedHistory`.
* `AlwaysThinnedEvenly`: at level *i* the gaps stay below 2^(*i*-1) captures.

The last two assume that the newest level has room for two whole states
(`RoomForTwo`; the default budget in `debugger.c:804` has room for hundreds).
Without it the trim that follows a capture may promote, and lose, the state just
captured, and the history no longer begins where the machine is.

`ReconstructsCapture` is not inductive: whether the *next* diff is right depends
on the previous state a level keeps beside its frames.  The invariant `IInv` says
of both buffers `BufferOK`: they have their type; each level is a chain (its first
frame is a keyframe, each diff leads from the captured state of the frame before
to its own, with the same size) and its previous state is the captured state of
its last frame; and the labels are ordered across levels.  The order is part of
it because after a trim the previous state of the first level is set from the
frame *found by its label*, which is the last frame only if labels name one frame.
The first lemmas of `StateBufferProofs` are about chains: a replay over a chain gives
the captured states, a suffix of a chain whose head is converted is a chain, so
are an extension and a prefix.  Then comes one lemma per operation
(capture, promotion, drop, cut, refresh, trim) that it keeps `BufferOK` and one
per group of actions that it keeps `IInv`.

The rest builds on `IInv`.  `CountedInv` adds the counts of each level and of the
whole buffer (`BytesOK`); `LiveInv` that the levels a trim has passed are within
their budgets, which holds on because a trim never grows a level it has passed.
`RoomInv` adds that the newest level keeps a frame while a trim is under way
(`NewestStays`, `NewestNotPromoted`), so that no step of the trim takes the newest
state of the history.  Promotion and dropping are described once, by what they do
to labels and states level by level (`Promotes`, `Drops`), and both the steps of
the refinement and the thinning are proved from these descriptions.  For the
thinning `EvenInv` says of *both* timelines that they are thin, since Restore
exchanges them, and that the current label is a stored one, since recording goes
on from it: the first capture after going back must not leave a gap.

Only model-checked: that the trim ends (liveness).


## Save, Restore and snapshot files

`Snapshots` puts the process around the buffer: `phase` is "off", "up", or the place
in a call that writes the file.  A file is a sequence of records in the order
`state_buffer_saveSnapshotFile` writes them (`Written`): a header with the label the
timeline is at and the checksum, and per level its counts, its frames and its
previous state.  Each `WriteRecord` is one write; `Crash` may come between any two
and leaves the prefix.  `Loads` says whether `state_buffer_loadSnapshotFile` reads to
its end, `Loaded` what it leaves; the code reads with counts taken from the file,
and so does `LevelStart`.  `Boot` is a start with its comparison of checksums,
`BeginExit` and `Exited` an end, `Rebuild` a build of the ROM under the same name.
`romLoaded` and `kept` are history: the build the core runs, and what was saved last
and whether its writing came to an end.

* `snapshots`: two levels of budgets 12 and 12 bytes, two states (a second suffices
  for a wrong diff), labels to 3, two builds.  A timeline reads back as it was
  written and no prefix of its file reads at all (`FileRoundTrip`); the timeline and
  the serialised state of a Save agree however they came about (`RestoreAgrees`); a
  start offers the state saved last for this build and nothing else, unless a crash
  cut its writing short (`BootBringsBack`); and recording goes on rightly from a
  timeline that went through the file (`ReconstructsCapture`).
* `snapshots_stamp` (a violation): see *Findings*.

A file is overwritten in place, so a crash loses the older state too; no document
promises otherwise and `BootBringsBack` is worded with that.

### Proofs (`SnapshotsProofs`)

Of `SnapshotsSpec`, for any levels, budgets and builds and any states of one size:

* `SavedIsLoaded`: what is written of either timeline reads back, and no proper
  prefix of a file reads.
* `CopiesAgree`: the serialised state and the saved timeline are of one state.
* `BootOffersLastSaved`: a start offers the state saved last for the build that is
  there if its file was completed, and nothing otherwise.
* `ExactThroughRestarts`: exact reconstruction, as `ExactReconstruction` has it for
  the buffer alone.

The format is proved right first, of buffers of any shape.  A file is written level
by level (`WrittenInSteps`), so there are places at which the levels lie
(`LaidOut`), and the reader, which only has the counts it has read so far, finds
them there (`StartsFound`); in a prefix it runs past the end before the last level
ends, because a level always has its counts.  The byte counts that a load adds up are
those of `BytesOK`, hence `CountedInv` of the buffer is part of the invariant.

`SnapInv` adds to it what relates the copies.  `Offered`: a state is on offer only
when it is the one kept, and then the saved timeline is one keyframe of it
(`KeyBuffer`); nothing else is ever written.  `OnDisk`: the file is empty, or a
prefix of the image of what was kept, the whole of it exactly if `kept.whole`; and
while it is written the records written and those to come make up the image
(`PartWritten`).  This ties the file to the timeline through every phase, without
which a start could not be shown to bring back what a Save of an earlier run has put
aside.  The properties are safety; that a writing comes to its end is not stated.


## Timeline control

`SeekBar` is `state_buffer_getFrameAtPercent` as a function of the buffer.
Positions are the whole numbers up to `SeekSteps` where the code has floats
between 0 and 1; the rounding is that of the code on such positions.

`Timeline` adds the machine (its state, whether the core is paused), the frame
counter and the user interface.  `todo` is what is left of the frames begun in
this turn of the main loop: a frame is a capture or restore and then a run of the
core, which ends its frame, breaks in the middle of it, or is paused already.
User actions come between turns (`Idle`), as the events do in the code.  A state
of the machine is before or after its vertical blank (`LateStates`), because the
blank is what counts the frame, and a break can come on either side of it.
`frameCounter` is unsigned and wraps, here at `FrameNoModulus`; a restore passes it
through an `int`, which would truncate it after 2^31 frames and is left out.  `save` and
`current` are those of the buffer.  Loop, diff, the rolling switch and Save and
Restore are actions of their own.

Fairness (`ExecutesFrames`): once a frame is begun, the steps that execute it go
on; they are one call in the code.  Nothing is assumed of the user.

### Runs

* `timeline_seek`: recording, breaks and the seek bar with two levels of budgets
  9 and 9 bytes (so the history the bar searches is thinned), labels to 4, five
  positions.  Labels stay in order although every break and seek repeats one; the
  search finds the nearest stored frame at every position, is monotone and reaches
  both ends; releasing the bar trims exactly what is ahead.  `ReleaseTrimsAhead`
  also follows the label of the next capture, which is `debugger.frameCounter` and
  which the release does not set: while the bar is dragged the counter changes only
  to the frame the bar is moved to, although frames run and break to show it.  A bar
  that was moved in the drag is therefore recorded on from under its own label; one
  that was pressed and released in place, also when a key had set it before, is
  recorded on from under the label the counter has, wherever the bar stands; that
  label is never before the frames kept.
* `timeline_step`: frame stepping, with a counter that goes below zero, the
  refresh, loops and diffs (without bursts, which `timeline_seek` has): types (the
  counter stays in its range, a pending step only in its mode), reconstructability
  of each level's oldest frame although labels go back, and that every frame begun
  ends.
* `timeline_full`: every action on a small buffer (one level, labels to 1): the
  buffer is paused exactly while the bar is dragged, even when Restore or the
  rolling switch replaces it meanwhile, and records nothing in that time.
* `timeline_reseek` (a violation: a label stored twice, then one release of the bar
  at it): see *Findings*.

The bounds are small because the buffer itself is checked deeper above; what
these runs add are the sequences of calls.  `MaxFrameNo` bounds the labels
recorded (`Bounded`), `MaxMultiplier` the speed (2: one frame that is executed
without a look at the core), `SeekSteps` the positions.  `timeline_full` has room
for one frame, so loops between two labels are in `timeline_step`.

### Proofs (`TimelineProofs`)

Of every step of `TimelineSpec`, for all values of the constants:

* `PausedExactlyWhileSeeking`, `NothingRecordedWhileSeeking`.  The invariant
  `PauseInv` adds to the property that no trim is under way while the bar is
  dragged, without which the drag could interrupt one.  It assumes nothing of the
  states, not even that they have one size: a frame that cannot be read changes
  what is shown, never whether the recording stands still.

Of recording with stepping, refreshing, loops and diffs (`StepSpec`), for states of
one size:

* `TimelineTyped`, `OldestReconstructableStepping`.  Here labels go back, so `IInv`
  of the buffer does not hold; `TapeInv` keeps the part of it that does (chains and
  previous states), which is enough for the oldest frames, and `LoopInv` types the
  rest.

Of recording, breaking and seeking (`SeekSpec`):

* `LabelsStayInOrder`, `SeekFindsNearest`, `SeekReachesEnds`, `SeekNeverGoesBack`,
  for any states;
* `ReleaseCutsAhead`, for states of one size.

Labels repeat here, after each break and each release, so neither `LabelsOrdered`
nor exact reconstruction holds (see *Findings*); the order that is left is
`InOrder`.  `SeekInv` is `PauseInv` and three parts.  `LabelsInv`: the levels are
sequences of frames in that order.  `TurnInv`: what a turn can be doing; while the
bar is dragged only one run, which counts no blank.  `AheadInv` is what makes the
order inductive: while recording, no stored label is beyond the counter, nor beyond
`currentFrameNo`, to which a click on the bar sets the counter; while the bar is
dragged, the label it is at, all that its release will leave, is not beyond them.
The labels stay within `MaxFrameNo`, which `Bounded` sees to: a counter that wraps
around after 2^64 frames would not keep the order.

What the bar shows is proved of any buffer in order.  `SearchExists` and `SearchLands`
are about the binary search: it is a function on pairs of bounds, and ends where
the labels pass the target, for a sequence of any length.  `PositionLands` puts the
choice of the level before it, and `NearestLanded` and `LandsMonotone` draw the
conclusions.  `ReleaseTrimsAhead` needs that the cut runs to its end, since
`state_buffer_trimAfterFrameNo` gives up at a level whose last frame it cannot read,
and then the label is not set.  That the next label is not before the frames kept
is `AheadInv`; that it moves only with the bar (`DragCounts`) is `TurnInv` and the
pause of the buffer.  `ReadInv` says that every level begins with a
keyframe and that all frames have the size of the machine's state (`Reads`): enough
for every frame to be read, although after a release at a label that is stored twice
it may be read wrongly.

Only model-checked: `FrameEnds` (liveness).


## The debugger

`DebugCore` is the core's debugger in its frame loop.  `dbg` holds the `s_`
variables of `e9k_debugger.c`; a `step_next` or `step_out` other than `None`
stands for the flag with its depth.  `geo_exec` gives the 68000 one cycle at a
time, which is one interrupt entry or one hook and one instruction, and then lets
the Z80 catch up; `at` is where that loop is.  `Hook` is `e9k_debugger_instr_hook`
with its early returns in order.  It is called in front of an instruction; whether
that is executed is decided after it.  A break sets `paused` and the request
`break_now`, which the loop takes back where it meets it and gives the frame up.

The program is a parameter: what each address holds (plain, call, return, return
from interrupt), its source line and what may follow.  `stack` is the real stack;
the debugger only sees its mirror, `callstack_depth`.  `MaxDepth` bounds the real
stack, for model checking only.

`DebugHost` is the host.  `loop` is the place in a turn: events, poll, frame,
drawing.  The step and continue buttons and the prompt are enabled and disabled
only when a frame is drawn (`e9ui.c`, `e9ui_updateDisabledState`), hence `drawn`:
several commands of one turn act on a machine that is already running.  `shownPc`
is the program counter last fetched (`machine_setRunning` refreshes it when the
machine stops), `suppressed` the breakpoint a step has lifted.  `last` and `ran`
are history: the last command, the depth it was given at, the instructions since
(counted up to 2).

| Action | Code |
| --- | --- |
| `Pause`, `Continue`, `Step`, `NextLine`, `Stepi`, `Finish` | the `ui_` buttons and console commands, with `debugger_suppressBreakpointAtPC` and `machine_setRunning` |
| `EnableBreakpoint`, `DisableBreakpoint`, `ForgetBreakpoint` | `machine_addBreakpoint`, `setBreakpointEnabled`, `removeBreakpointByAddr` as the list and the pane use them |
| `PollQuiet`, `PollStopped`, `PollIgnored` | the poll in `runtime_runLoop`, `runtime_restoreSuppressedBreakpoint`, the ignore list of the trainer |
| `BeginFrame`, `Draw` | `retro_run` from the loop, the drawing |
| `Execute`, `ContinueFrame` | `geo_exec` |

Not modelled here: temporary breakpoints, `step_frame` of the core, toggle-all and
clear-all, the list moving with the text (see `Bases`), watchpoint operands (an
address is watched or not; see `Watchpoints`), modal dialogs, Z80 stepping, the `stop` instruction.  Frame steps are in
`Timeline`.

Fairness (`DebugFairness`): the loop turns (weak fairness of `Poll`, `Draw`), what
it calls returns (`Execute`, `ContinueFrame`), and a frame is due again and again
(strong fairness of `BeginFrame`, since the turns where it is not due come
between).  The last assumes a host fast enough: when every turn takes more than
four frame times the loop drops the time it has accumulated.

### Runs

* `debug_breaks`: a recursive function, every command, two addresses with
  breakpoints, one of them a watched address the trainer ignores.  Three and a
  half million states.  Every enabled breakpoint is in the core except the lifted
  one (`EnabledReachCore`); the registers shown for a stopped machine are its
  registers; the lifted breakpoint is where the machine stands; `next` ends in the
  function it was given in or a caller (`NextSameDepth`).
* `debug_stepi`: instruction steps with an interrupt handler, a Z80 that stops the
  machine, a breakpoint and a watchpoint.  A pause is final, a step executes at
  most one instruction and comes to an end.
* `debug_finish` (a violation): see *Findings*.

Two lines, one function (recursive in `debug_breaks`) and one handler are enough
for each branch of the hook; a depth of 2 or 3 distinguishes the function, its
caller and its caller's caller.  `BpMax` is 2 where the code has 64, with as many
addresses: the table is full when all are set.  `StackMax` is above `MaxDepth`
where the depth matters and equal to it where interrupts are on.

`NextSameDepth` is checked without interrupts: exception entry pushes nothing on
the mirror, so that `next` may well end in a handler.  `StepInstrRunsOne` is
checked without ignored addresses: the poll's resume clears the step.

### Proofs (`DebugProofs`)

For every program, set of breakpoints, watched addresses and size of the tables:

* `DebugTypeCorrect`: types; the table within `BpMax`, the mirror within
  `StackMax`.
* `PauseIsFinal`: a paused core executes nothing until a command takes the pause
  back.
* `ShownIsTrue`: the registers shown for a stopped machine are its registers.
* `LiftsWhereItStands`: a step lifts the breakpoint the machine stands on.
* `EnabledAreInCore`: every enabled breakpoint is in the core except the lifted
  one, assuming the table has room for every address.
* `StepiRunsOne`: `stepi` executes at most one instruction, assuming no address is
  on the ignore list.
* `NextStaysUp`: a `next` that ends on a line ends in its function or a caller,
  assuming no interrupts and that the mirror call stack never fills.

Assumptions on the constants are `DebugCoreAssumption` and `DebugHostAssumption`:
what a program is, and that a call has an address to come back to.

`PausedStandsStill` is about `paused` while the loop looks at `break_now`; the
invariant `DebugInv` ties them: within a frame, a paused core has asked for a
break (`PauseAsksForBreak`).  It holds because only the hook and a watchpoint pause
within a frame and both set the request (`HookStep` in the lemmas), and because
the loop leaves the frame when it takes the request back.  `ShownWhenStopped`
alone does not survive a command given after `continue` in the same turn; the
invariant adds `ShownWhenDrawn` (the registers are right as long as the buttons
are those of a stopped machine) and `FrameRuns` (the machine moves only when the
host has it run).  For `stepi`, `StepiPhases` says where a step is: not begun, its
instruction under way, or over.

The mirror is not the stack: it counts calls and returns that the frame loop then
does not execute, so that no invariant fixes their difference.  While a `next` is
under way nothing is stopped, so that each counted instruction is executed, and
`NextKept` holds: the mirror has come down from where the `next` was given at most
as far as the stack has.  It is lost when the mirror is full (a call is not
counted, its return is), which is why `NextStaysUp` assumes it never is; when it is
empty a return is not counted, which only errs to the safe side.

Only model-checked: `StepInstrReturns` (liveness).


## Protections, watchpoints and the trainer

`Protect` is RAM and the rules on it.  RAM is `Windows` times mirrored; an address
counts from the first window, a value is the sequence of its bytes.  `pages` is
`e9k_protect_pageMask`, which each operation on the rules rebuilds (`Rebuilt`) and
each write looks at first; `Filtered` is `e9k_protect_filterWrite`, byte by byte, the
first slot winning.

`Watchpoints` has the accesses of the program (`CpuRead`, `CpuWrite`), which the hooks
of `geo_m68k.c` report to the watchpoints, and the debugger's own writes
(`DebugWrite`), which are filtered but not reported.  An instruction may make more
accesses after one that hit (`midInstr`).  `hit` is the one pending hit; `Poll` is
`runtime_runLoop` between two frames, which takes it only where it sees the machine
go from running to stopped, and resumes an ignored one.  All commands come between
frames (`Idle`).  `raced` is history: a command came between a hit and its poll.

| Action | Code |
| --- | --- |
| `CpuAccess`, `EndInstr` | `m68k_execute` and the memory functions of `geo_m68k.c` |
| `Watch` | `e9k_debugger_watchpoint_read`, `_write`, `watchbreak_request` |
| `AddProtect` ... `ClearProtects` | `e9k_protect.c`, `protect_remove`, the checkboxes of the trainer |
| `Train`, `TrainIgnore`, `TrainClear`, `TrainerIgnore` | `console_cmd_train.c`, `train.c`, `trainer_ignoreCB` |
| `AddWatchpoint`, `RemoveWatchpoint`, `ClearWatchpoints` | the functions of `e9k_debugger.c` |

Fairness: the loop polls (weak fairness of `Poll`), and an instruction ends
(`EndInstr`).  Nothing is assumed of the program or the user.

* `memory`: four bytes of RAM in two windows and pages of two, one-bit bytes; writes
  of a byte, a word through the second window and a long across pages, a read; three
  rules that overlap, of both modes, one set through the second window, in a table
  of two; one watchpoint slot shared by plain watchpoints and the trainer's.  The
  page mask is current, no write through the first window gets past an enabled rule,
  a hit tells the truth about memory, a hit hides later ones only behind a command
  given before its poll, and an ignored access lets the machine run on.

### Proofs (`WatchpointsProofs`)

For every program, rules, watchpoints and sizes of RAM (at least a long), pages and
tables: `MemoryTypeCorrect`, `MaskIsCurrent`, `RulesHold`, `HitsAreTrue`,
`HiddenOnlyByCommands`.  The invariant `MemoryInv` is types, well-formed rules
(`RulesOK`), the current page mask and the hit rule; it is inductive as it stands.
`RulesHold` then follows for each write from `FilterRespects`: a byte on which an
enabled rule lies has its page in the mask, so some rule answers for it, and the
rule that answers gives the old byte or the one it sets.  `HitsAreTrue` needs that
bytes less than RAM apart do not share an offset (`CanonicalApart`).  Assumptions on
the constants: accesses are at addresses and of bytes, rules are rules, and the
sizes are positive.  Only model-checked: `IgnoredRunsOn` (liveness).


## Bases

`Bases` has the map of `base_map.c` with both translations of text addresses
(`ToDebug`, `ToRuntime`), the list of breakpoints, the core's table, and stored states
of which only the header `state_wrap.c` writes and, as history, the map itself are
kept.  `SetTextBase` is `debugger_setTextBaseAddress`, reached from the console in any
mode and from the program in basic mode; `PushHunk` the loader inside the Amiga;
`RestoreState` everything that restores a state.  `clashed` is history: two entries of
the list have lain at one address.

* `bases`: an address space of 16, bases 0 and 4, a hunk of text, one of data below
  it and one of text of unknown size, two breakpoints, one stored state.  The core
  has what the list shows; a restored state brings its map back; a breakpoint keeps
  its debug address when the text moves, and its address when it does not.  Two
  hunks and a wrap-around of the address space are within the bounds.

### Proofs (`BasesProofs`)

For any address space, bases, hunks, breakpoints and number of stored states, all
four properties: `CoreHasTheList`, `MapRestored`, `DebugAddressesKept`,
`SeekingKeepsBreakpoints`.  The invariant `BasesInv` adds to the types that the map has
hunks just when it is a stack and its base is the machine's (`InStep`), without which
the header, which stores the machine's base, would not tell the map; that every
stored header tells all its map did (`Carries`); and that a list that never clashed
does not clash now.  `DebugAndBack` and `RuntimeAndBack` say that in a program of one
hunk the translations invert each other, modulo the address space.


## Findings

What the code does and a line of the repository says otherwise; each is a run TLC
ends with a counterexample.

* `timeline_reseek`: `state_buffer.c:1062` says previous states are refreshed so
  that future diffs remain valid.  A break before the vertical blank leaves the
  frame uncounted, so the next capture stores its label a second time; when the bar
  is then pressed and released at that label, the previous state of the first level
  is taken from the first of the two frames (`state_buffer.c:1087`), and the next
  diff is applied to a state it was not taken against.  An earlier release of the
  bar repeats a label as well, with the same effect at the next release there.
* `debug_finish`: `console_cmd.c:40` says `finish` steps out of the current
  function; after a step that stops at a return in a nested call, the return is
  popped twice and `finish` stops in the same function.
* `snapshots_stamp`: `README.md:201` says save states include a hash of the ROM; it is
  the hash of the ROM *file* when the state is saved.  After a build under a running
  debugger a state of the old ROM carries the hash of the new one, and the next
  start offers it.

Also seen while modelling, without a run of their own: when the serialised size
changes, a promotion can leave a level that begins with a diff, which `state_buffer.c:684`
says cannot happen, and the trimming loop then spins (hence `SameSize`);
`README.md:146` says that Restore restores the full timeline, but Save puts a single
keyframe aside (`SetSaveKeyframe`) and Restore replaces the timeline with it; a
breakpoint lifted for a step whose end the poll does not see, because a command came
in the same turn, stays lifted.

Behaviour of the models that no line of the repository contradicts, and that the
properties are worded around: `continue` at a breakpoint stops there at once;
`stepi` directly after a pause may execute nothing, a `break_now` being left over;
`stepi` over an ignored access is forgotten; a lifted breakpoint that the
user removes meanwhile is put back in the core; at the end of a loop only the
counter jumps; pausing the rolling record during a drag loses the release; calls
deeper than `E9K_DBG_STACK_MAX` are not counted on the mirror but their returns
are, after which `next` may end in a deeper call (`NextSameDepth` fails when
`StackMax` is 2 in `MCDebugBreaks.cfg`).

Of the newer modules: the page mask has the pages of the first window only, so a write
through a mirror gets past a rule; adding a rule that is switched off leaves it off,
and the console cannot remove it; the hook of a long is given the value before the
filter; the operand for a changed value is compared with the old value and not with
the one written; `watch del` does not tell `train` that its slot is free; the ignore
list of `train` mutes any watchpoint; with two hunks of text each restore moves the
breakpoints of the older one to the newer, and with one base those below it up by the
base; `base` moves breakpoints after hunks were pushed although the map then ignores
it; entries moved to one address share one breakpoint of the core.


## Not modelled

Input recording and the tests (`input_record.c`, `smoke_test.c`, `ui_test.c`) replay
and compare sequentially, and the profilers add up counts: nothing there depends on
an order of events.  The Amiga and ST cores step like the Neo Geo core modelled here,
in forks of large emulators; of the Amiga core the parts the host depends on, hunks
and breakpoints set by the program, are in `Bases`.  Parsers, panes, dialogs, the
toolkit, graphics and tools have no state worth checking or work on unbounded text.
Failed allocations and failing writes are left out of the buffer and of the files.


## Plan

1. Compose `Bases` with `DebugHost`: a base that changes while a step has a breakpoint
   lifted; clear-all and toggle-all.
2. Compose `Watchpoints` with `DebugCore`: `DebugCore.Watched` becomes the result of
   `Matches`, and a step under way meets the poll's resume.
3. Input replay with the frame counter of `Timeline`.
4. Theorems: `TimelineTypeOK` of all of `TimelineSpec`.  Out of the prover's reach and
   left to TLC: `TrimEnds`, `FrameEnds`, `StepInstrReturns`, `IgnoredRunsOn`
   (liveness).
