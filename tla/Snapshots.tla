----------------------------- MODULE Snapshots -----------------------------
(***************************************************************************)
(* Save, Restore and the snapshot file that carries a saved state over to  *)
(* the next start of the debugger (ui.c, snapshot.c, and the file format   *)
(* in state_buffer.c), around the recording of StateBuffer.                *)
(*                                                                         *)
(* The file is named after the ROM and is written over in place, record by *)
(* record; a crash leaves what was written so far.  An absent file and an  *)
(* empty one are told apart by nothing here.  The ROM is a file as well,   *)
(* which its author may build anew whether the debugger runs or not.       *)
(***************************************************************************)
EXTENDS StateBuffer

CONSTANT Roms    \* the checksums of the builds of the ROM

VARIABLES
  phase,              \* "off", "up", or writing the file: "saving", "exiting"
  hostState,          \* libretro_host.stateData, NoState when there is none
  hasStateSnapshot,   \* debugger.hasStateSnapshot
  romFile,            \* the build on the disk
  file,               \* the records in the snapshot file
  toWrite,            \* the records still to be written
  romLoaded,          \* history: the build the core runs
  kept                \* history: what the file was last written for

hostVars == << hostState, hasStateSnapshot >>
snapshotVars == << current, save, trimAt, phase, hostState, hasStateSnapshot,
                   romFile, file, toWrite, romLoaded, kept >>

Up == phase = "up" /\ trimAt = 0

-----------------------------------------------------------------------------
(* The file *)

\* The records of a level: its counts, its frames, and its previous state if it
\* has one.
LevelRecords(lvl) ==
  << [count |-> Len(lvl.frames), prevSize |-> Len(lvl.prevState)] >>
    \o lvl.frames
    \o (IF lvl.prevState = NoState THEN << >> ELSE << lvl.prevState >>)

\* What state_buffer_saveSnapshotFile writes.
Written(buf, rom) ==
  LET upTo[i \in 0 .. LevelCount] ==
        IF i = 0
        THEN << [currentFrameNo |-> buf.currentFrameNo, romChecksum |-> rom] >>
        ELSE upTo[i - 1] \o LevelRecords(buf.levels[i])
  IN  upTo[LevelCount]

\* How many records the level has that begins with the counts `head'.
LevelLength(head) == head.count + (IF head.prevSize > 0 THEN 2 ELSE 1)

\* Where in the records each level begins, the last entry being the end; past
\* the end of the records, nothing more is read.
LevelStart(records) ==
  LET at[i \in 1 .. LevelCount + 1] ==
        IF i = 1 THEN 2
        ELSE IF at[i - 1] > Len(records) THEN Len(records) + 2
        ELSE at[i - 1] + LevelLength(records[at[i - 1]])
  IN  at

Loads_EmptyTail(records) ==
  records # << >> /\ LevelStart(records)[LevelCount] <= Len(records) + 1

\* Whether state_buffer_loadSnapshotFile reads to its end.
Loads(records) ==
  records # << >> /\ LevelStart(records)[LevelCount + 1] <= Len(records) + 1

\* The timeline it then leaves, the byte counts added up anew.
Loaded(records) ==
  LET start == LevelStart(records)
      frames(i) ==
        SubSeq(records, start[i] + 1, start[i] + records[start[i]].count)
      level(i) ==
        [frames     |-> frames(i),
         totalBytes |-> PrefixBytes(frames(i), Len(frames(i))),
         prevState  |-> IF records[start[i]].prevSize > 0
                        THEN records[start[i + 1] - 1] ELSE NoState]
      levels == [i \in Level |-> level(i)]
  IN  [EmptyBuffer EXCEPT
         !.levels = levels,
         !.totalBytes = SizeChange([i \in Level |-> EmptyLevel], levels),
         !.currentFrameNo = records[1].currentFrameNo]

\* state_buffer_getSnapshotState: the frame the timeline was at, or else the
\* last one of its first level that has any.
SnapshotState(buf) ==
  IF buf.currentFrameNo # 0 /\ HasFrameNo(buf, buf.currentFrameNo)
  THEN RestoredState(buf, buf.currentFrameNo)
  ELSE LET first == CHOOSE i \in Level :
                      /\ buf.levels[i].frames # << >>
                      /\ \A j \in 1 .. i - 1 : buf.levels[j].frames = << >>
       IN  Last(buf.levels[first])

-----------------------------------------------------------------------------
(* Starting and ending *)

SnapshotsInit ==
  /\ Init
  /\ phase = "off"
  /\ hostState = NoState /\ hasStateSnapshot = FALSE
  /\ romFile \in Roms /\ romLoaded = romFile
  /\ file = << >> /\ toWrite = << >>
  /\ kept = << >>

Boot_ForeignToo ==
  /\ phase = "off" /\ phase' = "up"
  /\ save' = IF Loads(file) THEN Loaded(file) ELSE EmptyBuffer
  /\ hasStateSnapshot' = Loads(file)
  /\ hostState' = IF hasStateSnapshot' THEN SnapshotState(save') ELSE NoState
  /\ romLoaded' = romFile
  /\ UNCHANGED << current, trimAt, romFile, file, toWrite, kept >>

\* debugger_ctor and snapshot_loadOnBoot: a state saved for another build stays
\* in the saved timeline but is not offered.
Boot ==
  /\ phase = "off" /\ phase' = "up"
  /\ save' = IF Loads(file) THEN Loaded(file) ELSE EmptyBuffer
  /\ hasStateSnapshot' = (Loads(file) /\ file[1].romChecksum = romFile)
  /\ hostState' = IF hasStateSnapshot' THEN SnapshotState(save') ELSE NoState
  /\ romLoaded' = romFile
  /\ UNCHANGED << current, trimAt, romFile, file, toWrite, kept >>

\* state_buffer_saveSnapshotFile begins with emptying the file.
StartWriting(buf, next) ==
  /\ phase' = next
  /\ file' = << >>
  /\ toWrite' = Written(buf, romFile)

WriteRecord ==
  /\ phase \in {"saving", "exiting"}
  /\ toWrite # << >>
  /\ file' = Append(file, Head(toWrite))
  /\ toWrite' = Tail(toWrite)
  /\ UNCHANGED << current, save, trimAt, hostVars, phase, romFile, romLoaded,
                  kept >>

\* The file is complete.
Saved ==
  /\ phase = "saving" /\ toWrite = << >>
  /\ phase' = "up"
  /\ UNCHANGED << current, save, trimAt, hostVars, romFile, file, toWrite,
                  romLoaded, kept >>

\* The process is gone; debugger_ctor starts the next one from nothing.
Gone ==
  /\ phase' = "off"
  /\ current' = EmptyBuffer /\ save' = EmptyBuffer /\ trimAt' = 0
  /\ hostState' = NoState /\ hasStateSnapshot' = FALSE
  /\ UNCHANGED << romFile, romLoaded >>

\* debugger_cleanup: the file is written once more when a state was saved or
\* brought back.
BeginExit ==
  /\ Up
  /\ hasStateSnapshot /\ Slots(save) # {}
  /\ StartWriting(save, "exiting")
  /\ kept' = [kept EXCEPT !.stamp = romFile, !.whole = TRUE]
  /\ UNCHANGED << current, save, trimAt, hostVars, romFile, romLoaded >>

Exited ==
  /\ \/ phase = "exiting" /\ toWrite = << >>
     \/ Up /\ ~(hasStateSnapshot /\ Slots(save) # {})
  /\ Gone
  /\ UNCHANGED << file, toWrite, kept >>

\* The process dies; so do the records not written yet.
Crash ==
  /\ phase # "off"
  /\ Gone
  /\ toWrite' = << >>
  /\ kept' = IF toWrite # << >> THEN [kept EXCEPT !.whole = FALSE] ELSE kept
  /\ UNCHANGED file

\* A new build of the ROM, under the same name.
Rebuild ==
  /\ phase \in {"off", "up"}
  /\ romFile' \in Roms \ {romFile}
  /\ UNCHANGED << current, save, trimAt, phase, hostVars, file, toWrite,
                  romLoaded, kept >>

-----------------------------------------------------------------------------
(* The buttons *)

SaveState_WhenRecording(s) ==
  /\ Up
  /\ IF Recording THEN SetSaveKeyframe(s, current.currentFrameNo)
     ELSE UNCHANGED << current, save, trimAt >>
  /\ hostState' = s /\ hasStateSnapshot' = TRUE
  /\ StartWriting(save', "saving")
  /\ kept' = [state |-> s, stamp |-> romFile, of |-> romLoaded, whole |-> TRUE]
  /\ UNCHANGED << romFile, romLoaded >>

\* ui_saveState of a machine in state s; rolling record may be off.
SaveState(s) ==
  /\ Up
  /\ SetSaveKeyframe(s, current.currentFrameNo)
  /\ hostState' = s /\ hasStateSnapshot' = TRUE
  /\ StartWriting(save', "saving")
  /\ kept' = [state |-> s, stamp |-> romFile, of |-> romLoaded, whole |-> TRUE]
  /\ UNCHANGED << romFile, romLoaded >>

\* ui_restoreState
RestoreState ==
  /\ Up
  /\ hostState # NoState
  /\ IF Slots(save) # {} THEN RestoreSnapshot
     ELSE UNCHANGED << current, save, trimAt >>
  /\ hasStateSnapshot' = TRUE
  /\ UNCHANGED << phase, hostState, romFile, file, toWrite, romLoaded, kept >>

SnapshotsRecord ==
  /\ phase = "up"
  /\ NextRecord \/ \E b \in BOOLEAN : SetRollingPaused(b)
  /\ UNCHANGED << phase, hostVars, romFile, file, toWrite, romLoaded, kept >>

SnapshotsNext ==
  \/ SnapshotsRecord
  \/ \E s \in States : SaveState(s)
  \/ RestoreState
  \/ WriteRecord \/ Saved \/ BeginExit \/ Exited
  \/ Boot \/ Crash \/ Rebuild

SnapshotsSpec == SnapshotsInit /\ [][SnapshotsNext]_snapshotVars

-----------------------------------------------------------------------------
(* Properties *)

\* A timeline that is written out and read back is the same timeline, with its
\* previous states and byte counts; and no part of the file, as a crash while
\* writing leaves it, reads as a timeline.
FileRoundTrip ==
  \A buf \in Buffers : \A rom \in Roms :
    LET records == Written(buf, rom) IN
      /\ Loads(records)
      /\ Loaded(records) = [buf EXCEPT !.paused = FALSE, !.rollingPaused = FALSE]
      /\ \A n \in 0 .. Len(records) - 1 : ~Loads(SubSeq(records, 1, n))

\* Restore has two copies of what was saved, the serialised state for the core
\* and the saved timeline; however they came about, the timeline is at a frame
\* that holds the very state the core is given.
RestoreAgrees ==
  hasStateSnapshot =>
    hostState # NoState /\ RestoredState(save, save.currentFrameNo) = hostState

\* README.md: when the debugger starts and a saved state matching the ROM is
\* there, it is ready to be restored.  That holds for the state saved last,
\* through restarts, restores and rebuilds, unless a crash cut its writing
\* short; a partial file or one stamped for another build offers nothing.
BootBringsBack ==
  [][phase = "off" /\ phase' = "up" =>
       IF kept # << >> /\ kept.whole /\ kept.stamp = romFile
       THEN hasStateSnapshot' /\ hostState' = kept.state
       ELSE ~hasStateSnapshot']_snapshotVars

\* README.md: save states include a hash of the ROM.  The state offered for a
\* restore is one of the build that the core runs.
OffersOwnStates ==
  hasStateSnapshot => kept # << >> /\ kept.of = romLoaded

=============================================================================
