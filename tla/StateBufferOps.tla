-------------------------- MODULE StateBufferOps --------------------------
(***************************************************************************)
(* The data of the rolling state buffer (src/e9k-debugger/state_buffer.c)  *)
(* and the static functions that compute on it.                            *)
(*                                                                         *)
(* A serialised machine state is a non-empty sequence of blocks, the unit  *)
(* of the differential encoding.  A level keeps a sequence of frames; a    *)
(* frame holds either all the blocks of a state (a keyframe) or only the   *)
(* blocks in which it differs from the state stored just before it.  The   *)
(* payload of a frame is the function from the indexes of the blocks it    *)
(* holds to their contents, so the payload of a keyframe is the state.     *)
(*                                                                         *)
(* Levels are numbered from 1 (newest, dense) to LevelCount (oldest,       *)
(* thinned); the code numbers them from 0.                                 *)
(*                                                                         *)
(* Here and in the other modules a definition X_Fault is X with a fault    *)
(* planted in it, which some property of X must detect; no specification   *)
(* uses it.                                                                *)
(***************************************************************************)
EXTENDS Integers, Sequences, FiniteSets

CONSTANTS
  LevelCount,         \* STATE_BUFFER_LEVEL_COUNT
  MaxBytes,           \* max_bytes given to state_buffer_init
  States,             \* the serialised states the machine can be in
  BlockBytes,         \* STATE_BUFFER_DIFF_BLOCK_SIZE
  DiffHeaderBytes,    \* the four words that begin a diff payload
  DiffEntryBytes,     \* a changed block and its index in a diff payload
  PromoteMaxFrames    \* STATE_BUFFER_PROMOTE_MAX_FRAMES

Block == UNION {{s[b] : b \in DOMAIN s} : s \in States}
BlockIndex == UNION {DOMAIN s : s \in States}

ASSUME LevelsAssumption == LevelCount \in Nat \ {0}
ASSUME StatesAssumption ==
  \A s \in States : s \in Seq(Block) /\ s # << >>
ASSUME SizesAssumption ==
  /\ MaxBytes \in Nat
  /\ BlockBytes \in Nat
  /\ DiffHeaderBytes \in Nat
  /\ DiffEntryBytes \in Nat
  /\ PromoteMaxFrames \in Nat \ {0}

Level == 1 .. LevelCount

\* prevState = NULL, prevSize = 0.
NoState == << >>

-----------------------------------------------------------------------------
(* Frames *)

Payload == UNION {[B -> Block] : B \in SUBSET BlockIndex}

\* state_frame_t, its state_size in blocks.  captured is a history variable:
\* the state the frame stands for.
Frame == [frame_no : Nat, is_keyframe : BOOLEAN, state_size : Nat,
          payload : Payload, captured : States]

\* The blocks of cur that differ from those of prev.
DiffPayload(prev, cur) ==
  [b \in {c \in DOMAIN cur : prev[c] # cur[c]} |-> cur[b]]

DiffPayloadSize(payload) ==
  DiffHeaderBytes + DiffEntryBytes * Cardinality(DOMAIN payload)

PayloadSize(f) ==
  IF f.is_keyframe THEN f.state_size * BlockBytes ELSE DiffPayloadSize(f.payload)

\* Copies the payload of f over the state s.  The payload of a keyframe
\* covers every block, so for one this is the memcpy of the whole state.
Apply(f, s) ==
  [b \in DOMAIN s |-> IF b \in DOMAIN f.payload THEN f.payload[b] ELSE s[b]]

\* The bytes of the first n frames.
PrefixBytes(frames, n) ==
  LET sum[i \in 0 .. n] ==
        IF i = 0 THEN 0 ELSE sum[i - 1] + PayloadSize(frames[i])
  IN  sum[n]

-----------------------------------------------------------------------------
(* Levels *)

EmptyLevel == [frames |-> << >>, totalBytes |-> 0, prevState |-> NoState]

\* What is appended to a level: a state, its label, and its history value.
Item(s, no, truth) == [state |-> s, frame_no |-> no, captured |-> truth]

\* The frame that stores an item after prev: a diff when there is a previous
\* state of the same size and the diff is smaller than the state.
StoredFrame(prev, item) ==
  LET diff   == DiffPayload(prev, item.state)
      isDiff == /\ Len(prev) = Len(item.state)
                /\ DiffPayloadSize(diff) < Len(item.state) * BlockBytes
  IN  [frame_no    |-> item.frame_no,
       is_keyframe |-> ~isDiff,
       state_size  |-> Len(item.state),
       payload     |-> IF isDiff THEN diff ELSE item.state,
       captured    |-> item.captured]

\* state_buffer_levelAppendState, for each of a sequence of items in turn.
AppendStates(lvl, items) ==
  LET prev(j) == IF j > 1 THEN items[j - 1].state
                 ELSE IF lvl.frames = << >> THEN NoState ELSE lvl.prevState
      new == [j \in 1 .. Len(items) |-> StoredFrame(prev(j), items[j])]
  IN  [frames     |-> lvl.frames \o new,
       totalBytes |-> lvl.totalBytes + PrefixBytes(new, Len(new)),
       prevState  |-> IF items = << >> THEN lvl.prevState
                      ELSE items[Len(items)].state]

\* The successive contents of the work buffer: the payload of keyframe k,
\* then what each of the frames k+1 .. n leaves in it.
Replay(frames, k, n) ==
  LET work[i \in k .. n] ==
        IF i = k THEN frames[k].payload ELSE Apply(frames[i], work[i - 1])
  IN  work

\* The keyframe a reconstruction starts from: the last one up to idx, or the
\* first frame when there is none.
KeyIndex(frames, idx) ==
  CHOOSE k \in 1 .. idx :
    /\ k = 1 \/ frames[k].is_keyframe
    /\ \A j \in k + 1 .. idx : ~frames[j].is_keyframe

CanReconstruct(frames, idx) ==
  LET k == KeyIndex(frames, idx) IN
    /\ frames[k].is_keyframe
    /\ \A j \in k .. idx : frames[j].state_size = frames[k].state_size

\* state_buffer_levelReconstructIndex; NoState when it fails.
Reconstruct(frames, idx) ==
  IF CanReconstruct(frames, idx)
  THEN Replay(frames, KeyIndex(frames, idx), idx)[idx]
  ELSE NoState

\* How many of the oldest frames must go to free toFree bytes, never reaching
\* into frames of another size.
FramesToFree(frames, toFree) ==
  Cardinality({j \in 1 .. Len(frames) :
                 \A k \in 1 .. j : /\ frames[k].state_size = frames[1].state_size
                                   /\ PrefixBytes(frames, k - 1) < toFree})

ConvertNewOldest_Never(frames, n) == frames

ConvertNewOldest_OneBehind(frames, n) ==
  IF /\ frames[n + 1].state_size = frames[1].state_size
     /\ ~frames[n + 1].is_keyframe
  THEN [frames EXCEPT ![n + 1].payload = Replay(frames, 1, n)[n],
                      ![n + 1].is_keyframe = TRUE]
  ELSE frames

\* state_buffer_levelConvertToKeyframe of the frame that will be the oldest
\* once the first n are dropped.
ConvertNewOldest(frames, n) ==
  IF /\ frames[n + 1].state_size = frames[1].state_size
     /\ ~frames[n + 1].is_keyframe
  THEN [frames EXCEPT ![n + 1].payload = Replay(frames, 1, n + 1)[n + 1],
                      ![n + 1].is_keyframe = TRUE]
  ELSE frames

DropConverted_OneMore(lvl, n) ==
  LET converted == ConvertNewOldest(lvl.frames, n) IN
    [lvl EXCEPT !.frames = SubSeq(converted, n + 2, Len(converted)),
                !.totalBytes = @ - PrefixBytes(lvl.frames, n + 1)]

DropConverted_KeepsBytes(lvl, n) ==
  LET converted == ConvertNewOldest(lvl.frames, n) IN
    [lvl EXCEPT !.frames = SubSeq(converted, n + 1, Len(converted)),
                !.totalBytes = @ - PrefixBytes(lvl.frames, n)]

\* Drops the first n frames, n < Len(frames), the next one made a keyframe.
DropConverted(lvl, n) ==
  LET converted == ConvertNewOldest(lvl.frames, n) IN
    [lvl EXCEPT !.frames = SubSeq(converted, n + 1, Len(converted)),
                !.totalBytes = @ - PayloadSize(lvl.frames[n + 1])
                                 + PayloadSize(converted[n + 1])
                                 - PrefixBytes(lvl.frames, n)]

=============================================================================
