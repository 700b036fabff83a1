--------------------------- MODULE HistoryProofs ----------------------------
(***************************************************************************)
(* Proofs about what the rolling state buffer keeps: trimming leaves each  *)
(* level within its budget, and to its callers the buffer is the history   *)
(* of RecordedHistory.tla.                                                 *)
(***************************************************************************)
EXTENDS HistoryRefinement, StateBufferProofs

-----------------------------------------------------------------------------
(* Budgets *)

\* The budget of a level is a number of bytes.
LEMMA BudgetType ==
  ASSUME NEW i \in Level
  PROVE  Budget(i) \in Nat
<1> DEFINE g      == [r \in Nat |-> r - (r \div 2)]
           Eqn(f) == f = [j \in Level |-> IF j = 1 THEN MaxBytes
                                          ELSE f[j - 1] - (f[j - 1] \div 2)]
           w      == CHOOSE f : Eqn(f)
<1>0. LevelCount \in Nat /\ MaxBytes \in Nat /\ Level = 1 .. LevelCount
  BY LevelsAssumption, SizesAssumption DEF Level
<1>1. Budget(i) = IF i = LevelCount THEN w[i] ELSE w[i] \div 2
  BY DEF Budget
<1>2. g \in [Nat -> Nat] /\ \A r \in Nat : g[r] = r - (r \div 2)
  OBVIOUS
<1> HIDE DEF g
<1>3. PICK f \in [Level -> Nat] :
        \A j \in Level : f[j] = IF j = 1 THEN MaxBytes ELSE g[f[j - 1]]
  <2>1. Iterates(LevelCount, Nat, MaxBytes, g)
    BY <1>0, <1>2, IterationExists
  <2> QED
    BY <2>1, <1>0 DEF Iterates
<1>4. Eqn(w)
  <2>1. \A j \in Level : f[j] = IF j = 1 THEN MaxBytes ELSE f[j - 1] - (f[j - 1] \div 2)
    <3> TAKE j \in Level
    <3>1. j # 1 => j - 1 \in Level
      BY <1>0
    <3> QED
      BY <3>1, <1>2, <1>3
  <2>2. Eqn(f)
    BY <2>1
  <2> HIDE DEF Eqn
  <2> QED
    BY <2>2
<1> HIDE DEF w
<1>5. \A j \in Level : w[j] = IF j = 1 THEN MaxBytes ELSE w[j - 1] - (w[j - 1] \div 2)
  <2> DEFINE v == [j \in Level |-> IF j = 1 THEN MaxBytes
                                   ELSE w[j - 1] - (w[j - 1] \div 2)]
  <2>1. w = v /\ \A j \in Level : v[j] = IF j = 1 THEN MaxBytes
                                         ELSE w[j - 1] - (w[j - 1] \div 2)
    BY <1>4
  <2> HIDE DEF v
  <2> QED
    BY <2>1
<1> DEFINE Bad == {j \in Level : w[j] \notin Nat}
<1>6. Bad = {}
  <2> SUFFICES ASSUME Bad # {} PROVE FALSE
    OBVIOUS
  <2>1. Bad \in SUBSET Nat
    BY <1>0
  <2>2. PICK j \in Bad : \A k \in Bad : ~(k < j)
    BY <2>1, LeastMember
  <2>3. j \in Level /\ w[j] \notin Nat
    BY <2>2
  <2>4. j # 1
    BY <2>3, <1>0, <1>5
  <2>5. j - 1 \in Level /\ j - 1 < j
    BY <2>3, <2>4, <1>0
  <2>6. w[j - 1] \in Nat
    BY <2>2, <2>5
  <2>7. w[j - 1] - (w[j - 1] \div 2) \in Nat
    BY <2>6
  <2> QED
    BY <2>3, <2>4, <2>7, <1>5
<1>7. w[i] \in Nat
  BY <1>6
<1> QED
  BY <1>1, <1>7

\* The levels that trimming has passed.
Passed(i) == trimAt = 0 \/ i < trimAt

LiveInv == CountedInv /\ WithinBudget

\* A level without frames has no bytes.
LEMMA EmptyCounted ==
  ASSUME NEW lvl, BytesCounted(lvl), lvl.frames = << >>
  PROVE  lvl.totalBytes = 0
<1>1. Sized(<< >>, 0) /\ Len(<< >>) = 0
  BY DEF Sized
<1>2. PrefixBytes(<< >>, 0) = 0
  BY <1>1, PrefixBytesType
<1> QED
  BY <1>1, <1>2 DEF BytesCounted

\* Cutting frames off a level does not make it larger.
LEMMA CutShrinks ==
  ASSUME SameSize, NEW lvl, LevelOK(lvl), BytesCounted(lvl), NEW no \in Nat
  PROVE  CutLevel(lvl, no).totalBytes <= lvl.totalBytes
<1> DEFINE out == CutLevel(lvl, no)
           n   == Len(out.frames)
<1>1. out = CutLevel(lvl, no)
  OBVIOUS
<1> HIDE DEF out
<1>2. /\ Chain(out.frames) /\ n \in 0 .. Len(lvl.frames)
      /\ \A k \in 1 .. n : out.frames[k] = lvl.frames[k]
  BY <1>1, CutOK
<1>3. out.totalBytes = PrefixBytes(out.frames, n)
  BY <1>1, <1>2, CutCounted DEF BytesCounted
<1>4. /\ lvl.totalBytes = PrefixBytes(lvl.frames, Len(lvl.frames))
      /\ Len(lvl.frames) \in Nat /\ Sized(lvl.frames, Len(lvl.frames))
      /\ Sized(lvl.frames, n)
  <2>1. Chain(lvl.frames)
    BY DEF LevelOK
  <2>2. Len(lvl.frames) \in Nat
    BY <2>1, ChainSized
  <2>3. Len(lvl.frames) \in 0 .. Len(lvl.frames)
    BY <2>2
  <2> QED
    BY <2>1, <2>2, <2>3, <1>2, ChainSized DEF BytesCounted
<1>5. PrefixBytes(out.frames, n) = PrefixBytes(lvl.frames, n)
  <2>1. n \in Nat /\ \A k \in 1 .. n : 0 + k = k
    BY <1>2, <1>4
  <2>2. SameSizes(lvl.frames, 0, out.frames, 0, n)
    BY <2>1, <1>2 DEF SameSizes
  <2> HIDE DEF n
  <2> QED
    BY <2>1, <2>2, <1>4, SamePrefixBytes
<1>6. PrefixBytes(lvl.frames, n) <= PrefixBytes(lvl.frames, Len(lvl.frames))
  BY <1>2, <1>4, PrefixBytesType
<1> QED
  BY <1>3, <1>4, <1>5, <1>6 DEF out

\* Trimming touches no level it has passed, and passes one only when it is
\* within its budget.
LEMMA BudgetTrim ==
  ASSUME SameSize, LiveInv, Trim
  PROVE  WithinBudget'
<1>0. /\ BufferOK(current) /\ trimAt \in 0 .. LevelCount /\ LevelCount \in Nat /\ WithinBudget
      /\ \A i \in Level : i \in Nat /\ i >= 1 /\ i <= LevelCount
  BY LevelsAssumption DEF LiveInv, CountedInv, IInv, Level
<1>1. CASE TrimPromote
  <2>1. /\ trimAt \in 1 .. LevelCount - 1 /\ current.levels[trimAt].frames # << >>
        /\ current' = Promoted(current, trimAt) /\ trimAt' = trimAt
    BY <1>1 DEF TrimPromote, OverBudget
  <2>2. trimAt \in Level /\ trimAt + 1 \in Level /\ trimAt # 0
    BY <2>1, <1>0 DEF Level
  <2>3. Promotes(current', current, trimAt, PromoteCount(current, trimAt))
    BY <2>1, <2>2, <1>0, PromotedMoves
  <2>4. \A i \in Level : Passed(i)' => Passed(i) /\ i # trimAt /\ i # trimAt + 1
    BY <2>1, <2>2, <1>0 DEF Passed
  <2>5. \A i \in Level : Passed(i)' => current'.levels[i] = current.levels[i]
    BY <2>3, <2>4 DEF Promotes
  <2> QED
    BY <2>4, <2>5, <1>0 DEF WithinBudget, Passed
<1>2. CASE TrimDrop
  <2>1. /\ trimAt = LevelCount /\ trimAt \in Level /\ trimAt # 0
        /\ current' = DroppedOldest(current, trimAt) /\ trimAt' = trimAt
    BY <1>2, LevelsAssumption DEF TrimDrop, Level
  <2>2. PICK n \in 0 .. Size(current, trimAt) : Drops(current', current, trimAt, n)
    BY <2>1, <1>0, DroppedMoves
  <2>3. \A i \in Level : Passed(i)' => Passed(i) /\ i # trimAt
    BY <2>1, <1>0 DEF Passed
  <2>4. \A i \in Level : Passed(i)' => current'.levels[i] = current.levels[i]
    BY <2>2, <2>3 DEF Drops
  <2> QED
    BY <2>3, <2>4, <1>0 DEF WithinBudget, Passed
<1>3. CASE TrimNextLevel
  <2>1. /\ trimAt \in Level /\ ~OverBudget(trimAt) /\ current' = current
        /\ trimAt' = IF trimAt = LevelCount THEN 0 ELSE trimAt + 1
    BY <1>3 DEF TrimNextLevel
  <2>2. \A i \in Level : Passed(i)' => Passed(i) \/ i = trimAt
    BY <2>1, <1>0 DEF Passed
  <2>3. Budget(trimAt) > 0 => current.levels[trimAt].totalBytes <= Budget(trimAt)
    <3>1. Budget(trimAt) \in Nat
      BY <2>1, BudgetType
    <3>2. BytesCounted(current.levels[trimAt]) /\ current.levels[trimAt].totalBytes \in Int
      BY <2>1, <1>0 DEF LiveInv, CountedInv, BytesOK, BufferOK, LevelsOK, LevelOK, LevelType
    <3>3. current.levels[trimAt].frames = << >> => current.levels[trimAt].totalBytes = 0
      BY <3>2, EmptyCounted
    <3> QED
      BY <2>1, <3>1, <3>2, <3>3 DEF OverBudget
  <2> QED
    BY <2>1, <2>2, <2>3, <1>0 DEF WithinBudget, Passed
<1> QED
  BY <1>1, <1>2, <1>3 DEF Trim

\* Going back to a frame makes no level larger.
LEMMA BudgetTrimAfter ==
  ASSUME SameSize, LiveInv, NEW no \in StoredNos, TrimAfterFrameNo(no)
  PROVE  WithinBudget'
<1>0. /\ BufferOK(current) /\ BytesOK(current) /\ WithinBudget
      /\ \A i \in Level : LevelOK(current.levels[i]) /\ BytesCounted(current.levels[i])
  BY DEF LiveInv, CountedInv, IInv, BufferOK, LevelsOK, BytesOK
<1>1. no \in Nat
  <2>1. PICK slot \in Slots(current) : no = FrameAt(current, slot).frame_no
    BY DEF StoredNos
  <2> QED
    BY <2>1, <1>0, OneOrder
<1>2. trimAt = 0 /\ trimAt' = 0 /\ current' = TrimmedAfter(current, no)
  BY DEF TrimAfterFrameNo
<1> DEFINE left  == CutBuffer(current, no)
           exact == RestoredState(left, no)
<1>3. current' = left \/ (exact # NoState /\ current' = WithPrev(left, exact, no))
  BY <1>2 DEF TrimmedAfter, WithPrev, CutBuffer, CutLevels
<1>4. left = CutBuffer(current, no)
  OBVIOUS
<1> HIDE DEF left
<1>5. BufferOK(left)
  BY <1>0, <1>1, <1>4, CutBufferOK
<1>6. EachCut(left, current, no)
  BY <1>0, <1>1, <1>4, CutBufferOK
<1>7. \A i \in Level : current'.levels[i].totalBytes = left.levels[i].totalBytes
  <2>1. CASE current' = left
    BY <2>1
  <2>2. CASE exact # NoState /\ current' = WithPrev(left, exact, no)
    <3>1. HasFrameNo(left, no)
      BY <2>2 DEF RestoredState
    <3>2. exact \in States
      BY <1>5, <3>1, RestoreExact
    <3> HIDE DEF exact
    <3> QED
      BY <2>2, <3>2, <1>1, <1>5, PrevSet DEF BufferOK, LevelsOK
  <2> QED
    BY <1>3, <2>1, <2>2
<1>8. ASSUME NEW i \in Level, Budget(i) > 0
      PROVE  current'.levels[i].totalBytes <= Budget(i)
  <2> DEFINE lvl == current.levels[i]
             cut == CutLevel(lvl, no)
  <2>1. LevelOK(lvl) /\ BytesCounted(lvl)
    BY <1>0
  <2>2. current'.levels[i].totalBytes = cut.totalBytes
    BY <1>6, <1>7 DEF EachCut
  <2>3. lvl.totalBytes <= Budget(i) /\ lvl.totalBytes \in Int
    BY <1>0, <1>2, <1>8 DEF WithinBudget, Passed, LevelOK, LevelType
  <2>4. Budget(i) \in Nat
    BY BudgetType
  <2> HIDE DEF lvl
  <2>5. cut.totalBytes <= lvl.totalBytes /\ cut.totalBytes \in Int
    BY <1>1, <2>1, CutShrinks, CutOK DEF LevelType
  <2> HIDE DEF cut
  <2> QED
    BY <2>2, <2>3, <2>4, <2>5
<1> QED
  BY <1>8 DEF WithinBudget, Passed

LEMMA LiveStep ==
  ASSUME SameSize, LiveInv, [NextRecord \/ NextPause]_vars
  PROVE  LiveInv'
<1>0. CountedInv /\ WithinBudget /\ current \in BufferType
  BY DEF LiveInv, CountedInv, IInv, BufferOK, LevelsOK
<1>1. CountedInv'
  <2>1. [Next]_vars
    BY DEF Next
  <2> QED
    BY <2>1, <1>0, CountedStep
<1>2. ASSUME NEW s \in States, CaptureNext(s)
      PROVE  WithinBudget'
  <2>1. trimAt' = 1
    BY <1>2 DEF CaptureNext, Capture
  <2>2. \A i \in Level : ~Passed(i)'
    BY <2>1 DEF Passed, Level
  <2> QED
    BY <2>2 DEF WithinBudget, Passed
<1>3. ASSUME NextPause
      PROVE  WithinBudget'
  <2>1. trimAt = 0 /\ trimAt' = 0
    BY <1>3 DEF NextPause, SetPaused, SetRollingPaused, RestoreFrameNo
  <2>2. \/ current'.levels = current.levels
        \/ current'.levels = EmptyBuffer.levels
    <3>1. ASSUME NEW b \in BOOLEAN, SetPaused(b)
          PROVE  current'.levels = current.levels
      BY <3>1, <1>0 DEF SetPaused, BufferType
    <3>2. ASSUME NEW b \in BOOLEAN, SetRollingPaused(b)
          PROVE  current'.levels = current.levels \/ current'.levels = EmptyBuffer.levels
      <4>1. CASE b
        BY <4>1, <3>2, <1>0 DEF SetRollingPaused, BufferType
      <4>2. CASE ~b
        BY <4>2, <3>2, <1>0 DEF SetRollingPaused, EmptyBuffer
      <4> QED
        BY <4>1, <4>2
    <3>3. ASSUME NEW no \in StoredNos, RestoreFrameNo(no)
          PROVE  current'.levels = current.levels
      BY <3>3, <1>0 DEF RestoreFrameNo, BufferType
    <3> QED
      BY <3>1, <3>2, <3>3, <1>3 DEF NextPause
  <2>3. \A i \in Level : EmptyBuffer.levels[i].totalBytes = 0
    BY DEF EmptyBuffer, EmptyLevel
  <2>4. \A i \in Level : Budget(i) > 0 => EmptyBuffer.levels[i].totalBytes <= Budget(i)
    BY <2>3, BudgetType
  <2> QED
    BY <1>0, <2>1, <2>2, <2>4 DEF WithinBudget, Passed
<1>4. CASE UNCHANGED vars
  BY <1>1, <1>4, <1>0 DEF vars, WithinBudget, Passed, LiveInv
<1>5. NextRecord => WithinBudget'
  BY <1>2, BudgetTrim, BudgetTrimAfter DEF NextRecord
<1> QED
  BY <1>1, <1>3, <1>4, <1>5 DEF LiveInv

\* No level that trimLevels has passed is over its budget, at any moment of the
\* trim and until the next capture: it goes over the levels once, from the newest
\* on, so it matters that it never grows a level it has passed.  That it gets to
\* the last level is TrimEnds.  This is about the live timeline; a state put aside
\* and restored is not trimmed until the next capture.
THEOREM TrimmedToBudget ==
  ASSUME SameSize
  PROVE  SpecLive => []WithinBudget
<1>1. Init => LiveInv
  <2>1. ASSUME Init
        PROVE  WithinBudget
    <3>1. \A i \in Level : current.levels[i].totalBytes = 0
      BY <2>1 DEF Init, EmptyBuffer, EmptyLevel
    <3> QED
      BY <3>1, BudgetType DEF WithinBudget, Passed
  <2> QED
    BY <2>1, InitOK, EmptyBytes DEF Init, CountedInv, LiveInv
<1>2. LiveInv /\ [NextRecord \/ NextPause]_vars => LiveInv'
  BY LiveStep
<1>3. LiveInv => WithinBudget
  BY DEF LiveInv
<1> QED
  BY <1>1, <1>2, <1>3, PTL DEF SpecLive

-----------------------------------------------------------------------------
(* Room for two *)

\* The newest level has room for two states.  The default, of 512 MB
\* (debugger.c:804), has room for hundreds; with less, promoting the two oldest
\* frames of a level of two would lose the state just captured.
RoomForTwo ==
  \A s, t \in States : StateBytes(s) + StateBytes(t) <= Budget(1)

\* The bytes of a chain end with those of its last frame.
LEMMA LastBytes ==
  ASSUME NEW frames, Chain(frames), NEW n \in 1 .. Len(frames)
  PROVE  /\ PrefixBytes(frames, n) = PrefixBytes(frames, n - 1) + PayloadSize(frames[n])
         /\ PrefixBytes(frames, n - 1) \in Nat /\ PayloadSize(frames[n]) \in Nat
         /\ PayloadSize(frames[n]) <= StateBytes(frames[n].captured)
         /\ StateBytes(frames[n].captured) \in Nat
         /\ frames[n].captured \in States
         /\ PrefixBytes(frames, 0) = 0
<1>0. Len(frames) \in Nat
  BY ChainSized
<1>1. n \in Nat /\ n \in 0 .. Len(frames) /\ n \in 1 .. n /\ n - 1 \in 0 .. n
  BY <1>0
<1>2. Sized(frames, n)
  BY <1>1, ChainSized
<1>3. /\ PrefixBytes(frames, 0) = 0
      /\ PrefixBytes(frames, n - 1) \in Nat
      /\ PrefixBytes(frames, n) = PrefixBytes(frames, n - 1) + PayloadSize(frames[n])
  BY <1>1, <1>2, PrefixBytesType
<1>4. FrameOK(frames[n])
  BY DEF Chain
<1>5. frames[n].captured \in States
  BY <1>4 DEF FrameOK, Frame
<1> QED
  BY <1>3, <1>4, <1>5, PayloadSizeType

\* A newest level over its budget holds three frames, and its last is not freed.
LEMMA NewestStays ==
  ASSUME SameSize, RoomForTwo, NEW buf, BufferOK(buf), BytesOK(buf),
         buf.levels[1].totalBytes > Budget(1), buf.levels[1].frames # << >>,
         NEW n, n = FramesToFree(buf.levels[1].frames,
                                 buf.levels[1].totalBytes - Budget(1))
  PROVE  n < Size(buf, 1) /\ Size(buf, 1) > 2 /\ n \in Nat
<1> DEFINE lvl    == buf.levels[1]
           frames == lvl.frames
           l      == Len(frames)
           over   == lvl.totalBytes - Budget(1)
           T      == {j \in 1 .. l :
                        \A k \in 1 .. j : /\ frames[k].state_size = frames[1].state_size
                                          /\ PrefixBytes(frames, k - 1) < over}
<1>0. /\ 1 \in Level /\ Chain(frames) /\ l \in Nat /\ l = Size(buf, 1) /\ Budget(1) \in Nat
      /\ lvl.totalBytes = PrefixBytes(frames, l) /\ l > 0 /\ frames \in Seq(Frame)
  <2>1. 1 \in Level
    BY LevelsAssumption DEF Level
  <2>2. Chain(frames) /\ BytesCounted(lvl)
    BY <2>1 DEF BufferOK, LevelsOK, BytesOK, LevelOK
  <2>3. frames \in Seq(Frame)
    BY <2>2 DEF Chain
  <2>4. l \in Nat /\ l > 0
    BY <2>3
  <2> QED
    BY <2>1, <2>2, <2>3, <2>4, BudgetType DEF BytesCounted, Size
<1> DEFINE Pre(k)  == PrefixBytes(frames, k)
           Of(k)   == PayloadSize(frames[k])
           Full(k) == StateBytes(frames[k].captured)
<1>1. /\ Pre(0) = 0
      /\ \A k \in 1 .. l : /\ Pre(k) = Pre(k - 1) + Of(k)
                          /\ Pre(k - 1) \in Nat /\ Of(k) \in Nat /\ Full(k) \in Nat
                          /\ Of(k) <= Full(k)
  <2>1. l \in 1 .. l
    BY <1>0
  <2> HIDE DEF frames
  <2> QED
    BY <1>0, <2>1, LastBytes
<1>2. \A j, k \in 1 .. l : Full(j) + Full(k) <= Budget(1)
  <2>1. \A k \in 1 .. l : frames[k].captured \in States
    <3> HIDE DEF frames
    <3> QED
      BY <1>0, LastBytes
  <2> QED
    BY <2>1 DEF RoomForTwo
<1>3. Pre(l) > Budget(1)
  BY <1>0
<1> HIDE DEF Pre, Of, Full
<1>4. l > 2
  <2>1. CASE l = 1
    <3>1. 1 \in 1 .. l /\ 1 - 1 = 0
      BY <2>1
    <3>2. Pre(1) = Pre(0) + Of(1) /\ Of(1) <= Full(1) /\ Of(1) \in Nat /\ Full(1) \in Nat
      BY <3>1, <1>1
    <3>3. Full(1) + Full(1) <= Budget(1)
      BY <3>1, <1>2
    <3> QED
      BY <2>1, <3>2, <3>3, <1>0, <1>1, <1>3
  <2>2. CASE l = 2
    <3>1. 1 \in 1 .. l /\ 2 \in 1 .. l /\ 1 - 1 = 0 /\ 2 - 1 = 1
      BY <2>2
    <3>2. /\ Pre(1) = Pre(0) + Of(1) /\ Of(1) <= Full(1) /\ Of(1) \in Nat /\ Full(1) \in Nat
          /\ Pre(2) = Pre(1) + Of(2) /\ Of(2) <= Full(2) /\ Of(2) \in Nat /\ Full(2) \in Nat
      BY <3>1, <1>1
    <3>3. Full(1) + Full(2) <= Budget(1)
      BY <3>1, <1>2
    <3> QED
      BY <2>2, <3>2, <3>3, <1>0, <1>1, <1>3
  <2> QED
    BY <2>1, <2>2, <1>0
<1>5. n \in 0 .. l /\ n = Cardinality(T)
  BY <1>0, FreeCount DEF FramesToFree
<1>6. n # l
  <2> SUFFICES ASSUME n = l PROVE FALSE
    OBVIOUS
  <2>0. T \in SUBSET (1 .. l)
    OBVIOUS
  <2>1. T \in SUBSET (1 .. l) /\ IsFiniteSet(1 .. l) /\ Cardinality(1 .. l) = l
    <3> HIDE DEF T, l
    <3> QED
      BY <2>0, <1>0, FS_Interval
  <2>2. T = 1 .. l
    <3> HIDE DEF T
    <3> QED
      BY <2>1, <1>5, FS_Subset
  <2>3. l \in T /\ l \in 1 .. l
    BY <2>2, <1>0
  <2>4. Pre(l - 1) < over
    BY <2>3 DEF Pre
  <2>5. over = Pre(l) - Budget(1)
    BY <1>0 DEF Pre
  <2>6. /\ Pre(l) = Pre(l - 1) + Of(l) /\ Of(l) <= Full(l)
        /\ Pre(l - 1) \in Nat /\ Of(l) \in Nat /\ Full(l) \in Nat
    BY <2>3, <1>1
  <2>7. Full(l) + Full(l) <= Budget(1)
    BY <2>3, <1>2
  <2> HIDE DEF over, l
  <2> QED
    BY <2>4, <2>5, <2>6, <2>7, <1>0
<1> QED
  BY <1>0, <1>4, <1>5, <1>6

\* Nor is it promoted.
LEMMA NewestNotPromoted ==
  ASSUME SameSize, RoomForTwo, NEW buf, BufferOK(buf), BytesOK(buf),
         buf.levels[1].totalBytes > Budget(1), buf.levels[1].frames # << >>
  PROVE  PromoteCount(buf, 1) < Size(buf, 1)
<1> DEFINE free   == FramesToFree(buf.levels[1].frames,
                                  buf.levels[1].totalBytes - Budget(1))
           capped == IF free > PromoteMaxFrames THEN PromoteMaxFrames ELSE free
<1>1. free < Size(buf, 1) /\ Size(buf, 1) > 2 /\ free \in Nat
  BY NewestStays
<1>2. PromoteCount(buf, 1) = IF capped < 2 /\ Size(buf, 1) >= 2 THEN 2 ELSE capped
  BY DEF PromoteCount, Size
<1>3. Size(buf, 1) \in Nat
  <2>1. 1 \in Level
    BY LevelsAssumption DEF Level
  <2> QED
    BY <2>1, BufferShape
<1> HIDE DEF free
<1> QED
  BY <1>1, <1>2, <1>3, SizesAssumption

-----------------------------------------------------------------------------
(* The history in a buffer *)

Recorded(buf) == HistoryOf(buf).recorded

\* What frame k of level i stands for.
Entry(buf, i, k) == [label |-> No(buf, i, k), state |-> State(buf, i, k)]

\* The history of a well-formed buffer is what its frames stand for.
LEMMA RecordedIs ==
  ASSUME SameSize, NEW buf, BufferOK(buf)
  PROVE  /\ \A r \in Recorded(buf) :
              \E i \in Level : \E k \in 1 .. Size(buf, i) : r = Entry(buf, i, k)
         /\ \A i \in Level : \A k \in 1 .. Size(buf, i) : Entry(buf, i, k) \in Recorded(buf)
<1> DEFINE entry(slot) == [label |-> FrameAt(buf, slot).frame_no,
                           state |-> Reconstruct(buf.levels[slot[1]].frames, slot[2])]
<1>1. Recorded(buf) = {entry(slot) : slot \in Slots(buf)}
  BY DEF Recorded, HistoryOf
<1>2. ASSUME NEW i \in Level, NEW k \in 1 .. Size(buf, i)
      PROVE  << i, k >> \in Slots(buf) /\ entry(<< i, k >>) = Entry(buf, i, k)
  <2> DEFINE frames == buf.levels[i].frames
  <2>1. << i, k >> \in Slots(buf)
    BY DEF Slots, Size
  <2>2. Chain(frames) /\ k \in 1 .. Len(frames)
    BY DEF BufferOK, LevelsOK, LevelOK, Size
  <2>3. Reconstruct(frames, k) = frames[k].captured
    <3> HIDE DEF frames
    <3> QED
      BY <2>2, ReconstructExact
  <2>4. FrameAt(buf, << i, k >>) = frames[k]
    BY DEF FrameAt
  <2> QED
    BY <2>1, <2>3, <2>4 DEF Entry, No, State
<1>3. ASSUME NEW r \in Recorded(buf)
      PROVE  \E i \in Level : \E k \in 1 .. Size(buf, i) : r = Entry(buf, i, k)
  <2>1. PICK slot \in Slots(buf) : r = entry(slot)
    BY <1>1
  <2>2. slot[1] \in Level /\ slot[2] \in 1 .. Size(buf, slot[1]) /\ slot = << slot[1], slot[2] >>
    BY SlotShape
  <2> HIDE DEF entry
  <2>3. r = Entry(buf, slot[1], slot[2])
    BY <2>1, <2>2, <1>2
  <2> QED
    BY <2>2, <2>3
<1>4. ASSUME NEW i \in Level, NEW k \in 1 .. Size(buf, i)
      PROVE  Entry(buf, i, k) \in Recorded(buf)
  <2> HIDE DEF entry
  <2> QED
    BY <1>1, <1>2
<1> QED
  BY <1>3, <1>4

\* Frames that stand for the same are the same to the history.
LEMMA SameEntry ==
  ASSUME SameSize, NEW buf, BufferOK(buf), NEW out, NEW p, NEW k, NEW q, NEW l,
         Same(out, p, k, buf, q, l)
  PROVE  Entry(out, p, k) = Entry(buf, q, l) /\ Entry(out, p, k) \in Recorded(buf)
<1>1. Entry(out, p, k) = Entry(buf, q, l)
  BY DEF Same, Entry
<1> QED
  BY <1>1, RecordedIs DEF Same

\* Among the levels that hold frames there is an oldest.
LEMMA OldestLevel ==
  ASSUME NEW buf, BufferOK(buf), NEW i \in Level, Size(buf, i) > 0
  PROVE  \E p \in Level : /\ Size(buf, p) > 0
                          /\ \A q \in Level : Size(buf, q) > 0 => q <= p
<1> DEFINE T == {q \in Level : Size(buf, q) > 0}
<1>1. T \in SUBSET (0 .. LevelCount) /\ LevelCount \in Nat
  BY LevelsAssumption DEF Level
<1>2. T # {}
  OBVIOUS
<1> HIDE DEF T
<1>3. PICK p \in T : \A q \in T : q <= p
  BY <1>1, <1>2, GreatestMember
<1> QED
  BY <1>3 DEF T

\* The last frame of the newest level is the newest of all, and the first one of
\* the oldest level the oldest.
LEMMA NewestEntry ==
  ASSUME SameSize, NEW buf, BufferOK(buf), Size(buf, 1) > 0, NEW r \in Recorded(buf)
  PROVE  r.label <= No(buf, 1, Size(buf, 1))
<1>1. PICK i \in Level : \E k \in 1 .. Size(buf, i) : r = Entry(buf, i, k)
  BY RecordedIs
<1>2. PICK k \in 1 .. Size(buf, i) : r = Entry(buf, i, k)
  BY <1>1
<1>3. 1 \in Level /\ Size(buf, 1) \in Nat /\ Size(buf, i) \in Nat /\ i \in Nat /\ i >= 1
  BY LevelsAssumption, BufferShape DEF Level
<1> DEFINE n == Size(buf, 1)
<1>4. n \in 1 .. Size(buf, 1)
  BY <1>3
<1>5. No(buf, i, k) \in Nat /\ No(buf, 1, n) \in Nat
  <2> HIDE DEF n
  <2> QED
    BY <1>3, <1>4, BufferShape
<1>6. r.label = No(buf, i, k)
  BY <1>2 DEF Entry
<1>7. Older(i, k, 1, n) \/ (i = 1 /\ k = n)
  BY <1>3 DEF Older
<1>8. Older(i, k, 1, n) => No(buf, i, k) < No(buf, 1, n)
  <2> HIDE DEF n
  <2> QED
    BY <1>3, <1>4 DEF BufferOK, LevelsOK, Ordered
<1> QED
  BY <1>5, <1>6, <1>7, <1>8

LEMMA OldestEntry ==
  ASSUME SameSize, NEW buf, BufferOK(buf), NEW p \in Level, Size(buf, p) > 0,
         \A q \in Level : Size(buf, q) > 0 => q <= p, NEW r \in Recorded(buf)
  PROVE  No(buf, p, 1) <= r.label
<1>1. PICK i \in Level : \E k \in 1 .. Size(buf, i) : r = Entry(buf, i, k)
  BY RecordedIs
<1>2. PICK k \in 1 .. Size(buf, i) : r = Entry(buf, i, k)
  BY <1>1
<1>3. Size(buf, p) \in Nat /\ Size(buf, i) \in Nat /\ i \in Nat /\ p \in Nat
  BY BufferShape DEF Level
<1>4. 1 \in 1 .. Size(buf, p) /\ i <= p /\ k \in Nat /\ k >= 1
  BY <1>3
<1>5. No(buf, i, k) \in Nat /\ No(buf, p, 1) \in Nat
  BY <1>4, BufferShape
<1>6. r.label = No(buf, i, k)
  BY <1>2 DEF Entry
<1>7. Older(p, 1, i, k) \/ (i = p /\ k = 1)
  BY <1>3, <1>4 DEF Older
<1>8. Older(p, 1, i, k) => No(buf, p, 1) < No(buf, i, k)
  BY <1>4 DEF BufferOK, LevelsOK, Ordered
<1> QED
  BY <1>5, <1>6, <1>7, <1>8

\* A step of trimming makes room: promotion thins, and keeps the oldest.
LEMMA PromotionThins ==
  ASSUME SameSize, NEW buf, BufferOK(buf), NEW out, BufferOK(out),
         NEW i \in Level, i + 1 \in Level, NEW n \in 0 .. Size(buf, i),
         Promotes(out, buf, i, n), Size(buf, i) > 0, Size(buf, 1) > 0,
         i = 1 => n < Size(buf, 1)
  PROVE  History!MakeRoom(Recorded(buf), Recorded(out))
<1>0. /\ 1 \in Level /\ \A j \in Level : j \in Nat /\ j >= 1 /\ Size(buf, j) \in Nat
      /\ \A j \in Level : Size(out, j) \in Nat
      /\ i # i + 1
  BY LevelsAssumption, BufferShape DEF Level
<1> DEFINE m == Size(buf, i + 1)
           h == (n + 1) \div 2
<1>1. /\ \A j \in Level : j # i /\ j # i + 1 => out.levels[j] = buf.levels[j]
      /\ Size(out, i) = Size(buf, i) - n
      /\ \A k \in 1 .. Size(out, i) : Same(out, i, k, buf, i, n + k)
      /\ Size(out, i + 1) = m + h
      /\ \A k \in 1 .. m : Same(out, i + 1, k, buf, i + 1, k)
      /\ \A j \in 1 .. h : Same(out, i + 1, m + j, buf, i, 2 * j - 1)
  BY DEF Promotes
<1>2. m \in Nat /\ h \in Nat /\ n \in Nat /\ (n > 0 => 1 \in 1 .. h)
  BY <1>0
<1> HIDE DEF m, h
<1>3. \A p \in Level : \A k \in 1 .. Size(out, p) : Entry(out, p, k) \in Recorded(buf)
  <2> SUFFICES ASSUME NEW p \in Level, NEW k \in 1 .. Size(out, p)
               PROVE  Entry(out, p, k) \in Recorded(buf)
    OBVIOUS
  <2>1. CASE p # i /\ p # i + 1
    <3>1. Same(out, p, k, buf, p, k)
      BY <2>1, <1>1 DEF Same, Size, No, State
    <3> QED
      BY <3>1, SameEntry
  <2>2. CASE p = i
    BY <2>2, <1>1, SameEntry
  <2>3. CASE p = i + 1 /\ k <= m
    <3>1. k \in 1 .. m
      BY <2>3, <1>0, <1>2
    <3>2. Same(out, p, k, buf, i + 1, k)
      BY <2>3, <3>1, <1>1
    <3> QED
      BY <3>2, SameEntry
  <2>4. CASE p = i + 1 /\ ~(k <= m)
    <3> DEFINE j == k - m
    <3>1. j \in 1 .. h /\ m + j = k
      BY <2>4, <1>1, <1>2
    <3> HIDE DEF j
    <3>2. Same(out, p, k, buf, i, 2 * j - 1)
      BY <2>4, <3>1, <1>1
    <3> QED
      BY <3>2, SameEntry
  <2> QED
    BY <2>1, <2>2, <2>3, <2>4
<1>4. Recorded(out) \subseteq Recorded(buf)
  BY <1>3, RecordedIs
<1>5. \E k \in Recorded(out) : \A r \in Recorded(buf) : r.label <= k.label
  <2> DEFINE z == Size(buf, 1)
             y == Size(out, 1)
  <2>1. y \in 1 .. Size(out, 1) /\ Same(out, 1, y, buf, 1, z)
    <3>1. CASE i = 1
      <4>1. y \in 1 .. Size(out, 1) /\ n + y = z
        BY <3>1, <1>0, <1>1, <1>2
      <4> HIDE DEF y, z
      <4> QED
        BY <3>1, <4>1, <1>1
    <3>2. CASE i # 1
      <4>1. out.levels[1] = buf.levels[1]
        BY <3>2, <1>0, <1>1
      <4>2. y = z /\ z \in 1 .. z
        BY <4>1, <1>0 DEF Size
      <4> QED
        BY <4>1, <4>2, <1>0 DEF Same, No, State
    <3> QED
      BY <3>1, <3>2
  <2>2. Entry(out, 1, y) \in Recorded(out) /\ Entry(out, 1, y) = Entry(buf, 1, z)
    <3> HIDE DEF y, z
    <3> QED
      BY <2>1, <1>0, RecordedIs, SameEntry
  <2>3. \A r \in Recorded(buf) : r.label <= No(buf, 1, z)
    BY NewestEntry
  <2>4. Entry(out, 1, y).label = No(buf, 1, z)
    BY <2>2 DEF Entry
  <2> QED
    BY <2>2, <2>3, <2>4
<1>6. \E k \in Recorded(out) : \A r \in Recorded(buf) : k.label <= r.label
  <2>1. PICK p \in Level : /\ Size(buf, p) > 0
                          /\ \A q \in Level : Size(buf, q) > 0 => q <= p
    BY OldestLevel
  <2>2. 1 \in 1 .. Size(buf, p) /\ i <= p
    BY <2>1, <1>0
  <2>3. \E q \in Level : \E l \in 1 .. Size(out, q) : Same(out, q, l, buf, p, 1)
    <3>1. CASE p # i /\ p # i + 1
      <4>1. out.levels[p] = buf.levels[p]
        BY <3>1, <1>1
      <4>2. 1 \in 1 .. Size(out, p) /\ Same(out, p, 1, buf, p, 1)
        BY <4>1, <2>2 DEF Same, Size, No, State
      <4> QED
        BY <4>2
    <3>2. CASE p = i + 1
      <4>1. 1 \in 1 .. m /\ 1 \in 1 .. Size(out, i + 1)
        BY <3>2, <2>2, <1>1, <1>2 DEF m
      <4> QED
        BY <3>2, <4>1, <1>1
    <3>3. CASE p = i /\ n = 0
      <4>1. 1 \in 1 .. Size(out, i) /\ n + 1 = 1
        BY <3>3, <2>2, <1>0, <1>1
      <4>2. Same(out, i, 1, buf, i, n + 1)
        BY <4>1, <1>1
      <4> QED
        BY <3>3, <4>1, <4>2
    <3>4. CASE p = i /\ n # 0
      <4>1. 1 \in 1 .. h /\ 2 * 1 - 1 = 1 /\ m + 1 \in 1 .. Size(out, i + 1)
        BY <3>4, <1>1, <1>2
      <4>2. Same(out, i + 1, m + 1, buf, i, 2 * 1 - 1)
        BY <4>1, <1>1
      <4> QED
        BY <3>4, <4>1, <4>2
    <3> QED
      BY <3>1, <3>2, <3>3, <3>4
  <2>4. PICK q \in Level : \E l \in 1 .. Size(out, q) : Same(out, q, l, buf, p, 1)
    BY <2>3
  <2>5. PICK l \in 1 .. Size(out, q) : Same(out, q, l, buf, p, 1)
    BY <2>4
  <2>6. Entry(out, q, l) \in Recorded(out) /\ Entry(out, q, l) = Entry(buf, p, 1)
    BY <2>5, RecordedIs, SameEntry
  <2>7. Entry(out, q, l).label = No(buf, p, 1)
    BY <2>6 DEF Entry
  <2>8. \A r \in Recorded(buf) : No(buf, p, 1) <= r.label
    BY <2>1, OldestEntry
  <2> QED
    BY <2>6, <2>7, <2>8
<1> QED
  BY <1>4, <1>5, <1>6
     DEF History!MakeRoom, History!KeepsNewest, History!Thins

\* Dropping loses the oldest only.
LEMMA DroppingLosesOldest ==
  ASSUME SameSize, NEW buf, BufferOK(buf), NEW out, BufferOK(out),
         NEW n \in 0 .. Size(buf, LevelCount), Drops(out, buf, LevelCount, n),
         Size(buf, 1) > 0, LevelCount = 1 => n < Size(buf, 1)
  PROVE  History!MakeRoom(Recorded(buf), Recorded(out))
<1> DEFINE i == LevelCount
<1>0. /\ i \in Level /\ 1 \in Level
      /\ \A j \in Level : j \in Nat /\ j >= 1 /\ j <= i /\ Size(buf, j) \in Nat
      /\ \A j \in Level : Size(out, j) \in Nat
  BY LevelsAssumption, BufferShape DEF Level
<1>1. /\ \A j \in Level : j # i => out.levels[j] = buf.levels[j]
      /\ Size(out, i) = Size(buf, i) - n
      /\ \A k \in 1 .. Size(out, i) : Same(out, i, k, buf, i, n + k)
  BY DEF Drops
<1>2. n \in 0 .. Size(buf, i) /\ n \in Nat /\ (i = 1 => n < Size(buf, 1))
  BY <1>0
<1> HIDE DEF i
<1>3. ASSUME NEW p \in Level, NEW k \in 1 .. Size(out, p)
      PROVE  \E l : Same(out, p, k, buf, p, l) /\ (p = i => l > n)
  <2>1. CASE p # i
    <3>1. Same(out, p, k, buf, p, k)
      BY <2>1, <1>1 DEF Same, Size, No, State
    <3> QED
      BY <2>1, <3>1
  <2>2. CASE p = i
    <3>1. n + k > n
      BY <1>0, <1>2
    <3> QED
      BY <2>2, <3>1, <1>1
  <2> QED
    BY <2>1, <2>2
<1>4. Recorded(out) \subseteq Recorded(buf)
  BY <1>3, RecordedIs, SameEntry
<1>5. \E k \in Recorded(out) : \A r \in Recorded(buf) : r.label <= k.label
  <2> DEFINE z == Size(buf, 1)
             y == Size(out, 1)
  <2>1. y \in 1 .. Size(out, 1) /\ Same(out, 1, y, buf, 1, z)
    <3>1. CASE i = 1
      <4>1. y \in 1 .. Size(out, 1) /\ n + y = z
        BY <3>1, <1>0, <1>1, <1>2
      <4> HIDE DEF y, z
      <4> QED
        BY <3>1, <4>1, <1>1
    <3>2. CASE i # 1
      <4>1. out.levels[1] = buf.levels[1]
        BY <3>2, <1>0, <1>1
      <4>2. y = z /\ z \in 1 .. z
        BY <4>1, <1>0 DEF Size
      <4> QED
        BY <4>1, <4>2, <1>0 DEF Same, No, State
    <3> QED
      BY <3>1, <3>2
  <2>2. Entry(out, 1, y) \in Recorded(out) /\ Entry(out, 1, y) = Entry(buf, 1, z)
    <3> HIDE DEF y, z
    <3> QED
      BY <2>1, <1>0, RecordedIs, SameEntry
  <2>3. \A r \in Recorded(buf) : r.label <= No(buf, 1, z)
    BY NewestEntry
  <2>4. Entry(out, 1, y).label = No(buf, 1, z)
    BY <2>2 DEF Entry
  <2> QED
    BY <2>2, <2>3, <2>4
<1>6. ASSUME NEW k \in Recorded(out), NEW r \in Recorded(buf), r.label >= k.label
      PROVE  r \in Recorded(out)
  <2>1. PICK q \in Level : \E l \in 1 .. Size(buf, q) : r = Entry(buf, q, l)
    BY RecordedIs
  <2>2. PICK l \in 1 .. Size(buf, q) : r = Entry(buf, q, l)
    BY <2>1
  <2>3. CASE q # i
    <3>1. out.levels[q] = buf.levels[q]
      BY <2>3, <1>1
    <3>2. l \in 1 .. Size(out, q) /\ Entry(out, q, l) = r
      BY <3>1, <2>2 DEF Size, Entry, No, State
    <3> QED
      BY <3>2, RecordedIs
  <2>4. CASE q = i /\ l > n
    <3> DEFINE x == l - n
    <3>1. x \in 1 .. Size(out, i) /\ n + x = l
      BY <2>2, <2>4, <1>0, <1>1, <1>2
    <3> HIDE DEF x
    <3>2. Same(out, q, x, buf, q, l)
      BY <3>1, <2>4, <1>1
    <3>3. Entry(out, q, x) = r
      BY <3>2, <2>2 DEF Same, Entry
    <3> QED
      BY <3>1, <3>3, <2>4, RecordedIs
  <2>5. CASE q = i /\ ~(l > n)
    <3>1. PICK p \in Level : \E k1 \in 1 .. Size(out, p) : k = Entry(out, p, k1)
      BY RecordedIs
    <3>2. PICK k1 \in 1 .. Size(out, p) : k = Entry(out, p, k1)
      BY <3>1
    <3>3. PICK l1 : Same(out, p, k1, buf, p, l1) /\ (p = i => l1 > n)
      BY <1>3
    <3>4. l1 \in 1 .. Size(buf, p) /\ k.label = No(buf, p, l1) /\ r.label = No(buf, q, l)
      BY <2>2, <3>2, <3>3 DEF Same, Entry
    <3>5. Older(q, l, p, l1)
      BY <2>5, <3>3, <3>4, <1>0, <1>2 DEF Older
    <3>6. No(buf, q, l) < No(buf, p, l1)
      BY <3>4, <3>5 DEF BufferOK, LevelsOK, Ordered
    <3>7. No(buf, q, l) \in Nat /\ No(buf, p, l1) \in Nat
      BY <3>4, BufferShape
    <3> QED
      BY <3>4, <3>6, <3>7, <1>6
  <2> QED
    BY <2>3, <2>4, <2>5
<1> QED
  BY <1>4, <1>5, <1>6
     DEF History!MakeRoom, History!KeepsNewest, History!DropsOldest

\* A capture records a state.
LEMMA CaptureRecords ==
  ASSUME SameSize, NEW buf, BufferOK(buf), NEW s \in States, NEW no \in Nat,
         NEW mid, mid = WithLevel(buf, 1, AppendStates(buf.levels[1], << Item(s, no, s) >>)),
         NEW out, BufferOK(out), out.levels = mid.levels
  PROVE  /\ Recorded(out) = Recorded(buf) \cup {[label |-> no, state |-> s]}
         /\ Size(out, 1) > 0
<1> DEFINE l1  == buf.levels[1]
           lvl == AppendStates(l1, << Item(s, no, s) >>)
           n   == Size(buf, 1)
<1>0. 1 \in Level /\ LevelOK(l1) /\ n \in Nat /\ n = Len(l1.frames) /\ buf \in BufferType
  <2>1. 1 \in Level
    BY LevelsAssumption DEF Level
  <2> QED
    BY <2>1, BufferShape DEF BufferOK, LevelsOK, Size
<1>1. /\ LevelOK(lvl)
      /\ Len(lvl.frames) = n + 1
      /\ \A k \in 1 .. n : lvl.frames[k] = l1.frames[k]
      /\ lvl.frames[n + 1].frame_no = no
      /\ lvl.frames[n + 1].captured = s
  <2> DEFINE o == lvl
  <2>1. o = AppendStates(l1, << Item(s, no, s) >>)
    OBVIOUS
  <2> HIDE DEF o, l1
  <2>2. LevelOK(o)
    BY <1>0, <2>1, AppendOne
  <2>3. Len(o.frames) = Len(l1.frames) + 1
    BY <1>0, <2>1, AppendOne
  <2>4. \A k \in 1 .. Len(l1.frames) : o.frames[k] = l1.frames[k]
    BY <1>0, <2>1, AppendOne
  <2>5. o.frames[Len(l1.frames) + 1].frame_no = no /\ o.frames[Len(l1.frames) + 1].captured = s
    BY <1>0, <2>1, AppendOne
  <2> QED
    BY <2>2, <2>3, <2>4, <2>5, <1>0 DEF o
<1>2. mid = WithLevel(buf, 1, lvl)
  OBVIOUS
<1> HIDE DEF lvl, n
<1>3. \A j \in Level : out.levels[j] = IF j = 1 THEN lvl ELSE buf.levels[j]
  <2>1. lvl \in LevelType
    BY <1>1 DEF LevelOK
  <2> QED
    BY <2>1, <1>0, <1>2, WithLevelIs
<1>4. Size(out, 1) = n + 1 /\ \A j \in Level : j # 1 => Size(out, j) = Size(buf, j)
  BY <1>0, <1>1, <1>3 DEF Size
<1>5. \A j \in Level : \A k \in 1 .. Size(buf, j) :
        k \in 1 .. Size(out, j) /\ Entry(out, j, k) = Entry(buf, j, k)
  <2> SUFFICES ASSUME NEW j \in Level, NEW k \in 1 .. Size(buf, j)
               PROVE  k \in 1 .. Size(out, j) /\ Entry(out, j, k) = Entry(buf, j, k)
    OBVIOUS
  <2>1. CASE j = 1
    <3>1. k \in 1 .. n /\ k \in 1 .. n + 1
      BY <2>1, <1>0 DEF n
    <3> QED
      BY <2>1, <3>1, <1>1, <1>3, <1>4 DEF Entry, No, State
  <2>2. CASE j # 1
    BY <2>2, <1>3, <1>4 DEF Entry, No, State
  <2> QED
    BY <2>1, <2>2
<1>6. n + 1 \in 1 .. Size(out, 1) /\ Entry(out, 1, n + 1) = [label |-> no, state |-> s]
  <2>1. Entry(out, 1, n + 1) = [label |-> no, state |-> s]
    BY <1>0, <1>1, <1>3 DEF Entry, No, State
  <2> QED
    BY <2>1, <1>0, <1>4
<1>7. ASSUME NEW r \in Recorded(out)
      PROVE  r \in Recorded(buf) \cup {[label |-> no, state |-> s]}
  <2>1. PICK i \in Level : \E k \in 1 .. Size(out, i) : r = Entry(out, i, k)
    BY RecordedIs
  <2>2. PICK k \in 1 .. Size(out, i) : r = Entry(out, i, k)
    BY <2>1
  <2>3. CASE i = 1 /\ k = n + 1
    BY <2>2, <2>3, <1>6
  <2>4. CASE ~(i = 1 /\ k = n + 1)
    <3>1. k \in 1 .. Size(buf, i)
      BY <2>2, <2>4, <1>0, <1>4 DEF n
    <3> QED
      BY <2>2, <3>1, <1>5, RecordedIs
  <2> QED
    BY <2>3, <2>4
<1>8. Recorded(buf) \subseteq Recorded(out)
  BY <1>5, RecordedIs
<1>9. [label |-> no, state |-> s] \in Recorded(out)
  BY <1>0, <1>6, RecordedIs
<1> QED
  BY <1>0, <1>4, <1>7, <1>8, <1>9

\* What KeptUpTo keeps is the longest such prefix.
LEMMA KeptIsLongest ==
  ASSUME NEW frames \in Seq(Frame), NEW no \in Nat, NEW k \in 1 .. Len(frames),
         \A j \in 1 .. k : frames[j].frame_no <= no
  PROVE  k <= Len(KeptUpTo(frames, no))
<1> DEFINE T == {l \in 1 .. Len(frames) : \A j \in 1 .. l : frames[j].frame_no <= no}
           n == Cardinality(T)
<1>0. Len(frames) \in Nat
  OBVIOUS
<1>1. T \in SUBSET (1 .. Len(frames)) /\ 1 .. k \subseteq T
  BY <1>0
<1>2. IsFiniteSet(T) /\ n \in 0 .. Len(frames)
  <2>1. IsFiniteSet(1 .. Len(frames))
    <3> DEFINE l == Len(frames)
    <3>1. l \in Int /\ 1 \in Int
      BY <1>0
    <3> HIDE DEF l
    <3>2. IsFiniteSet(1 .. l)
      BY <3>1, FS_Interval
    <3> QED
      BY <3>2 DEF l
  <2> HIDE DEF T
  <2> QED
    BY <2>1, <1>0, <1>1, FS_Subset, PrefixCount
<1>3. k <= n
  <2>1. Cardinality(1 .. k) = k
    <3>1. k \in Int /\ 1 <= k
      BY <1>0
    <3>2. Cardinality(1 .. k) = k - 1 + 1
      BY <3>1, FS_Interval
    <3> QED
      BY <3>1, <3>2
  <2>2. Cardinality(1 .. k) <= n
    <3> HIDE DEF T
    <3> QED
      BY <1>1, <1>2, FS_Subset
  <2> QED
    BY <2>1, <2>2
<1>4. KeptUpTo(frames, no) = SubSeq(frames, 1, n)
  BY DEF KeptUpTo
<1> HIDE DEF T, n
<1>5. Len(SubSeq(frames, 1, n)) = n
  <2>1. \A l \in 1 .. n : frames[l] \in Frame
    BY <1>0, <1>2, ElementOfSeq
  <2>2. Len(SubSeq(frames, 1, n)) = IF 1 <= n THEN n - 1 + 1 ELSE 0
    BY <2>1, <1>2, SubSeqProperties
  <2> QED
    BY <2>2, <1>2
<1> QED
  BY <1>3, <1>4, <1>5

\* Going back to a stored label cuts off what is newer, and nothing else.
LEMMA TrimmingCuts ==
  ASSUME SameSize, NEW buf, BufferOK(buf), NEW no \in Nat, HasFrameNo(buf, no), NEW out,
         out = TrimmedAfter(buf, no)
  PROVE  /\ Recorded(out) = {r \in Recorded(buf) : r.label <= no}
         /\ out.currentFrameNo = no
         /\ no \in {r.label : r \in Recorded(buf)}
<1> DEFINE left  == CutBuffer(buf, no)
           cut   == [i \in Level |-> CutLevel(buf.levels[i], no)]
           exact == RestoredState(left, no)
<1>1. out = IF CanRefresh(cut) /\ exact # NoState THEN WithPrev(left, exact, no) ELSE left
  BY DEF TrimmedAfter, WithPrev, CutBuffer, CutLevels
<1>2. left = CutBuffer(buf, no)
  OBVIOUS
<1> HIDE DEF left
<1>3. BufferOK(left)
  BY <1>2, CutBufferOK
<1>4. EachCut(left, buf, no)
  BY <1>2, CutBufferOK
<1>5. \A i \in Level :
        /\ Size(left, i) \in 0 .. Size(buf, i) /\ Size(buf, i) \in Nat
        /\ \A k \in 1 .. Size(left, i) :
             /\ left.levels[i].frames[k] = buf.levels[i].frames[k]
             /\ No(left, i, k) <= no
  <2>1. \A i \in Level : Size(left, i) \in 0 .. Size(buf, i) /\ Size(buf, i) \in Nat
    BY <1>2, CutBufferOK
  <2>2. \A i \in Level : \A k \in 1 .. Size(left, i) :
          left.levels[i].frames[k] = buf.levels[i].frames[k]
    <3> TAKE i \in Level
    <3> DEFINE frames == buf.levels[i].frames
               kept   == left.levels[i].frames
    <3>1. frames \in Seq(Frame) /\ kept = KeptUpTo(frames, no)
      BY <1>4, BufferShape DEF EachCut
    <3> HIDE DEF frames, kept
    <3>2. \A k \in 1 .. Len(kept) : kept[k] = frames[k]
      BY <3>1, KeptIsPrefix
    <3> QED
      BY <3>2 DEF frames, kept, Size
  <2>3. \A i \in Level : \A k \in 1 .. Size(left, i) : No(left, i, k) <= no
    BY <1>2, CutBufferOK
  <2> QED
    BY <2>1, <2>2, <2>3
<1>6. \A i \in Level : \A k \in 1 .. Size(left, i) :
        k \in 1 .. Size(buf, i) /\ Entry(left, i, k) = Entry(buf, i, k) /\ No(buf, i, k) <= no
  BY <1>5 DEF Entry, No, State
<1>7. ASSUME NEW i \in Level, NEW k \in 1 .. Size(buf, i), No(buf, i, k) <= no
      PROVE  k \in 1 .. Size(left, i)
  <2> DEFINE frames == buf.levels[i].frames
  <2>1. frames \in Seq(Frame) /\ Size(buf, i) \in Nat
    BY BufferShape
  <2>2. \A j \in 1 .. k : No(buf, i, j) <= no
    <3> TAKE j \in 1 .. k
    <3>1. j \in 1 .. Size(buf, i) /\ (j = k \/ j < k)
      BY <2>1
    <3>2. j < k => No(buf, i, j) < No(buf, i, k)
      BY <3>1 DEF BufferOK, LevelsOK, Ordered, Older
    <3>3. No(buf, i, j) \in Nat /\ No(buf, i, k) \in Nat
      BY <3>1, BufferShape
    <3> QED
      BY <3>1, <3>2, <3>3, <1>7
  <2>3. k \in 1 .. Len(frames) /\ \A j \in 1 .. k : frames[j].frame_no <= no
    BY <2>2 DEF No, Size
  <2> HIDE DEF frames
  <2>4. k <= Len(KeptUpTo(frames, no))
    BY <2>1, <2>3, KeptIsLongest
  <2>5. Len(KeptUpTo(frames, no)) = Size(left, i)
    BY <1>4 DEF EachCut, Size, frames
  <2> QED
    BY <2>1, <2>4, <2>5, <1>5
<1>8. \E i \in Level : \E k \in 1 .. Size(buf, i) : No(buf, i, k) = no
  <2>1. PICK slot \in Slots(buf) : FrameAt(buf, slot).frame_no = no
    BY DEF HasFrameNo
  <2> QED
    BY <2>1, SlotShape
<1>9. no \in {r.label : r \in Recorded(buf)}
  <2>1. PICK i \in Level : \E k \in 1 .. Size(buf, i) : No(buf, i, k) = no
    BY <1>8
  <2>2. PICK k \in 1 .. Size(buf, i) : No(buf, i, k) = no
    BY <2>1
  <2>3. Entry(buf, i, k) \in Recorded(buf) /\ Entry(buf, i, k).label = no
    BY <2>2, RecordedIs DEF Entry
  <2> QED
    BY <2>3
<1>10. Recorded(left) = {r \in Recorded(buf) : r.label <= no}
  <2>1. ASSUME NEW r \in Recorded(left)
        PROVE  r \in Recorded(buf) /\ r.label <= no
    <3>1. PICK i \in Level : \E k \in 1 .. Size(left, i) : r = Entry(left, i, k)
      BY <1>3, RecordedIs
    <3>2. PICK k \in 1 .. Size(left, i) : r = Entry(left, i, k)
      BY <3>1
    <3>3. k \in 1 .. Size(buf, i) /\ r = Entry(buf, i, k) /\ No(buf, i, k) <= no
      BY <3>2, <1>6
    <3>4. r.label = No(buf, i, k)
      BY <3>3 DEF Entry
    <3> QED
      BY <3>3, <3>4, RecordedIs
  <2>2. ASSUME NEW r \in Recorded(buf), r.label <= no
        PROVE  r \in Recorded(left)
    <3>1. PICK i \in Level : \E k \in 1 .. Size(buf, i) : r = Entry(buf, i, k)
      BY RecordedIs
    <3>2. PICK k \in 1 .. Size(buf, i) : r = Entry(buf, i, k)
      BY <3>1
    <3>3. No(buf, i, k) <= no
      BY <3>2, <2>2 DEF Entry
    <3>4. k \in 1 .. Size(left, i)
      BY <3>3, <1>7
    <3>5. r = Entry(left, i, k)
      BY <3>2, <3>4, <1>6
    <3> QED
      BY <3>4, <3>5, <1>3, RecordedIs
  <2> QED
    BY <2>1, <2>2
<1>11. HasFrameNo(left, no)
  <2>1. PICK i \in Level : \E k \in 1 .. Size(buf, i) : No(buf, i, k) = no
    BY <1>8
  <2>2. PICK k \in 1 .. Size(buf, i) : No(buf, i, k) = no
    BY <2>1
  <2>3. k \in 1 .. Size(left, i)
    BY <2>2, <1>7
  <2>4. << i, k >> \in Slots(left)
    BY <2>3 DEF Slots, Size
  <2>5. left.levels[i].frames[k].frame_no = no
    BY <2>2, <2>3, <1>5 DEF No
  <2>6. FrameAt(left, << i, k >>).frame_no = no
    BY <2>5 DEF FrameAt
  <2> QED
    BY <2>4, <2>6 DEF HasFrameNo
<1>12. exact \in States
  BY <1>3, <1>11, RestoreExact
<1>13. \A s \in States : s # NoState
  BY StateShape DEF NoState
<1>14. CanRefresh(cut)
  <2> SUFFICES ASSUME NEW i \in Level, cut[i].frames # << >>
               PROVE  Last(cut[i]) # NoState
    BY DEF CanRefresh
  <2> DEFINE frames == cut[i].frames
  <2>1. frames = left.levels[i].frames
    BY <1>4 DEF EachCut, CutLevel
  <2>2. Chain(frames)
    BY <2>1, <1>3 DEF BufferOK, LevelsOK, LevelOK
  <2>3. Last(cut[i]) = Reconstruct(frames, Len(frames))
    BY DEF Last
  <2> HIDE DEF frames
  <2>4. Len(frames) \in 1 .. Len(frames)
    <3>1. frames \in Seq(Frame) /\ frames # << >>
      BY <2>2 DEF Chain, frames
    <3> QED
      BY <3>1
  <2>5. Reconstruct(frames, Len(frames)) \in States
    BY <2>2, <2>4, ReconstructExact
  <2> QED
    BY <2>3, <2>5, <1>13
<1> HIDE DEF cut, exact
<1>15. out = WithPrev(left, exact, no)
  BY <1>1, <1>12, <1>13, <1>14
<1>16. /\ out.currentFrameNo = no
       /\ BufferOK(out)
       /\ \A i \in Level : out.levels[i].frames = left.levels[i].frames
  <2>1. left \in BufferType
    BY <1>3 DEF BufferOK, LevelsOK
  <2>2. out.currentFrameNo = no
    BY <2>1, <1>12, <1>15, PrevSet
  <2>3. \A i \in Level : out.levels[i].frames = left.levels[i].frames
    BY <2>1, <1>12, <1>15, PrevSet
  <2>4. BufferOK(out)
    BY TrimmedOK
  <2> QED
    BY <2>2, <2>3, <2>4
<1>17. Recorded(out) = Recorded(left)
  <2>1. \A i \in Level : Size(out, i) = Size(left, i)
    BY <1>16 DEF Size
  <2>2. \A i \in Level : \A k \in 1 .. Size(left, i) : Entry(out, i, k) = Entry(left, i, k)
    BY <1>16 DEF Entry, No, State
  <2>3. Recorded(out) \subseteq Recorded(left)
    BY <2>1, <2>2, <1>3, <1>16, RecordedIs
  <2>4. Recorded(left) \subseteq Recorded(out)
    BY <2>1, <2>2, <1>3, <1>16, RecordedIs
  <2> QED
    BY <2>3, <2>4
<1> QED
  BY <1>9, <1>10, <1>16, <1>17

-----------------------------------------------------------------------------
(* Refinement *)

\* A buffer is the record of its fields, and replacing levels keeps the others.
IsBuffer(buf) ==
  buf = [levels |-> buf.levels, totalBytes |-> buf.totalBytes, paused |-> buf.paused,
         rollingPaused |-> buf.rollingPaused, currentFrameNo |-> buf.currentFrameNo]

LEMMA WithLevelKeeps ==
  ASSUME NEW buf, IsBuffer(buf), NEW i, NEW lvl, NEW out, out = WithLevel(buf, i, lvl)
  PROVE  IsBuffer(out) /\ out.currentFrameNo = buf.currentFrameNo
<1> DEFINE t  == buf.totalBytes + lvl.totalBytes - buf.levels[i].totalBytes
           ls == [buf.levels EXCEPT ![i] = lvl]
<1>1. out = [buf EXCEPT !.levels = ls, !.totalBytes = t]
  BY DEF WithLevel, IsBuffer
<1> HIDE DEF t, ls
<1>2. out = [levels |-> ls, totalBytes |-> t, paused |-> buf.paused,
             rollingPaused |-> buf.rollingPaused, currentFrameNo |-> buf.currentFrameNo]
  BY <1>1 DEF IsBuffer
<1> QED
  BY <1>2 DEF IsBuffer

LEMMA TrimKeepsPosition ==
  ASSUME NEW buf \in BufferType, NEW i
  PROVE  /\ Promoted(buf, i).currentFrameNo = buf.currentFrameNo
         /\ DroppedOldest(buf, i).currentFrameNo = buf.currentFrameNo
<1>0. IsBuffer(buf)
  BY DEF IsBuffer, BufferType
<1>1. \A l1, l2, j : WithLevel(WithLevel(buf, i, l1), j, l2).currentFrameNo = buf.currentFrameNo
  <2> TAKE l1, l2, j
  <2> DEFINE mid == WithLevel(buf, i, l1)
  <2>1. IsBuffer(mid) /\ mid.currentFrameNo = buf.currentFrameNo
    BY <1>0, WithLevelKeeps
  <2> HIDE DEF mid
  <2>2. WithLevel(mid, j, l2).currentFrameNo = mid.currentFrameNo
    BY <2>1, WithLevelKeeps
  <2> QED
    BY <2>1, <2>2 DEF mid
<1>2. \A l : WithLevel(buf, i, l).currentFrameNo = buf.currentFrameNo
  BY <1>0, WithLevelKeeps
<1> QED
  BY <1>1, <1>2 DEF Promoted, DroppedOldest

\* While a trim is under way the newest level holds the state just captured.
RoomInv == CountedInv /\ (trimAt # 0 => Size(current, 1) > 0)

HistoryVars == << HistoryOf(current), HistoryOf(save) >>

\* What changes no label and no state changes no history.
LEMMA SameHistory ==
  ASSUME NEW buf, NEW out, out.levels = buf.levels
  PROVE  Recorded(out) = Recorded(buf)
BY DEF Recorded, HistoryOf, Slots, FrameAt

LEMMA HistoryIs ==
  ASSUME NEW buf
  PROVE  HistoryOf(buf) = [recorded |-> Recorded(buf), position |-> buf.currentFrameNo]
BY DEF Recorded, HistoryOf

LEMMA EmptyHistory == Recorded(EmptyBuffer) = {}
<1>1. \A i \in Level : EmptyBuffer.levels[i].frames = << >>
  BY DEF EmptyBuffer, EmptyLevel
<1>2. Slots(EmptyBuffer) = {}
  <2>1. \A i \in Level : 1 .. Len(EmptyBuffer.levels[i].frames) = {}
    BY <1>1
  <2> QED
    BY <2>1 DEF Slots
<1> QED
  BY <1>2 DEF Recorded, HistoryOf

\* Each step of trimming makes room in the history, or goes on.
LEMMA TrimForgets ==
  ASSUME SameSize, RoomForTwo, RoomInv, Trim
  PROVE  /\ [History!Forget]_HistoryVars
         /\ trimAt' # 0 => Size(current', 1) > 0
<1>0. /\ BufferOK(current) /\ BytesOK(current) /\ trimAt \in 0 .. LevelCount
      /\ current \in BufferType /\ LevelCount \in Nat /\ LevelCount >= 1
      /\ BufferOK(current')
      /\ 1 \in Level /\ Size(current, 1) \in Nat
  <2>1. BufferOK(current) /\ BytesOK(current) /\ trimAt \in 0 .. LevelCount
    BY DEF RoomInv, CountedInv, IInv
  <2>2. LevelCount \in Nat /\ LevelCount >= 1 /\ 1 \in Level
    BY LevelsAssumption DEF Level
  <2>3. IInv'
    BY TrimStepOK DEF RoomInv, CountedInv
  <2> QED
    BY <2>1, <2>2, <2>3, BufferShape DEF IInv, BufferOK, LevelsOK
<1> DEFINE Goal == /\ [History!Forget]_HistoryVars
                   /\ trimAt' # 0 => Size(current', 1) > 0
<1>1. ASSUME current'.currentFrameNo = current.currentFrameNo, save' = save,
             History!MakeRoom(Recorded(current), Recorded(current'))
      PROVE  History!Forget
  <2>1. /\ HistoryOf(current) = [recorded |-> Recorded(current),
                                 position |-> current.currentFrameNo]
        /\ HistoryOf(current') = [recorded |-> Recorded(current'),
                                  position |-> current'.currentFrameNo]
    BY HistoryIs
  <2> QED
    BY <2>1, <1>1 DEF History!Forget
<1>2. CASE TrimPromote
  <2>1. /\ trimAt \in 1 .. LevelCount - 1 /\ OverBudget(trimAt)
        /\ current' = Promoted(current, trimAt) /\ save' = save /\ trimAt' = trimAt
    BY <1>2 DEF TrimPromote
  <2> DEFINE i == trimAt
             n == PromoteCount(current, i)
  <2>2. i \in Level /\ i + 1 \in Level /\ trimAt # 0 /\ i + 1 # 1
    BY <2>1, <1>0 DEF Level
  <2>3. current.levels[i].frames # << >> /\ current.levels[i].totalBytes > Budget(i)
    BY <2>1 DEF OverBudget
  <2>4. Size(current, i) > 0 /\ Size(current, 1) > 0
    <3>1. current.levels[i].frames \in Seq(Frame)
      BY <2>2, <1>0, BufferShape
    <3> QED
      BY <2>2, <2>3, <3>1 DEF Size, RoomInv
  <2>5. n \in 0 .. Size(current, i)
    BY <2>2, <1>0, PromoteCountIs
  <2>6. i = 1 => n < Size(current, 1)
    BY <2>3, <1>0, NewestNotPromoted
  <2>7. Promotes(current', current, i, n)
    BY <2>1, <2>2, <2>3, <1>0, PromotedMoves
  <2> HIDE DEF n
  <2>8. History!MakeRoom(Recorded(current), Recorded(current'))
    <3> DEFINE buf == current
               out == current'
               j   == trimAt
    <3>1. /\ BufferOK(buf) /\ BufferOK(out) /\ j \in Level /\ j + 1 \in Level
          /\ n \in 0 .. Size(buf, j) /\ Promotes(out, buf, j, n) /\ Size(buf, j) > 0
          /\ Size(buf, 1) > 0 /\ (j = 1 => n < Size(buf, 1))
      BY <1>0, <2>2, <2>4, <2>5, <2>6, <2>7
    <3> HIDE DEF buf, out, j
    <3>2. History!MakeRoom(Recorded(buf), Recorded(out))
      BY <3>1, PromotionThins
    <3> QED
      BY <3>2 DEF buf, out
  <2>9. Size(current', 1) > 0
    <3>1. CASE i = 1
      BY <3>1, <2>5, <2>6, <2>7, <1>0 DEF Promotes
    <3>2. CASE i # 1
      BY <3>2, <2>2, <2>4, <2>7, <1>0 DEF Promotes, Size
    <3> QED
      BY <3>1, <3>2
  <2>10. current'.currentFrameNo = current.currentFrameNo
    BY <2>1, <1>0, TrimKeepsPosition
  <2> QED
    BY <2>1, <2>8, <2>9, <2>10, <1>1
<1>3. CASE TrimDrop
  <2>1. /\ trimAt = LevelCount /\ OverBudget(LevelCount)
        /\ current' = DroppedOldest(current, LevelCount) /\ save' = save /\ trimAt' = trimAt
    BY <1>3 DEF TrimDrop
  <2> DEFINE i == LevelCount
  <2>2. i \in Level /\ trimAt # 0
    BY <2>1, <1>0 DEF Level
  <2>3. current.levels[i].frames # << >> /\ current.levels[i].totalBytes > Budget(i)
    BY <2>1 DEF OverBudget
  <2>4. Size(current, 1) > 0
    BY <2>2 DEF RoomInv
  <2>5. PICK n \in 0 .. Size(current, i) :
          /\ Drops(current', current, i, n)
          /\ n = 0 \/ n = FramesToFree(current.levels[i].frames,
                                      current.levels[i].totalBytes - Budget(i))
    BY <2>1, <2>2, <1>0, DroppedMoves
  <2>6. LevelCount = 1 => n < Size(current, 1)
    BY <2>3, <2>4, <2>5, <1>0, NewestStays
  <2>7. History!MakeRoom(Recorded(current), Recorded(current'))
    <3> DEFINE buf == current
               out == current'
    <3>1. /\ BufferOK(buf) /\ BufferOK(out) /\ n \in 0 .. Size(buf, LevelCount)
          /\ Drops(out, buf, LevelCount, n) /\ Size(buf, 1) > 0
          /\ (LevelCount = 1 => n < Size(buf, 1))
      BY <1>0, <2>4, <2>5, <2>6
    <3> HIDE DEF buf, out
    <3>2. History!MakeRoom(Recorded(buf), Recorded(out))
      BY <3>1, DroppingLosesOldest
    <3> QED
      BY <3>2 DEF buf, out
  <2>8. Size(current', 1) > 0
    <3>1. CASE i = 1
      BY <3>1, <2>5, <2>6, <1>0 DEF Drops
    <3>2. CASE i # 1
      BY <3>2, <2>4, <2>5, <1>0 DEF Drops, Size
    <3> QED
      BY <3>1, <3>2
  <2>9. current'.currentFrameNo = current.currentFrameNo
    BY <2>1, <1>0, TrimKeepsPosition
  <2> QED
    BY <2>1, <2>7, <2>8, <2>9, <1>1
<1>4. CASE TrimNextLevel
  <2>1. current' = current /\ save' = save /\ trimAt # 0
    BY <1>4 DEF TrimNextLevel, Level
  <2>2. Size(current', 1) > 0
    BY <2>1 DEF RoomInv
  <2> QED
    BY <2>1, <2>2 DEF HistoryVars
<1> QED
  BY <1>2, <1>3, <1>4 DEF Trim

\* Recording, and going back to record on from there.
LEMMA RecordingSteps ==
  ASSUME SameSize, RoomInv, CountedInv',
         (\E s \in States : CaptureNext(s)) \/ (\E no \in StoredNos : TrimAfterFrameNo(no))
  PROVE  /\ [History!HistoryNext]_HistoryVars
         /\ trimAt' # 0 => Size(current', 1) > 0
<1>0. BufferOK(current) /\ current \in BufferType /\ BufferOK(current')
  BY DEF RoomInv, CountedInv, IInv, BufferOK, LevelsOK
<1>1. /\ HistoryOf(current) = [recorded |-> Recorded(current),
                               position |-> current.currentFrameNo]
      /\ HistoryOf(current') = [recorded |-> Recorded(current'),
                                position |-> current'.currentFrameNo]
  BY HistoryIs
<1>2. ASSUME NEW s \in States, CaptureNext(s)
      PROVE  History!Record(s) /\ Size(current', 1) > 0
  <2> DEFINE no  == current.currentFrameNo + 1
             mid == WithLevel(current, 1, AppendStates(current.levels[1], << Item(s, no, s) >>))
  <2>1. /\ \A slot \in Slots(current) : FrameAt(current, slot).frame_no < no
        /\ current' = [mid EXCEPT !.currentFrameNo = no] /\ save' = save
    BY <1>2 DEF CaptureNext, Capture
  <2>2. no \in Nat
    BY <1>0 DEF BufferType
  <2>3. \A r \in Recorded(current) : r.label < no
    BY <2>1 DEF Recorded, HistoryOf
  <2>4. current'.levels = mid.levels /\ current'.currentFrameNo = no
    BY <2>1, <1>0 DEF WithLevel, BufferType
  <2>5. /\ Recorded(current') = Recorded(current) \cup {[label |-> no, state |-> s]}
        /\ Size(current', 1) > 0
    <3> DEFINE buf == current
               out == current'
               new == no
    <3>1. /\ BufferOK(buf) /\ BufferOK(out) /\ new \in Nat /\ out.levels = mid.levels
          /\ mid = WithLevel(buf, 1, AppendStates(buf.levels[1], << Item(s, new, s) >>))
      BY <1>0, <2>2, <2>4
    <3> HIDE DEF buf, out, mid, new
    <3>2. /\ Recorded(out) = Recorded(buf) \cup {[label |-> new, state |-> s]}
          /\ Size(out, 1) > 0
      BY <3>1, CaptureRecords
    <3> QED
      BY <3>2 DEF buf, out, new
  <2>6. HistoryOf(current').position = no /\ HistoryOf(current).position + 1 = no
        /\ HistoryOf(current).recorded = Recorded(current)
        /\ HistoryOf(save') = HistoryOf(save)
    BY <2>1, <2>4, <1>1
  <2>7. HistoryOf(current') = [recorded |-> Recorded(current) \cup {[label |-> no, state |-> s]},
                              position |-> no]
    BY <2>4, <2>5, <1>1
  <2> HIDE DEF mid, no
  <2> QED
    BY <2>3, <2>5, <2>6, <2>7 DEF History!Record
<1>3. ASSUME NEW no \in StoredNos, TrimAfterFrameNo(no)
      PROVE  History!CutAfter /\ trimAt' = 0
  <2>1. /\ HasFrameNo(current, no) /\ current' = TrimmedAfter(current, no)
        /\ save' = save /\ trimAt' = 0
    BY <1>3 DEF TrimAfterFrameNo
  <2>2. no \in Nat
    <3>1. PICK slot \in Slots(current) : no = FrameAt(current, slot).frame_no
      BY DEF StoredNos
    <3> QED
      BY <3>1, <1>0, OneOrder
  <2>3. Recorded(current') = {r \in Recorded(current) : r.label <= no}
    BY <2>1, <2>2, <1>0, TrimmingCuts
  <2>4. current'.currentFrameNo = no
    BY <2>1, <2>2, <1>0, TrimmingCuts
  <2>5. no \in {r.label : r \in Recorded(current)}
    BY <2>1, <2>2, <1>0, TrimmingCuts
  <2> QED
    BY <2>1, <2>3, <2>4, <2>5, <1>1 DEF History!CutAfter, History!Labels
<1> QED
  BY <1>2, <1>3 DEF History!HistoryNext

\* Pausing changes no history, resuming starts a new one, and a restore moves
\* the position in it.
LEMMA PauseSteps ==
  ASSUME SameSize, RoomInv, NextPause
  PROVE  [History!HistoryNext]_HistoryVars /\ trimAt' = 0
<1>0. BufferOK(current) /\ current \in BufferType
  BY DEF RoomInv, CountedInv, IInv, BufferOK, LevelsOK
<1>1. /\ HistoryOf(current) = [recorded |-> Recorded(current),
                               position |-> current.currentFrameNo]
      /\ HistoryOf(current') = [recorded |-> Recorded(current'),
                                position |-> current'.currentFrameNo]
  BY HistoryIs
<1>2. ASSUME NEW b \in BOOLEAN, SetPaused(b)
      PROVE  UNCHANGED HistoryVars /\ trimAt' = 0
  <2>1. current' = [current EXCEPT !.paused = b] /\ save' = save /\ trimAt' = 0
    BY <1>2 DEF SetPaused
  <2>2. current'.levels = current.levels /\ current'.currentFrameNo = current.currentFrameNo
    BY <2>1, <1>0 DEF BufferType
  <2>3. Recorded(current') = Recorded(current)
    BY <2>2, SameHistory
  <2> QED
    BY <2>1, <2>2, <2>3, <1>1 DEF HistoryVars
<1>3. ASSUME NEW b \in BOOLEAN, SetRollingPaused(b)
      PROVE  [History!HistoryNext]_HistoryVars /\ trimAt' = 0
  <2>1. save' = save /\ trimAt' = 0
    BY <1>3 DEF SetRollingPaused
  <2>2. CASE b
    <3>1. current' = [current EXCEPT !.rollingPaused = TRUE]
      BY <1>3, <2>2 DEF SetRollingPaused
    <3>2. current'.levels = current.levels /\ current'.currentFrameNo = current.currentFrameNo
      BY <3>1, <1>0 DEF BufferType
    <3>3. Recorded(current') = Recorded(current)
      BY <3>2, SameHistory
    <3> QED
      BY <2>1, <3>2, <3>3, <1>1 DEF HistoryVars
  <2>3. CASE ~b
    <3>1. current' = [EmptyBuffer EXCEPT !.paused = current.paused,
                                         !.currentFrameNo = current.currentFrameNo]
      BY <1>3, <2>3 DEF SetRollingPaused
    <3>2. /\ current'.levels = EmptyBuffer.levels
          /\ current'.currentFrameNo = current.currentFrameNo
      BY <3>1 DEF EmptyBuffer
    <3>3. Recorded(current') = {}
      BY <3>2, SameHistory, EmptyHistory
    <3>4. History!StartAnew
      BY <2>1, <3>2, <3>3, <1>1 DEF History!StartAnew, History!Nothing
    <3> QED
      BY <2>1, <3>4 DEF History!HistoryNext
  <2> QED
    BY <2>2, <2>3
<1>4. ASSUME NEW no \in StoredNos, RestoreFrameNo(no)
      PROVE  History!GoTo /\ trimAt' = 0
  <2>1. current' = [current EXCEPT !.currentFrameNo = no] /\ save' = save /\ trimAt' = 0
    BY <1>4 DEF RestoreFrameNo
  <2>2. current'.levels = current.levels /\ current'.currentFrameNo = no
    BY <2>1, <1>0 DEF BufferType
  <2>3. Recorded(current') = Recorded(current)
    BY <2>2, SameHistory
  <2>4. no \in {r.label : r \in Recorded(current)}
    <3>1. PICK slot \in Slots(current) : no = FrameAt(current, slot).frame_no
      BY DEF StoredNos
    <3> DEFINE r == [label |-> FrameAt(current, slot).frame_no,
                     state |-> Reconstruct(current.levels[slot[1]].frames, slot[2])]
    <3>2. r \in Recorded(current) /\ r.label = no
      BY <3>1 DEF Recorded, HistoryOf
    <3> QED
      BY <3>2
  <2> QED
    BY <2>1, <2>2, <2>3, <2>4, <1>1 DEF History!GoTo, History!Labels
<1> QED
  BY <1>2, <1>3, <1>4 DEF NextPause, History!HistoryNext

\* A state, or the history, is put aside and taken back.
LEMMA SaveSteps ==
  ASSUME SameSize, RoomInv, CountedInv', NextSave
  PROVE  [History!HistoryNext]_HistoryVars /\ trimAt' = 0
<1>0. /\ BufferOK(current) /\ current \in BufferType /\ save \in BufferType
      /\ BufferOK(save')
  BY DEF RoomInv, CountedInv, IInv, BufferOK, LevelsOK
<1>1. /\ HistoryOf(current) = [recorded |-> Recorded(current),
                               position |-> current.currentFrameNo]
      /\ HistoryOf(current') = [recorded |-> Recorded(current'),
                                position |-> current'.currentFrameNo]
      /\ HistoryOf(save) = [recorded |-> Recorded(save), position |-> save.currentFrameNo]
      /\ HistoryOf(save') = [recorded |-> Recorded(save'), position |-> save'.currentFrameNo]
  BY HistoryIs
<1>2. ASSUME NEW s \in States, SetSaveKeyframe(s, current.currentFrameNo)
      PROVE  History!PutAside(s) /\ trimAt' = 0
  <2> DEFINE no  == current.currentFrameNo
             mid == WithLevel(EmptyBuffer, 1,
                              AppendStates(EmptyBuffer.levels[1], << Item(s, no, s) >>))
  <2>1. EmptyBuffer.levels[1] = EmptyLevel
    BY LevelsAssumption DEF Level, EmptyBuffer
  <2>2. save' = [mid EXCEPT !.currentFrameNo = no] /\ current' = current /\ trimAt' = 0
    BY <1>2, <2>1 DEF SetSaveKeyframe
  <2>3. no \in Nat
    BY <1>0 DEF BufferType
  <2>4. save'.levels = mid.levels /\ save'.currentFrameNo = no
    BY <2>2 DEF WithLevel, EmptyBuffer
  <2>5. Recorded(save') = {} \cup {[label |-> no, state |-> s]}
    <3> DEFINE buf == EmptyBuffer
               out == save'
               new == no
    <3>1. /\ BufferOK(buf) /\ BufferOK(out) /\ new \in Nat /\ out.levels = mid.levels
          /\ mid = WithLevel(buf, 1, AppendStates(buf.levels[1], << Item(s, new, s) >>))
      BY <1>0, <2>3, <2>4, EmptyBufferOK
    <3> HIDE DEF buf, out, mid, new
    <3>2. Recorded(out) = Recorded(buf) \cup {[label |-> new, state |-> s]}
      BY <3>1, CaptureRecords
    <3> QED
      BY <3>2, EmptyHistory DEF buf, out, new
  <2> HIDE DEF mid
  <2> QED
    BY <2>2, <2>4, <2>5, <1>1 DEF History!PutAside
<1>3. CASE Snapshot
  <2>1. save' = [current EXCEPT !.rollingPaused = FALSE] /\ current' = current /\ trimAt' = 0
    BY <1>3 DEF Snapshot
  <2>2. save'.levels = current.levels /\ save'.currentFrameNo = current.currentFrameNo
    BY <2>1, <1>0 DEF BufferType
  <2>3. Recorded(save') = Recorded(current)
    BY <2>2, SameHistory
  <2>4. History!PutAllAside
    BY <2>1, <2>2, <2>3, <1>1 DEF History!PutAllAside
  <2> QED
    BY <2>1, <2>4 DEF History!HistoryNext
<1>4. CASE RestoreSnapshot
  <2>1. /\ current' = [save EXCEPT !.paused = current.paused,
                                   !.rollingPaused = current.rollingPaused]
        /\ save' = save /\ trimAt' = 0 /\ Slots(save) # {}
    BY <1>4 DEF RestoreSnapshot
  <2>2. current'.levels = save.levels /\ current'.currentFrameNo = save.currentFrameNo
    BY <2>1, <1>0 DEF BufferType
  <2>3. Recorded(current') = Recorded(save)
    BY <2>2, SameHistory
  <2>4. Recorded(save) # {}
    BY <2>1 DEF Recorded, HistoryOf
  <2>5. History!TakeBack
    BY <2>1, <2>2, <2>3, <2>4, <1>1 DEF History!TakeBack
  <2> QED
    BY <2>1, <2>5 DEF History!HistoryNext
<1> QED
  BY <1>2, <1>3, <1>4 DEF NextSave, History!HistoryNext

\* Every step keeps that, and is one of the history or leaves it alone.
LEMMA RoomStep ==
  ASSUME SameSize, RoomForTwo, RoomInv, [Next]_vars
  PROVE  RoomInv' /\ [History!HistoryNext]_HistoryVars
<1>1. CountedInv'
  BY CountedStep DEF RoomInv
<1>2. ASSUME Trim
      PROVE  /\ [History!HistoryNext]_HistoryVars
             /\ trimAt' # 0 => Size(current', 1) > 0
  BY <1>2, TrimForgets DEF History!HistoryNext
<1>3. ASSUME NextRecord, ~Trim
      PROVE  /\ [History!HistoryNext]_HistoryVars
             /\ trimAt' # 0 => Size(current', 1) > 0
  BY <1>1, <1>3, RecordingSteps DEF NextRecord
<1>4. ASSUME NextPause
      PROVE  [History!HistoryNext]_HistoryVars /\ trimAt' = 0
  BY <1>4, PauseSteps
<1>5. ASSUME NextSave
      PROVE  [History!HistoryNext]_HistoryVars /\ trimAt' = 0
  BY <1>1, <1>5, SaveSteps
<1>6. ASSUME UNCHANGED vars
      PROVE  /\ [History!HistoryNext]_HistoryVars
             /\ trimAt' # 0 => Size(current', 1) > 0
  <2>1. UNCHANGED HistoryVars
    BY <1>6 DEF vars, HistoryVars
  <2>2. trimAt' # 0 => Size(current', 1) > 0
    BY <1>6 DEF vars, RoomInv
  <2> QED
    BY <2>1, <2>2
<1> QED
  BY <1>1, <1>2, <1>3, <1>4, <1>5, <1>6 DEF Next, NextRecord, RoomInv

\* Whatever the levels, the differences and the trimming do, to its callers the
\* buffer is the history of RecordedHistory.tla: each operation of
\* state_buffer.c is one of its steps.
THEOREM RefinesHistory ==
  ASSUME SameSize, RoomForTwo
  PROVE  Spec => ImplementsHistory
<1>1. Init => RoomInv /\ History!HistoryInit
  <2>1. ASSUME Init
        PROVE  RoomInv /\ History!HistoryInit
    <3>1. RoomInv
      BY <2>1, InitOK, EmptyBytes DEF Init, CountedInv, RoomInv
    <3>2. HistoryOf(EmptyBuffer) = [recorded |-> {}, position |-> 0]
      BY HistoryIs, EmptyHistory DEF EmptyBuffer
    <3> QED
      BY <2>1, <3>1, <3>2 DEF Init, History!HistoryInit, History!Nothing
  <2> QED
    BY <2>1
<1>2. RoomInv /\ [Next]_vars => RoomInv' /\ [History!HistoryNext]_HistoryVars
  BY RoomStep
<1>3. [History!HistoryNext]_HistoryVars
        => [History!HistoryNext]_<< HistoryOf(current), HistoryOf(save) >>
  BY DEF HistoryVars
<1> QED
  BY <1>1, <1>2, <1>3, PTL DEF Spec, ImplementsHistory, History!HistorySpec

-----------------------------------------------------------------------------
(* Even thinning *)

\* From one level to the next the spacing doubles.
LEMMA SpacingDoubles ==
  /\ \A i \in Level : Spacing(i) \in Nat /\ Spacing(i) >= 1
  /\ \A i \in Level : i + 1 \in Level => Spacing(i + 1) = 2 * Spacing(i)
<1> DEFINE g      == [r \in Nat |-> 2 * r]
           Eqn(f) == f = [j \in Level |-> IF j = 1 THEN 1 ELSE 2 * f[j - 1]]
           w      == CHOOSE f : Eqn(f)
<1>0. LevelCount \in Nat /\ Level = 1 .. LevelCount /\ 1 \in Nat
  BY LevelsAssumption DEF Level
<1>1. \A i \in Level : Spacing(i) = w[i]
  BY DEF Spacing
<1>2. g \in [Nat -> Nat] /\ \A r \in Nat : g[r] = 2 * r
  OBVIOUS
<1> HIDE DEF g
<1>3. PICK f \in [Level -> Nat] :
        \A j \in Level : f[j] = IF j = 1 THEN 1 ELSE g[f[j - 1]]
  <2>1. Iterates(LevelCount, Nat, 1, g)
    BY <1>0, <1>2, IterationExists
  <2> QED
    BY <2>1, <1>0 DEF Iterates
<1>4. Eqn(w)
  <2>1. \A j \in Level : f[j] = IF j = 1 THEN 1 ELSE 2 * f[j - 1]
    <3> TAKE j \in Level
    <3>1. j # 1 => j - 1 \in Level
      BY <1>0
    <3> QED
      BY <3>1, <1>2, <1>3
  <2>2. Eqn(f)
    BY <2>1
  <2> HIDE DEF Eqn
  <2> QED
    BY <2>2
<1> HIDE DEF w
<1>5. \A j \in Level : w[j] = IF j = 1 THEN 1 ELSE 2 * w[j - 1]
  <2> DEFINE v == [j \in Level |-> IF j = 1 THEN 1 ELSE 2 * w[j - 1]]
  <2>1. w = v /\ \A j \in Level : v[j] = IF j = 1 THEN 1 ELSE 2 * w[j - 1]
    BY <1>4
  <2> HIDE DEF v
  <2> QED
    BY <2>1
<1> DEFINE Bad == {j \in Level : ~(w[j] \in Nat /\ w[j] >= 1)}
<1>6. Bad = {}
  <2> SUFFICES ASSUME Bad # {} PROVE FALSE
    OBVIOUS
  <2>1. Bad \in SUBSET Nat
    BY <1>0
  <2>2. PICK j \in Bad : \A k \in Bad : ~(k < j)
    BY <2>1, LeastMember
  <2>3. j \in Level /\ ~(w[j] \in Nat /\ w[j] >= 1)
    BY <2>2
  <2>4. j # 1
    BY <2>3, <1>0, <1>5
  <2>5. j - 1 \in Level /\ j - 1 < j
    BY <2>3, <2>4, <1>0
  <2>6. w[j - 1] \in Nat /\ w[j - 1] >= 1
    BY <2>2, <2>5
  <2> QED
    BY <2>3, <2>4, <2>6, <1>5
<1>7. \A i \in Level : w[i] \in Nat /\ w[i] >= 1
  BY <1>6
<1>8. ASSUME NEW i \in Level, i + 1 \in Level
      PROVE  w[i + 1] = 2 * w[i]
  <2>1. i + 1 # 1 /\ (i + 1) - 1 = i
    BY <1>0
  <2>2. w[i + 1] = IF i + 1 = 1 THEN 1 ELSE 2 * w[(i + 1) - 1]
    BY <1>5, <1>8
  <2> QED
    BY <2>1, <2>2
<1> QED
  BY <1>1, <1>7, <1>8

\* The labels in a buffer.
Nos(buf) == {FrameAt(buf, slot).frame_no : slot \in Slots(buf)}

LEMMA NosAre ==
  ASSUME NEW buf, BufferOK(buf)
  PROVE  /\ \A m \in Nos(buf) : \E i \in Level : \E k \in 1 .. Size(buf, i) : m = No(buf, i, k)
         /\ \A i \in Level : \A k \in 1 .. Size(buf, i) : No(buf, i, k) \in Nos(buf)
         /\ Nos(buf) \subseteq Nat
<1>1. ASSUME NEW m \in Nos(buf)
      PROVE  \E i \in Level : \E k \in 1 .. Size(buf, i) : m = No(buf, i, k)
  <2>1. PICK slot \in Slots(buf) : m = FrameAt(buf, slot).frame_no
    BY DEF Nos
  <2> QED
    BY <2>1, SlotShape
<1>2. ASSUME NEW i \in Level, NEW k \in 1 .. Size(buf, i)
      PROVE  No(buf, i, k) \in Nos(buf)
  <2>1. << i, k >> \in Slots(buf) /\ FrameAt(buf, << i, k >>).frame_no = No(buf, i, k)
    BY DEF Slots, Size, FrameAt, No
  <2> QED
    BY <2>1 DEF Nos
<1>3. Nos(buf) \subseteq Nat
  BY <1>1, BufferShape
<1> QED
  BY <1>1, <1>2, <1>3

\* Some label is newer than no, by at most d.
Near(nos, no, d) == \E m \in nos : no < m /\ m <= no + d

\* Every frame that is not the newest has a newer one near it.
Thin(buf) ==
  \A i \in Level : \A k \in 1 .. Size(buf, i) :
    (\E m \in Nos(buf) : No(buf, i, k) < m) => Near(Nos(buf), No(buf, i, k), Spacing(i))

\* Of two frames the one with the smaller label is the older.
LEMMA OlderByLabel ==
  ASSUME NEW buf, BufferOK(buf), NEW i \in Level, NEW j \in Level,
         NEW k \in 1 .. Size(buf, i), NEW l \in 1 .. Size(buf, j)
  PROVE  /\ Older(i, k, j, l) <=> No(buf, i, k) < No(buf, j, l)
         /\ No(buf, i, k) \in Nat /\ No(buf, j, l) \in Nat
<1>1. /\ i \in Nat /\ j \in Nat /\ Size(buf, i) \in Nat /\ Size(buf, j) \in Nat
      /\ No(buf, i, k) \in Nat /\ No(buf, j, l) \in Nat
  BY BufferShape DEF Level
<1>2. k \in Nat /\ l \in Nat
  BY <1>1
<1>3. Older(i, k, j, l) => No(buf, i, k) < No(buf, j, l)
  BY DEF BufferOK, LevelsOK, Ordered
<1>4. Older(j, l, i, k) => No(buf, j, l) < No(buf, i, k)
  BY DEF BufferOK, LevelsOK, Ordered
<1>5. Older(i, k, j, l) \/ Older(j, l, i, k) \/ (i = j /\ k = l)
  BY <1>1, <1>2 DEF Older
<1>6. i = j /\ k = l => No(buf, i, k) = No(buf, j, l)
  OBVIOUS
<1> QED
  BY <1>1, <1>3, <1>4, <1>5, <1>6

\* Promotion passes over every second one of the frames it takes.
Skipped(i, n, q, l) == q = i /\ l <= n /\ \E j \in Nat : l = 2 * j

\* Those it does not pass over are still there; and so is one no newer than any
\* frame, if what comes just before a frame passed over will do.
LEMMA PromotionSurvivors ==
  ASSUME NEW buf, BufferOK(buf), NEW out, BufferOK(out),
         NEW i \in Level, i + 1 \in Level, NEW n \in 0 .. Size(buf, i),
         Promotes(out, buf, i, n)
  PROVE  /\ \A q \in Level : \A l \in 1 .. Size(buf, q) :
              ~Skipped(i, n, q, l) => No(buf, q, l) \in Nos(out)
         /\ \A a \in Nat : \A q \in Level : \A l \in 1 .. Size(buf, q) :
              a < No(buf, q, l) /\ (Skipped(i, n, q, l) => a < No(buf, i, l - 1)) =>
                Near(Nos(out), a, No(buf, q, l) - a)
<1>0. /\ i \in Nat /\ i # i + 1 /\ \A q \in Level : Size(buf, q) \in Nat
      /\ Size(out, i) \in Nat /\ n \in Nat
  BY BufferShape DEF Level
<1>1. ASSUME NEW q \in Level, NEW l \in 1 .. Size(buf, q), ~Skipped(i, n, q, l)
      PROVE  No(buf, q, l) \in Nos(out)
  <2>0. l \in Nat /\ l >= 1
    BY <1>0
  <2>1. CASE q # i /\ q # i + 1
    <3>1. out.levels[q] = buf.levels[q]
      BY <2>1 DEF Promotes
    <3>2. l \in 1 .. Size(out, q) /\ No(out, q, l) = No(buf, q, l)
      BY <3>1 DEF Size, No
    <3> QED
      BY <3>2, NosAre
  <2>2. CASE q = i + 1
    <3>1. No(out, i + 1, l) = No(buf, q, l)
      BY <2>2 DEF Promotes, Same
    <3>2. l \in 1 .. Size(out, i + 1)
      <4>1. Size(out, i + 1) = Size(buf, i + 1) + ((n + 1) \div 2)
        BY DEF Promotes
      <4> QED
        BY <4>1, <2>2, <1>0
    <3> QED
      BY <3>1, <3>2, NosAre
  <2>3. CASE q = i /\ l > n
    <3> DEFINE k == l - n
    <3>1. k \in 1 .. Size(out, i) /\ n + k = l
      <4>1. Size(out, i) = Size(buf, i) - n
        BY DEF Promotes
      <4> QED
        BY <4>1, <2>0, <2>3, <1>0
    <3> HIDE DEF k
    <3>2. No(out, i, k) = No(buf, i, l)
      BY <3>1 DEF Promotes, Same
    <3> QED
      BY <3>1, <3>2, <2>3, NosAre
  <2>4. CASE q = i /\ ~(l > n)
    <3> DEFINE j == (l + 1) \div 2
               m == Size(buf, i + 1)
               h == (n + 1) \div 2
    <3>1. j \in Nat /\ (l = 2 * j \/ l = 2 * j - 1) /\ l <= n
      BY <2>0, <2>4, <1>0
    <3>2. l # 2 * j
      <4> HIDE DEF j
      <4> QED
        BY <3>1, <2>4, <1>1 DEF Skipped
    <3>3. j \in 1 .. h /\ h \in Nat /\ m \in Nat
      BY <2>0, <3>1, <3>2, <1>0
    <3> HIDE DEF j, h, m
    <3>4. Size(out, i + 1) = m + h /\ \A x \in 1 .. h : Same(out, i + 1, m + x, buf, i, 2 * x - 1)
      BY DEF Promotes, h, m
    <3>5. No(out, i + 1, m + j) = No(buf, i, l) /\ m + j \in 1 .. Size(out, i + 1)
      <4>1. No(out, i + 1, m + j) = No(buf, i, l)
        BY <3>1, <3>2, <3>3, <3>4 DEF Same
      <4> QED
        BY <4>1, <3>3, <3>4
    <3> QED
      BY <3>5, <2>4, NosAre
  <2> QED
    BY <2>0, <2>1, <2>2, <2>3, <2>4, <1>0
<1>2. ASSUME NEW a \in Nat, NEW q \in Level, NEW l \in 1 .. Size(buf, q),
             a < No(buf, q, l), Skipped(i, n, q, l) => a < No(buf, i, l - 1)
      PROVE  Near(Nos(out), a, No(buf, q, l) - a)
  <2>1. No(buf, q, l) \in Nat /\ l \in Nat /\ l >= 1
    BY <1>0, BufferShape
  <2>2. CASE ~Skipped(i, n, q, l)
    <3>1. No(buf, q, l) \in Nos(out)
      BY <2>2, <1>1
    <3> QED
      BY <3>1, <2>1, <1>2 DEF Near
  <2>3. CASE Skipped(i, n, q, l)
    <3>1. PICK j \in Nat : l = 2 * j
      BY <2>3 DEF Skipped
    <3>2. q = i /\ l - 1 \in 1 .. Size(buf, i) /\ l - 1 < l
      BY <2>1, <2>3, <3>1, <1>0 DEF Skipped
    <3>3. ~Skipped(i, n, i, l - 1)
      BY <3>1 DEF Skipped
    <3>4. No(buf, i, l - 1) \in Nos(out)
      BY <3>2, <3>3, <1>1
    <3>5. No(buf, i, l - 1) < No(buf, q, l) /\ No(buf, i, l - 1) \in Nat
      BY <3>2, BufferShape DEF BufferOK, LevelsOK, Ordered, Older
    <3> QED
      BY <3>4, <3>5, <2>1, <2>3, <1>2 DEF Near
  <2> QED
    BY <2>2, <2>3
<1> QED
  BY <1>1, <1>2

\* Each frame there was in the buffer before, in the same level or in the one
\* it has been promoted from.
LEMMA PromotionOrigins ==
  ASSUME NEW buf, BufferOK(buf), NEW out, BufferOK(out),
         NEW i \in Level, i + 1 \in Level, NEW n \in 0 .. Size(buf, i),
         Promotes(out, buf, i, n), NEW p \in Level, NEW k \in 1 .. Size(out, p)
  PROVE  \E q \in Level : \E l \in 1 .. Size(buf, q) :
           /\ No(out, p, k) = No(buf, q, l)
           /\ \/ q = p /\ (q = i => l > n)
              \/ q = i /\ p = i + 1
<1> DEFINE m == Size(buf, i + 1)
           h == (n + 1) \div 2
<1>0. /\ i \in Nat /\ i # i + 1 /\ Size(buf, i) \in Nat /\ m \in Nat /\ h \in Nat
      /\ n \in Nat /\ Size(out, p) \in Nat /\ k \in Nat /\ k >= 1
  <2>1. i \in Nat /\ i # i + 1
    BY DEF Level
  <2>2. Size(buf, i) \in Nat /\ m \in Nat /\ Size(out, p) \in Nat
    BY BufferShape
  <2>3. n \in Nat /\ k \in Nat /\ k >= 1
    BY <2>2
  <2>4. h \in Nat
    BY <2>3
  <2> QED
    BY <2>1, <2>2, <2>3, <2>4
<1> HIDE DEF m, h
<1>1. CASE p # i /\ p # i + 1
  <2>1. out.levels[p] = buf.levels[p]
    BY <1>1 DEF Promotes
  <2>2. k \in 1 .. Size(buf, p) /\ No(out, p, k) = No(buf, p, k)
    BY <2>1 DEF Size, No
  <2> QED
    BY <2>2, <1>1
<1>2. CASE p = i
  <2>1. n + k \in 1 .. Size(buf, i) /\ No(out, i, k) = No(buf, i, n + k)
    BY <1>2 DEF Promotes, Same
  <2>2. n + k > n
    BY <1>0
  <2> QED
    BY <2>1, <2>2, <1>2
<1>3. CASE p = i + 1 /\ k <= m
  <2>1. k \in 1 .. m
    BY <1>0, <1>3
  <2>2. Same(out, i + 1, k, buf, i + 1, k)
    BY <2>1 DEF Promotes, m
  <2> QED
    BY <2>2, <1>0, <1>3 DEF Same
<1>4. CASE p = i + 1 /\ ~(k <= m)
  <2> DEFINE j == k - m
  <2>1. Size(out, i + 1) = m + h
    BY DEF Promotes, m, h
  <2>2. j \in 1 .. h /\ m + j = k
    BY <2>1, <1>0, <1>4
  <2> HIDE DEF j
  <2>3. Same(out, i + 1, k, buf, i, 2 * j - 1)
    BY <2>2 DEF Promotes, m, h
  <2> QED
    BY <2>3, <1>4 DEF Same
<1> QED
  BY <1>1, <1>2, <1>3, <1>4

\* Promotion keeps the thinning even: a frame promoted from level i had the
\* next one within the spacing of level i, and that one, if it is passed over,
\* another within it; twice that is the spacing of level i + 1.
LEMMA PromotionKeepsThin ==
  ASSUME NEW buf, BufferOK(buf), NEW out, BufferOK(out),
         NEW i \in Level, i + 1 \in Level, NEW n \in 0 .. Size(buf, i),
         Promotes(out, buf, i, n), Size(buf, 1) > 0, i = 1 => n < Size(buf, 1),
         Thin(buf)
  PROVE  Thin(out)
<1> SUFFICES ASSUME NEW p \in Level, NEW k \in 1 .. Size(out, p),
                    NEW m0 \in Nos(out), No(out, p, k) < m0
             PROVE  Near(Nos(out), No(out, p, k), Spacing(p))
  BY DEF Thin
<1> DEFINE a == No(out, p, k)
<1>0. /\ 1 \in Level /\ \A q \in Level : q \in Nat /\ q >= 1 /\ Size(buf, q) \in Nat
      /\ n \in Nat
  BY LevelsAssumption, BufferShape DEF Level
<1>1. PICK q \in Level : \E l \in 1 .. Size(buf, q) :
        /\ a = No(buf, q, l)
        /\ \/ q = p /\ (q = i => l > n)
           \/ q = i /\ p = i + 1
  BY PromotionOrigins
<1>2. PICK l \in 1 .. Size(buf, q) :
        /\ a = No(buf, q, l)
        /\ \/ q = p /\ (q = i => l > n)
           \/ q = i /\ p = i + 1
  BY <1>1
<1>3. a \in Nat /\ l \in Nat /\ l >= 1
  BY <1>0, <1>2, BufferShape
<1> HIDE DEF a
<1>4. m0 \in Nos(buf)
  <2>1. PICK p1 \in Level : \E k1 \in 1 .. Size(out, p1) : m0 = No(out, p1, k1)
    BY NosAre
  <2>2. PICK k1 \in 1 .. Size(out, p1) : m0 = No(out, p1, k1)
    BY <2>1
  <2>3. PICK q1 \in Level : \E l1 \in 1 .. Size(buf, q1) : No(out, p1, k1) = No(buf, q1, l1)
    BY PromotionOrigins
  <2> QED
    BY <2>2, <2>3, NosAre
<1>5. Near(Nos(buf), a, Spacing(q))
  BY <1>2, <1>4 DEF Thin, a
<1>6. /\ Spacing(p) \in Nat /\ Spacing(q) \in Nat /\ Spacing(q) <= Spacing(p)
      /\ (q = i /\ p = i + 1 => Spacing(p) = 2 * Spacing(i))
  <2>1. Spacing(p) \in Nat /\ Spacing(q) \in Nat /\ Spacing(i + 1) = 2 * Spacing(i)
    BY SpacingDoubles
  <2> QED
    BY <2>1, <1>2
<1>7. PICK b \in Nos(buf) : a < b /\ b <= a + Spacing(q)
  BY <1>5 DEF Near
<1>8. PICK q2 \in Level : \E l2 \in 1 .. Size(buf, q2) : b = No(buf, q2, l2)
  BY NosAre
<1>9. PICK l2 \in 1 .. Size(buf, q2) : b = No(buf, q2, l2)
  BY <1>8
<1>10. b \in Nat /\ l2 \in Nat /\ l2 >= 1
  BY <1>0, <1>9, BufferShape
\* A frame of the old buffer not far away leads to one of the new buffer.
<1>11. ASSUME NEW q1 \in Level, NEW l1 \in 1 .. Size(buf, q1), a < No(buf, q1, l1),
              Skipped(i, n, q1, l1) => a < No(buf, i, l1 - 1),
              No(buf, q1, l1) <= a + Spacing(p)
       PROVE  Near(Nos(out), a, Spacing(p))
  <2>1. Near(Nos(out), a, No(buf, q1, l1) - a)
    BY <1>3, <1>11, PromotionSurvivors
  <2>2. PICK m \in Nos(out) : a < m /\ m <= a + (No(buf, q1, l1) - a)
    BY <2>1 DEF Near
  <2>3. m \in Nat /\ No(buf, q1, l1) \in Nat
    BY NosAre, BufferShape
  <2>4. m <= a + Spacing(p)
    BY <2>2, <2>3, <1>3, <1>6, <1>11
  <2> QED
    BY <2>2, <2>4 DEF Near
<1>12. CASE Skipped(i, n, q2, l2) => a < No(buf, i, l2 - 1)
  <2>1. a < No(buf, q2, l2) /\ No(buf, q2, l2) <= a + Spacing(p)
    BY <1>3, <1>6, <1>7, <1>9, <1>10
  <2>2. Near(Nos(out), a, Spacing(p))
    BY <2>1, <1>11, <1>12
  <2> QED
    BY <2>2 DEF a
<1>13. CASE Skipped(i, n, q2, l2) /\ ~(a < No(buf, i, l2 - 1))
  <2>1. PICK j \in Nat : l2 = 2 * j
    BY <1>13 DEF Skipped
  <2>2. q2 = i /\ l2 <= n /\ l2 - 1 \in 1 .. Size(buf, i) /\ l2 \in 1 .. Size(buf, i)
    BY <2>1, <1>0, <1>10, <1>13 DEF Skipped
  <2>3. q = i /\ l = l2 - 1
    <3>1. ~Older(q, l, i, l2 - 1)
      BY <2>2, <1>2, <1>13, OlderByLabel
    <3>2. Older(q, l, i, l2)
      BY <2>2, <1>2, <1>7, <1>9, OlderByLabel
    <3> QED
      BY <3>1, <3>2, <2>2, <1>0, <1>3, <1>10 DEF Older
  <2>4. p = i + 1 /\ Spacing(p) = 2 * Spacing(i) /\ q = i
    BY <2>2, <2>3, <1>0, <1>2, <1>6, <1>10
  <2> DEFINE z == Size(buf, 1)
  <2>5. z \in 1 .. Size(buf, 1) /\ Older(i, l2, 1, z)
    <3>1. z \in 1 .. Size(buf, 1)
      BY <1>0
    <3>2. i = 1 => l2 < z
      BY <2>2, <1>0, <1>10
    <3>3. i # 1 => i > 1
      BY <1>0
    <3> QED
      BY <3>1, <3>2, <3>3 DEF Older
  <2> HIDE DEF z
  <2>6. b < No(buf, 1, z) /\ No(buf, 1, z) \in Nos(buf)
    BY <2>2, <2>5, <1>0, <1>9, OlderByLabel, NosAre
  <2>7. Near(Nos(buf), b, Spacing(i))
    BY <2>2, <2>6, <1>9 DEF Thin
  <2>8. PICK c \in Nos(buf) : b < c /\ c <= b + Spacing(i)
    BY <2>7 DEF Near
  <2>9. PICK q3 \in Level : \E l3 \in 1 .. Size(buf, q3) : c = No(buf, q3, l3)
    BY NosAre
  <2>10. PICK l3 \in 1 .. Size(buf, q3) : c = No(buf, q3, l3)
    BY <2>9
  <2>11. c \in Nat /\ l3 \in Nat
    <3>1. c \in Nat
      BY <2>10, BufferShape
    <3>2. l3 \in Nat
      BY <2>10
    <3> QED
      BY <3>1, <3>2
  <2>12. Skipped(i, n, q3, l3) => a < No(buf, i, l3 - 1)
    <3> SUFFICES ASSUME Skipped(i, n, q3, l3)
                 PROVE  a < No(buf, i, l3 - 1)
      OBVIOUS
    <3>1. PICK j3 \in Nat : l3 = 2 * j3
      BY DEF Skipped
    <3>2. q3 = i /\ l3 \in 1 .. Size(buf, i)
      BY <2>10 DEF Skipped
    <3>3. Older(i, l2, i, l3)
      BY <3>2, <2>2, <2>8, <2>10, <1>9, OlderByLabel
    <3>4. l2 < l3
      BY <3>3, <1>0 DEF Older
    <3>5. l2 < l3 - 1 /\ l3 - 1 \in 1 .. Size(buf, i)
      BY <3>1, <3>2, <3>4, <2>1, <2>11, <1>0, <1>10
    <3>6. Older(i, l2, i, l3 - 1)
      BY <3>5 DEF Older
    <3>7. No(buf, i, l2) < No(buf, i, l3 - 1) /\ No(buf, i, l3 - 1) \in Nat
      BY <3>5, <3>6, <2>2, OlderByLabel
    <3> QED
      BY <3>7, <2>2, <1>3, <1>7, <1>9, <1>10
  <2>13. a < No(buf, q3, l3) /\ No(buf, q3, l3) <= a + Spacing(p)
    BY <2>4, <2>8, <2>10, <2>11, <1>3, <1>6, <1>7, <1>10
  <2>14. Near(Nos(out), a, Spacing(p))
    BY <2>12, <2>13, <1>11
  <2> QED
    BY <2>14 DEF a
<1> QED
  BY <1>12, <1>13

\* So does dropping the oldest frames of the last level: what is newer than a
\* frame that stays, stays.
LEMMA DroppingKeepsThin ==
  ASSUME NEW buf, BufferOK(buf), NEW out, BufferOK(out),
         NEW n \in 0 .. Size(buf, LevelCount), Drops(out, buf, LevelCount, n), Thin(buf)
  PROVE  Thin(out)
<1> DEFINE i == LevelCount
<1>0. /\ i \in Level /\ n \in Nat
      /\ \A q \in Level : q \in Nat /\ q <= i /\ Size(buf, q) \in Nat /\ Size(out, q) \in Nat
  BY LevelsAssumption, BufferShape DEF Level
<1>1. ASSUME NEW p \in Level, NEW k \in 1 .. Size(out, p)
      PROVE  \E l \in 1 .. Size(buf, p) : /\ No(out, p, k) = No(buf, p, l)
                                          /\ p = i => l > n
  <2>1. CASE p # i
    <3>1. out.levels[p] = buf.levels[p]
      BY <2>1 DEF Drops
    <3>2. k \in 1 .. Size(buf, p) /\ No(out, p, k) = No(buf, p, k)
      BY <3>1 DEF Size, No
    <3> QED
      BY <3>2, <2>1
  <2>2. CASE p = i
    <3>1. n + k \in 1 .. Size(buf, i) /\ No(out, i, k) = No(buf, i, n + k)
      BY <2>2 DEF Drops, Same
    <3>2. n + k > n
      BY <1>0
    <3> QED
      BY <3>1, <3>2, <2>2
  <2> QED
    BY <2>1, <2>2
<1>2. ASSUME NEW q \in Level, NEW l \in 1 .. Size(buf, q), q = i => l > n
      PROVE  No(buf, q, l) \in Nos(out)
  <2>1. CASE q # i
    <3>1. out.levels[q] = buf.levels[q]
      BY <2>1 DEF Drops
    <3>2. l \in 1 .. Size(out, q) /\ No(out, q, l) = No(buf, q, l)
      BY <3>1 DEF Size, No
    <3> QED
      BY <3>2, NosAre
  <2>2. CASE q = i
    <3> DEFINE k == l - n
    <3>1. k \in 1 .. Size(out, i) /\ n + k = l
      <4>1. Size(out, i) = Size(buf, i) - n
        BY DEF Drops
      <4> QED
        BY <4>1, <2>2, <1>0, <1>2
    <3> HIDE DEF k
    <3>2. No(out, i, k) = No(buf, i, l)
      BY <3>1 DEF Drops, Same
    <3> QED
      BY <3>1, <3>2, <2>2, <1>0, NosAre
  <2> QED
    BY <2>1, <2>2
<1> SUFFICES ASSUME NEW p \in Level, NEW k \in 1 .. Size(out, p),
                    NEW m0 \in Nos(out), No(out, p, k) < m0
             PROVE  Near(Nos(out), No(out, p, k), Spacing(p))
  BY DEF Thin
<1>3. PICK l \in 1 .. Size(buf, p) : No(out, p, k) = No(buf, p, l) /\ (p = i => l > n)
  BY <1>1
<1>4. m0 \in Nos(buf)
  <2>1. PICK p1 \in Level : \E k1 \in 1 .. Size(out, p1) : m0 = No(out, p1, k1)
    BY NosAre
  <2> QED
    BY <2>1, <1>1, NosAre
<1>5. Near(Nos(buf), No(buf, p, l), Spacing(p))
  BY <1>3, <1>4 DEF Thin
<1>6. PICK b \in Nos(buf) : No(buf, p, l) < b /\ b <= No(buf, p, l) + Spacing(p)
  BY <1>5 DEF Near
<1>7. PICK q \in Level : \E l2 \in 1 .. Size(buf, q) : b = No(buf, q, l2)
  BY NosAre
<1>8. PICK l2 \in 1 .. Size(buf, q) : b = No(buf, q, l2)
  BY <1>7
<1>9. Older(p, l, q, l2)
  BY <1>6, <1>8, OlderByLabel
<1>10. q = i => l2 > n
  BY <1>0, <1>3, <1>9 DEF Older
<1>11. b \in Nos(out)
  BY <1>2, <1>8, <1>10
<1> QED
  BY <1>3, <1>6, <1>11 DEF Near

\* The labels are those of the history.
LEMMA NosRecorded ==
  ASSUME NEW buf
  PROVE  Nos(buf) = {r.label : r \in Recorded(buf)}
<1> DEFINE entry(slot) == [label |-> FrameAt(buf, slot).frame_no,
                           state |-> Reconstruct(buf.levels[slot[1]].frames, slot[2])]
<1>1. Recorded(buf) = {entry(slot) : slot \in Slots(buf)}
  BY DEF Recorded, HistoryOf
<1>2. \A slot \in Slots(buf) : entry(slot).label = FrameAt(buf, slot).frame_no
  OBVIOUS
<1> HIDE DEF entry
<1> QED
  BY <1>1, <1>2 DEF Nos

\* The current label is a stored one, unless none is.
HasPosition(buf) == Nos(buf) = {} \/ buf.currentFrameNo \in Nos(buf)

EvenOK(buf) == HasPosition(buf) /\ Thin(buf)

\* What keeps the levels keeps their labels and their thinning.
LEMMA SameLevelsEven ==
  ASSUME NEW buf, NEW out, out.levels = buf.levels
  PROVE  /\ Nos(out) = Nos(buf)
         /\ Thin(buf) => Thin(out)
         /\ EvenOK(buf) /\ out.currentFrameNo = buf.currentFrameNo => EvenOK(out)
<1>1. Nos(out) = Nos(buf)
  BY DEF Nos, Slots, FrameAt
<1>2. \A i, k : No(out, i, k) = No(buf, i, k) /\ Size(out, i) = Size(buf, i)
  BY DEF No, Size
<1>3. Thin(buf) => Thin(out)
  BY <1>1, <1>2 DEF Thin
<1> QED
  BY <1>1, <1>3 DEF EvenOK, HasPosition

LEMMA EmptyEven == Nos(EmptyBuffer) = {} /\ Thin(EmptyBuffer)
<1>1. Nos(EmptyBuffer) = {}
  BY NosRecorded, EmptyHistory
<1> QED
  BY <1>1 DEF Thin

\* A capture puts the next label after the newest one.
LEMMA CaptureEven ==
  ASSUME SameSize, NEW buf, BufferOK(buf), Thin(buf), NEW s \in States, NEW no \in Nat,
         NEW mid, mid = WithLevel(buf, 1, AppendStates(buf.levels[1], << Item(s, no, s) >>)),
         NEW out, BufferOK(out), out.levels = mid.levels, out.currentFrameNo = no,
         \A m \in Nos(buf) : m < no, Nos(buf) = {} \/ no - 1 \in Nos(buf)
  PROVE  EvenOK(out) /\ \A m \in Nos(out) : m <= no
<1>1. Nos(out) = Nos(buf) \cup {no}
  <2>1. Recorded(out) = Recorded(buf) \cup {[label |-> no, state |-> s]}
    BY CaptureRecords
  <2>2. [label |-> no, state |-> s].label = no
    OBVIOUS
  <2> QED
    BY <2>1, <2>2, NosRecorded
<1>2. Nos(buf) \subseteq Nat /\ \A m \in Nos(out) : m <= no /\ m \in Nat
  BY <1>1, NosAre
<1>3. ASSUME NEW p \in Level, NEW k \in 1 .. Size(out, p), No(out, p, k) # no
      PROVE  k \in 1 .. Size(buf, p) /\ No(out, p, k) = No(buf, p, k)
  <2> DEFINE l1  == buf.levels[1]
             lvl == AppendStates(l1, << Item(s, no, s) >>)
             n   == Len(l1.frames)
  <2>1. 1 \in Level /\ LevelOK(l1) /\ n = Size(buf, 1) /\ n \in Nat /\ buf \in BufferType
    <3>1. 1 \in Level
      BY LevelsAssumption DEF Level
    <3> QED
      BY <3>1, BufferShape DEF BufferOK, LevelsOK, Size
  <2>2. lvl = AppendStates(l1, << Item(s, no, s) >>) /\ mid = WithLevel(buf, 1, lvl)
    OBVIOUS
  <2> HIDE DEF lvl, l1, n
  <2>3. LevelOK(lvl)
    BY <2>1, <2>2, AppendOne
  <2>4. Len(lvl.frames) = n + 1
    BY <2>1, <2>2, AppendOne DEF n
  <2>5. \A j \in 1 .. n : lvl.frames[j] = l1.frames[j]
    BY <2>1, <2>2, AppendOne DEF n
  <2>6. lvl.frames[n + 1].frame_no = no
    BY <2>1, <2>2, AppendOne DEF n
  <2>7. \A j \in Level : out.levels[j] = IF j = 1 THEN lvl ELSE buf.levels[j]
    <3>1. lvl \in LevelType
      BY <2>3 DEF LevelOK
    <3> QED
      BY <3>1, <2>1, <2>2, WithLevelIs
  <2>8. CASE p # 1
    BY <2>7, <2>8 DEF Size, No
  <2>9. CASE p = 1
    <3>1. out.levels[1] = lvl /\ k \in 1 .. n + 1
      BY <2>1, <2>4, <2>7, <2>9 DEF Size
    <3>2. k # n + 1
      BY <3>1, <2>6, <2>9, <1>3 DEF No
    <3>3. k \in 1 .. n
      BY <3>1, <3>2, <2>1
    <3> QED
      BY <3>1, <3>3, <2>1, <2>5, <2>9 DEF No, l1
  <2> QED
    BY <2>8, <2>9
<1>4. ASSUME NEW p \in Level, NEW k \in 1 .. Size(out, p),
             NEW m0 \in Nos(out), No(out, p, k) < m0
      PROVE  Near(Nos(out), No(out, p, k), Spacing(p))
  <2> DEFINE a == No(out, p, k)
  <2>1. a \in Nat /\ a < no
    <3>1. a \in Nat
      BY BufferShape
    <3> QED
      BY <3>1, <1>2, <1>4
  <2>2. k \in 1 .. Size(buf, p) /\ a = No(buf, p, k)
    BY <2>1, <1>3
  <2>3. a \in Nos(buf)
    BY <2>2, NosAre
  <2>4. Spacing(p) \in Nat /\ Spacing(p) >= 1
    BY SpacingDoubles
  <2> HIDE DEF a
  <2>5. CASE \E m \in Nos(buf) : a < m
    <3>1. Near(Nos(buf), a, Spacing(p))
      BY <2>2, <2>5 DEF Thin
    <3> QED
      BY <3>1, <1>1 DEF Near, a
  <2>6. CASE ~\E m \in Nos(buf) : a < m
    <3>1. no - 1 \in Nos(buf) /\ ~(a < no - 1)
      BY <2>3, <2>6
    <3>2. no <= a + Spacing(p)
      BY <3>1, <2>1, <2>4
    <3> QED
      BY <3>2, <2>1, <1>1 DEF Near, a
  <2> QED
    BY <2>5, <2>6
<1>5. Thin(out)
  BY <1>4 DEF Thin
<1> QED
  BY <1>1, <1>2, <1>5 DEF EvenOK, HasPosition

\* Going back to a frame leaves each frame where it was, and with it the next
\* newer one: only what is newer than the frame gone back to is cut off.
LEMMA CutEven ==
  ASSUME SameSize, NEW buf, BufferOK(buf), Thin(buf), NEW no \in Nat, HasFrameNo(buf, no),
         NEW out, out = TrimmedAfter(buf, no)
  PROVE  EvenOK(out)
<1> DEFINE left  == CutBuffer(buf, no)
           exact == RestoredState(left, no)
<1>1. out = left \/ (exact # NoState /\ out = WithPrev(left, exact, no))
  BY DEF TrimmedAfter, WithPrev, CutBuffer, CutLevels
<1>2. left = CutBuffer(buf, no)
  OBVIOUS
<1> HIDE DEF left
<1>3. BufferOK(left) /\ BufferOK(out)
  BY <1>2, CutBufferOK, TrimmedOK
<1>4. \A i \in Level : out.levels[i].frames = left.levels[i].frames
  <2>1. CASE out = left
    BY <2>1
  <2>2. CASE exact # NoState /\ out = WithPrev(left, exact, no)
    <3>1. HasFrameNo(left, no)
      BY <2>2 DEF RestoredState
    <3>2. exact \in States
      BY <1>3, <3>1, RestoreExact
    <3> HIDE DEF exact
    <3> QED
      BY <2>2, <3>2, <1>3, PrevSet DEF BufferOK, LevelsOK
  <2> QED
    BY <1>1, <2>1, <2>2
<1>5. ASSUME NEW i \in Level, NEW k \in 1 .. Size(out, i)
      PROVE  k \in 1 .. Size(buf, i) /\ No(out, i, k) = No(buf, i, k)
  <2>1. Size(out, i) = Size(left, i) /\ No(out, i, k) = No(left, i, k)
    BY <1>4 DEF Size, No
  <2>2. Size(left, i) \in 0 .. Size(buf, i) /\ Size(buf, i) \in Nat
    BY <1>2, CutBufferOK
  <2>3. left.levels[i].frames[k] = buf.levels[i].frames[k]
    <3> DEFINE frames == buf.levels[i].frames
               kept   == left.levels[i].frames
    <3>1. EachCut(left, buf, no)
      BY <1>2, CutBufferOK
    <3>2. frames \in Seq(Frame) /\ kept = KeptUpTo(frames, no)
      BY <3>1, BufferShape DEF EachCut
    <3>3. k \in 1 .. Len(kept)
      BY <1>5, <2>1 DEF Size
    <3> HIDE DEF frames, kept
    <3>4. \A l \in 1 .. Len(kept) : kept[l] = frames[l]
      BY <3>2, KeptIsPrefix
    <3>5. kept[k] = frames[k]
      BY <3>3, <3>4
    <3> QED
      BY <3>5 DEF kept, frames
  <2>4. k \in 1 .. Size(left, i) /\ k \in 1 .. Size(buf, i)
    BY <1>5, <2>1, <2>2
  <2> QED
    BY <2>1, <2>3, <2>4 DEF No
<1>6. Nos(out) = {m \in Nos(buf) : m <= no} /\ out.currentFrameNo = no /\ no \in Nos(buf)
  <2>1. Recorded(out) = {r \in Recorded(buf) : r.label <= no}
    BY TrimmingCuts
  <2>2. out.currentFrameNo = no
    BY TrimmingCuts
  <2>3. no \in {r.label : r \in Recorded(buf)}
    BY TrimmingCuts
  <2> QED
    BY <2>1, <2>2, <2>3, NosRecorded
<1>7. Nos(buf) \subseteq Nat
  BY NosAre
<1>8. ASSUME NEW p \in Level, NEW k \in 1 .. Size(out, p),
             NEW m0 \in Nos(out), No(out, p, k) < m0
      PROVE  Near(Nos(out), No(out, p, k), Spacing(p))
  <2>1. k \in 1 .. Size(buf, p) /\ No(out, p, k) = No(buf, p, k)
    BY <1>5
  <2>2. m0 \in Nos(buf) /\ m0 <= no
    BY <1>6
  <2>3. Near(Nos(buf), No(out, p, k), Spacing(p))
    BY <2>1, <2>2, <1>8 DEF Thin
  <2>4. PICK b \in Nos(buf) : No(out, p, k) < b /\ b <= No(out, p, k) + Spacing(p)
    BY <2>3 DEF Near
  <2>5. No(out, p, k) \in Nat /\ Spacing(p) \in Nat /\ b \in Nat /\ m0 \in Nat
    BY <2>2, <1>3, <1>7, BufferShape, SpacingDoubles
  <2>6. CASE b <= no
    BY <2>4, <2>6, <1>6 DEF Near
  <2>7. CASE ~(b <= no)
    <3>1. m0 <= No(out, p, k) + Spacing(p)
      BY <2>2, <2>4, <2>5, <2>7
    <3> QED
      BY <3>1, <1>8 DEF Near
  <2> QED
    BY <2>6, <2>7
<1>9. Thin(out)
  BY <1>8 DEF Thin
<1>10. no \in Nos(out)
  BY <1>6
<1> QED
  BY <1>6, <1>9, <1>10 DEF EvenOK, HasPosition

\* While a trim is under way the current label is the newest.
AtNewest == trimAt # 0 => \A m \in Nos(current) : m <= current.currentFrameNo

EvenInv == RoomInv /\ EvenOK(current) /\ EvenOK(save) /\ AtNewest

LEMMA TrimEven ==
  ASSUME SameSize, RoomForTwo, EvenInv, Trim
  PROVE  EvenOK(current') /\ AtNewest' /\ save' = save
<1>0. /\ BufferOK(current) /\ BytesOK(current) /\ BufferOK(current')
      /\ current \in BufferType /\ trimAt # 0 /\ Size(current, 1) > 0
      /\ Thin(current) /\ HasPosition(current) /\ 1 \in Level
      /\ Nos(current) \subseteq Nat /\ current.currentFrameNo \in Nat
      /\ \A m \in Nos(current) : m <= current.currentFrameNo
  <2>1. trimAt # 0
    BY LevelsAssumption DEF Trim, TrimPromote, TrimDrop, TrimNextLevel, Level
  <2>2. IInv'
    BY TrimStepOK DEF EvenInv, RoomInv, CountedInv
  <2>3. BufferOK(current) /\ BytesOK(current)
    BY DEF EvenInv, RoomInv, CountedInv, IInv
  <2>4. 1 \in Level
    BY LevelsAssumption DEF Level
  <2>5. Nos(current) \subseteq Nat
    BY <2>3, NosAre
  <2> QED
    BY <2>1, <2>2, <2>3, <2>4, <2>5
       DEF EvenInv, RoomInv, EvenOK, AtNewest, IInv, BufferOK, LevelsOK, BufferType
<1>1. save' = save
  BY DEF Trim, TrimPromote, TrimDrop, TrimNextLevel
<1>2. Thin(current')
  <2>1. CASE TrimPromote
    <3>1. /\ trimAt \in 1 .. LevelCount - 1 /\ OverBudget(trimAt)
          /\ current' = Promoted(current, trimAt)
      BY <2>1 DEF TrimPromote
    <3> DEFINE n == PromoteCount(current, trimAt)
    <3>2. trimAt \in Level /\ trimAt + 1 \in Level
      BY <3>1, LevelsAssumption DEF Level
    <3>3. /\ current.levels[trimAt].frames # << >>
          /\ current.levels[trimAt].totalBytes > Budget(trimAt)
      BY <3>1 DEF OverBudget
    <3>4. n \in 0 .. Size(current, trimAt)
      BY <3>2, <1>0, PromoteCountIs
    <3>5. trimAt = 1 => n < Size(current, 1)
      BY <3>3, <1>0, NewestNotPromoted
    <3>6. Promotes(current', current, trimAt, n)
      BY <3>1, <3>2, <3>3, <1>0, PromotedMoves
    <3> DEFINE buf == current
               out == current'
               i   == trimAt
    <3> HIDE DEF n
    <3>7. /\ BufferOK(buf) /\ BufferOK(out) /\ i \in Level /\ i + 1 \in Level
          /\ n \in 0 .. Size(buf, i) /\ Promotes(out, buf, i, n) /\ Size(buf, 1) > 0
          /\ (i = 1 => n < Size(buf, 1)) /\ Thin(buf)
      BY <3>2, <3>4, <3>5, <3>6, <1>0
    <3> HIDE DEF buf, out, i
    <3>8. Thin(out)
      BY <3>7, PromotionKeepsThin
    <3> QED
      BY <3>8 DEF out
  <2>2. CASE TrimDrop
    <3>1. trimAt = LevelCount /\ current' = DroppedOldest(current, LevelCount)
      BY <2>2 DEF TrimDrop
    <3>2. LevelCount \in Level
      BY LevelsAssumption DEF Level
    <3>3. PICK n \in 0 .. Size(current, LevelCount) : Drops(current', current, LevelCount, n)
      BY <3>1, <3>2, <1>0, DroppedMoves
    <3> DEFINE buf == current
               out == current'
    <3>4. /\ BufferOK(buf) /\ BufferOK(out) /\ n \in 0 .. Size(buf, LevelCount)
          /\ Drops(out, buf, LevelCount, n) /\ Thin(buf)
      BY <3>3, <1>0
    <3> HIDE DEF buf, out
    <3>5. Thin(out)
      BY <3>4, DroppingKeepsThin
    <3> QED
      BY <3>5 DEF out
  <2>3. CASE TrimNextLevel
    <3>1. current' = current
      BY <2>3 DEF TrimNextLevel
    <3> QED
      BY <3>1, <1>0, SameLevelsEven
  <2> QED
    BY <2>1, <2>2, <2>3 DEF Trim
<1>3. /\ Nos(current') \subseteq Nos(current) /\ current'.currentFrameNo = current.currentFrameNo
      /\ \E k \in Nos(current') : \A m \in Nos(current) : m <= k
  <2>0. /\ HistoryOf(current) = [recorded |-> Recorded(current),
                                 position |-> current.currentFrameNo]
        /\ HistoryOf(current') = [recorded |-> Recorded(current'),
                                  position |-> current'.currentFrameNo]
    BY HistoryIs
  <2>1. [History!Forget]_HistoryVars
    BY TrimForgets DEF EvenInv
  <2>2. CASE History!Forget
    <3>1. /\ Recorded(current') \subseteq Recorded(current)
          /\ \E k \in Recorded(current') : \A r \in Recorded(current) : r.label <= k.label
          /\ current'.currentFrameNo = current.currentFrameNo
      BY <2>0, <2>2 DEF History!Forget, History!MakeRoom, History!KeepsNewest
    <3> QED
      BY <3>1, NosRecorded
  <2>3. CASE UNCHANGED HistoryVars
    <3>1. HistoryOf(current') = HistoryOf(current)
      BY <2>3 DEF HistoryVars
    <3>2. Recorded(current') = Recorded(current)
      BY <3>1 DEF Recorded
    <3>3. current'.currentFrameNo = current.currentFrameNo
      BY <3>1, <2>0
    <3>4. Nos(current') = Nos(current)
      BY <3>2, NosRecorded
    <3>5. Size(current, 1) \in 1 .. Size(current, 1)
      BY <1>0, BufferShape
    <3>6. No(current, 1, Size(current, 1)) \in Nos(current)
      BY <3>5, <1>0, NosAre
    <3>7. current.currentFrameNo \in Nos(current)
      BY <3>6, <1>0 DEF HasPosition
    <3> QED
      BY <3>3, <3>4, <3>7, <1>0
  <2> QED
    BY <2>1, <2>2, <2>3
<1>4. current'.currentFrameNo \in Nos(current')
  <2>1. PICK k \in Nos(current') : \A m \in Nos(current) : m <= k
    BY <1>3
  <2>2. Size(current, 1) \in 1 .. Size(current, 1)
    BY <1>0, BufferShape
  <2>3. No(current, 1, Size(current, 1)) \in Nos(current)
    BY <2>2, <1>0, NosAre
  <2>4. current.currentFrameNo \in Nos(current)
    BY <2>3, <1>0 DEF HasPosition
  <2>5. k = current.currentFrameNo
    BY <2>1, <2>4, <1>0, <1>3
  <2> QED
    BY <2>5, <1>3
<1> QED
  BY <1>0, <1>1, <1>2, <1>3, <1>4 DEF EvenOK, HasPosition, AtNewest

LEMMA RecordEven ==
  ASSUME SameSize, EvenInv, RoomInv',
         (\E s \in States : CaptureNext(s)) \/ (\E no \in StoredNos : TrimAfterFrameNo(no))
  PROVE  EvenOK(current') /\ AtNewest' /\ save' = save
<1>0. /\ BufferOK(current) /\ current \in BufferType /\ BufferOK(current')
      /\ Thin(current) /\ HasPosition(current)
  BY DEF EvenInv, RoomInv, CountedInv, IInv, EvenOK, BufferOK, LevelsOK
<1>1. ASSUME NEW s \in States, CaptureNext(s)
      PROVE  EvenOK(current') /\ AtNewest' /\ save' = save
  <2> DEFINE no  == current.currentFrameNo + 1
             mid == WithLevel(current, 1, AppendStates(current.levels[1], << Item(s, no, s) >>))
  <2>1. /\ \A slot \in Slots(current) : FrameAt(current, slot).frame_no < no
        /\ current' = [mid EXCEPT !.currentFrameNo = no] /\ save' = save
    BY <1>1 DEF CaptureNext, Capture
  <2>2. no \in Nat /\ no - 1 = current.currentFrameNo
    BY <1>0 DEF BufferType
  <2>3. \A m \in Nos(current) : m < no
    BY <2>1 DEF Nos
  <2>4. current'.levels = mid.levels /\ current'.currentFrameNo = no
    BY <2>1, <1>0 DEF WithLevel, BufferType
  <2>5. Nos(current) = {} \/ no - 1 \in Nos(current)
    BY <2>2, <1>0 DEF HasPosition
  <2>6. EvenOK(current') /\ \A m \in Nos(current') : m <= no
    <3> DEFINE buf == current
               out == current'
               new == no
    <3>1. /\ BufferOK(buf) /\ Thin(buf) /\ BufferOK(out) /\ new \in Nat
          /\ out.levels = mid.levels /\ out.currentFrameNo = new
          /\ mid = WithLevel(buf, 1, AppendStates(buf.levels[1], << Item(s, new, s) >>))
          /\ (\A m \in Nos(buf) : m < new) /\ (Nos(buf) = {} \/ new - 1 \in Nos(buf))
      BY <1>0, <2>2, <2>3, <2>4, <2>5
    <3> HIDE DEF buf, out, mid, new
    <3>2. EvenOK(out) /\ \A m \in Nos(out) : m <= new
      BY <3>1, CaptureEven
    <3> QED
      BY <3>2 DEF out, new
  <2> HIDE DEF no, mid
  <2> QED
    BY <2>1, <2>4, <2>6 DEF AtNewest
<1>2. ASSUME NEW no \in StoredNos, TrimAfterFrameNo(no)
      PROVE  EvenOK(current') /\ AtNewest' /\ save' = save
  <2>1. /\ trimAt' = 0 /\ save' = save /\ HasFrameNo(current, no)
        /\ current' = TrimmedAfter(current, no)
    BY <1>2 DEF TrimAfterFrameNo
  <2>2. no \in Nat
    BY <1>0, NosAre DEF Nos, StoredNos
  <2>3. EvenOK(current')
    BY <2>1, <2>2, <1>0, CutEven
  <2> QED
    BY <2>1, <2>3 DEF AtNewest
<1> QED
  BY <1>1, <1>2

LEMMA PauseEven ==
  ASSUME SameSize, EvenInv, NextPause
  PROVE  EvenOK(current') /\ AtNewest' /\ save' = save
<1>0. BufferOK(current) /\ current \in BufferType /\ EvenOK(current)
  BY DEF EvenInv, RoomInv, CountedInv, IInv, BufferOK, LevelsOK
<1>1. save' = save /\ trimAt' = 0
  BY DEF NextPause, SetPaused, SetRollingPaused, RestoreFrameNo
<1>2. ASSUME NEW b \in BOOLEAN, SetPaused(b)
      PROVE  EvenOK(current')
  <2>1. current' = [current EXCEPT !.paused = b]
    BY <1>2 DEF SetPaused
  <2>2. current'.levels = current.levels /\ current'.currentFrameNo = current.currentFrameNo
    BY <2>1, <1>0 DEF BufferType
  <2> QED
    BY <2>2, <1>0, SameLevelsEven
<1>3. ASSUME NEW b \in BOOLEAN, SetRollingPaused(b)
      PROVE  EvenOK(current')
  <2>1. CASE b
    <3>1. current' = [current EXCEPT !.rollingPaused = TRUE]
      BY <1>3, <2>1 DEF SetRollingPaused
    <3>2. current'.levels = current.levels /\ current'.currentFrameNo = current.currentFrameNo
      BY <3>1, <1>0 DEF BufferType
    <3> QED
      BY <3>2, <1>0, SameLevelsEven
  <2>2. CASE ~b
    <3>1. current'.levels = EmptyBuffer.levels
      BY <1>3, <2>2 DEF SetRollingPaused, EmptyBuffer
    <3> QED
      BY <3>1, SameLevelsEven, EmptyEven DEF EvenOK, HasPosition
  <2> QED
    BY <2>1, <2>2
<1>4. ASSUME NEW no \in StoredNos, RestoreFrameNo(no)
      PROVE  EvenOK(current')
  <2>1. current' = [current EXCEPT !.currentFrameNo = no]
    BY <1>4 DEF RestoreFrameNo
  <2>2. current'.levels = current.levels /\ current'.currentFrameNo = no
    BY <2>1, <1>0 DEF BufferType
  <2>3. no \in Nos(current)
    BY DEF Nos, StoredNos
  <2> QED
    BY <2>2, <2>3, <1>0, SameLevelsEven DEF EvenOK, HasPosition
<1> QED
  BY <1>1, <1>2, <1>3, <1>4 DEF NextPause, AtNewest

LEMMA SaveEven ==
  ASSUME SameSize, EvenInv, RoomInv', NextSave
  PROVE  EvenOK(current') /\ AtNewest' /\ EvenOK(save')
<1>0. /\ BufferOK(current) /\ current \in BufferType /\ save \in BufferType
      /\ BufferOK(save') /\ EvenOK(current) /\ EvenOK(save)
  BY DEF EvenInv, RoomInv, CountedInv, IInv, BufferOK, LevelsOK
<1>1. trimAt' = 0
  BY DEF NextSave, SetSaveKeyframe, Snapshot, RestoreSnapshot
<1>2. ASSUME NEW s \in States, SetSaveKeyframe(s, current.currentFrameNo)
      PROVE  EvenOK(current') /\ EvenOK(save')
  <2> DEFINE no  == current.currentFrameNo
             mid == WithLevel(EmptyBuffer, 1,
                              AppendStates(EmptyBuffer.levels[1], << Item(s, no, s) >>))
  <2>1. EmptyBuffer.levels[1] = EmptyLevel
    BY LevelsAssumption DEF Level, EmptyBuffer
  <2>2. save' = [mid EXCEPT !.currentFrameNo = no] /\ current' = current
    BY <1>2, <2>1 DEF SetSaveKeyframe
  <2>3. no \in Nat
    BY <1>0 DEF BufferType
  <2>4. save'.levels = mid.levels /\ save'.currentFrameNo = no
    BY <2>2 DEF WithLevel, EmptyBuffer
  <2>5. EvenOK(save')
    <3> DEFINE buf == EmptyBuffer
               out == save'
               new == no
    <3>1. /\ BufferOK(buf) /\ BufferOK(out) /\ new \in Nat
          /\ out.levels = mid.levels /\ out.currentFrameNo = new
          /\ mid = WithLevel(buf, 1, AppendStates(buf.levels[1], << Item(s, new, s) >>))
          /\ Thin(buf) /\ Nos(buf) = {}
      BY <1>0, <2>3, <2>4, EmptyBufferOK, EmptyEven
    <3> HIDE DEF buf, out, mid, new
    <3>2. EvenOK(out)
      BY <3>1, CaptureEven
    <3> QED
      BY <3>2 DEF out
  <2> HIDE DEF mid
  <2> QED
    BY <2>2, <2>5, <1>0
<1>3. CASE Snapshot
  <2>1. save' = [current EXCEPT !.rollingPaused = FALSE] /\ current' = current
    BY <1>3 DEF Snapshot
  <2>2. save'.levels = current.levels /\ save'.currentFrameNo = current.currentFrameNo
    BY <2>1, <1>0 DEF BufferType
  <2>3. EvenOK(save')
    BY <2>2, <1>0, SameLevelsEven
  <2> QED
    BY <2>1, <2>3, <1>0, <1>1 DEF AtNewest
<1>4. CASE RestoreSnapshot
  <2>1. /\ current' = [save EXCEPT !.paused = current.paused,
                                   !.rollingPaused = current.rollingPaused]
        /\ save' = save
    BY <1>4 DEF RestoreSnapshot
  <2>2. current'.levels = save.levels /\ current'.currentFrameNo = save.currentFrameNo
    BY <2>1, <1>0 DEF BufferType
  <2>3. EvenOK(current')
    BY <2>2, <1>0, SameLevelsEven
  <2> QED
    BY <2>1, <2>3, <1>0, <1>1 DEF AtNewest
<1> QED
  BY <1>1, <1>2, <1>3, <1>4 DEF NextSave, AtNewest

\* However often frames are promoted, thinned and cut, the spacing of the
\* recorded states stays within what the level of each of them stands for:
\* state_buffer_promoteOldest never thins an already thinned stretch in the
\* wrong rhythm, whatever number of frames it takes and wherever it stops.
THEOREM AlwaysThinnedEvenly ==
  ASSUME SameSize, RoomForTwo
  PROVE  Spec => []ThinnedEvenly
<1>1. Init => EvenInv
  <2>1. ASSUME Init
        PROVE  EvenInv
    <3>1. RoomInv
      BY <2>1, InitOK, EmptyBytes DEF Init, CountedInv, RoomInv
    <3>2. EvenOK(EmptyBuffer)
      BY EmptyEven DEF EvenOK, HasPosition
    <3> QED
      BY <2>1, <3>1, <3>2 DEF Init, EvenInv, AtNewest
  <2> QED
    BY <2>1
<1>2. EvenInv /\ [Next]_vars => EvenInv'
  <2> SUFFICES ASSUME EvenInv, [Next]_vars
               PROVE  EvenInv'
    OBVIOUS
  <2>1. RoomInv'
    BY RoomStep DEF EvenInv
  <2>2. EvenOK(current) /\ EvenOK(save)
    BY DEF EvenInv
  <2>3. CASE Trim
    BY <2>1, <2>2, <2>3, TrimEven DEF EvenInv
  <2>4. CASE NextRecord /\ ~Trim
    <3>1. (\E s \in States : CaptureNext(s)) \/ (\E no \in StoredNos : TrimAfterFrameNo(no))
      BY <2>4 DEF NextRecord
    <3> QED
      BY <2>1, <2>2, <3>1, RecordEven DEF EvenInv
  <2>5. CASE NextPause
    BY <2>1, <2>2, <2>5, PauseEven DEF EvenInv
  <2>6. CASE NextSave
    BY <2>1, <2>6, SaveEven DEF EvenInv
  <2>7. CASE UNCHANGED vars
    BY <2>1, <2>7 DEF vars, EvenInv, AtNewest
  <2> QED
    BY <2>3, <2>4, <2>5, <2>6, <2>7 DEF Next
<1>3. EvenInv => ThinnedEvenly
  <2> SUFFICES ASSUME EvenInv, NEW a \in Slots(current),
                      NEW m0 \in StoredNos, m0 > FrameAt(current, a).frame_no
               PROVE  \E m \in StoredNos : /\ m > FrameAt(current, a).frame_no
                                           /\ m - FrameAt(current, a).frame_no <= Spacing(a[1])
    BY DEF ThinnedEvenly
  <2> DEFINE no == FrameAt(current, a).frame_no
  <2>1. BufferOK(current) /\ Thin(current)
    BY DEF EvenInv, RoomInv, CountedInv, IInv, EvenOK
  <2>2. a[1] \in Level /\ a[2] \in 1 .. Size(current, a[1]) /\ no = No(current, a[1], a[2])
    BY SlotShape
  <2>3. StoredNos = Nos(current)
    BY DEF StoredNos, Nos
  <2>4. Nos(current) \subseteq Nat /\ no \in Nos(current) /\ Spacing(a[1]) \in Nat
    BY <2>1, <2>2, NosAre, SpacingDoubles
  <2> HIDE DEF no
  <2>5. m0 \in Nos(current) /\ no < m0
    BY <2>3, <2>4 DEF no
  <2>6. Near(Nos(current), no, Spacing(a[1]))
    BY <2>1, <2>2, <2>5 DEF Thin
  <2>7. PICK m \in Nos(current) : no < m /\ m <= no + Spacing(a[1])
    BY <2>6 DEF Near
  <2>8. m > no /\ m - no <= Spacing(a[1])
    BY <2>4, <2>7
  <2> QED
    BY <2>3, <2>8 DEF no
<1> QED
  BY <1>1, <1>2, <1>3, PTL DEF Spec

=============================================================================
