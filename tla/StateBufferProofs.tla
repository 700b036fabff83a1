-------------------------- MODULE StateBufferProofs ---------------------------
(***************************************************************************)
(* Proofs about the rolling state buffer of StateBuffer.tla: for every     *)
(* number of levels, budget and set of states of one size, each stored     *)
(* frame reconstructs to the state captured under its label, the labels    *)
(* order the frames, and the byte counts are exact.                        *)
(*                                                                         *)
(* First come lemmas about frames and levels: a level is a chain in which  *)
(* each frame, or diff, leads to the state it stands for; adding to it     *)
(* and dropping its oldest frames keep it one.  The invariant is IInv.     *)
(* Each operation on a buffer has a lemma saying that it keeps BufferOK,   *)
(* each action one saying that it keeps IInv.                              *)
(***************************************************************************)
EXTENDS StateBuffer, NaturalLemmas, FiniteSetTheorems, SequenceTheorems, TLAPS

-----------------------------------------------------------------------------
(* Frames *)

\* The states all have one size, as those of a core whose state does not grow.
SameSize == \A s, t \in States : Len(s) = Len(t)

\* The bytes of a state.
StateBytes(s) == Len(s) * BlockBytes

\* A frame holds what it stands for, or blocks of it when these are smaller.
FrameOK(f) ==
  /\ f \in Frame
  /\ f.state_size = Len(f.captured)
  /\ DOMAIN f.payload \subseteq DOMAIN f.captured
  /\ f.is_keyframe => f.payload = f.captured
  /\ ~f.is_keyframe => DiffPayloadSize(f.payload) < StateBytes(f.captured)

\* The states are functions on the same interval, with blocks for values.
LEMMA StateShape ==
  ASSUME NEW s \in States
  PROVE  /\ s \in Seq(Block) /\ Len(s) \in Nat /\ Len(s) > 0
         /\ DOMAIN s = 1 .. Len(s)
         /\ DOMAIN s \subseteq BlockIndex
         /\ s = [b \in DOMAIN s |-> s[b]]
         /\ \A b \in DOMAIN s : s[b] \in Block
         /\ s \in Payload
<1>1. s \in Seq(Block) /\ s # << >>
  BY StatesAssumption
<1>2. DOMAIN s = 1 .. Len(s) /\ Len(s) \in Nat /\ Len(s) > 0
  BY <1>1
<1>3. DOMAIN s \subseteq BlockIndex
  BY DEF BlockIndex
<1>4. s = [b \in DOMAIN s |-> s[b]] /\ \A b \in DOMAIN s : s[b] \in Block
  BY <1>1
<1>5. s \in [DOMAIN s -> Block]
  BY <1>4
<1>6. s \in Payload
  BY <1>3, <1>5 DEF Payload
<1> QED
  BY <1>1, <1>2, <1>3, <1>4, <1>6

\* Applying a diff to the state it was taken against gives the other state.
LEMMA DiffExact ==
  ASSUME NEW p \in States, NEW c \in States, Len(p) = Len(c)
  PROVE  /\ [b \in DOMAIN p |-> IF b \in DOMAIN DiffPayload(p, c)
                                THEN DiffPayload(p, c)[b] ELSE p[b]] = c
         /\ DiffPayload(p, c) \in Payload
         /\ DOMAIN DiffPayload(p, c) \subseteq DOMAIN c
<1> DEFINE d == DiffPayload(p, c)
<1>1. DOMAIN p = DOMAIN c
  BY StateShape
<1>2. /\ DOMAIN d = {b \in DOMAIN c : p[b] # c[b]}
      /\ \A b \in DOMAIN d : d[b] = c[b]
  BY DEF DiffPayload
<1>3. \A b \in DOMAIN p : (IF b \in DOMAIN d THEN d[b] ELSE p[b]) = c[b]
  BY <1>1, <1>2
<1>4. c = [b \in DOMAIN c |-> c[b]]
  BY StateShape
<1>5. [b \in DOMAIN p |-> IF b \in DOMAIN d THEN d[b] ELSE p[b]] = c
  BY <1>1, <1>3, <1>4
<1>6. d \in [DOMAIN d -> Block]
  BY StateShape DEF DiffPayload
<1>7. DOMAIN d \in SUBSET BlockIndex
  BY <1>2, StateShape
<1>8. d \in Payload
  BY <1>6, <1>7 DEF Payload
<1> QED
  BY <1>2, <1>5, <1>8

\* A keyframe applied to a state of its size gives the state it holds.
LEMMA KeyframeExact ==
  ASSUME NEW f, FrameOK(f), f.is_keyframe, NEW s \in States,
         Len(s) = Len(f.captured)
  PROVE  Apply(f, s) = f.captured
<1>1. f.captured \in States /\ f.payload = f.captured
  BY DEF FrameOK, Frame
<1>2. DOMAIN s = DOMAIN f.captured
  BY <1>1, StateShape
<1>3. f.captured = [b \in DOMAIN f.captured |-> f.captured[b]]
  BY <1>1, StateShape
<1> QED
  BY <1>1, <1>2, <1>3 DEF Apply

\* What StoredFrame stores is the state, and a keyframe unless there is a
\* previous one.
LEMMA StoredFrameExact ==
  ASSUME NEW s \in States, NEW no \in Nat, NEW prev, NEW f,
         f = StoredFrame(prev, Item(s, no, s)),
         prev \in States \/ prev = NoState
  PROVE  /\ FrameOK(f)
         /\ f.captured = s /\ f.frame_no = no
         /\ prev = NoState => f.is_keyframe
         /\ prev \in States /\ Len(prev) = Len(s) => Apply(f, prev) = s
<1> DEFINE item   == Item(s, no, s)
           diff   == DiffPayload(prev, s)
           isDiff == Len(prev) = Len(s) /\ DiffPayloadSize(diff) < Len(s) * BlockBytes
<1>1. f = [frame_no |-> no, is_keyframe |-> ~isDiff, state_size |-> Len(s),
           payload |-> IF isDiff THEN diff ELSE s, captured |-> s]
  BY DEF StoredFrame, Item
<1> HIDE DEF isDiff
<1>2. isDiff \in BOOLEAN
  BY DEF isDiff
<1>3. CASE isDiff
  <2>1. prev # NoState
    BY <1>3, StateShape DEF NoState, isDiff
  <2>2. prev \in States /\ Len(prev) = Len(s)
    BY <1>3, <2>1 DEF isDiff
  <2>3. /\ diff \in Payload /\ DOMAIN diff \subseteq DOMAIN s
        /\ [b \in DOMAIN prev |-> IF b \in DOMAIN diff THEN diff[b] ELSE prev[b]] = s
    BY <2>2, DiffExact
  <2>4. f = [frame_no |-> no, is_keyframe |-> FALSE, state_size |-> Len(s),
             payload |-> diff, captured |-> s]
    BY <1>1, <1>3
  <2>5. f \in Frame
    BY <2>3, <2>4, StateShape DEF Frame
  <2>6. Apply(f, prev) = s
    BY <2>3, <2>4 DEF Apply
  <2>7. DiffPayloadSize(diff) < StateBytes(s)
    BY <1>3 DEF isDiff, StateBytes
  <2> QED
    BY <2>1, <2>3, <2>4, <2>5, <2>6, <2>7 DEF FrameOK
<1>4. CASE ~isDiff
  <2>1. f = [frame_no |-> no, is_keyframe |-> TRUE, state_size |-> Len(s),
             payload |-> s, captured |-> s]
    BY <1>1, <1>4
  <2>2. f \in Frame
    BY <2>1, StateShape DEF Frame
  <2>3. FrameOK(f)
    BY <2>1, <2>2 DEF FrameOK
  <2>4. prev \in States /\ Len(prev) = Len(s) => Apply(f, prev) = s
    BY <2>1, <2>3, KeyframeExact
  <2> QED
    BY <2>1, <2>3, <2>4
<1> QED
  BY <1>3, <1>4

-----------------------------------------------------------------------------
(* Reconstruction *)

\* The frames of a level: the first is a keyframe, and each of the others leads
\* from the state of the one before it to its own.
Chain(frames) ==
  /\ frames \in Seq(Frame)
  /\ \A k \in 1 .. Len(frames) : FrameOK(frames[k])
  /\ frames # << >> => frames[1].is_keyframe
  /\ \A k \in 2 .. Len(frames) :
       Apply(frames[k], frames[k - 1].captured) = frames[k].captured

\* Replaying goes frame by frame, whatever the frames hold.
LEMMA ReplayStep ==
  ASSUME NEW frames, NEW k \in Nat, NEW n \in Nat, k <= n
  PROVE  \A i \in k .. n : Replay(frames, k, n)[i] =
           IF i = k THEN frames[k].payload
           ELSE Apply(frames[i], Replay(frames, k, n)[i - 1])
<1> DEFINE Step(w, i) == IF i = k THEN frames[k].payload ELSE Apply(frames[i], w[i - 1])
           Sol(w, m)  == w = [i \in k .. m |-> Step(w, i)]
           Without    == {m \in k .. n : ~\E w : Sol(w, m)}
           r          == Replay(frames, k, n)
<1>1. Without = {}
  <2> SUFFICES ASSUME Without # {} PROVE FALSE
    OBVIOUS
  <2>1. Without \in SUBSET Nat
    OBVIOUS
  <2>2. PICK m \in Without : \A l \in Without : ~(l < m)
    BY <2>1, LeastMember
  <2>3. CASE m = k
    <3>1. Sol([i \in k .. k |-> frames[k].payload], k)
      OBVIOUS
    <3> HIDE DEF Sol
    <3> QED
      BY <3>1, <2>2, <2>3
  <2>4. CASE m # k
    <3>1. m \in k .. n /\ m - 1 \in k .. n /\ m - 1 < m
      BY <2>2, <2>4
    <3>2. PICK f : Sol(f, m - 1)
      BY <3>1, <2>2
    <3> DEFINE h == [i \in k .. m |-> IF i < m THEN f[i] ELSE Apply(frames[m], f[m - 1])]
    <3>3. \A i \in k .. m : h[i] = Step(h, i)
      <4> SUFFICES ASSUME NEW i \in k .. m
                   PROVE  h[i] = Step(h, i)
        OBVIOUS
      <4>1. i # k => i - 1 \in k .. m /\ i - 1 < m
        BY <3>1
      <4>2. i # k => h[i - 1] = f[i - 1]
        BY <4>1
      <4>3. CASE i < m
        <5>1. i \in k .. m - 1
          BY <3>1, <4>3
        <5>2. f[i] = Step(f, i)
          BY <3>2, <5>1
        <5> QED
          BY <4>2, <4>3, <5>2
      <4>4. CASE ~(i < m)
        <5>1. i = m /\ i # k
          BY <4>4, <3>1, <2>4
        <5> QED
          BY <5>1, <4>2
      <4> QED
        BY <4>3, <4>4
    <3>4. h = [i \in k .. m |-> h[i]]
      OBVIOUS
    <3> HIDE DEF h
    <3>5. Sol(h, m)
      BY <3>3, <3>4
    <3> HIDE DEF Sol
    <3> QED
      BY <3>5, <2>2
  <2> QED
    BY <2>3, <2>4
<1>2. \E w : Sol(w, n)
  <2>1. n \in k .. n
    OBVIOUS
  <2> HIDE DEF Sol
  <2> QED
    BY <1>1, <2>1
<1>3. r = CHOOSE w : Sol(w, n)
  BY DEF Replay
<1>4. Sol(r, n)
  <2> HIDE DEF Sol, r
  <2> QED
    BY <1>2, <1>3
<1> HIDE DEF r
<1> DEFINE e == [i \in k .. n |-> Step(r, i)]
<1>5. r = e /\ \A i \in k .. n : e[i] = Step(r, i)
  BY <1>4
<1> HIDE DEF e
<1>6. \A i \in k .. n : r[i] = Step(r, i)
  BY <1>5
<1> QED
  BY <1>6 DEF r

\* Replaying a chain from a keyframe gives the state of each frame in turn.
LEMMA ReplayExact ==
  ASSUME NEW frames, Chain(frames), NEW n \in 1 .. Len(frames), NEW k \in 1 .. n,
         frames[k].is_keyframe
  PROVE  \A i \in k .. n : Replay(frames, k, n)[i] = frames[i].captured
<1> DEFINE r   == Replay(frames, k, n)
           Bad == {i \in k .. n : r[i] # frames[i].captured}
<1>0. Len(frames) \in Nat /\ n \in Nat /\ k \in Nat /\ k <= n
  BY DEF Chain
<1>1. \A i \in k .. n : r[i] = IF i = k THEN frames[k].payload
                               ELSE Apply(frames[i], r[i - 1])
  BY <1>0, ReplayStep
<1> HIDE DEF r
<1> SUFFICES ASSUME Bad # {}
             PROVE  FALSE
  BY DEF r
<1>2. Bad \in SUBSET Nat
  BY <1>0
<1>3. PICK i \in Bad : \A j \in Bad : ~(j < i)
  BY <1>2, LeastMember
<1>4. i \in k .. n /\ r[i] # frames[i].captured
  BY <1>3
<1>5. i # k
  BY <1>0, <1>1, <1>4 DEF Chain, FrameOK
<1>6. i \in 2 .. Len(frames) /\ i - 1 \in k .. n /\ i - 1 < i
  BY <1>0, <1>4, <1>5
<1>7. r[i - 1] = frames[i - 1].captured
  BY <1>3, <1>6
<1> QED
  BY <1>1, <1>4, <1>5, <1>6, <1>7 DEF Chain

\* The keyframe a reconstruction starts from exists.
LEMMA KeyIndexIs ==
  ASSUME NEW frames, Len(frames) \in Nat, NEW idx \in 1 .. Len(frames), frames[1].is_keyframe
  PROVE  KeyIndex(frames, idx) \in 1 .. idx /\ frames[KeyIndex(frames, idx)].is_keyframe
<1>0. idx \in Nat
  OBVIOUS
<1> DEFINE T == {k \in 1 .. idx : frames[k].is_keyframe}
<1>1. T \in SUBSET (0 .. idx) /\ 1 \in T
  BY <1>0
<1>2. PICK m \in T : \A k \in T : k <= m
  BY <1>0, <1>1, GreatestMember
<1>3. \A j \in m + 1 .. idx : ~frames[j].is_keyframe
  <2> TAKE j \in m + 1 .. idx
  <2>1. j \in 1 .. idx /\ ~(j <= m)
    BY <1>0, <1>2
  <2> QED
    BY <2>1, <1>2
<1>4. \E k \in 1 .. idx : /\ k = 1 \/ frames[k].is_keyframe
                          /\ \A j \in k + 1 .. idx : ~frames[j].is_keyframe
  BY <1>2, <1>3
<1>5. /\ KeyIndex(frames, idx) \in 1 .. idx
      /\ KeyIndex(frames, idx) = 1 \/ frames[KeyIndex(frames, idx)].is_keyframe
  BY <1>4 DEF KeyIndex
<1> QED
  BY <1>0, <1>5

\* In a chain of states of one size every frame is reconstructed exactly.
LEMMA ReconstructExact ==
  ASSUME SameSize, NEW frames, Chain(frames), NEW idx \in 1 .. Len(frames)
  PROVE  /\ CanReconstruct(frames, idx)
         /\ Reconstruct(frames, idx) = frames[idx].captured
         /\ Reconstruct(frames, idx) \in States
<1> DEFINE k == KeyIndex(frames, idx)
<1>0. Len(frames) \in Nat /\ idx \in Nat
  BY DEF Chain
<1>1. k \in 1 .. idx /\ frames[k].is_keyframe
  BY <1>0, KeyIndexIs DEF Chain
<1> HIDE DEF k
<1>2. \A j \in 1 .. Len(frames) :
        frames[j].captured \in States /\ frames[j].state_size = Len(frames[j].captured)
  BY DEF Chain, FrameOK, Frame
<1>3. \A j \in k .. idx : frames[j].state_size = frames[k].state_size
  <2> TAKE j \in k .. idx
  <2>1. j \in 1 .. Len(frames) /\ k \in 1 .. Len(frames)
    BY <1>0, <1>1
  <2> QED
    BY <2>1, <1>2 DEF SameSize
<1>4. CanReconstruct(frames, idx)
  BY <1>1, <1>3 DEF CanReconstruct, k
<1>5. Replay(frames, k, idx)[idx] = frames[idx].captured
  BY <1>0, <1>1, ReplayExact
<1>6. Reconstruct(frames, idx) = frames[idx].captured
  BY <1>4, <1>5 DEF Reconstruct, k
<1> QED
  BY <1>2, <1>4, <1>6

-----------------------------------------------------------------------------
(* Sums of bytes *)

\* The size of the payload of a frame is a number, as the blocks are finitely
\* many, and at most the size of the state.
LEMMA PayloadSizeType ==
  ASSUME NEW f, FrameOK(f)
  PROVE  /\ PayloadSize(f) \in Nat
         /\ StateBytes(f.captured) \in Nat
         /\ PayloadSize(f) <= StateBytes(f.captured)
<1>1. f.captured \in States /\ f.state_size = Len(f.captured) /\ f.is_keyframe \in BOOLEAN
  BY DEF FrameOK, Frame
<1>2. DOMAIN f.captured = 1 .. Len(f.captured) /\ Len(f.captured) \in Nat
  BY <1>1, StateShape
<1>3. DOMAIN f.payload \in SUBSET (1 .. Len(f.captured))
  BY <1>2 DEF FrameOK
<1>4. IsFiniteSet(1 .. Len(f.captured))
  BY <1>2, FS_Interval
<1>5. Cardinality(DOMAIN f.payload) \in Nat
  BY <1>3, <1>4, FS_Subset, FS_CardinalityType
<1> DEFINE c == Cardinality(DOMAIN f.payload)
<1>6. PayloadSize(f) = IF f.is_keyframe THEN f.state_size * BlockBytes
                       ELSE DiffHeaderBytes + DiffEntryBytes * c
  BY DEF PayloadSize, DiffPayloadSize
<1> HIDE DEF c
<1>7. f.state_size \in Nat /\ c \in Nat
  BY <1>1, <1>2, <1>5 DEF c
<1>8. f.state_size * BlockBytes \in Nat /\ DiffHeaderBytes + DiffEntryBytes * c \in Nat
  BY <1>7, SizesAssumption
<1>9. StateBytes(f.captured) = f.state_size * BlockBytes
  BY <1>1 DEF StateBytes
<1>10. ~f.is_keyframe => DiffHeaderBytes + DiffEntryBytes * c < StateBytes(f.captured)
  BY DEF FrameOK, DiffPayloadSize, c
<1> QED
  BY <1>6, <1>8, <1>9, <1>10

\* The sizes of the first n frames.
Sizes(frames, n) == [i \in 1 .. n |-> PayloadSize(frames[i])]

Sized(frames, n) == \A i \in 1 .. n : PayloadSize(frames[i]) \in Nat

\* The bytes of the prefixes are the running sum of the sizes.
LEMMA PrefixBytesSum ==
  ASSUME NEW frames, NEW n \in Nat, Sized(frames, n)
  PROVE  \E s : /\ Sums(s, n, Sizes(frames, n))
                /\ \A m \in 0 .. n : PrefixBytes(frames, m) = s[m]
<1>1. Sizes(frames, n) \in [1 .. n -> Int]
  BY DEF Sizes, Sized
<1>2. PICK s : Sums(s, n, Sizes(frames, n))
  BY <1>1, SumExists
<1>3. ASSUME NEW m \in 0 .. n
      PROVE  PrefixBytes(frames, m) = s[m]
  <2> DEFINE d      == Sizes(frames, m)
             Eqn(f) == f = [i \in 0 .. m |-> IF i = 0 THEN 0
                                             ELSE f[i - 1] + PayloadSize(frames[i])]
             w      == CHOOSE f : Eqn(f)
  <2>1. PrefixBytes(frames, m) = w[m]
    BY DEF PrefixBytes
  <2>2. m \in Nat /\ d \in [1 .. m -> Int] /\ \A i \in 1 .. m : d[i] = PayloadSize(frames[i])
    BY DEF Sizes, Sized
  <2>3. ASSUME NEW f
        PROVE  Eqn(f) <=> f = [i \in 0 .. m |-> IF i = 0 THEN 0 ELSE f[i - 1] + d[i]]
    <3>1. \A i \in 0 .. m : i # 0 => i \in 1 .. m
      OBVIOUS
    <3> HIDE DEF d
    <3> QED
      BY <2>2, <3>1
  <2>4. PICK t : Sums(t, m, d)
    BY <2>2, SumExists
  <2>5. Eqn(t)
    <3>1. t = [i \in 0 .. m |-> IF i = 0 THEN 0 ELSE t[i - 1] + d[i]]
      BY <2>2, <2>4, SumIsSolution
    <3> QED
      BY <2>3, <3>1
  <2>6. Eqn(w)
    <3> HIDE DEF Eqn
    <3> QED
      BY <2>5
  <2> HIDE DEF w
  <2>7. Sums(w, m, d)
    <3>1. w = [i \in 0 .. m |-> IF i = 0 THEN 0 ELSE w[i - 1] + d[i]]
      BY <2>3, <2>6
    <3> HIDE DEF d
    <3> QED
      BY <2>2, <3>1, SolutionIsSum
  <2>8. \A i \in 1 .. m : Sizes(frames, n)[i] = d[i]
    BY <2>2 DEF Sizes
  <2>9. m \in 0 .. m
    OBVIOUS
  <2> HIDE DEF d
  <2> QED
    BY <2>1, <2>7, <2>8, <2>9, <1>2, SumUnique
<1> QED
  BY <1>2, <1>3

\* The bytes of a prefix are a number, at most the bytes of a longer one; no
\* frames have no bytes; and one more frame adds its own.
LEMMA PrefixBytesType ==
  ASSUME NEW frames, NEW n \in Nat, Sized(frames, n)
  PROVE  /\ PrefixBytes(frames, n) \in Nat
         /\ PrefixBytes(frames, 0) = 0
         /\ \A m \in 0 .. n :
              PrefixBytes(frames, m) \in Nat /\ PrefixBytes(frames, m) <= PrefixBytes(frames, n)
         /\ \A m \in 1 .. n : PrefixBytes(frames, m)
                                = PrefixBytes(frames, m - 1) + PayloadSize(frames[m])
<1>1. PICK s : /\ Sums(s, n, Sizes(frames, n))
               /\ \A m \in 0 .. n : PrefixBytes(frames, m) = s[m]
  BY PrefixBytesSum
<1>2. \A i \in 1 .. n : Sizes(frames, n)[i] = PayloadSize(frames[i])
  BY DEF Sizes
<1>3. \A i \in 1 .. n : Sizes(frames, n)[i] \in Nat
  BY <1>2 DEF Sized
<1>4. \A m \in 0 .. n : \A j \in 0 .. m : s[j] <= s[m]
  BY <1>1, <1>3, SumGrows
<1>5. s[0] = 0 /\ \A m \in 0 .. n : s[m] \in Int
  BY <1>1 DEF Sums
<1>6. \A m \in 0 .. n : s[m] \in Nat /\ s[m] <= s[n]
  <2> TAKE m \in 0 .. n
  <2>1. 0 \in 0 .. m /\ n \in 0 .. n
    OBVIOUS
  <2>2. s[0] <= s[m] /\ s[m] <= s[n]
    BY <2>1, <1>4
  <2> QED
    BY <2>2, <1>5
<1>7. \A m \in 1 .. n : s[m] = s[m - 1] + PayloadSize(frames[m])
  BY <1>1, <1>2 DEF Sums
<1>8. 0 \in 0 .. n /\ n \in 0 .. n /\ \A m \in 1 .. n : m \in 0 .. n /\ m - 1 \in 0 .. n
  OBVIOUS
<1> QED
  BY <1>1, <1>5, <1>6, <1>7, <1>8

\* f has after a the sizes that g has after b, m of them.
SameSizes(f, a, g, b, m) == \A i \in 1 .. m : PayloadSize(f[a + i]) = PayloadSize(g[b + i])

\* Runs of frames of the same sizes have the same bytes, wherever they begin.
LEMMA SameBytes ==
  ASSUME NEW f, NEW a \in Nat, NEW p \in Nat, a <= p, Sized(f, p),
         NEW g, NEW b \in Nat, NEW q \in Nat, b <= q, Sized(g, q),
         p - a = q - b, SameSizes(f, a, g, b, p - a)
  PROVE  PrefixBytes(f, p) - PrefixBytes(f, a) = PrefixBytes(g, q) - PrefixBytes(g, b)
<1> DEFINE m == p - a
<1>1. PICK s : /\ Sums(s, p, Sizes(f, p))
               /\ \A k \in 0 .. p : PrefixBytes(f, k) = s[k]
  BY PrefixBytesSum
<1>2. PICK t : /\ Sums(t, q, Sizes(g, q))
               /\ \A k \in 0 .. q : PrefixBytes(g, k) = t[k]
  BY PrefixBytesSum
<1>3. m \in Nat /\ a + m = p /\ b + m = q /\ a + m <= p /\ b + m <= q
  OBVIOUS
<1>4. SameRun(Sizes(f, p), a, Sizes(g, q), b, m)
  <2>1. \A i \in 1 .. m : a + i \in 1 .. p /\ b + i \in 1 .. q
    OBVIOUS
  <2>2. \A i \in 1 .. m : PayloadSize(f[a + i]) = PayloadSize(g[b + i])
    BY DEF SameSizes
  <2> QED
    BY <2>1, <2>2 DEF Sizes, SameRun
<1> HIDE DEF m
<1>5. s[a + m] - s[a] = t[b + m] - t[b]
  BY <1>1, <1>2, <1>3, <1>4, SumsAgree
<1>6. a \in 0 .. p /\ p \in 0 .. p /\ b \in 0 .. q /\ q \in 0 .. q
  OBVIOUS
<1> QED
  BY <1>1, <1>2, <1>3, <1>5, <1>6

\* Prefixes of the same sizes have the same bytes.
LEMMA SamePrefixBytes ==
  ASSUME NEW f, NEW g, NEW m \in Nat, Sized(f, m), SameSizes(f, 0, g, 0, m)
  PROVE  PrefixBytes(f, m) = PrefixBytes(g, m)
<1>1. Sized(g, m)
  <2>1. \A i \in 1 .. m : 0 + i = i
    OBVIOUS
  <2> QED
    BY <2>1 DEF Sized, SameSizes
<1>2. 0 \in Nat /\ 0 <= m /\ m - 0 = m
  OBVIOUS
<1>3. PrefixBytes(f, m) - PrefixBytes(f, 0) = PrefixBytes(g, m) - PrefixBytes(g, 0)
  BY <1>1, <1>2, SameBytes
<1>4. PrefixBytes(f, m) \in Nat /\ PrefixBytes(g, m) \in Nat
      /\ PrefixBytes(f, 0) = 0 /\ PrefixBytes(g, 0) = 0
  BY <1>1, PrefixBytesType
<1> QED
  BY <1>3, <1>4

\* The levels of two buffers all have a size.
Weighed(from, to) ==
  \A i \in Level : from[i].totalBytes \in Int /\ to[i].totalBytes \in Int

Changes(from, to) == [i \in Level |-> to[i].totalBytes - from[i].totalBytes]

\* The change of size of the levels is a running sum as well.
LEMMA SizeChangeSum ==
  ASSUME NEW from, NEW to, Weighed(from, to), NEW s, Sums(s, LevelCount, Changes(from, to))
  PROVE  SizeChange(from, to) = s[LevelCount]
<1> DEFINE d      == Changes(from, to)
           Eqn(f) == f = [i \in 0 .. LevelCount |->
                            IF i = 0 THEN 0
                            ELSE f[i - 1] + to[i].totalBytes - from[i].totalBytes]
           w      == CHOOSE f : Eqn(f)
<1>0. LevelCount \in Nat
  BY LevelsAssumption
<1>1. SizeChange(from, to) = w[LevelCount]
  BY DEF SizeChange
<1>2. d \in [1 .. LevelCount -> Int]
      /\ \A i \in 1 .. LevelCount : d[i] = to[i].totalBytes - from[i].totalBytes
  BY DEF Changes, Weighed, Level
<1> HIDE DEF d
<1>3. s = [i \in 0 .. LevelCount |->
             IF i = 0 THEN 0 ELSE s[i - 1] + to[i].totalBytes - from[i].totalBytes]
  <2>1. Sums(s, LevelCount, d)
    BY DEF d
  <2>2. \A i \in 0 .. LevelCount :
          s[i] = IF i = 0 THEN 0 ELSE s[i - 1] + to[i].totalBytes - from[i].totalBytes
    <3> SUFFICES ASSUME NEW i \in 0 .. LevelCount, i # 0
                 PROVE  s[i] = s[i - 1] + to[i].totalBytes - from[i].totalBytes
      BY <2>1 DEF Sums
    <3>1. i \in 1 .. LevelCount /\ i - 1 \in 0 .. LevelCount
      BY <1>0
    <3>2. s[i] = s[i - 1] + (to[i].totalBytes - from[i].totalBytes) /\ s[i - 1] \in Int
      BY <2>1, <3>1, <1>2 DEF Sums
    <3>3. to[i].totalBytes \in Int /\ from[i].totalBytes \in Int
      BY <3>1 DEF Weighed, Level
    <3> QED
      BY <3>2, <3>3
  <2>3. s = [i \in 0 .. LevelCount |-> s[i]]
    BY <2>1 DEF Sums
  <2> QED
    BY <2>2, <2>3
<1>4. Eqn(w)
  <2>1. Eqn(s)
    BY <1>3
  <2> HIDE DEF Eqn
  <2> QED
    BY <2>1
<1> HIDE DEF w
<1> DEFINE e == [i \in 0 .. LevelCount |-> IF i = 0 THEN 0
                   ELSE w[i - 1] + to[i].totalBytes - from[i].totalBytes]
<1>5. w = e /\ DOMAIN w = 0 .. LevelCount
  BY <1>4
<1>6. \A i \in 0 .. LevelCount :
        w[i] = IF i = 0 THEN 0 ELSE w[i - 1] + to[i].totalBytes - from[i].totalBytes
  <2>1. \A i \in 0 .. LevelCount :
          e[i] = IF i = 0 THEN 0 ELSE w[i - 1] + to[i].totalBytes - from[i].totalBytes
    OBVIOUS
  <2> HIDE DEF e
  <2> QED
    BY <2>1, <1>5
<1> DEFINE Bad == {i \in 0 .. LevelCount : w[i] # s[i]}
<1>7. Bad = {}
  <2> SUFFICES ASSUME Bad # {} PROVE FALSE
    OBVIOUS
  <2>1. Bad \in SUBSET Nat
    OBVIOUS
  <2>2. PICK i \in Bad : \A j \in Bad : ~(j < i)
    BY <2>1, LeastMember
  <2>3. \A j \in 0 .. LevelCount :
          s[j] = IF j = 0 THEN 0 ELSE s[j - 1] + to[j].totalBytes - from[j].totalBytes
    <3> DEFINE g == [j \in 0 .. LevelCount |->
                       IF j = 0 THEN 0 ELSE s[j - 1] + to[j].totalBytes - from[j].totalBytes]
    <3>1. s = g /\ \A j \in 0 .. LevelCount : g[j] =
             IF j = 0 THEN 0 ELSE s[j - 1] + to[j].totalBytes - from[j].totalBytes
      BY <1>3
    <3> HIDE DEF g
    <3> QED
      BY <3>1
  <2>4. i \in 0 .. LevelCount /\ w[i] # s[i]
    BY <2>2
  <2>5. i # 0
    BY <2>3, <2>4, <1>6
  <2>6. i - 1 \in 0 .. LevelCount /\ i - 1 < i
    BY <2>4, <2>5, <1>0
  <2>7. w[i - 1] = s[i - 1]
    BY <2>2, <2>6
  <2> QED
    BY <2>3, <2>4, <2>5, <2>7, <1>6
<1> QED
  BY <1>0, <1>1, <1>7

LEMMA ChangesExist ==
  ASSUME NEW from, NEW to, Weighed(from, to)
  PROVE  \E s : Sums(s, LevelCount, Changes(from, to))
<1>1. Changes(from, to) \in [1 .. LevelCount -> Int] /\ LevelCount \in Nat
  BY LevelsAssumption DEF Changes, Weighed, Level
<1> QED
  BY <1>1, SumExists

LEMMA SizeChangeType ==
  ASSUME NEW from, NEW to, Weighed(from, to)
  PROVE  SizeChange(from, to) \in Int
<1>1. PICK s : Sums(s, LevelCount, Changes(from, to))
  BY ChangesExist
<1>2. s[LevelCount] \in Int
  BY <1>1, LevelsAssumption DEF Sums
<1> QED
  BY <1>1, <1>2, SizeChangeSum

\* Changes of size that follow each other add up.
LEMMA SizeChangeAdds ==
  ASSUME NEW from, NEW via, NEW to, Weighed(from, via), Weighed(via, to)
  PROVE  SizeChange(from, to) = SizeChange(from, via) + SizeChange(via, to)
<1>0. LevelCount \in Nat /\ Weighed(from, to)
  BY LevelsAssumption DEF Weighed
<1>1. PICK s : Sums(s, LevelCount, Changes(from, via))
  BY ChangesExist
<1>2. PICK t : Sums(t, LevelCount, Changes(via, to))
  BY ChangesExist
<1> DEFINE u == [i \in 0 .. LevelCount |-> s[i] + t[i]]
<1>3. \A i \in 1 .. LevelCount :
        /\ from[i].totalBytes \in Int /\ via[i].totalBytes \in Int /\ to[i].totalBytes \in Int
        /\ Changes(from, via)[i] = via[i].totalBytes - from[i].totalBytes
        /\ Changes(via, to)[i] = to[i].totalBytes - via[i].totalBytes
        /\ Changes(from, to)[i] = to[i].totalBytes - from[i].totalBytes
  BY <1>0 DEF Changes, Weighed, Level
<1>4. \A i \in 0 .. LevelCount : s[i] \in Int /\ t[i] \in Int
  BY <1>1, <1>2 DEF Sums
<1>5. u \in [0 .. LevelCount -> Int] /\ u[0] = 0
  <2>1. s[0] = 0 /\ t[0] = 0 /\ 0 \in 0 .. LevelCount
    BY <1>0, <1>1, <1>2 DEF Sums
  <2> QED
    BY <1>4, <2>1
<1>6. ASSUME NEW i \in 1 .. LevelCount
      PROVE  u[i] = u[i - 1] + Changes(from, to)[i] /\ Changes(from, to)[i] \in Int
  <2>1. i \in 0 .. LevelCount /\ i - 1 \in 0 .. LevelCount
    BY <1>0
  <2>2. u[i] = s[i] + t[i] /\ u[i - 1] = s[i - 1] + t[i - 1]
    BY <2>1
  <2>3. s[i] = s[i - 1] + (via[i].totalBytes - from[i].totalBytes)
    BY <1>1, <1>3 DEF Sums
  <2>4. t[i] = t[i - 1] + (to[i].totalBytes - via[i].totalBytes)
    BY <1>2, <1>3 DEF Sums
  <2>5. /\ s[i - 1] \in Int /\ t[i - 1] \in Int
        /\ from[i].totalBytes \in Int /\ via[i].totalBytes \in Int /\ to[i].totalBytes \in Int
    BY <2>1, <1>3, <1>4
  <2>6. Changes(from, to)[i] = to[i].totalBytes - from[i].totalBytes
    BY <1>3
  <2> HIDE DEF u
  <2> QED
    BY <2>2, <2>3, <2>4, <2>5, <2>6
<1> HIDE DEF u
<1>7. Sums(u, LevelCount, Changes(from, to))
  BY <1>5, <1>6 DEF Sums
<1>8. u[LevelCount] = s[LevelCount] + t[LevelCount]
  BY <1>0 DEF u
<1> QED
  BY <1>0, <1>1, <1>2, <1>7, <1>8, SizeChangeSum

\* When one level changes, the change of size is that of the level.
LEMMA SizeChangeOne ==
  ASSUME NEW from, NEW to, Weighed(from, to), NEW i \in Level,
         \A j \in Level : j # i => to[j] = from[j]
  PROVE  SizeChange(from, to) = to[i].totalBytes - from[i].totalBytes
<1>0. LevelCount \in Nat /\ i \in 1 .. LevelCount
  BY LevelsAssumption DEF Level
<1> DEFINE d == to[i].totalBytes - from[i].totalBytes
           s == [j \in 0 .. LevelCount |-> IF j < i THEN 0 ELSE d]
<1>1. d \in Int
  BY DEF Weighed
<1>2. \A j \in 1 .. LevelCount : Changes(from, to)[j] = IF j = i THEN d ELSE 0
  <2> TAKE j \in 1 .. LevelCount
  <2>1. j \in Level /\ Changes(from, to)[j] = to[j].totalBytes - from[j].totalBytes
        /\ from[j].totalBytes \in Int
    BY DEF Changes, Level, Weighed
  <2>2. j # i => to[j].totalBytes = from[j].totalBytes
    BY <2>1
  <2> HIDE DEF d
  <2>3. CASE j = i
    BY <2>1, <2>3 DEF d
  <2>4. CASE j # i
    BY <2>1, <2>2, <2>4
  <2> QED
    BY <2>3, <2>4
<1> HIDE DEF d
<1>3. s \in [0 .. LevelCount -> Int] /\ s[0] = 0 /\ s[LevelCount] = d
  BY <1>0, <1>1
<1>4. \A j \in 1 .. LevelCount : s[j] = s[j - 1] + Changes(from, to)[j]
                                 /\ Changes(from, to)[j] \in Int
  BY <1>0, <1>1, <1>2
<1> HIDE DEF s
<1>5. Sums(s, LevelCount, Changes(from, to))
  BY <1>3, <1>4 DEF Sums
<1> QED
  BY <1>3, <1>5, SizeChangeSum DEF d

-----------------------------------------------------------------------------
(* Levels *)

\* What a diff is taken against is the state of the last frame.
PrevOK(lvl) ==
  lvl.frames # << >> => lvl.prevState = lvl.frames[Len(lvl.frames)].captured

LevelOK(lvl) == lvl \in LevelType /\ Chain(lvl.frames) /\ PrevOK(lvl)

\* The items given to a level hold the states they stand for.
ItemsOK(items) ==
  /\ items \in Seq([state : States, frame_no : Nat, captured : States])
  /\ \A j \in 1 .. Len(items) :
       items[j] = Item(items[j].state, items[j].frame_no, items[j].state)

\* Appending keeps a level a chain, and adds the labels and the states of the items.
LEMMA AppendExact ==
  ASSUME SameSize, NEW lvl, LevelOK(lvl), NEW items, ItemsOK(items), NEW out,
         out = AppendStates(lvl, items)
  PROVE  /\ LevelOK(out)
         /\ Len(out.frames) = Len(lvl.frames) + Len(items)
         /\ \A k \in 1 .. Len(lvl.frames) : out.frames[k] = lvl.frames[k]
         /\ \A j \in 1 .. Len(items) :
              /\ out.frames[Len(lvl.frames) + j].frame_no = items[j].frame_no
              /\ out.frames[Len(lvl.frames) + j].captured = items[j].state
<1> DEFINE frames  == lvl.frames
           prev(j) == IF j > 1 THEN items[j - 1].state
                      ELSE IF frames = << >> THEN NoState ELSE lvl.prevState
           new     == [j \in 1 .. Len(items) |-> StoredFrame(prev(j), items[j])]
<1>0. Len(frames) \in Nat /\ Len(items) \in Nat /\ frames \in Seq(Frame)
  BY DEF LevelOK, Chain, ItemsOK
<1>1. /\ out.frames = frames \o new
      /\ out.prevState = IF items = << >> THEN lvl.prevState ELSE items[Len(items)].state
  BY DEF AppendStates
<1>2. \A j \in 1 .. Len(items) :
        /\ items[j].state \in States /\ items[j].frame_no \in Nat
        /\ items[j] = Item(items[j].state, items[j].frame_no, items[j].state)
  <2> TAKE j \in 1 .. Len(items)
  <2>1. items[j] \in [state : States, frame_no : Nat, captured : States]
    BY ElementOfSeq DEF ItemsOK
  <2> QED
    BY <2>1 DEF ItemsOK
<1>3. \A k \in 1 .. Len(frames) : frames[k].captured \in States
  BY DEF LevelOK, Chain, FrameOK, Frame
<1>4. /\ frames # << >> => prev(1) = frames[Len(frames)].captured /\ prev(1) \in States
      /\ frames = << >> => prev(1) = NoState
  <2>1. frames # << >> => Len(frames) \in 1 .. Len(frames)
    BY <1>0
  <2> QED
    BY <2>1, <1>3 DEF LevelOK, PrevOK
<1>5. \A j \in 2 .. Len(items) : prev(j) = items[j - 1].state /\ prev(j) \in States
  BY <1>0, <1>2
<1> HIDE DEF prev
<1>6. \A j \in 1 .. Len(items) :
        /\ FrameOK(new[j])
        /\ new[j].captured = items[j].state /\ new[j].frame_no = items[j].frame_no
        /\ prev(j) = NoState => new[j].is_keyframe
        /\ prev(j) \in States => Apply(new[j], prev(j)) = items[j].state
  <2> TAKE j \in 1 .. Len(items)
  <2>1. prev(j) \in States \/ prev(j) = NoState
    BY <1>0, <1>4, <1>5
  <2>2. new[j] = StoredFrame(prev(j), Item(items[j].state, items[j].frame_no, items[j].state))
    BY <1>2
  <2>3. prev(j) \in States => Len(prev(j)) = Len(items[j].state)
    BY <1>2 DEF SameSize
  <2> HIDE DEF new
  <2> QED
    BY <2>1, <2>2, <2>3, <1>2, StoredFrameExact
<1>7. new \in Seq(Frame) /\ Len(new) = Len(items)
  <2>1. \A j \in 1 .. Len(items) : new[j] \in Frame
    BY <1>6 DEF FrameOK
  <2>2. new \in [1 .. Len(items) -> Frame]
    BY <2>1
  <2> QED
    BY <2>2, <1>0
<1> HIDE DEF new
<1>8. /\ out.frames \in Seq(Frame)
      /\ Len(out.frames) = Len(frames) + Len(items)
      /\ \A k \in 1 .. Len(frames) : out.frames[k] = frames[k]
      /\ \A j \in 1 .. Len(items) : out.frames[Len(frames) + j] = new[j]
  <2>1. /\ out.frames \in Seq(Frame)
        /\ Len(out.frames) = Len(frames) + Len(items)
        /\ \A i \in 1 .. Len(frames) + Len(items) : out.frames[i] =
             IF i <= Len(frames) THEN frames[i] ELSE new[i - Len(frames)]
    <3>1. frames \in Seq(Frame) /\ new \in Seq(Frame) /\ out.frames = frames \o new
      BY <1>0, <1>1, <1>7
    <3>2. Len(new) = Len(items)
      BY <1>7
    <3>3. /\ frames \o new \in Seq(Frame)
          /\ Len(frames \o new) = Len(frames) + Len(new)
          /\ \A i \in 1 .. Len(frames) + Len(new) : (frames \o new)[i] =
               IF i <= Len(frames) THEN frames[i] ELSE new[i - Len(frames)]
      BY <3>1, ConcatProperties
    <3> HIDE DEF frames
    <3> QED
      BY <3>1, <3>2, <3>3, Zenon
  <2>2. \A k \in 1 .. Len(frames) :
          k \in 1 .. Len(frames) + Len(items) /\ k <= Len(frames)
    BY <1>0
  <2>3. \A j \in 1 .. Len(items) :
          /\ Len(frames) + j \in 1 .. Len(frames) + Len(items)
          /\ ~(Len(frames) + j <= Len(frames))
          /\ (Len(frames) + j) - Len(frames) = j
    BY <1>0
  <2> QED
    BY <2>1, <2>2, <2>3
<1>9. \A k \in 1 .. Len(out.frames) :
        \/ k \in 1 .. Len(frames)
        \/ \E j \in 1 .. Len(items) : k = Len(frames) + j
  <2> TAKE k \in 1 .. Len(out.frames)
  <2>1. CASE k > Len(frames)
    <3>1. k - Len(frames) \in 1 .. Len(items) /\ k = Len(frames) + (k - Len(frames))
      BY <2>1, <1>0, <1>8
    <3> QED
      BY <3>1
  <2>2. CASE ~(k > Len(frames))
    BY <2>2, <1>0, <1>8
  <2> QED
    BY <2>1, <2>2
<1>10. \A k \in 1 .. Len(out.frames) : FrameOK(out.frames[k])
  <2> TAKE k \in 1 .. Len(out.frames)
  <2>1. CASE k \in 1 .. Len(frames)
    BY <2>1, <1>8 DEF LevelOK, Chain
  <2>2. CASE \E j \in 1 .. Len(items) : k = Len(frames) + j
    BY <2>2, <1>6, <1>8
  <2> QED
    BY <2>1, <2>2, <1>9
<1>11. out.frames # << >> => out.frames[1].is_keyframe
  <2>1. CASE frames = << >>
    <3>1. out.frames # << >> => 1 \in 1 .. Len(items) /\ Len(frames) + 1 = 1
      BY <1>0, <1>8, <2>1
    <3> QED
      BY <3>1, <2>1, <1>4, <1>6, <1>8
  <2>2. CASE frames # << >>
    <3>1. 1 \in 1 .. Len(frames)
      BY <1>0, <2>2
    <3> QED
      BY <3>1, <2>2, <1>8 DEF LevelOK, Chain
  <2> QED
    BY <2>1, <2>2
<1>12. \A k \in 2 .. Len(out.frames) :
         Apply(out.frames[k], out.frames[k - 1].captured) = out.frames[k].captured
  <2> TAKE k \in 2 .. Len(out.frames)
  <2>0. k \in 1 .. Len(out.frames) /\ k \in Nat /\ k >= 2
    BY <1>0, <1>8
  <2>1. CASE k \in 1 .. Len(frames)
    <3>1. k \in 2 .. Len(frames) /\ k - 1 \in 1 .. Len(frames)
      BY <2>0, <2>1, <1>0
    <3> QED
      BY <3>1, <2>1, <1>8 DEF LevelOK, Chain
  <2>2. CASE \E j \in 1 .. Len(items) : k = Len(frames) + j
    <3>1. PICK j \in 1 .. Len(items) : k = Len(frames) + j
      BY <2>2
    <3>2. out.frames[k] = new[j] /\ new[j].captured = items[j].state
      BY <3>1, <1>6, <1>8
    <3>3. out.frames[k - 1].captured = prev(j) /\ prev(j) \in States
      <4>1. CASE j = 1
        <5>1. k - 1 = Len(frames) /\ Len(frames) \in 1 .. Len(frames) /\ frames # << >>
          BY <4>1, <3>1, <2>0, <1>0
        <5> QED
          BY <5>1, <4>1, <1>4, <1>8
      <4>2. CASE j # 1
        <5>1. j \in 2 .. Len(items) /\ j - 1 \in 1 .. Len(items)
              /\ k - 1 = Len(frames) + (j - 1)
          BY <4>2, <3>1, <1>0
        <5>2. out.frames[k - 1] = new[j - 1]
          BY <5>1, <1>8
        <5>3. new[j - 1].captured = items[j - 1].state
          BY <5>1, <1>6
        <5> QED
          BY <5>1, <5>2, <5>3, <1>5
      <4> QED
        BY <4>1, <4>2
    <3> QED
      BY <3>1, <3>2, <3>3, <1>6
  <2> QED
    BY <2>0, <2>1, <2>2, <1>9
<1>13. PrevOK(out)
  <2>1. CASE items = << >>
    <3>1. Len(items) = 0
      BY <2>1
    <3>2. Len(out.frames) = Len(frames) /\ out.prevState = lvl.prevState
      BY <3>1, <2>1, <1>0, <1>1, <1>8
    <3>3. out.frames # << >> => frames # << >> /\ Len(frames) \in 1 .. Len(frames)
      BY <3>2, <1>0, <1>8
    <3> QED
      BY <3>2, <3>3, <1>8 DEF LevelOK, PrevOK
  <2>2. CASE items # << >>
    <3>1. Len(items) \in 1 .. Len(items)
      BY <2>2, <1>0 DEF ItemsOK
    <3> QED
      BY <3>1, <2>2, <1>1, <1>6, <1>8 DEF PrevOK
  <2> QED
    BY <2>1, <2>2
<1>14. out \in LevelType
  <2>1. out = [frames |-> frames \o new,
               totalBytes |-> lvl.totalBytes + PrefixBytes(new, Len(new)),
               prevState |-> IF items = << >> THEN lvl.prevState
                             ELSE items[Len(items)].state]
    BY DEF AppendStates, new, prev
  <2>2. lvl.totalBytes \in Int /\ lvl.prevState \in States \cup {NoState}
    BY DEF LevelOK, LevelType
  <2>3. PrefixBytes(new, Len(new)) \in Int
    BY <1>0, <1>6, <1>7, PayloadSizeType, PrefixBytesType DEF Sized
  <2>4. items # << >> => items[Len(items)].state \in States
    <3>1. items # << >> => Len(items) \in 1 .. Len(items)
      BY <1>0 DEF ItemsOK
    <3> QED
      BY <3>1, <1>2
  <2> QED
    BY <2>1, <2>2, <2>3, <2>4, <1>0, <1>7, ConcatProperties DEF LevelType
<1> QED
  BY <1>6, <1>8, <1>10, <1>11, <1>12, <1>13, <1>14 DEF LevelOK, Chain

\* The labels and the states of what was appended, by themselves.
LEMMA AppendLabels ==
  ASSUME SameSize, NEW lvl, LevelOK(lvl), NEW items, ItemsOK(items), NEW out,
         out = AppendStates(lvl, items)
  PROVE  /\ \A j \in 1 .. Len(items) :
              out.frames[Len(lvl.frames) + j].frame_no = items[j].frame_no
         /\ \A j \in 1 .. Len(items) :
              out.frames[Len(lvl.frames) + j].captured = items[j].state
<1>1. \A j \in 1 .. Len(items) :
        /\ out.frames[Len(lvl.frames) + j].frame_no = items[j].frame_no
        /\ out.frames[Len(lvl.frames) + j].captured = items[j].state
  BY AppendExact
<1> QED
  BY <1>1

\* Appending one item adds its label.
LEMMA AppendOne ==
  ASSUME SameSize, NEW lvl, LevelOK(lvl), NEW s \in States, NEW no \in Nat, NEW out,
         out = AppendStates(lvl, << Item(s, no, s) >>)
  PROVE  /\ LevelOK(out)
         /\ Len(out.frames) = Len(lvl.frames) + 1
         /\ \A k \in 1 .. Len(lvl.frames) : out.frames[k] = lvl.frames[k]
         /\ out.frames[Len(lvl.frames) + 1].frame_no = no
         /\ out.frames[Len(lvl.frames) + 1].captured = s
<1> DEFINE items == << Item(s, no, s) >>
<1>1. ItemsOK(items) /\ Len(items) = 1 /\ items[1].frame_no = no /\ items[1].state = s
  BY DEF ItemsOK, Item
<1>2. out = AppendStates(lvl, items)
  OBVIOUS
<1> HIDE DEF items
<1>3. LevelOK(out)
  BY <1>1, <1>2, AppendExact
<1>4. Len(out.frames) = Len(lvl.frames) + Len(items)
  BY <1>1, <1>2, AppendExact
<1>5. \A k \in 1 .. Len(lvl.frames) : out.frames[k] = lvl.frames[k]
  BY <1>1, <1>2, AppendExact
<1>6. \A j \in 1 .. Len(items) : out.frames[Len(lvl.frames) + j].frame_no = items[j].frame_no
  BY <1>1, <1>2, AppendLabels
<1>7. \A j \in 1 .. Len(items) : out.frames[Len(lvl.frames) + j].captured = items[j].state
  BY <1>1, <1>2, AppendLabels
<1>8. 1 \in 1 .. Len(items)
  BY <1>1
<1> QED
  BY <1>1, <1>3, <1>4, <1>5, <1>6, <1>7, <1>8

\* Making a frame a keyframe changes no other, and not what it stands for.
LEMMA ConvertKeeps ==
  ASSUME SameSize, NEW frames, Chain(frames), NEW n \in Nat, n < Len(frames), NEW c,
         c = ConvertNewOldest(frames, n)
  PROVE  /\ c \in Seq(Frame) /\ Len(c) = Len(frames)
         /\ \A k \in 1 .. Len(frames) :
              /\ k # n + 1 => c[k] = frames[k]
              /\ FrameOK(c[k])
              /\ c[k].frame_no = frames[k].frame_no /\ c[k].captured = frames[k].captured
         /\ c[n + 1].is_keyframe
<1>0. frames \in Seq(Frame) /\ Len(frames) \in Nat /\ n + 1 \in 1 .. Len(frames)
  BY DEF Chain
<1>1. /\ \A k \in 1 .. Len(frames) : FrameOK(frames[k])
      /\ frames[1].is_keyframe
      /\ \A k \in 2 .. Len(frames) : Apply(frames[k], frames[k - 1].captured) = frames[k].captured
  BY <1>0 DEF Chain
<1>2. \A k \in 1 .. Len(frames) :
        /\ frames[k] \in Frame /\ frames[k].captured \in States
        /\ frames[k].state_size = Len(frames[k].captured)
        /\ DOMAIN frames[k].payload \subseteq DOMAIN frames[k].captured
  BY <1>1 DEF FrameOK, Frame
<1>3. Replay(frames, 1, n + 1)[n + 1] = frames[n + 1].captured
  <2>1. 1 \in 1 .. n + 1 /\ n + 1 \in 1 .. n + 1
    BY <1>0
  <2> QED
    BY <2>1, <1>0, <1>1, ReplayExact
<1>4. frames[n + 1].state_size = frames[1].state_size
  <2>1. 1 \in 1 .. Len(frames)
    BY <1>0
  <2> QED
    BY <2>1, <1>0, <1>2 DEF SameSize
<1>5. CASE frames[n + 1].is_keyframe
  <2>1. c = frames
    BY <1>5 DEF ConvertNewOldest
  <2> QED
    BY <2>1, <1>5, <1>0, <1>1
<1>6. CASE ~frames[n + 1].is_keyframe
  <2> DEFINE fr == [frames[n + 1] EXCEPT !.payload = frames[n + 1].captured,
                                         !.is_keyframe = TRUE]
  <2>1. c = [frames EXCEPT ![n + 1].payload = frames[n + 1].captured,
                           ![n + 1].is_keyframe = TRUE]
    BY <1>6, <1>3, <1>4 DEF ConvertNewOldest
  <2>2. c = [frames EXCEPT ![n + 1] = fr]
    BY <2>1, <1>0
  <2>3. /\ frames[n + 1] \in Frame /\ frames[n + 1].captured \in States
        /\ frames[n + 1].captured \in Payload
        /\ frames[n + 1].state_size = Len(frames[n + 1].captured)
    BY <1>0, <1>2, StateShape
  <2>4. /\ fr \in Frame /\ fr.is_keyframe /\ fr.frame_no = frames[n + 1].frame_no
        /\ fr.captured = frames[n + 1].captured /\ fr.payload = fr.captured
        /\ fr.state_size = Len(fr.captured)
    BY <2>3 DEF Frame
  <2>5. FrameOK(fr)
    BY <2>4 DEF FrameOK
  <2> HIDE DEF fr
  <2>6. /\ c \in Seq(Frame) /\ Len(c) = Len(frames)
        /\ \A k \in 1 .. Len(frames) : c[k] = IF k = n + 1 THEN fr ELSE frames[k]
    BY <2>2, <2>4, <1>0, ExceptSeq
  <2> QED
    BY <2>4, <2>5, <2>6, <1>0, <1>1
<1> QED
  BY <1>5, <1>6

\* Dropping the first n frames of a level keeps the others, and a chain.
LEMMA DropExact ==
  ASSUME SameSize, NEW lvl, LevelOK(lvl), NEW n \in Nat, n < Len(lvl.frames), NEW out,
         out = DropConverted(lvl, n)
  PROVE  /\ LevelOK(out)
         /\ Len(out.frames) = Len(lvl.frames) - n
         /\ \A k \in 1 .. Len(out.frames) :
              /\ out.frames[k].frame_no = lvl.frames[n + k].frame_no
              /\ out.frames[k].captured = lvl.frames[n + k].captured
<1> DEFINE frames == lvl.frames
           c      == ConvertNewOldest(frames, n)
<1>0. frames \in Seq(Frame) /\ Len(frames) \in Nat /\ n + 1 \in 1 .. Len(frames)
  BY DEF LevelOK, Chain
<1>1. /\ \A k \in 1 .. Len(frames) : FrameOK(frames[k])
      /\ \A k \in 2 .. Len(frames) : Apply(frames[k], frames[k - 1].captured) = frames[k].captured
  BY <1>0 DEF LevelOK, Chain
<1>5. /\ c \in Seq(Frame) /\ Len(c) = Len(frames)
      /\ \A k \in 1 .. Len(frames) :
           /\ k # n + 1 => c[k] = frames[k]
           /\ FrameOK(c[k])
           /\ c[k].frame_no = frames[k].frame_no /\ c[k].captured = frames[k].captured
      /\ c[n + 1].is_keyframe
  <2>1. Chain(frames) /\ n < Len(frames) /\ c = ConvertNewOldest(frames, n)
    BY DEF LevelOK
  <2> HIDE DEF c, frames
  <2> QED
    BY <2>1, ConvertKeeps
<1>6. \A k \in n + 2 .. Len(frames) : Apply(c[k], c[k - 1].captured) = c[k].captured
  <2> TAKE k \in n + 2 .. Len(frames)
  <2>1. k \in 2 .. Len(frames) /\ k \in 1 .. Len(frames) /\ k - 1 \in 1 .. Len(frames)
        /\ k # n + 1
    BY <1>0
  <2> HIDE DEF c
  <2>2. c[k] = frames[k] /\ c[k - 1].captured = frames[k - 1].captured
    BY <2>1, <1>5
  <2> QED
    BY <2>1, <2>2, <1>1
<1>7. /\ out.frames = SubSeq(c, n + 1, Len(c))
      /\ out.prevState = lvl.prevState
      /\ out.totalBytes = lvl.totalBytes - PayloadSize(frames[n + 1])
                            + PayloadSize(c[n + 1]) - PrefixBytes(frames, n)
      /\ out = [frames |-> out.frames, totalBytes |-> out.totalBytes,
                prevState |-> out.prevState]
  BY DEF DropConverted, LevelOK, LevelType
<1> HIDE DEF c
<1>8. /\ out.frames \in Seq(Frame) /\ Len(out.frames) = Len(frames) - n
      /\ \A k \in 1 .. Len(out.frames) : n + k \in 1 .. Len(frames) /\ out.frames[k] = c[n + k]
  <2>1. \A i \in n + 1 .. Len(c) : c[i] \in Frame
    BY <1>0, <1>5, ElementOfSeq
  <2>2. /\ SubSeq(c, n + 1, Len(c)) \in Seq(Frame)
        /\ Len(SubSeq(c, n + 1, Len(c))) = Len(c) - (n + 1) + 1
        /\ \A i \in 1 .. Len(c) - (n + 1) + 1 :
             SubSeq(c, n + 1, Len(c))[i] = c[(n + 1) + i - 1]
    BY <2>1, <1>0, <1>5, SubSeqProperties
  <2>3. Len(c) - (n + 1) + 1 = Len(frames) - n
    BY <1>0, <1>5
  <2>4. \A k \in 1 .. Len(frames) - n : n + k \in 1 .. Len(frames) /\ (n + 1) + k - 1 = n + k
    BY <1>0
  <2> QED
    BY <2>2, <2>3, <2>4, <1>7
<1>9. Chain(out.frames)
  <2>1. \A k \in 1 .. Len(out.frames) : FrameOK(out.frames[k])
    BY <1>5, <1>8
  <2>2. out.frames[1].is_keyframe
    <3>1. 1 \in 1 .. Len(out.frames)
      BY <1>0, <1>8
    <3> QED
      BY <3>1, <1>5, <1>8
  <2>3. \A k \in 2 .. Len(out.frames) :
          Apply(out.frames[k], out.frames[k - 1].captured) = out.frames[k].captured
    <3> TAKE k \in 2 .. Len(out.frames)
    <3>1. /\ k \in 1 .. Len(out.frames) /\ k - 1 \in 1 .. Len(out.frames)
          /\ n + k \in n + 2 .. Len(frames) /\ n + (k - 1) = (n + k) - 1
      BY <1>0, <1>8
    <3> QED
      BY <3>1, <1>6, <1>8
  <2> QED
    BY <2>1, <2>2, <2>3, <1>8 DEF Chain
<1>10. PrevOK(out)
  <2>1. /\ Len(out.frames) \in 1 .. Len(out.frames) /\ n + Len(out.frames) = Len(frames)
        /\ Len(frames) \in 1 .. Len(frames) /\ frames # << >>
    BY <1>0, <1>8
  <2>2. out.frames[Len(out.frames)].captured = frames[Len(frames)].captured
    BY <2>1, <1>5, <1>8
  <2> QED
    BY <2>1, <2>2, <1>7 DEF PrevOK, LevelOK
<1>11. out \in LevelType
  <2>1. /\ PayloadSize(frames[n + 1]) \in Int /\ PayloadSize(c[n + 1]) \in Int
    <3>1. n + 1 \in 1 .. Len(frames)
      BY <1>0
    <3>2. FrameOK(frames[n + 1])
      BY <3>1, <1>0, <1>1 DEF Chain
    <3>3. FrameOK(c[n + 1])
      BY <3>1, <1>5
    <3> QED
      BY <3>2, <3>3, PayloadSizeType
  <2>2. Sized(frames, n)
    BY <1>0, <1>1, PayloadSizeType DEF Sized
  <2>3. PrefixBytes(frames, n) \in Int
    BY <2>2, PrefixBytesType
  <2>4. lvl.totalBytes \in Int /\ lvl.prevState \in States \cup {NoState}
    BY DEF LevelOK, LevelType
  <2>5. out.totalBytes \in Int
    BY <2>1, <2>3, <2>4, <1>7
  <2> QED
    BY <2>4, <2>5, <1>7, <1>8 DEF LevelType
<1>12. LevelOK(out)
  BY <1>9, <1>10, <1>11 DEF LevelOK
<1>13. \A k \in 1 .. Len(out.frames) :
         /\ out.frames[k].frame_no = frames[n + k].frame_no
         /\ out.frames[k].captured = frames[n + k].captured
  <2> TAKE k \in 1 .. Len(out.frames)
  <2>1. n + k \in 1 .. Len(frames) /\ out.frames[k] = c[n + k]
    BY <1>0, <1>8
  <2> QED
    BY <2>1, <1>5
<1> QED
  BY <1>8, <1>12, <1>13

\* A set of the first indexes has at most as many members as there are indexes.
LEMMA PrefixCount ==
  ASSUME NEW n \in Nat, NEW T \in SUBSET (1 .. n)
  PROVE  Cardinality(T) \in 0 .. n
<1>1. IsFiniteSet(1 .. n) /\ Cardinality(1 .. n) = n
  BY FS_Interval
<1>2. IsFiniteSet(T) /\ Cardinality(T) <= n
  BY <1>1, FS_Subset
<1>3. Cardinality(T) \in Nat
  BY <1>2, FS_CardinalityType
<1> QED
  BY <1>2, <1>3

\* What KeptUpTo keeps is the longest prefix of frames that are all up to the label.
LEMMA KeptIsPrefix ==
  ASSUME NEW S, NEW frames \in Seq(S), NEW no, NEW kept, kept = KeptUpTo(frames, no)
  PROVE  /\ kept \in Seq(S) /\ Len(kept) \in 0 .. Len(frames)
         /\ \A k \in 1 .. Len(kept) : kept[k] = frames[k] /\ frames[k].frame_no <= no
         /\ \A k \in 1 .. Len(frames) :
              (\A j \in 1 .. k : frames[j].frame_no <= no) => k <= Len(kept)
<1> DEFINE T == {k \in 1 .. Len(frames) : \A j \in 1 .. k : frames[j].frame_no <= no}
           n == Cardinality(T)
<1>0. Len(frames) \in Nat
  OBVIOUS
<1>1. n \in 0 .. Len(frames)
  BY <1>0, PrefixCount
<1>2. kept = SubSeq(frames, 1, n)
  BY DEF KeptUpTo
<1>3. \A k \in 1 .. n : frames[k].frame_no <= no
  <2>1. CASE T = {}
    <3>1. n = 0
      BY <2>1, FS_EmptySet
    <3> QED
      BY <3>1
  <2>2. CASE T # {}
    <3>1. T \in SUBSET (0 .. Len(frames))
      OBVIOUS
    <3>2. PICK m \in T : \A k \in T : k <= m
      BY <3>1, <2>2, <1>0, GreatestMember
    <3>3. m \in 1 .. Len(frames) /\ \A j \in 1 .. m : frames[j].frame_no <= no
      BY <3>2
    <3>4. T \in SUBSET (1 .. m)
      BY <3>2
    <3> HIDE DEF T
    <3>5. n \in 0 .. m
      BY <3>3, <3>4, PrefixCount
    <3> HIDE DEF n
    <3> QED
      BY <3>3, <3>5
  <2> QED
    BY <2>1, <2>2
<1>a. ASSUME NEW k \in 1 .. Len(frames), \A j \in 1 .. k : frames[j].frame_no <= no
      PROVE  k <= n
  <2>1. k \in Nat /\ (1 .. k) \subseteq T
    BY <1>a, <1>0
  <2>2. T \subseteq 1 .. Len(frames)
    OBVIOUS
  <2> HIDE DEF T
  <2>3. IsFiniteSet(T)
    <3>1. IsFiniteSet(1 .. Len(frames))
      BY <1>0, FS_Interval
    <3> QED
      BY <2>2, <3>1, FS_Subset
  <2>4. Cardinality(1 .. k) <= n
    BY <2>1, <2>3, FS_Subset
  <2>5. Cardinality(1 .. k) = k
    <3>1. 1 \in Int /\ k \in Int /\ k >= 1
      BY <2>1
    <3> QED
      BY <3>1, FS_Interval
  <2> QED
    BY <2>4, <2>5
<1> HIDE DEF T, n
<1>4. /\ kept \in Seq(S) /\ Len(kept) = n
      /\ \A k \in 1 .. n : kept[k] = frames[k]
  <2>1. \A k \in 1 .. n : frames[k] \in S
    BY <1>0, <1>1, ElementOfSeq
  <2>2. /\ SubSeq(frames, 1, n) \in Seq(S)
        /\ Len(SubSeq(frames, 1, n)) = IF 1 <= n THEN n - 1 + 1 ELSE 0
        /\ \A k \in 1 .. n - 1 + 1 : SubSeq(frames, 1, n)[k] = frames[1 + k - 1]
    BY <2>1, <1>1, SubSeqProperties
  <2> QED
    BY <2>2, <1>1, <1>2
<1> QED
  BY <1>1, <1>3, <1>4, <1>a

\* A prefix of a chain is a chain.
LEMMA PrefixChain ==
  ASSUME NEW frames, Chain(frames), NEW n \in 0 .. Len(frames), NEW kept \in Seq(Frame),
         Len(kept) = n, \A k \in 1 .. n : kept[k] = frames[k]
  PROVE  Chain(kept)
<1>0. Len(frames) \in Nat
  BY DEF Chain
<1>1. \A k \in 1 .. n : FrameOK(kept[k])
  BY <1>0 DEF Chain
<1>2. kept # << >> => kept[1].is_keyframe
  <2>1. kept # << >> => 1 \in 1 .. n /\ frames # << >>
    BY <1>0
  <2> QED
    BY <2>1 DEF Chain
<1>3. \A k \in 2 .. n : Apply(kept[k], kept[k - 1].captured) = kept[k].captured
  <2> TAKE k \in 2 .. n
  <2>1. k \in 1 .. n /\ k - 1 \in 1 .. n /\ k \in 2 .. Len(frames)
    BY <1>0
  <2> QED
    BY <2>1 DEF Chain
<1> QED
  BY <1>1, <1>2, <1>3 DEF Chain

\* The items promoted from a chain hold the states their frames stand for.
LEMMA PromotedExact ==
  ASSUME NEW frames, Chain(frames), NEW n \in 0 .. Len(frames), NEW items,
         items = PromotedItems(frames, n)
  PROVE  /\ ItemsOK(items)
         /\ \A j \in 1 .. Len(items) :
              2 * j - 1 \in 1 .. n /\ items[j].frame_no = frames[2 * j - 1].frame_no
         /\ \A j \in 1 .. Len(items) : items[j].state = frames[2 * j - 1].captured
         /\ Len(items) = (n + 1) \div 2 /\ Len(items) \in Nat
         /\ n > 0 => Len(items) > 0
<1>0. frames \in Seq(Frame) /\ Len(frames) \in Nat /\ n \in Nat
  BY DEF Chain
<1> DEFINE h       == (n + 1) \div 2
           item(j) == Item(Replay(frames, 1, n)[2*j - 1], frames[2*j - 1].frame_no,
                           frames[2*j - 1].captured)
<1>1. h \in Nat /\ 2 * h <= n + 1 /\ (n > 0 => h > 0)
  BY <1>0
<1>2. items = [j \in 1 .. h |-> item(j)]
  BY DEF PromotedItems
<1>3. \A j \in 1 .. h : 2 * j - 1 \in 1 .. n
  BY <1>0, <1>1
<1>4. \A j \in 1 .. h :
        /\ item(j).state = frames[2*j - 1].captured
        /\ item(j) = Item(frames[2*j - 1].captured, frames[2*j - 1].frame_no,
                          frames[2*j - 1].captured)
        /\ frames[2*j - 1].captured \in States /\ frames[2*j - 1].frame_no \in Nat
  <2> TAKE j \in 1 .. h
  <2> DEFINE i == 2 * j - 1
  <2>1. i \in 1 .. n /\ i \in 1 .. Len(frames) /\ n \in 1 .. Len(frames) /\ 1 \in 1 .. n
    BY <1>0, <1>3
  <2> HIDE DEF i
  <2>2. frames[1].is_keyframe
    BY <2>1 DEF Chain
  <2>3. Replay(frames, 1, n)[i] = frames[i].captured
    BY <2>1, <2>2, ReplayExact
  <2>4. frames[i].captured \in States /\ frames[i].frame_no \in Nat
    BY <2>1 DEF Chain, FrameOK, Frame
  <2> QED
    BY <2>3, <2>4 DEF Item, i
<1> HIDE DEF item
<1>5. \A j \in 1 .. h : items[j] = item(j)
  BY <1>2
<1>6. \A j \in 1 .. h :
        items[j] = Item(items[j].state, items[j].frame_no, items[j].state)
        /\ items[j] \in [state : States, frame_no : Nat, captured : States]
        /\ items[j].frame_no = frames[2*j - 1].frame_no
        /\ items[j].state = frames[2*j - 1].captured
  <2> TAKE j \in 1 .. h
  <2> DEFINE c == frames[2*j - 1].captured
             l == frames[2*j - 1].frame_no
  <2>1. items[j] = Item(c, l, c) /\ c \in States /\ l \in Nat
    BY <1>4, <1>5
  <2> HIDE DEF c, l
  <2>2. items[j].state = c /\ items[j].frame_no = l
    BY <2>1 DEF Item
  <2> QED
    BY <2>1, <2>2 DEF Item, c, l
<1>7. items \in Seq([state : States, frame_no : Nat, captured : States]) /\ Len(items) = h
  <2> DEFINE S == [state : States, frame_no : Nat, captured : States]
  <2>1. items \in [1 .. h -> S]
    BY <1>2, <1>5, <1>6
  <2>2. h \in Nat
    BY <1>1
  <2> HIDE DEF h, S
  <2>3. items \in Seq(S) /\ Len(items) = h
    BY <2>1, <2>2
  <2> QED
    BY <2>3 DEF S
<1> QED
  BY <1>1, <1>3, <1>6, <1>7 DEF ItemsOK

-----------------------------------------------------------------------------
(* The byte count of a level *)

\* The count of a level is the bytes of its frames.
BytesCounted(lvl) == lvl.totalBytes = PrefixBytes(lvl.frames, Len(lvl.frames))

\* The frames of a chain all have a size.
LEMMA ChainSized ==
  ASSUME NEW frames, Chain(frames)
  PROVE  /\ Len(frames) \in Nat
         /\ \A n \in 0 .. Len(frames) : Sized(frames, n)
         /\ \A n \in 0 .. Len(frames) : PrefixBytes(frames, n) \in Nat
<1>1. Len(frames) \in Nat
  BY LenProperties DEF Chain
<1>2. \A k \in 1 .. Len(frames) : PayloadSize(frames[k]) \in Nat
  BY PayloadSizeType DEF Chain
<1>3. \A n \in 0 .. Len(frames) : n \in Nat /\ Sized(frames, n)
  BY <1>1, <1>2 DEF Sized
<1> QED
  BY <1>1, <1>3, PrefixBytesType

\* Appending keeps the count.
LEMMA AppendCounted ==
  ASSUME SameSize, NEW lvl, LevelOK(lvl), BytesCounted(lvl), NEW items, ItemsOK(items), NEW out,
         out = AppendStates(lvl, items)
  PROVE  BytesCounted(out)
<1> DEFINE frames  == lvl.frames
           prev(j) == IF j > 1 THEN items[j - 1].state
                      ELSE IF frames = << >> THEN NoState ELSE lvl.prevState
           new     == [j \in 1 .. Len(items) |-> StoredFrame(prev(j), items[j])]
           n       == Len(frames)
           m       == Len(items)
<1>1. /\ out.frames = frames \o new
      /\ out.totalBytes = lvl.totalBytes + PrefixBytes(new, Len(new))
  BY DEF AppendStates
<1>2. m \in Nat /\ n \in Nat /\ frames \in Seq(Frame)
  BY LenProperties DEF ItemsOK, LevelOK, Chain
<1>3. LevelOK(out)
  BY AppendExact
<1>4. Len(out.frames) = n + m /\ \A k \in 1 .. n : out.frames[k] = frames[k]
  BY AppendExact
<1> HIDE DEF prev
<1>5. Len(new) = m
  BY <1>2
<1>6. \A j \in 1 .. m : out.frames[n + j] = new[j]
  <2> DEFINE S == {new[j] : j \in 1 .. m}
  <2>1. frames \in Seq(Frame \cup S)
    <3>1. frames \in [1 .. n -> Frame]
      BY <1>2
    <3>2. frames \in [1 .. n -> Frame \cup S]
      BY <3>1
    <3> HIDE DEF S
    <3> QED
      BY <3>2, <1>2
  <2>2. new \in Seq(Frame \cup S)
    <3>1. new \in [1 .. m -> Frame \cup S]
      OBVIOUS
    <3> HIDE DEF S, new
    <3> QED
      BY <3>1, <1>2
  <2> HIDE DEF S, new
  <2>3. \A i \in 1 .. Len(frames) + Len(new) : (frames \o new)[i] =
          IF i <= Len(frames) THEN frames[i] ELSE new[i - Len(frames)]
    BY <2>1, <2>2, ConcatProperties
  <2>4. \A j \in 1 .. m : /\ n + j \in 1 .. Len(frames) + Len(new)
                          /\ ~(n + j <= Len(frames)) /\ (n + j) - Len(frames) = j
    BY <1>2, <1>5
  <2> QED
    BY <2>3, <2>4, <1>1
<1> HIDE DEF new
<1>7. Sized(out.frames, n + m) /\ PrefixBytes(out.frames, n) \in Nat
  <2>1. Chain(out.frames) /\ n + m \in 0 .. Len(out.frames) /\ n \in 0 .. Len(out.frames)
    BY <1>2, <1>3, <1>4 DEF LevelOK
  <2> QED
    BY <2>1, ChainSized
<1>8. Sized(new, m)
  <2>1. \A k \in 1 .. n + m : PayloadSize(out.frames[k]) \in Nat
    BY <1>7 DEF Sized
  <2>2. \A j \in 1 .. m : n + j \in 1 .. n + m
    BY <1>2
  <2> HIDE DEF n, m
  <2>3. \A j \in 1 .. m : PayloadSize(new[j]) \in Nat
    BY <1>6, <2>1, <2>2
  <2> QED
    BY <2>3 DEF Sized
<1>9. PrefixBytes(out.frames, n) = PrefixBytes(frames, n)
  <2>1. SameSizes(out.frames, 0, frames, 0, n)
    <3>1. \A k \in 1 .. n : 0 + k = k
      BY <1>2
    <3> QED
      BY <3>1, <1>4 DEF SameSizes
  <2>2. Sized(out.frames, n)
    BY <1>2, <1>7 DEF Sized
  <2> HIDE DEF n, frames
  <2> QED
    BY <2>1, <2>2, <1>2, SamePrefixBytes
<1>10. PrefixBytes(out.frames, n + m) - PrefixBytes(out.frames, n)
         = PrefixBytes(new, m) - PrefixBytes(new, 0)
  <2> DEFINE p == n + m
  <2>1. SameSizes(out.frames, n, new, 0, m)
    <3>1. \A j \in 1 .. m : 0 + j = j
      BY <1>2
    <3> QED
      BY <3>1, <1>6 DEF SameSizes
  <2>2. p \in Nat /\ p - n = m /\ n <= p /\ 0 \in Nat /\ 0 <= m /\ m - 0 = m
    BY <1>2
  <2>3. Sized(out.frames, p)
    BY <1>7
  <2> HIDE DEF n, m, p
  <2>4. PrefixBytes(out.frames, p) - PrefixBytes(out.frames, n)
         = PrefixBytes(new, m) - PrefixBytes(new, 0)
    BY <1>2, <1>8, <2>1, <2>2, <2>3, SameBytes
  <2> QED
    BY <2>4 DEF p
<1>11. PrefixBytes(new, 0) = 0 /\ PrefixBytes(new, m) \in Nat
       /\ PrefixBytes(out.frames, n + m) \in Nat
  BY <1>2, <1>7, <1>8, PrefixBytesType
<1>12. lvl.totalBytes = PrefixBytes(frames, n)
  BY DEF BytesCounted
<1> QED
  BY <1>1, <1>2, <1>4, <1>5, <1>7, <1>9, <1>10, <1>11, <1>12 DEF BytesCounted

\* Dropping the oldest frames subtracts their bytes, and adds what making the
\* next one a keyframe costs.
LEMMA DropCounted ==
  ASSUME SameSize, NEW lvl, LevelOK(lvl), BytesCounted(lvl), NEW n \in Nat, n < Len(lvl.frames),
         NEW out, out = DropConverted(lvl, n)
  PROVE  BytesCounted(out)
<1> DEFINE frames == lvl.frames
           c      == ConvertNewOldest(frames, n)
           l      == Len(frames)
           r      == l - (n + 1)
<1>0. Chain(frames) /\ l \in Nat /\ r \in Nat /\ lvl \in LevelType
  BY LenProperties DEF LevelOK, Chain
<1>1. /\ Len(c) = l
      /\ \A k \in 1 .. l : (k # n + 1 => c[k] = frames[k]) /\ FrameOK(c[k])
  <2>1. Chain(frames) /\ n < Len(frames) /\ c = ConvertNewOldest(frames, n)
    BY <1>0
  <2> HIDE DEF c, frames
  <2> QED
    BY <2>1, ConvertKeeps
<1>2. /\ out.frames = SubSeq(c, n + 1, Len(c))
      /\ out.totalBytes = lvl.totalBytes - PayloadSize(frames[n + 1])
                            + PayloadSize(c[n + 1]) - PrefixBytes(frames, n)
  BY <1>0 DEF DropConverted, LevelType
<1>3. LevelOK(out) /\ Len(out.frames) = l - n
  <2>1. LevelOK(out)
    BY DropExact
  <2>2. Len(out.frames) = l - n
    BY DropExact
  <2> QED
    BY <2>1, <2>2
<1>4. Sized(frames, l) /\ Sized(frames, n) /\ Sized(c, l) /\ Sized(c, n)
  <2>1. l \in 0 .. Len(frames) /\ n \in 0 .. Len(frames)
    BY <1>0
  <2>2. \A k \in 1 .. l : PayloadSize(c[k]) \in Nat
    BY <1>1, PayloadSizeType
  <2> HIDE DEF frames, c
  <2> QED
    BY <1>0, <2>1, <2>2, ChainSized DEF Sized
<1>5. \A k \in 1 .. l - n : out.frames[k] = c[n + k]
  BY <1>0, <1>1, <1>2
<1>6. Sized(out.frames, l - n)
  <2>1. Chain(out.frames) /\ l - n \in 0 .. Len(out.frames)
    BY <1>0, <1>3 DEF LevelOK
  <2> QED
    BY <2>1, ChainSized
<1> HIDE DEF c
<1>7. PrefixBytes(c, n) = PrefixBytes(frames, n)
  <2>1. \A k \in 1 .. n : 0 + k = k /\ k \in 1 .. l /\ k # n + 1
    BY <1>0
  <2>2. SameSizes(c, 0, frames, 0, n)
    BY <2>1, <1>1 DEF SameSizes
  <2> QED
    BY <2>2, <1>4, SamePrefixBytes
<1>8. PrefixBytes(c, l) - PrefixBytes(c, n + 1)
        = PrefixBytes(frames, l) - PrefixBytes(frames, n + 1)
  <2> DEFINE a == n + 1
  <2>1. \A i \in 1 .. r : a + i \in 1 .. l /\ a + i # n + 1
    BY <1>0
  <2>2. SameSizes(c, a, frames, a, r)
    <3> HIDE DEF a
    <3> QED
      BY <2>1, <1>1 DEF SameSizes
  <2>3. a \in Nat /\ a <= l /\ l - a = r /\ l \in Nat
    BY <1>0
  <2> HIDE DEF a, l, r, frames
  <2>4. PrefixBytes(c, l) - PrefixBytes(c, a) = PrefixBytes(frames, l) - PrefixBytes(frames, a)
    BY <2>2, <2>3, <1>4, SameBytes
  <2> QED
    BY <2>4 DEF a
<1>9. PrefixBytes(out.frames, l - n) = PrefixBytes(c, l) - PrefixBytes(c, n)
  <2> DEFINE p == l - n
  <2>1. p \in Nat /\ p - 0 = p /\ 0 <= p /\ 0 \in Nat /\ n <= l /\ \A i \in 1 .. p : 0 + i = i
    BY <1>0
  <2>2. SameSizes(out.frames, 0, c, n, p)
    <3>1. \A i \in 1 .. p : out.frames[i] = c[n + i]
      BY <1>5
    <3> HIDE DEF p
    <3> QED
      BY <3>1, <2>1 DEF SameSizes
  <2>3. l \in Nat /\ Sized(out.frames, p) /\ Sized(c, l) /\ p = l - n
    BY <1>0, <1>4, <1>6
  <2> HIDE DEF l, p
  <2>4. PrefixBytes(out.frames, p) - PrefixBytes(out.frames, 0)
          = PrefixBytes(c, l) - PrefixBytes(c, n)
    BY <2>1, <2>2, <2>3, SameBytes
  <2>5. PrefixBytes(out.frames, 0) = 0 /\ PrefixBytes(out.frames, p) \in Nat
    BY <2>1, <2>3, PrefixBytesType
  <2> QED
    BY <2>4, <2>5 DEF p
<1>10. /\ PrefixBytes(c, n + 1) = PrefixBytes(c, n) + PayloadSize(c[n + 1])
       /\ PrefixBytes(frames, n + 1) = PrefixBytes(frames, n) + PayloadSize(frames[n + 1])
  <2>1. n + 1 \in 1 .. l /\ (n + 1) - 1 = n
    BY <1>0
  <2>2. \A m \in 1 .. l : PrefixBytes(c, m) = PrefixBytes(c, m - 1) + PayloadSize(c[m])
    BY <1>0, <1>4, PrefixBytesType
  <2>3. \A m \in 1 .. l : PrefixBytes(frames, m)
                            = PrefixBytes(frames, m - 1) + PayloadSize(frames[m])
    BY <1>0, <1>4, PrefixBytesType
  <2> HIDE DEF l, frames
  <2> QED
    BY <2>1, <2>2, <2>3
<1>11. /\ PrefixBytes(c, l) \in Nat /\ PrefixBytes(c, n) \in Nat
       /\ PrefixBytes(frames, l) \in Nat /\ PrefixBytes(frames, n) \in Nat
       /\ PayloadSize(c[n + 1]) \in Nat /\ PayloadSize(frames[n + 1]) \in Nat
  <2>1. n + 1 \in 1 .. l
    BY <1>0
  <2> QED
    BY <2>1, <1>0, <1>4, PrefixBytesType DEF Sized
<1>12. lvl.totalBytes = PrefixBytes(frames, l)
  BY DEF BytesCounted
<1>13. out.totalBytes = PrefixBytes(out.frames, l - n)
  <2> DEFINE k  == PayloadSize(c[n + 1])
             o  == PayloadSize(frames[n + 1])
             b  == PrefixBytes(frames, n)
             w  == PrefixBytes(frames, l)
  <2>1. out.totalBytes = w - o + k - b
    BY <1>2, <1>12
  <2>2. PrefixBytes(out.frames, l - n) = PrefixBytes(c, l) - b
    BY <1>7, <1>9
  <2>3. PrefixBytes(c, l) - (b + k) = w - (b + o)
    BY <1>7, <1>8, <1>10
  <2>4. b \in Nat /\ w \in Nat /\ k \in Nat /\ o \in Nat /\ PrefixBytes(c, l) \in Nat
    BY <1>11
  <2> HIDE DEF k, o, b, w, l
  <2> QED
    BY <2>1, <2>2, <2>3, <2>4
<1> HIDE DEF l, frames
<1> QED
  BY <1>3, <1>13 DEF BytesCounted

-----------------------------------------------------------------------------
(* Buffers *)

No(buf, i, k) == buf.levels[i].frames[k].frame_no
State(buf, i, k) == buf.levels[i].frames[k].captured
Size(buf, i) == Len(buf.levels[i].frames)

\* Frame k of level i is older than frame l of level j.
Older(i, k, j, l) == i > j \/ (i = j /\ k < l)

Ordered(buf) ==
  \A i, j \in Level : \A k \in 1 .. Size(buf, i), l \in 1 .. Size(buf, j) :
    Older(i, k, j, l) => No(buf, i, k) < No(buf, j, l)

\* The levels are well formed; in a timeline the labels order the frames, too.
LevelsOK(buf) ==
  /\ buf \in BufferType
  /\ \A i \in Level : LevelOK(buf.levels[i])

BufferOK(buf) == LevelsOK(buf) /\ Ordered(buf)

\* The labels and sizes of a well-formed buffer are numbers.
LEMMA LevelsShape ==
  ASSUME NEW buf, LevelsOK(buf), NEW i \in Level
  PROVE  /\ buf.levels[i].frames \in Seq(Frame)
         /\ Size(buf, i) \in Nat
         /\ \A k \in 1 .. Size(buf, i) : No(buf, i, k) \in Nat
<1>1. buf.levels[i].frames \in Seq(Frame)
  BY DEF LevelsOK, LevelOK, Chain
<1>2. \A k \in 1 .. Size(buf, i) : buf.levels[i].frames[k] \in Frame
  BY <1>1, ElementOfSeq DEF Size
<1>3. \A k \in 1 .. Size(buf, i) : No(buf, i, k) \in Nat
  BY <1>2 DEF No, Frame
<1>4. Size(buf, i) \in Nat
  BY <1>1, LenProperties DEF Size
<1> QED
  BY <1>1, <1>3, <1>4

LEMMA BufferShape ==
  ASSUME NEW buf, BufferOK(buf), NEW i \in Level
  PROVE  /\ buf.levels[i].frames \in Seq(Frame)
         /\ Size(buf, i) \in Nat
         /\ \A k \in 1 .. Size(buf, i) : No(buf, i, k) \in Nat
BY LevelsShape DEF BufferOK

\* Replacing a level replaces that one only.
LEMMA WithLevelIs ==
  ASSUME NEW buf \in BufferType, NEW i \in Level, NEW lvl \in LevelType, NEW out,
         out = WithLevel(buf, i, lvl)
  PROVE  /\ out \in BufferType
         /\ \A j \in Level : out.levels[j] = IF j = i THEN lvl ELSE buf.levels[j]
<1>1. /\ buf.levels \in [Level -> LevelType] /\ buf.totalBytes \in Int
      /\ buf.paused \in BOOLEAN /\ buf.rollingPaused \in BOOLEAN
      /\ buf.currentFrameNo \in Nat
  BY DEF BufferType
<1>2. buf.totalBytes + lvl.totalBytes - buf.levels[i].totalBytes \in Int
  BY <1>1 DEF LevelType
<1>3. out = [buf EXCEPT !.levels = [buf.levels EXCEPT ![i] = lvl],
                        !.totalBytes = buf.totalBytes + lvl.totalBytes
                                         - buf.levels[i].totalBytes]
  BY DEF WithLevel, BufferType
<1>4. [buf.levels EXCEPT ![i] = lvl] \in [Level -> LevelType]
  BY <1>1
<1>5. out = [levels |-> [buf.levels EXCEPT ![i] = lvl],
             totalBytes |-> buf.totalBytes + lvl.totalBytes - buf.levels[i].totalBytes,
             paused |-> buf.paused, rollingPaused |-> buf.rollingPaused,
             currentFrameNo |-> buf.currentFrameNo]
  BY <1>3 DEF BufferType
<1> QED
  BY <1>1, <1>2, <1>4, <1>5 DEF BufferType

\* Emptied levels are well formed.
LEMMA EmptyLevelOK ==
  ASSUME NEW lvl \in LevelType, lvl.frames = << >>
  PROVE  LevelOK(lvl)
<1>1. << >> \in Seq(Frame) /\ Len(<< >>) = 0
  OBVIOUS
<1> QED
  BY <1>1 DEF LevelOK, Chain, PrevOK

LEMMA EmptyBufferOK == BufferOK(EmptyBuffer)
<1>1. EmptyLevel \in LevelType /\ EmptyLevel.frames = << >>
  BY DEF EmptyLevel, LevelType
<1>2. LevelOK(EmptyLevel)
  BY <1>1, EmptyLevelOK
<1>3. EmptyBuffer \in BufferType
  BY <1>1 DEF EmptyBuffer, BufferType
<1>4. \A i \in Level : EmptyBuffer.levels[i] = EmptyLevel
  BY DEF EmptyBuffer
<1>5. \A i \in Level : Size(EmptyBuffer, i) = 0
  BY <1>1, <1>4 DEF Size
<1>6. Ordered(EmptyBuffer)
  BY <1>5 DEF Ordered
<1> QED
  BY <1>2, <1>3, <1>4, <1>6 DEF BufferOK, LevelsOK

\* The state being captured, newer than every frame, keeps a buffer well formed.
LEMMA CaptureOK ==
  ASSUME SameSize, NEW buf, BufferOK(buf), NEW s \in States, NEW no \in Nat,
         \A i \in Level : \A k \in 1 .. Size(buf, i) : No(buf, i, k) < no,
         NEW out, out = WithLevel(buf, 1, AppendStates(buf.levels[1], << Item(s, no, s) >>))
  PROVE  BufferOK(out)
<1> DEFINE lvl == AppendStates(buf.levels[1], << Item(s, no, s) >>)
<1>0. 1 \in Level /\ \A i \in Level : i \in Nat /\ i >= 1
  BY LevelsAssumption DEF Level
<1> DEFINE l1 == buf.levels[1]
<1>1. LevelOK(l1)
  BY <1>0 DEF BufferOK, LevelsOK
<1>2. /\ LevelOK(lvl)
      /\ Len(lvl.frames) = Size(buf, 1) + 1
      /\ \A k \in 1 .. Size(buf, 1) : lvl.frames[k] = buf.levels[1].frames[k]
      /\ lvl.frames[Size(buf, 1) + 1].frame_no = no
  <2>1. lvl = AppendStates(l1, << Item(s, no, s) >>)
    OBVIOUS
  <2> HIDE DEF lvl, l1
  <2>2. LevelOK(lvl)
    BY <1>1, <2>1, AppendOne
  <2>3. Len(lvl.frames) = Len(l1.frames) + 1
    BY <1>1, <2>1, AppendOne
  <2>4. \A k \in 1 .. Len(l1.frames) : lvl.frames[k] = l1.frames[k]
    BY <1>1, <2>1, AppendOne
  <2>5. lvl.frames[Len(l1.frames) + 1].frame_no = no
    BY <1>1, <2>1, AppendOne
  <2> QED
    BY <2>2, <2>3, <2>4, <2>5 DEF Size, l1
<1>3. out = WithLevel(buf, 1, lvl)
  OBVIOUS
<1> HIDE DEF lvl
<1>4. /\ out \in BufferType
      /\ \A j \in Level : out.levels[j] = IF j = 1 THEN lvl ELSE buf.levels[j]
  BY <1>0, <1>2, <1>3, WithLevelIs DEF BufferOK, LevelsOK, LevelOK
<1>5. \A j \in Level : LevelOK(out.levels[j])
  BY <1>2, <1>4 DEF BufferOK, LevelsOK
<1>6. \A i \in Level :
        /\ Size(buf, i) \in Nat
        /\ Size(out, i) = IF i = 1 THEN Size(buf, 1) + 1 ELSE Size(buf, i)
        /\ \A k \in 1 .. Size(out, i) :
             \/ i = 1 /\ k = Size(buf, 1) + 1 /\ No(out, i, k) = no
             \/ k \in 1 .. Size(buf, i) /\ No(out, i, k) = No(buf, i, k)
  <2> TAKE i \in Level
  <2>1. Size(buf, i) \in Nat
    BY BufferShape
  <2>2. CASE i = 1
    <3>1. Size(out, i) = Size(buf, 1) + 1
      BY <2>2, <1>2, <1>4 DEF Size
    <3>2. \A k \in 1 .. Size(out, i) : k = Size(buf, 1) + 1 \/ k \in 1 .. Size(buf, 1)
      BY <3>1, <2>1, <2>2
    <3>3. No(out, i, Size(buf, 1) + 1) = no
      BY <2>2, <1>2, <1>4 DEF No
    <3>4. \A k \in 1 .. Size(buf, 1) : No(out, i, k) = No(buf, i, k)
      BY <2>2, <1>2, <1>4 DEF No
    <3> QED
      BY <2>1, <2>2, <3>1, <3>2, <3>3, <3>4
  <2>3. CASE i # 1
    BY <2>1, <2>3, <1>4 DEF Size, No
  <2> QED
    BY <2>2, <2>3
<1>7. Ordered(out)
  <2> SUFFICES ASSUME NEW i \in Level, NEW j \in Level,
                      NEW k \in 1 .. Size(out, i), NEW l \in 1 .. Size(out, j),
                      Older(i, k, j, l)
               PROVE  No(out, i, k) < No(out, j, l)
    BY DEF Ordered
  <2>1. CASE j = 1 /\ l = Size(buf, 1) + 1
    <3>1. ~(i = 1 /\ k = Size(buf, 1) + 1)
      BY <2>1, <1>0, <1>6 DEF Older
    <3> QED
      BY <3>1, <2>1, <1>6
  <2>2. CASE ~(j = 1 /\ l = Size(buf, 1) + 1)
    <3>1. l \in 1 .. Size(buf, j) /\ No(out, j, l) = No(buf, j, l)
      BY <2>2, <1>6
    <3>2. ~(i = 1 /\ k = Size(buf, 1) + 1)
      BY <3>1, <1>0, <1>6 DEF Older
    <3>3. k \in 1 .. Size(buf, i) /\ No(out, i, k) = No(buf, i, k)
      BY <3>2, <1>6
    <3> QED
      BY <3>1, <3>3 DEF BufferOK, LevelsOK, Ordered
  <2> QED
    BY <2>1, <2>2
<1> QED
  BY <1>4, <1>5, <1>7 DEF BufferOK, LevelsOK

-----------------------------------------------------------------------------
(* Promotion and dropping *)

\* What is left of a level without its first n frames, as both write it.
LeftOf(lvl, n, left) ==
  \/ n < Len(lvl.frames) /\ left = DropConverted(lvl, n)
  \/ /\ n = Len(lvl.frames)
     /\ \/ left = [lvl EXCEPT !.frames = << >>,
                              !.totalBytes = @ - PrefixBytes(lvl.frames, n)]
        \/ left = [lvl EXCEPT !.frames = << >>, !.prevState = NoState,
                              !.totalBytes = @ - PrefixBytes(lvl.frames, n)]

\* It is a well-formed level with the labels and the states of the other frames.
LEMMA LeftOK ==
  ASSUME SameSize, NEW lvl, LevelOK(lvl), NEW n \in 0 .. Len(lvl.frames), NEW left,
         LeftOf(lvl, n, left)
  PROVE  /\ LevelOK(left)
         /\ Len(left.frames) = Len(lvl.frames) - n
         /\ \A k \in 1 .. Len(left.frames) :
              left.frames[k].frame_no = lvl.frames[n + k].frame_no
         /\ \A k \in 1 .. Len(left.frames) :
              left.frames[k].captured = lvl.frames[n + k].captured
<1>0. lvl \in LevelType /\ lvl.frames \in Seq(Frame) /\ Len(lvl.frames) \in Nat
  BY LenProperties DEF LevelOK, Chain
<1>1. CASE n < Len(lvl.frames) /\ left = DropConverted(lvl, n)
  <2>1. n \in Nat /\ n < Len(lvl.frames) /\ left = DropConverted(lvl, n)
    BY <1>0, <1>1
  <2>2. LevelOK(left)
    BY <2>1, DropExact
  <2>3. Len(left.frames) = Len(lvl.frames) - n
    BY <2>1, DropExact
  <2>4. \A k \in 1 .. Len(left.frames) :
          left.frames[k].frame_no = lvl.frames[n + k].frame_no
    BY <2>1, DropExact
  <2>5. \A k \in 1 .. Len(left.frames) :
          left.frames[k].captured = lvl.frames[n + k].captured
    BY <2>1, DropExact
  <2> QED
    BY <2>2, <2>3, <2>4, <2>5
<1>2. CASE n = Len(lvl.frames) /\ ~(n < Len(lvl.frames))
  <2>1. PrefixBytes(lvl.frames, n) \in Int
    <3>1. Chain(lvl.frames) /\ n \in 0 .. Len(lvl.frames)
      BY DEF LevelOK
    <3> QED
      BY <3>1, ChainSized
  <2>2. lvl.totalBytes - PrefixBytes(lvl.frames, n) \in Int
    BY <1>0, <2>1 DEF LevelType
  <2>3. << >> \in Seq(Frame)
    OBVIOUS
  <2>4. left \in LevelType /\ left.frames = << >>
    <3>1. left = [lvl EXCEPT !.frames = << >>,
                             !.totalBytes = lvl.totalBytes - PrefixBytes(lvl.frames, n)]
          \/ left = [lvl EXCEPT !.frames = << >>, !.prevState = NoState,
                                !.totalBytes = lvl.totalBytes - PrefixBytes(lvl.frames, n)]
      BY <1>0, <1>2 DEF LeftOf, LevelType
    <3> QED
      BY <3>1, <2>2, <2>3, <1>0 DEF LevelType
  <2>5. LevelOK(left)
    BY <2>4, EmptyLevelOK
  <2>6. Len(left.frames) = 0
    BY <2>4
  <2> QED
    BY <2>5, <2>6, <1>0, <1>2
<1> QED
  BY <1>0, <1>1, <1>2 DEF LeftOf

\* No more frames are freed, or promoted, than there are.
LEMMA FreeCount ==
  ASSUME NEW frames, Len(frames) \in Nat, NEW toFree
  PROVE  FramesToFree(frames, toFree) \in 0 .. Len(frames)
<1> DEFINE T == {j \in 1 .. Len(frames) :
                   \A k \in 1 .. j : /\ frames[k].state_size = frames[1].state_size
                                     /\ PrefixBytes(frames, k - 1) < toFree}
<1>1. T \in SUBSET (1 .. Len(frames))
  OBVIOUS
<1>2. Cardinality(T) \in 0 .. Len(frames)
  <2> HIDE DEF T
  <2> QED
    BY <1>1, PrefixCount
<1> QED
  BY <1>2 DEF FramesToFree

LEMMA CountToPromote ==
  ASSUME NEW buf, NEW i, Size(buf, i) \in Nat
  PROVE  PromoteCount(buf, i) \in 0 .. Size(buf, i)
<1> DEFINE free   == FramesToFree(buf.levels[i].frames, buf.levels[i].totalBytes - Budget(i))
           capped == IF free > PromoteMaxFrames THEN PromoteMaxFrames ELSE free
<1>1. free \in 0 .. Size(buf, i)
  BY FreeCount DEF Size
<1>2. PromoteCount(buf, i) = IF capped < 2 /\ Size(buf, i) >= 2 THEN 2 ELSE capped
  BY DEF PromoteCount, Size
<1> HIDE DEF free
<1>3. capped \in 0 .. Size(buf, i)
  BY <1>1, SizesAssumption
<1> QED
  BY <1>2, <1>3

LEMMA LevelsPromoteCount ==
  ASSUME NEW buf, LevelsOK(buf), NEW i \in Level
  PROVE  PromoteCount(buf, i) \in 0 .. Size(buf, i)
BY LevelsShape, CountToPromote

LEMMA PromoteCountIs ==
  ASSUME NEW buf, BufferOK(buf), NEW i \in Level
  PROVE  PromoteCount(buf, i) \in 0 .. Size(buf, i)
BY LevelsPromoteCount DEF BufferOK

\* Frame k of level p of out stands for frame l of level q of buf.
Same(out, p, k, buf, q, l) ==
  /\ q \in Level /\ l \in 1 .. Size(buf, q)
  /\ No(out, p, k) = No(buf, q, l)
  /\ State(out, p, k) = State(buf, q, l)

\* The first n frames of level i have gone, every second one to the next level.
Promotes(out, buf, i, n) ==
  /\ \A j \in Level : j # i /\ j # i + 1 => out.levels[j] = buf.levels[j]
  /\ Size(out, i) = Size(buf, i) - n
  /\ \A k \in 1 .. Size(out, i) : Same(out, i, k, buf, i, n + k)
  /\ Size(out, i + 1) = Size(buf, i + 1) + ((n + 1) \div 2)
  /\ \A k \in 1 .. Size(buf, i + 1) : Same(out, i + 1, k, buf, i + 1, k)
  /\ \A j \in 1 .. (n + 1) \div 2 :
       2 * j - 1 <= n /\ Same(out, i + 1, Size(buf, i + 1) + j, buf, i, 2 * j - 1)

LEMMA LevelsPromoted ==
  ASSUME SameSize, NEW buf, LevelsOK(buf), NEW i \in Level, i + 1 \in Level,
         buf.levels[i].frames # << >>, NEW out, out = Promoted(buf, i)
  PROVE  /\ out \in BufferType
         /\ \A j \in Level : LevelOK(out.levels[j])
         /\ Promotes(out, buf, i, PromoteCount(buf, i))
<1> DEFINE src   == buf.levels[i]
           dst   == buf.levels[i + 1]
           n     == PromoteCount(buf, i)
           left  == IF n < Len(src.frames) THEN DropConverted(src, n)
                    ELSE [src EXCEPT !.frames = << >>,
                                     !.totalBytes = @ - PrefixBytes(src.frames, n)]
           items == PromotedItems(src.frames, n)
           grown == AppendStates(dst, items)
           mid   == WithLevel(buf, i, left)
           m     == Size(buf, i + 1)
<1>0. /\ i \in Nat /\ \A j \in Level : j \in Nat
      /\ LevelOK(src) /\ LevelOK(dst) /\ src.frames[1].is_keyframe
      /\ Size(buf, i) \in Nat /\ m \in Nat /\ n \in 0 .. Size(buf, i)
      /\ Size(buf, i) = Len(src.frames) /\ m = Len(dst.frames)
  <2>1. i \in Nat /\ \A j \in Level : j \in Nat
    BY DEF Level
  <2>2. LevelOK(src) /\ LevelOK(dst)
    BY DEF LevelsOK
  <2>3. src.frames[1].is_keyframe
    BY <2>2 DEF LevelOK, Chain
  <2>4. Size(buf, i) \in Nat /\ m \in Nat
    BY LevelsShape
  <2>5. n \in 0 .. Size(buf, i)
    BY LevelsPromoteCount
  <2> QED
    BY <2>1, <2>2, <2>3, <2>4, <2>5 DEF Size
<1>1. out = WithLevel(mid, i + 1, grown)
  BY <1>0 DEF Promoted
<1>2. LeftOf(src, n, left)
  BY <1>0 DEF LeftOf
<1>3. items = PromotedItems(src.frames, n) /\ grown = AppendStates(dst, items)
      /\ mid = WithLevel(buf, i, left)
  OBVIOUS
<1> HIDE DEF items, grown, left, mid, n, src, dst
<1>4. /\ LevelOK(left)
      /\ Len(left.frames) = Size(buf, i) - n
      /\ \A k \in 1 .. Len(left.frames) :
           /\ left.frames[k].frame_no = No(buf, i, n + k)
           /\ left.frames[k].captured = State(buf, i, n + k)
  <2>1. n \in 0 .. Len(src.frames)
    BY <1>0
  <2>2. LevelOK(left)
    BY <1>0, <1>2, <2>1, LeftOK
  <2>3. Len(left.frames) = Len(src.frames) - n
    BY <1>0, <1>2, <2>1, LeftOK
  <2>4. \A k \in 1 .. Len(left.frames) : left.frames[k].frame_no = src.frames[n + k].frame_no
    BY <1>0, <1>2, <2>1, LeftOK
  <2>5. \A k \in 1 .. Len(left.frames) : left.frames[k].captured = src.frames[n + k].captured
    BY <1>0, <1>2, <2>1, LeftOK
  <2> QED
    BY <2>2, <2>3, <2>4, <2>5, <1>0 DEF No, State, src
<1>5. /\ ItemsOK(items)
      /\ Len(items) \in Nat /\ Len(items) = (n + 1) \div 2
      /\ \A j \in 1 .. Len(items) :
           /\ 2 * j - 1 \in 1 .. n /\ items[j].frame_no = No(buf, i, 2 * j - 1)
           /\ items[j].state = State(buf, i, 2 * j - 1)
  <2>1. Chain(src.frames) /\ n \in 0 .. Len(src.frames)
    BY <1>0 DEF LevelOK
  <2>2. ItemsOK(items)
    BY <2>1, <1>3, PromotedExact
  <2>3. \A j \in 1 .. Len(items) :
          2 * j - 1 \in 1 .. n /\ items[j].frame_no = src.frames[2 * j - 1].frame_no
    BY <2>1, <1>3, PromotedExact
  <2>4. Len(items) \in Nat /\ Len(items) = (n + 1) \div 2
    BY <2>1, <1>3, PromotedExact
  <2>5. \A j \in 1 .. Len(items) : items[j].state = src.frames[2 * j - 1].captured
    BY <2>1, <1>3, PromotedExact
  <2> QED
    BY <2>2, <2>3, <2>4, <2>5 DEF No, State, src
<1>6. /\ LevelOK(grown)
      /\ Len(grown.frames) = m + Len(items)
      /\ \A k \in 1 .. m : /\ grown.frames[k].frame_no = No(buf, i + 1, k)
                           /\ grown.frames[k].captured = State(buf, i + 1, k)
      /\ \A j \in 1 .. Len(items) :
           /\ grown.frames[m + j].frame_no = No(buf, i, 2 * j - 1)
           /\ grown.frames[m + j].captured = State(buf, i, 2 * j - 1)
  <2>0. LevelOK(dst) /\ ItemsOK(items) /\ grown = AppendStates(dst, items)
    BY <1>0, <1>3, <1>5
  <2>1. LevelOK(grown)
    BY <2>0, AppendExact
  <2>2. Len(grown.frames) = Len(dst.frames) + Len(items)
    BY <2>0, AppendExact
  <2>3. \A k \in 1 .. Len(dst.frames) : grown.frames[k] = dst.frames[k]
    BY <2>0, AppendExact
  <2>4. \A j \in 1 .. Len(items) : grown.frames[Len(dst.frames) + j].frame_no = items[j].frame_no
    BY <2>0, AppendLabels
  <2>5. \A j \in 1 .. Len(items) : grown.frames[Len(dst.frames) + j].captured = items[j].state
    BY <2>0, AppendLabels
  <2> QED
    BY <2>1, <2>2, <2>3, <2>4, <2>5, <1>0, <1>5 DEF No, State, dst
<1>7. /\ out \in BufferType
      /\ \A j \in Level : out.levels[j] = IF j = i + 1 THEN grown
                                          ELSE IF j = i THEN left ELSE buf.levels[j]
  <2>1. buf \in BufferType /\ left \in LevelType /\ grown \in LevelType
    BY <1>4, <1>6 DEF LevelsOK, LevelOK
  <2>2. /\ mid \in BufferType
        /\ \A j \in Level : mid.levels[j] = IF j = i THEN left ELSE buf.levels[j]
    BY <2>1, <1>3, WithLevelIs
  <2>3. /\ out \in BufferType
        /\ \A j \in Level : out.levels[j] = IF j = i + 1 THEN grown ELSE mid.levels[j]
    BY <2>1, <2>2, <1>1, WithLevelIs
  <2> QED
    BY <2>2, <2>3
<1>8. \A j \in Level : LevelOK(out.levels[j])
  BY <1>4, <1>6, <1>7 DEF LevelsOK
<1>9. i # i + 1 /\ out.levels[i] = left /\ out.levels[i + 1] = grown
  BY <1>0, <1>7
<1>10. /\ Size(out, i) = Size(buf, i) - n
       /\ Size(out, i + 1) = m + ((n + 1) \div 2)
  BY <1>4, <1>5, <1>6, <1>9 DEF Size
<1>11. \A k \in 1 .. Size(out, i) : Same(out, i, k, buf, i, n + k)
  <2> TAKE k \in 1 .. Size(out, i)
  <2>1. k \in 1 .. Len(left.frames)
    BY <1>9 DEF Size
  <2>2. n + k \in 1 .. Size(buf, i)
    BY <2>1, <1>0, <1>4
  <2> QED
    BY <2>1, <2>2, <1>4, <1>9 DEF Same, No, State
<1>12. \A k \in 1 .. m : Same(out, i + 1, k, buf, i + 1, k)
  BY <1>6, <1>9 DEF Same, No, State
<1>13. \A j \in 1 .. Len(items) : 2 * j - 1 <= n /\ Same(out, i + 1, m + j, buf, i, 2 * j - 1)
  <2> TAKE j \in 1 .. Len(items)
  <2>1. 2 * j - 1 \in 1 .. n
    BY <1>5
  <2>2. 2 * j - 1 \in 1 .. Size(buf, i) /\ 2 * j - 1 <= n
    BY <2>1, <1>0
  <2> QED
    BY <2>2, <1>6, <1>9 DEF Same, No, State
<1>14. \A j \in Level : j # i /\ j # i + 1 => out.levels[j] = buf.levels[j]
  BY <1>7
<1>15. Promotes(out, buf, i, n)
  BY <1>5, <1>10, <1>11, <1>12, <1>13, <1>14 DEF Promotes, m
<1> QED
  BY <1>7, <1>8, <1>15 DEF n

LEMMA PromotedMoves ==
  ASSUME SameSize, NEW buf, BufferOK(buf), NEW i \in Level, i + 1 \in Level,
         buf.levels[i].frames # << >>, NEW out, out = Promoted(buf, i)
  PROVE  /\ out \in BufferType
         /\ \A j \in Level : LevelOK(out.levels[j])
         /\ Promotes(out, buf, i, PromoteCount(buf, i))
BY LevelsPromoted DEF BufferOK

\* Promotion keeps the order of the frames: those that move to the next level are
\* older than those that stay, and newer than those already there.
LEMMA PromotesOlder ==
  ASSUME NEW buf, NEW i \in Level, i + 1 \in Level, NEW n \in 0 .. Size(buf, i), NEW out,
         Promotes(out, buf, i, n),
         \A j \in Level : Size(buf, j) \in Nat /\ Size(out, j) \in Nat,
         NEW p \in Level, NEW q \in Level,
         NEW k \in 1 .. Size(out, p), NEW l \in 1 .. Size(out, q), Older(p, k, q, l)
  PROVE  \E p2, k2, q2, l2 : /\ Same(out, p, k, buf, p2, k2)
                            /\ Same(out, q, l, buf, q2, l2)
                            /\ Older(p2, k2, q2, l2)
<1> DEFINE m == Size(buf, i + 1)
           h == (n + 1) \div 2
<1>0. /\ i \in Nat /\ \A j \in Level : j \in Nat
      /\ Size(buf, i) \in Nat /\ m \in Nat /\ n \in Nat
  BY DEF Level
<1> HIDE DEF m
<1> DEFINE From(x, a, y, b) ==
      \/ x # i /\ y = x /\ b = a /\ (x = i + 1 => a <= m)
      \/ x = i /\ y = i /\ b = n + a
      \/ x = i + 1 /\ a > m /\ y = i /\ b = 2 * (a - m) - 1 /\ b <= n
<1>1. \A x \in Level : \A a \in 1 .. Size(out, x) :
        \E y, b : Same(out, x, a, buf, y, b) /\ From(x, a, y, b)
  <2> SUFFICES ASSUME NEW x \in Level, NEW a \in 1 .. Size(out, x)
               PROVE  \E y, b : Same(out, x, a, buf, y, b) /\ From(x, a, y, b)
    OBVIOUS
  <2>1. CASE x # i /\ x # i + 1
    <3>1. Same(out, x, a, buf, x, a)
      BY <2>1 DEF Promotes, Same, Size, No, State
    <3> QED
      BY <3>1, <2>1
  <2>2. CASE x = i
    <3>1. Same(out, i, a, buf, i, n + a)
      BY <2>2 DEF Promotes
    <3> QED
      BY <3>1, <2>2
  <2>3. CASE x = i + 1 /\ a <= m
    <3>1. a \in 1 .. m /\ x # i
      BY <2>3, <1>0
    <3>2. Same(out, x, a, buf, x, a)
      BY <3>1, <2>3 DEF Promotes, m
    <3> QED
      BY <3>1, <3>2, <2>3
  <2>4. CASE x = i + 1 /\ a > m
    <3> DEFINE j == a - m
    <3>1. Size(out, x) = m + h /\ h \in Nat
      BY <2>4, <1>0 DEF Promotes, m
    <3>2. j \in 1 .. h /\ m + j = a
      <4> HIDE DEF h
      <4> QED
        BY <3>1, <2>4, <1>0
    <3> HIDE DEF j
    <3>3. 2 * j - 1 <= n /\ Same(out, x, a, buf, i, 2 * j - 1)
      BY <3>2, <2>4 DEF Promotes, m
    <3> QED
      BY <3>3, <2>4 DEF j
  <2>5. a \in Nat /\ (a <= m \/ a > m)
    BY <1>0
  <2> QED
    BY <2>1, <2>2, <2>3, <2>4, <2>5
<1>2. PICK p2, k2 : Same(out, p, k, buf, p2, k2) /\ From(p, k, p2, k2)
  BY <1>1
<1>3. PICK q2, l2 : Same(out, q, l, buf, q2, l2) /\ From(q, l, q2, l2)
  BY <1>1
<1>4. Older(p2, k2, q2, l2)
  <2>1. /\ p \in Nat /\ q \in Nat /\ k \in Nat /\ l \in Nat /\ k >= 1 /\ l >= 1
        /\ n \in Nat /\ m \in Nat /\ i \in Nat
    <3>1. p \in Nat /\ q \in Nat /\ n \in Nat /\ m \in Nat /\ i \in Nat
      BY <1>0
    <3>2. k \in Nat /\ k >= 1
      OBVIOUS
    <3>3. l \in Nat /\ l >= 1
      OBVIOUS
    <3> QED
      BY <3>1, <3>2, <3>3
  <2>2. From(p, k, p2, k2) /\ From(q, l, q2, l2)
    BY <1>2, <1>3
  <2> QED
    BY <2>1, <2>2 DEF Older
<1> QED
  BY <1>2, <1>3, <1>4

\* So it keeps a buffer well formed.
LEMMA PromotedOK ==
  ASSUME SameSize, NEW buf, BufferOK(buf), NEW i \in Level, i + 1 \in Level,
         buf.levels[i].frames # << >>, NEW out, out = Promoted(buf, i)
  PROVE  BufferOK(out)
<1> DEFINE n == PromoteCount(buf, i)
<1>1. n \in 0 .. Size(buf, i) /\ \A j \in Level : Size(buf, j) \in Nat
  BY BufferShape, PromoteCountIs
<1>2. out \in BufferType /\ Promotes(out, buf, i, n)
  BY PromotedMoves
<1>3. \A j \in Level : LevelOK(out.levels[j])
  BY PromotedMoves
<1>4. \A j \in Level : Size(out, j) \in Nat
  BY <1>3, LenProperties DEF LevelOK, Chain, Size
<1> HIDE DEF n
<1>5. Ordered(out)
  <2> SUFFICES ASSUME NEW p \in Level, NEW q \in Level,
                      NEW k \in 1 .. Size(out, p), NEW l \in 1 .. Size(out, q),
                      Older(p, k, q, l)
               PROVE  No(out, p, k) < No(out, q, l)
    BY DEF Ordered
  <2>1. PICK p2, k2, q2, l2 : /\ Same(out, p, k, buf, p2, k2)
                              /\ Same(out, q, l, buf, q2, l2)
                              /\ Older(p2, k2, q2, l2)
    BY <1>1, <1>2, <1>4, PromotesOlder
  <2>2. No(buf, p2, k2) < No(buf, q2, l2)
    BY <2>1 DEF Same, BufferOK, Ordered
  <2> QED
    BY <2>1, <2>2 DEF Same
<1> QED
  BY <1>2, <1>3, <1>5 DEF BufferOK, LevelsOK

\* The first n frames of level i have gone.
Drops(out, buf, i, n) ==
  /\ \A j \in Level : j # i => out.levels[j] = buf.levels[j]
  /\ Size(out, i) = Size(buf, i) - n
  /\ \A k \in 1 .. Size(out, i) : Same(out, i, k, buf, i, n + k)

LEMMA LevelsDropped ==
  ASSUME SameSize, NEW buf, LevelsOK(buf), NEW i \in Level, NEW out,
         out = DroppedOldest(buf, i)
  PROVE  /\ out \in BufferType
         /\ \A j \in Level : LevelOK(out.levels[j])
         /\ \E n \in 0 .. Size(buf, i) :
              /\ Drops(out, buf, i, n)
              /\ n = 0 \/ n = FramesToFree(buf.levels[i].frames,
                                          buf.levels[i].totalBytes - Budget(i))
<1> DEFINE src  == buf.levels[i]
           n    == FramesToFree(src.frames, src.totalBytes - Budget(i))
           left == IF n < Len(src.frames) THEN DropConverted(src, n)
                   ELSE [src EXCEPT !.frames = << >>, !.prevState = NoState,
                                    !.totalBytes = @ - PrefixBytes(src.frames, n)]
<1>0. out = buf \/ out = WithLevel(buf, i, left)
  BY DEF DroppedOldest
<1>1. /\ LevelOK(src) /\ Size(buf, i) \in Nat
      /\ n \in 0 .. Size(buf, i) /\ Size(buf, i) = Len(src.frames)
  <2>1. src.frames \in Seq(Frame) /\ Size(buf, i) \in Nat
    BY LevelsShape
  <2>2. n \in 0 .. Len(src.frames)
    BY <2>1, FreeCount
  <2>3. LevelOK(src)
    BY DEF LevelsOK
  <2> QED
    BY <2>1, <2>2, <2>3 DEF Size
<1>2. LeftOf(src, n, left)
  BY <1>1 DEF LeftOf
<1> HIDE DEF left, n, src
<1>3. /\ LevelOK(left)
      /\ Len(left.frames) = Size(buf, i) - n
      /\ \A k \in 1 .. Len(left.frames) :
           /\ left.frames[k].frame_no = No(buf, i, n + k)
           /\ left.frames[k].captured = State(buf, i, n + k)
  <2>1. n \in 0 .. Len(src.frames)
    BY <1>1
  <2>2. LevelOK(left)
    BY <1>1, <1>2, <2>1, LeftOK
  <2>3. Len(left.frames) = Len(src.frames) - n
    BY <1>1, <1>2, <2>1, LeftOK
  <2>4. \A k \in 1 .. Len(left.frames) : left.frames[k].frame_no = src.frames[n + k].frame_no
    BY <1>1, <1>2, <2>1, LeftOK
  <2>5. \A k \in 1 .. Len(left.frames) : left.frames[k].captured = src.frames[n + k].captured
    BY <1>1, <1>2, <2>1, LeftOK
  <2> QED
    BY <2>2, <2>3, <2>4, <2>5, <1>1 DEF No, State, src
<1> DEFINE Goal == /\ out \in BufferType
                   /\ \A j \in Level : LevelOK(out.levels[j])
                   /\ \E n1 \in 0 .. Size(buf, i) : Drops(out, buf, i, n1) /\ n1 \in {0, n}
<1>a. CASE out = buf
  <2>1. 0 \in 0 .. Size(buf, i) /\ \A k \in 1 .. Size(buf, i) : 0 + k = k
    BY <1>1
  <2>2. Size(out, i) = Size(buf, i) - 0
    BY <1>a, <1>1
  <2>3. Drops(out, buf, i, 0)
    BY <1>a, <2>1, <2>2 DEF Drops, Same
  <2> QED
    BY <1>a, <2>1, <2>3 DEF LevelsOK
<1> SUFFICES ASSUME out = WithLevel(buf, i, left)
             PROVE  Goal
  BY <1>0, <1>a DEF n, src
<1>4. /\ out \in BufferType
      /\ \A j \in Level : out.levels[j] = IF j = i THEN left ELSE buf.levels[j]
  <2>1. buf \in BufferType /\ left \in LevelType
    BY <1>3 DEF LevelsOK, LevelOK
  <2> QED
    BY <2>1, WithLevelIs
<1>5. \A j \in Level : LevelOK(out.levels[j])
  BY <1>3, <1>4 DEF LevelsOK
<1>6. \A k \in 1 .. Size(out, i) : Same(out, i, k, buf, i, n + k)
  <2> TAKE k \in 1 .. Size(out, i)
  <2>1. k \in 1 .. Len(left.frames)
    BY <1>4 DEF Size
  <2>2. n + k \in 1 .. Size(buf, i)
    BY <2>1, <1>1, <1>3
  <2> QED
    BY <2>1, <2>2, <1>3, <1>4 DEF Same, No, State
<1>7. Drops(out, buf, i, n)
  BY <1>3, <1>4, <1>6 DEF Drops, Size
<1> QED
  BY <1>1, <1>4, <1>5, <1>7

LEMMA DroppedMoves ==
  ASSUME SameSize, NEW buf, BufferOK(buf), NEW i \in Level, NEW out,
         out = DroppedOldest(buf, i)
  PROVE  /\ out \in BufferType
         /\ \A j \in Level : LevelOK(out.levels[j])
         /\ \E n \in 0 .. Size(buf, i) :
              /\ Drops(out, buf, i, n)
              /\ n = 0 \/ n = FramesToFree(buf.levels[i].frames,
                                          buf.levels[i].totalBytes - Budget(i))
BY LevelsDropped DEF BufferOK

\* Dropping the oldest frames of a level keeps the order of the others.
LEMMA DropsOlder ==
  ASSUME NEW buf, NEW i \in Level, NEW n \in Nat, NEW out, Drops(out, buf, i, n),
         \A j \in Level : Size(out, j) \in Nat,
         NEW p \in Level, NEW q \in Level,
         NEW k \in 1 .. Size(out, p), NEW l \in 1 .. Size(out, q), Older(p, k, q, l)
  PROVE  \E k2, l2 : /\ Same(out, p, k, buf, p, k2)
                    /\ Same(out, q, l, buf, q, l2)
                    /\ Older(p, k2, q, l2)
<1> DEFINE From(x, a, b) == (x # i /\ b = a) \/ (x = i /\ b = n + a)
<1>1. \A x \in Level : \A a \in 1 .. Size(out, x) :
        \E b : Same(out, x, a, buf, x, b) /\ From(x, a, b)
  <2> SUFFICES ASSUME NEW x \in Level, NEW a \in 1 .. Size(out, x)
               PROVE  \E b : Same(out, x, a, buf, x, b) /\ From(x, a, b)
    OBVIOUS
  <2>1. CASE x # i
    <3>1. Same(out, x, a, buf, x, a)
      BY <2>1 DEF Drops, Same, Size, No, State
    <3> QED
      BY <3>1, <2>1
  <2>2. CASE x = i
    <3>1. Same(out, i, a, buf, i, n + a)
      BY <2>2 DEF Drops
    <3> QED
      BY <3>1, <2>2
  <2> QED
    BY <2>1, <2>2
<1>2. PICK k2 : Same(out, p, k, buf, p, k2) /\ From(p, k, k2)
  BY <1>1
<1>3. PICK l2 : Same(out, q, l, buf, q, l2) /\ From(q, l, l2)
  BY <1>1
<1>4. Older(p, k2, q, l2)
  <2>1. k \in Nat /\ l \in Nat /\ n \in Nat
    OBVIOUS
  <2>2. From(p, k, k2) /\ From(q, l, l2)
    BY <1>2, <1>3
  <2> QED
    BY <2>1, <2>2 DEF Older
<1> QED
  BY <1>2, <1>3, <1>4

LEMMA DroppedOK ==
  ASSUME SameSize, NEW buf, BufferOK(buf), NEW i \in Level, NEW out,
         out = DroppedOldest(buf, i)
  PROVE  BufferOK(out)
<1>1. out \in BufferType /\ Size(buf, i) \in Nat
  BY DroppedMoves, BufferShape
<1>2. \A j \in Level : LevelOK(out.levels[j])
  BY DroppedMoves
<1>3. PICK n \in 0 .. Size(buf, i) : Drops(out, buf, i, n)
  BY DroppedMoves
<1>4. n \in Nat /\ \A j \in Level : Size(out, j) \in Nat
  BY <1>1, <1>2, LenProperties DEF LevelOK, Chain, Size
<1>5. Ordered(out)
  <2> SUFFICES ASSUME NEW p \in Level, NEW q \in Level,
                      NEW k \in 1 .. Size(out, p), NEW l \in 1 .. Size(out, q),
                      Older(p, k, q, l)
               PROVE  No(out, p, k) < No(out, q, l)
    BY DEF Ordered
  <2>1. PICK k2, l2 : /\ Same(out, p, k, buf, p, k2)
                      /\ Same(out, q, l, buf, q, l2)
                      /\ Older(p, k2, q, l2)
    BY <1>3, <1>4, DropsOlder
  <2>2. No(buf, p, k2) < No(buf, q, l2)
    BY <2>1 DEF Same, BufferOK, Ordered
  <2> QED
    BY <2>1, <2>2 DEF Same
<1> QED
  BY <1>1, <1>2, <1>5 DEF BufferOK, LevelsOK

-----------------------------------------------------------------------------
(* Cutting the newer frames *)

\* A level without its newer frames is a well-formed level, with a previous
\* state to be refreshed.
LEMMA CutOK ==
  ASSUME SameSize, NEW lvl, LevelOK(lvl), NEW no \in Nat, NEW out,
         out = CutLevel(lvl, no)
  PROVE  /\ out \in LevelType /\ Chain(out.frames)
         /\ Len(out.frames) \in 0 .. Len(lvl.frames)
         /\ \A k \in 1 .. Len(out.frames) :
              out.frames[k] = lvl.frames[k] /\ out.frames[k].frame_no <= no
<1> DEFINE kept == KeptUpTo(lvl.frames, no)
<1>0. /\ lvl \in LevelType /\ Chain(lvl.frames) /\ lvl.frames \in Seq(Frame)
      /\ Len(lvl.frames) \in Nat
  BY LenProperties DEF LevelOK, Chain
<1>1. /\ kept \in Seq(Frame) /\ Len(kept) \in 0 .. Len(lvl.frames)
      /\ \A k \in 1 .. Len(kept) :
           kept[k] = lvl.frames[k] /\ lvl.frames[k].frame_no <= no
  <2> DEFINE frames == lvl.frames
  <2>1. kept = KeptUpTo(frames, no) /\ frames \in Seq(Frame)
    BY <1>0
  <2> HIDE DEF kept, frames
  <2>2. kept \in Seq(Frame)
    BY <2>1, KeptIsPrefix
  <2>3. Len(kept) \in 0 .. Len(frames)
    BY <2>1, KeptIsPrefix
  <2>4. \A k \in 1 .. Len(kept) : kept[k] = frames[k] /\ frames[k].frame_no <= no
    BY <2>1, KeptIsPrefix
  <2> QED
    BY <2>2, <2>3, <2>4 DEF frames
<1>2. out = [frames     |-> kept,
             totalBytes |-> lvl.totalBytes - PrefixBytes(lvl.frames, Len(lvl.frames))
                                           + PrefixBytes(kept, Len(kept)),
             prevState  |-> IF kept = << >> THEN NoState ELSE lvl.prevState]
  BY DEF CutLevel
<1> HIDE DEF kept
<1>3. Chain(kept)
  <2> DEFINE frames == lvl.frames
             n      == Len(kept)
  <2>1. /\ Chain(frames) /\ kept \in Seq(Frame) /\ n \in 0 .. Len(frames)
        /\ Len(kept) = n /\ \A k \in 1 .. n : kept[k] = frames[k]
    BY <1>0, <1>1
  <2> HIDE DEF frames, n
  <2> QED
    BY <2>1, PrefixChain
<1>4. \A frames : Chain(frames) => PrefixBytes(frames, Len(frames)) \in Int
  <2> TAKE frames
  <2> HAVE Chain(frames)
  <2>1. Len(frames) \in 0 .. Len(frames)
    BY ChainSized
  <2> QED
    BY <2>1, ChainSized
<1>5. lvl.totalBytes - PrefixBytes(lvl.frames, Len(lvl.frames))
        + PrefixBytes(kept, Len(kept)) \in Int
  BY <1>0, <1>3, <1>4 DEF LevelType
<1>6. out \in LevelType
  BY <1>0, <1>1, <1>2, <1>5 DEF LevelType
<1> QED
  BY <1>1, <1>2, <1>3, <1>6

\* Refreshing the previous states of levels of chains never fails, and makes
\* them well formed.
LEMMA RefreshOK ==
  ASSUME SameSize, NEW cut \in [Level -> LevelType],
         \A i \in Level : Chain(cut[i].frames),
         NEW out, out = RefreshedLevels(cut)
  PROVE  /\ out \in [Level -> LevelType]
         /\ \A i \in Level : LevelOK(out[i]) /\ out[i].frames = cut[i].frames
         /\ \A i \in Level : out[i].totalBytes = cut[i].totalBytes
<1> DEFINE fails(i) == cut[i].frames # << >> /\ Last(cut[i]) = NoState
<1>1. \A i \in Level : cut[i].frames # << >> =>
        /\ Last(cut[i]) \in States /\ Last(cut[i]) # NoState
        /\ Last(cut[i]) = cut[i].frames[Len(cut[i].frames)].captured
  <2> SUFFICES ASSUME NEW i \in Level, cut[i].frames # << >>
               PROVE  /\ Last(cut[i]) \in States /\ Last(cut[i]) # NoState
                      /\ Last(cut[i]) = cut[i].frames[Len(cut[i].frames)].captured
    OBVIOUS
  <2> DEFINE frames == cut[i].frames
  <2>1. Chain(frames) /\ frames # << >>
    OBVIOUS
  <2> HIDE DEF frames
  <2>2. Len(frames) \in 1 .. Len(frames)
    BY <2>1, LenProperties DEF Chain
  <2>3. /\ Reconstruct(frames, Len(frames)) = frames[Len(frames)].captured
        /\ Reconstruct(frames, Len(frames)) \in States
    BY <2>1, <2>2, ReconstructExact
  <2>4. Reconstruct(frames, Len(frames)) # NoState
    BY <2>3, StateShape DEF NoState
  <2> QED
    BY <2>3, <2>4 DEF Last, frames
<1>2. \A i \in Level : ~fails(i)
  BY <1>1
<1>3. \A i \in Level : \A j \in 1 .. i : j \in Level
  BY LevelsAssumption DEF Level
<1>4. out = [i \in Level |-> IF cut[i].frames # << >>
                             THEN [cut[i] EXCEPT !.prevState = Last(cut[i])] ELSE cut[i]]
  BY <1>2, <1>3 DEF RefreshedLevels
<1>5. \A i \in Level : /\ out[i] \in LevelType
                       /\ out[i].frames = cut[i].frames
                       /\ out[i].totalBytes = cut[i].totalBytes
                       /\ cut[i].frames # << >> => out[i].prevState = Last(cut[i])
  BY <1>1, <1>4 DEF LevelType
<1>6. \A i \in Level : LevelOK(out[i])
  BY <1>1, <1>5 DEF LevelOK, PrevOK
<1>7. out \in [Level -> LevelType]
  BY <1>4, <1>5
<1> QED
  BY <1>5, <1>6, <1>7

\* The slots of a buffer are positions in its levels.
LEMMA SlotShape ==
  ASSUME NEW buf, NEW slot \in Slots(buf)
  PROVE  /\ slot[1] \in Level /\ slot[2] \in 1 .. Size(buf, slot[1])
         /\ slot = << slot[1], slot[2] >>
         /\ FrameAt(buf, slot) = buf.levels[slot[1]].frames[slot[2]]
         /\ FrameAt(buf, slot).frame_no = No(buf, slot[1], slot[2])
<1>1. PICK i \in Level : slot \in {<< i, k >> : k \in 1 .. Len(buf.levels[i].frames)}
  BY DEF Slots
<1>2. PICK k \in 1 .. Len(buf.levels[i].frames) : slot = << i, k >>
  BY <1>1
<1> QED
  BY <1>2 DEF Size, FrameAt, No

\* A label names one frame, and the other slots are older or newer.
LEMMA OneOrder ==
  ASSUME NEW buf, BufferOK(buf), NEW a \in Slots(buf), NEW b \in Slots(buf)
  PROVE  /\ Older(a[1], a[2], b[1], b[2]) \/ Older(b[1], b[2], a[1], a[2]) \/ a = b
         /\ Older(a[1], a[2], b[1], b[2]) =>
              FrameAt(buf, a).frame_no < FrameAt(buf, b).frame_no
         /\ FrameAt(buf, a).frame_no \in Nat
<1>1. /\ a[1] \in Level /\ a[2] \in 1 .. Size(buf, a[1]) /\ a = << a[1], a[2] >>
      /\ FrameAt(buf, a).frame_no = No(buf, a[1], a[2])
  BY SlotShape
<1>2. /\ b[1] \in Level /\ b[2] \in 1 .. Size(buf, b[1]) /\ b = << b[1], b[2] >>
      /\ FrameAt(buf, b).frame_no = No(buf, b[1], b[2])
  BY SlotShape
<1>3. Size(buf, a[1]) \in Nat /\ Size(buf, b[1]) \in Nat /\ No(buf, a[1], a[2]) \in Nat
  BY <1>1, <1>2, BufferShape
<1>4. a[1] \in Nat /\ b[1] \in Nat /\ a[2] \in Nat /\ b[2] \in Nat
  BY <1>1, <1>2, <1>3 DEF Level
<1>5. Older(a[1], a[2], b[1], b[2]) \/ Older(b[1], b[2], a[1], a[2])
      \/ (a[1] = b[1] /\ a[2] = b[2])
  BY <1>4 DEF Older
<1>6. Older(a[1], a[2], b[1], b[2]) => No(buf, a[1], a[2]) < No(buf, b[1], b[2])
  BY <1>1, <1>2 DEF BufferOK, LevelsOK, Ordered
<1>7. a[1] = b[1] /\ a[2] = b[2] => a = b
  BY <1>1, <1>2
<1> QED
  BY <1>1, <1>2, <1>3, <1>5, <1>6, <1>7

\* A lookup of a stored label finds the first frame of that label.
LEMMA FirstFound ==
  ASSUME NEW buf, NEW no, HasFrameNo(buf, no)
  PROVE  /\ FindFrame(buf, no) \in Slots(buf)
         /\ FrameAt(buf, FindFrame(buf, no)).frame_no = no
<1> DEFINE P(slot) == /\ FrameAt(buf, slot).frame_no = no
                      /\ \A other \in Slots(buf) :
                           FrameAt(buf, other).frame_no = no =>
                             \/ slot[1] < other[1]
                             \/ slot[1] = other[1] /\ slot[2] <= other[2]
           In == {i \in Level : \E k \in 1 .. Size(buf, i) : No(buf, i, k) = no}
<1>1. PICK a \in Slots(buf) : FrameAt(buf, a).frame_no = no
  BY DEF HasFrameNo
<1>2. a[1] \in In
  BY <1>1, SlotShape
<1>3. In \in SUBSET Nat /\ In # {}
  BY <1>2 DEF Level
<1>4. \A b \in Slots(buf) : FrameAt(buf, b).frame_no = no => b[1] \in In
  BY SlotShape
<1>5. \A i \in In : i \in Level /\ \E k \in 1 .. Size(buf, i) : No(buf, i, k) = no
  OBVIOUS
<1> HIDE DEF In
<1>6. PICK i \in In : \A j \in In : ~(j < i)
  BY <1>3, LeastMember
<1> DEFINE At == {k \in 1 .. Size(buf, i) : No(buf, i, k) = no}
<1>7. At \in SUBSET Nat /\ At # {}
  BY <1>5, <1>6
<1>8. \A k \in At : k \in 1 .. Size(buf, i) /\ No(buf, i, k) = no
  OBVIOUS
<1>9. \A b \in Slots(buf) : FrameAt(buf, b).frame_no = no /\ b[1] = i => b[2] \in At
  BY SlotShape
<1> HIDE DEF At
<1>10. PICK k \in At : \A l \in At : ~(l < k)
  BY <1>7, LeastMember
<1>11. << i, k >> \in Slots(buf) /\ FrameAt(buf, << i, k >>).frame_no = no
  BY <1>5, <1>6, <1>8, <1>10 DEF Slots, FrameAt, No, Size
<1>12. P(<< i, k >>)
  <2> SUFFICES ASSUME NEW other \in Slots(buf), FrameAt(buf, other).frame_no = no
               PROVE  i < other[1] \/ (i = other[1] /\ k <= other[2])
    BY <1>11
  <2>1. other[1] \in In /\ other[1] \in Nat /\ i \in Nat
    BY <1>3, <1>4, <1>6
  <2>2. i < other[1] \/ i = other[1]
    BY <2>1, <1>6
  <2>3. i = other[1] => other[2] \in At /\ other[2] \in Nat /\ k \in Nat
    BY <1>7, <1>9, <1>10
  <2> QED
    BY <2>2, <2>3, <1>10
<1>13. FindFrame(buf, no) = CHOOSE slot \in Slots(buf) : P(slot)
  BY DEF FindFrame
<1>14. FindFrame(buf, no) \in Slots(buf) /\ P(FindFrame(buf, no))
  <2> HIDE DEF P
  <2> QED
    BY <1>11, <1>12, <1>13
<1> QED
  BY <1>14

\* A restore of a stored label gives the state of a frame of that label.
LEMMA RestoreLevels ==
  ASSUME SameSize, NEW buf, LevelsOK(buf), NEW no, HasFrameNo(buf, no)
  PROVE  \E slot \in Slots(buf) :
           /\ FrameAt(buf, slot).frame_no = no
           /\ RestoredState(buf, no) = FrameAt(buf, slot).captured
           /\ RestoredState(buf, no) \in States
<1>1. PICK a \in Slots(buf) : a = FindFrame(buf, no) /\ FrameAt(buf, a).frame_no = no
  BY FirstFound
<1>2. a[1] \in Level /\ a[2] \in 1 .. Size(buf, a[1])
      /\ FrameAt(buf, a) = buf.levels[a[1]].frames[a[2]]
  BY SlotShape
<1>3. RestoredState(buf, no) = Reconstruct(buf.levels[a[1]].frames, a[2])
  BY <1>1 DEF RestoredState
<1>4. /\ Reconstruct(buf.levels[a[1]].frames, a[2]) = buf.levels[a[1]].frames[a[2]].captured
      /\ Reconstruct(buf.levels[a[1]].frames, a[2]) \in States
  <2> DEFINE frames == buf.levels[a[1]].frames
  <2>1. Chain(frames) /\ a[2] \in 1 .. Len(frames)
    BY <1>2 DEF LevelsOK, LevelOK, Size
  <2> HIDE DEF frames
  <2>2. Reconstruct(frames, a[2]) = frames[a[2]].captured /\ Reconstruct(frames, a[2]) \in States
    BY <2>1, ReconstructExact
  <2> QED
    BY <2>2 DEF frames
<1> QED
  BY <1>1, <1>2, <1>3, <1>4

LEMMA RestoreExact ==
  ASSUME SameSize, NEW buf, BufferOK(buf), NEW no, HasFrameNo(buf, no)
  PROVE  \E slot \in Slots(buf) :
           /\ FrameAt(buf, slot).frame_no = no
           /\ RestoredState(buf, no) = FrameAt(buf, slot).captured
           /\ RestoredState(buf, no) \in States
BY RestoreLevels DEF BufferOK

WithPrev(left, exact, no) ==
  [left EXCEPT !.levels[1].prevState = exact, !.currentFrameNo = no]

\* Setting the previous state of the first level disturbs nothing else.
LEMMA PrevSet ==
  ASSUME NEW left \in BufferType, NEW exact \in States, NEW no \in Nat, NEW out,
         out = WithPrev(left, exact, no)
  PROVE  /\ out \in BufferType
         /\ \A i \in Level :
              /\ out.levels[i].frames = left.levels[i].frames
              /\ out.levels[i].totalBytes = left.levels[i].totalBytes
              /\ out.levels[i].prevState = IF i = 1 THEN exact ELSE left.levels[i].prevState
              /\ i # 1 => out.levels[i] = left.levels[i]
         /\ out.totalBytes = left.totalBytes
         /\ out.currentFrameNo = no
<1> DEFINE first == [left.levels[1] EXCEPT !.prevState = exact]
           ls    == [left.levels EXCEPT ![1] = first]
<1>0. 1 \in Level /\ left.levels \in [Level -> LevelType]
  BY LevelsAssumption DEF Level, BufferType
<1>1. out = [left EXCEPT !.levels = ls, !.currentFrameNo = no]
  BY DEF BufferType, WithPrev
<1>2. /\ first \in LevelType /\ first.frames = left.levels[1].frames
      /\ first.totalBytes = left.levels[1].totalBytes
      /\ first.prevState = exact
  <2> DEFINE l1 == left.levels[1]
  <2>1. l1 \in LevelType /\ first = [l1 EXCEPT !.prevState = exact]
    BY <1>0
  <2> HIDE DEF l1, first
  <2> QED
    BY <2>1 DEF LevelType, l1
<1> HIDE DEF first
<1>3. /\ ls \in [Level -> LevelType]
      /\ \A i \in Level : ls[i] = IF i = 1 THEN first ELSE left.levels[i]
  BY <1>0, <1>2
<1> HIDE DEF ls
<1>4. /\ out \in BufferType /\ out.levels = ls /\ out.totalBytes = left.totalBytes
      /\ out.currentFrameNo = no
  BY <1>1, <1>3 DEF BufferType
<1> QED
  BY <1>2, <1>3, <1>4

CutLevels(buf, no) == RefreshedLevels([i \in Level |-> CutLevel(buf.levels[i], no)])

CutBuffer(buf, no) ==
  [buf EXCEPT !.levels = CutLevels(buf, no),
              !.totalBytes = @ + SizeChange(buf.levels, CutLevels(buf, no))]

\* Each level of left is what cutting keeps of the level of buf, and counted so.
EachCut(left, buf, no) ==
  \A i \in Level :
    /\ left.levels[i].frames = KeptUpTo(buf.levels[i].frames, no)
    /\ left.levels[i].totalBytes = CutLevel(buf.levels[i], no).totalBytes

\* Cutting the newer frames off each level keeps a buffer well formed, and the
\* older ones where they are.
LEMMA CutBufferOK ==
  ASSUME SameSize, NEW buf, BufferOK(buf), NEW no \in Nat,
         NEW left, left = CutBuffer(buf, no)
  PROVE  /\ BufferOK(left)
         /\ left.totalBytes = buf.totalBytes + SizeChange(buf.levels, left.levels)
         /\ left.currentFrameNo = buf.currentFrameNo
         /\ EachCut(left, buf, no)
         /\ \A i \in Level :
              /\ Size(left, i) \in 0 .. Size(buf, i) /\ Size(buf, i) \in Nat
              /\ \A k \in 1 .. Size(left, i) :
                   /\ left.levels[i].frames[k] = buf.levels[i].frames[k]
                   /\ No(left, i, k) <= no
<1> DEFINE cut    == [i \in Level |-> CutLevel(buf.levels[i], no)]
           levels == RefreshedLevels(cut)
           total  == buf.totalBytes + SizeChange(buf.levels, levels)
<1>0. buf \in BufferType /\ \A i \in Level : LevelOK(buf.levels[i])
  BY DEF BufferOK, LevelsOK
<1>1. left = [buf EXCEPT !.levels = levels, !.totalBytes = total]
  BY <1>0 DEF CutBuffer, CutLevels, BufferType
<1>2. \A i \in Level : /\ cut[i] \in LevelType /\ Chain(cut[i].frames)
                       /\ Len(cut[i].frames) \in 0 .. Size(buf, i)
                       /\ \A k \in 1 .. Len(cut[i].frames) :
                            /\ cut[i].frames[k] = buf.levels[i].frames[k]
                            /\ No(buf, i, k) <= no
  <2> TAKE i \in Level
  <2> DEFINE lvl == buf.levels[i]
             c   == cut[i]
  <2>1. LevelOK(lvl) /\ c = CutLevel(lvl, no)
    BY <1>0
  <2> HIDE DEF c, lvl
  <2>2. /\ c \in LevelType /\ Chain(c.frames)
        /\ Len(c.frames) \in 0 .. Len(lvl.frames)
        /\ \A k \in 1 .. Len(c.frames) :
             c.frames[k] = lvl.frames[k] /\ c.frames[k].frame_no <= no
    BY <2>1, CutOK
  <2> QED
    BY <2>2 DEF Size, No, c, lvl
<1>3. cut \in [Level -> LevelType]
  BY <1>2
<1>4. \A i \in Level : cut[i] = CutLevel(buf.levels[i], no)
               /\ cut[i].frames = KeptUpTo(buf.levels[i].frames, no)
  BY DEF CutLevel
<1>5. levels = RefreshedLevels(cut)
  OBVIOUS
<1> HIDE DEF cut, levels
<1>6. /\ levels \in [Level -> LevelType]
      /\ \A i \in Level : LevelOK(levels[i]) /\ levels[i].frames = cut[i].frames
      /\ \A i \in Level : levels[i].totalBytes = cut[i].totalBytes
  <2>1. levels \in [Level -> LevelType]
    BY <1>2, <1>3, <1>5, RefreshOK
  <2>2. \A i \in Level : LevelOK(levels[i]) /\ levels[i].frames = cut[i].frames
    BY <1>2, <1>3, <1>5, RefreshOK
  <2>3. \A i \in Level : levels[i].totalBytes = cut[i].totalBytes
    BY <1>2, <1>3, <1>5, RefreshOK
  <2> QED
    BY <2>1, <2>2, <2>3
<1>7. left \in BufferType /\ left.levels = levels /\ left.totalBytes = total
      /\ left.currentFrameNo = buf.currentFrameNo
  <2>1. Weighed(buf.levels, levels)
    BY <1>0, <1>6 DEF Weighed, BufferType, LevelType
  <2>2. total \in Int
    BY <2>1, <1>0, SizeChangeType DEF BufferType
  <2> HIDE DEF total
  <2> QED
    BY <2>2, <1>0, <1>1, <1>6 DEF BufferType
<1>8. \A i \in Level : /\ Size(left, i) \in 0 .. Size(buf, i) /\ Size(buf, i) \in Nat
                       /\ \A k \in 1 .. Size(left, i) :
                            /\ left.levels[i].frames[k] = buf.levels[i].frames[k]
                            /\ No(left, i, k) = No(buf, i, k) /\ No(buf, i, k) <= no
  <2> TAKE i \in Level
  <2>1. left.levels[i].frames = cut[i].frames
    BY <1>6, <1>7
  <2>2. Size(buf, i) \in Nat
    BY BufferShape
  <2> QED
    BY <2>1, <2>2, <1>2 DEF Size, No
<1>9. Ordered(left)
  <2> SUFFICES ASSUME NEW i \in Level, NEW j \in Level, NEW k \in 1 .. Size(left, i),
                      NEW l \in 1 .. Size(left, j), Older(i, k, j, l)
               PROVE  No(left, i, k) < No(left, j, l)
    BY DEF Ordered
  <2>1. k \in 1 .. Size(buf, i) /\ l \in 1 .. Size(buf, j)
    BY <1>8
  <2>2. No(buf, i, k) < No(buf, j, l)
    BY <2>1 DEF BufferOK, LevelsOK, Ordered
  <2> QED
    BY <2>2, <1>8
<1>10. BufferOK(left)
  BY <1>6, <1>7, <1>9 DEF BufferOK, LevelsOK
<1>11. EachCut(left, buf, no)
  BY <1>4, <1>6, <1>7 DEF EachCut
<1> QED
  BY <1>7, <1>8, <1>10, <1>11

\* Trimming after a label is that cut, and leaves the next capture to be made
\* against the newest frame that remains.
LEMMA TrimmedOK ==
  ASSUME SameSize, NEW buf, BufferOK(buf), NEW no \in Nat, NEW out,
         out = TrimmedAfter(buf, no)
  PROVE  BufferOK(out)
<1> DEFINE left   == CutBuffer(buf, no)
           levels == left.levels
           exact  == RestoredState(left, no)
<1>1. out = left \/ (exact # NoState /\ out = WithPrev(left, exact, no))
  BY DEF TrimmedAfter, WithPrev, CutBuffer, CutLevels
<1>2. left = CutBuffer(buf, no)
  OBVIOUS
<1> HIDE DEF left
<1>3. BufferOK(left)
  BY <1>2, CutBufferOK
<1>4. \A i \in Level : \A k \in 1 .. Size(left, i) : No(left, i, k) <= no
  BY <1>2, CutBufferOK
<1>5. Ordered(left) /\ \A i \in Level : LevelOK(levels[i])
  BY <1>3 DEF BufferOK, LevelsOK
<1> SUFFICES ASSUME exact # NoState,
                    out = WithPrev(left, exact, no)
             PROVE  BufferOK(out)
  BY <1>1, <1>3
<1>6. HasFrameNo(left, no)
  BY DEF RestoredState
<1>7. PICK slot \in Slots(left) : /\ FrameAt(left, slot).frame_no = no
                                   /\ exact = FrameAt(left, slot).captured
                                   /\ exact \in States
  BY <1>3, <1>6, RestoreExact
<1> HIDE DEF exact
<1>8. 1 \in Level /\ \A j \in Level : j \in Nat /\ j >= 1
  BY LevelsAssumption DEF Level
<1>9. levels[1].frames # << >> => exact = levels[1].frames[Len(levels[1].frames)].captured
  <2> SUFFICES ASSUME levels[1].frames # << >>
               PROVE  exact = levels[1].frames[Len(levels[1].frames)].captured
    OBVIOUS
  <2> DEFINE k == Size(left, 1)
  <2>1. left.levels[1].frames = levels[1].frames /\ k = Len(levels[1].frames)
    BY DEF Size
  <2>2. k \in 1 .. Size(left, 1)
    <3>1. levels[1].frames \in Seq(Frame)
      BY <1>5, <1>8 DEF LevelOK, Chain
    <3> QED
      BY <2>1, <3>1, LenProperties
  <2>3. No(left, 1, k) <= no
    BY <2>2, <1>4, <1>8
  <2>4. /\ slot[1] \in Level /\ slot[2] \in 1 .. Size(left, slot[1])
        /\ slot = << slot[1], slot[2] >>
        /\ FrameAt(left, slot) = left.levels[slot[1]].frames[slot[2]]
        /\ No(left, slot[1], slot[2]) = no
    BY <1>7, SlotShape
  <2>5. ~Older(slot[1], slot[2], 1, k)
    <3>1. No(left, 1, k) \in Nat
      BY <1>3, <1>8, <2>2, BufferShape
    <3>2. ~(no < No(left, 1, k))
      BY <2>3, <3>1
    <3> QED
      BY <3>2, <2>2, <2>4, <1>5, <1>8 DEF Ordered
  <2>6. slot[1] = 1
    BY <2>5, <2>4, <1>8 DEF Older
  <2>7. slot[2] = k
    <3>1. k \in Nat /\ slot[2] \in Nat /\ slot[2] <= k
      BY <2>2, <2>4, <2>6
    <3> QED
      BY <3>1, <2>5, <2>6 DEF Older
  <2> QED
    BY <2>1, <2>4, <2>6, <2>7, <1>7
<1>10. /\ out \in BufferType
       /\ \A i \in Level :
            /\ out.levels[i].frames = left.levels[i].frames
            /\ out.levels[i].prevState = IF i = 1 THEN exact ELSE left.levels[i].prevState
  <2>1. left \in BufferType /\ exact \in States
    BY <1>3, <1>7 DEF BufferOK, LevelsOK
  <2>2. out \in BufferType
    BY <2>1, PrevSet
  <2>3. \A i \in Level : out.levels[i].frames = left.levels[i].frames
    BY <2>1, PrevSet
  <2>4. \A i \in Level :
          out.levels[i].prevState = IF i = 1 THEN exact ELSE left.levels[i].prevState
    BY <2>1, PrevSet
  <2> QED
    BY <2>2, <2>3, <2>4
<1>11. \A i \in Level : LevelOK(out.levels[i])
  <2> TAKE i \in Level
  <2>1. out.levels[i] \in LevelType
    BY <1>10 DEF BufferType
  <2>2. LevelOK(left.levels[i])
    BY <1>3 DEF BufferOK, LevelsOK
  <2>3. PrevOK(out.levels[i])
    BY <2>2, <1>9, <1>10 DEF LevelOK, PrevOK
  <2> QED
    BY <2>1, <2>2, <2>3, <1>10 DEF LevelOK
<1>12. Ordered(out)
  BY <1>5, <1>10 DEF Ordered, Size, No
<1> QED
  BY <1>10, <1>11, <1>12 DEF BufferOK, LevelsOK

-----------------------------------------------------------------------------
(* The invariant *)

\* Both timelines are well formed.  BufferOK is what makes the exactness of
\* reconstruction inductive: each frame leads from the state of the one before
\* it to its own, the previous state kept for the next diff is that of the last
\* frame, and the labels are ordered, so that trimming after a label resumes
\* from the frame that becomes the last.
IInv ==
  /\ BufferOK(current)
  /\ BufferOK(save)
  /\ trimAt \in 0 .. LevelCount

\* The flags and the current label have no part in it.
LEMMA SameLevelsOK ==
  ASSUME NEW buf, BufferOK(buf), NEW out \in BufferType, out.levels = buf.levels
  PROVE  BufferOK(out)
<1>1. Ordered(out)
  BY DEF BufferOK, LevelsOK, Ordered, Size, No
<1> QED
  BY <1>1 DEF BufferOK, LevelsOK

LEMMA InitOK == Init => IInv
<1> SUFFICES ASSUME Init PROVE IInv
  OBVIOUS
<1>1. BufferOK(current) /\ BufferOK(save)
  BY EmptyBufferOK DEF Init
<1>2. trimAt \in 0 .. LevelCount
  BY LevelsAssumption DEF Init
<1> QED
  BY <1>1, <1>2 DEF IInv

LEMMA TrimStepOK ==
  ASSUME SameSize, IInv, Trim
  PROVE  IInv'
<1>0. /\ BufferOK(current) /\ BufferOK(save) /\ trimAt \in 0 .. LevelCount
      /\ LevelCount \in Nat
  BY LevelsAssumption DEF IInv
<1>1. CASE TrimPromote
  <2>1. /\ trimAt \in 1 .. LevelCount - 1 /\ current.levels[trimAt].frames # << >>
        /\ current' = Promoted(current, trimAt) /\ save' = save /\ trimAt' = trimAt
    BY <1>1 DEF TrimPromote, OverBudget
  <2>2. trimAt \in Level /\ trimAt + 1 \in Level
    BY <2>1, <1>0 DEF Level
  <2>3. BufferOK(current')
    BY <1>0, <2>1, <2>2, PromotedOK
  <2> QED
    BY <1>0, <2>1, <2>3 DEF IInv
<1>2. CASE TrimDrop
  <2>1. /\ trimAt = LevelCount /\ current' = DroppedOldest(current, trimAt)
        /\ save' = save /\ trimAt' = trimAt
    BY <1>2 DEF TrimDrop
  <2>2. trimAt \in Level
    BY <2>1, LevelsAssumption DEF Level
  <2>3. BufferOK(current')
    BY <1>0, <2>1, <2>2, DroppedOK
  <2> QED
    BY <1>0, <2>1, <2>3 DEF IInv
<1>3. CASE TrimNextLevel
  <2>1. /\ trimAt \in Level /\ trimAt' = IF trimAt = LevelCount THEN 0 ELSE trimAt + 1
        /\ current' = current /\ save' = save
    BY <1>3 DEF TrimNextLevel
  <2>2. trimAt' \in 0 .. LevelCount
    BY <2>1, <1>0 DEF Level
  <2> QED
    BY <1>0, <2>1, <2>2 DEF IInv
<1> QED
  BY <1>1, <1>2, <1>3 DEF Trim

LEMMA CaptureStepOK ==
  ASSUME SameSize, IInv, NEW s \in States, CaptureNext(s)
  PROVE  IInv'
<1> DEFINE no  == current.currentFrameNo + 1
           mid == WithLevel(current, 1, AppendStates(current.levels[1], << Item(s, no, s) >>))
<1>0. /\ BufferOK(current) /\ BufferOK(save) /\ trimAt \in 0 .. LevelCount
      /\ LevelCount \in Nat /\ LevelCount >= 1
  BY LevelsAssumption DEF IInv
<1>1. /\ \A slot \in Slots(current) : FrameAt(current, slot).frame_no < no
      /\ current' = [mid EXCEPT !.currentFrameNo = no]
      /\ trimAt' = 1 /\ save' = save
  BY DEF CaptureNext, Capture
<1>2. no \in Nat
  BY <1>0 DEF BufferOK, LevelsOK, BufferType
<1>3. \A i \in Level : \A k \in 1 .. Size(current, i) : No(current, i, k) < no
  <2> SUFFICES ASSUME NEW i \in Level, NEW k \in 1 .. Size(current, i)
               PROVE  No(current, i, k) < no
    OBVIOUS
  <2>1. << i, k >> \in Slots(current)
    BY DEF Slots, Size
  <2>2. FrameAt(current, << i, k >>).frame_no = No(current, i, k)
    BY DEF FrameAt, No
  <2> QED
    BY <1>1, <2>1, <2>2
<1> HIDE DEF no
<1>4. BufferOK(mid)
  BY <1>0, <1>2, <1>3, CaptureOK
<1> HIDE DEF mid
<1>5. current' \in BufferType /\ current'.levels = mid.levels
  BY <1>1, <1>2, <1>4 DEF BufferOK, LevelsOK, BufferType
<1>6. BufferOK(current')
  BY <1>4, <1>5, SameLevelsOK
<1>7. trimAt' \in 0 .. LevelCount
  BY <1>0, <1>1
<1> QED
  BY <1>0, <1>1, <1>6, <1>7 DEF IInv

LEMMA TrimAfterStepOK ==
  ASSUME SameSize, IInv, NEW no \in StoredNos, TrimAfterFrameNo(no)
  PROVE  IInv'
<1>1. PICK slot \in Slots(current) : no = FrameAt(current, slot).frame_no
  BY DEF StoredNos
<1>2. no \in Nat
  BY <1>1, OneOrder DEF IInv
<1>3. /\ current' = TrimmedAfter(current, no) /\ save' = save /\ trimAt' = trimAt
  BY DEF TrimAfterFrameNo
<1>4. BufferOK(current')
  BY <1>2, <1>3, TrimmedOK DEF IInv
<1> QED
  BY <1>3, <1>4 DEF IInv

LEMMA PauseStepOK ==
  ASSUME SameSize, IInv, NextPause
  PROVE  IInv'
<1>0. BufferOK(current) /\ BufferOK(save) /\ current \in BufferType
  BY DEF IInv, BufferOK, LevelsOK
<1>1. ASSUME NEW b \in BOOLEAN, SetPaused(b)
      PROVE  IInv'
  <2>1. current' = [current EXCEPT !.paused = b] /\ save' = save /\ trimAt' = trimAt
    BY <1>1 DEF SetPaused
  <2>2. current' \in BufferType /\ current'.levels = current.levels
    BY <1>0, <2>1 DEF BufferType
  <2>3. BufferOK(current')
    BY <1>0, <2>2, SameLevelsOK
  <2> QED
    BY <2>1, <2>3 DEF IInv
<1>2. ASSUME NEW b \in BOOLEAN, SetRollingPaused(b)
      PROVE  IInv'
  <2>1. save' = save /\ trimAt' = trimAt
    BY <1>2 DEF SetRollingPaused
  <2>2. CASE b
    <3>1. current' = [current EXCEPT !.rollingPaused = TRUE]
      BY <1>2, <2>2 DEF SetRollingPaused
    <3>2. current' \in BufferType /\ current'.levels = current.levels
      BY <1>0, <3>1 DEF BufferType
    <3>3. BufferOK(current')
      BY <1>0, <3>2, SameLevelsOK
    <3> QED
      BY <2>1, <3>3 DEF IInv
  <2>3. CASE ~b
    <3>1. current' = [EmptyBuffer EXCEPT !.paused = current.paused,
                                         !.currentFrameNo = current.currentFrameNo]
      BY <1>2, <2>3 DEF SetRollingPaused
    <3>2. BufferOK(EmptyBuffer) /\ EmptyBuffer \in BufferType
      BY EmptyBufferOK DEF BufferOK, LevelsOK
    <3>3. current' \in BufferType /\ current'.levels = EmptyBuffer.levels
      BY <1>0, <3>1, <3>2 DEF BufferType
    <3>4. BufferOK(current')
      BY <3>2, <3>3, SameLevelsOK
    <3> QED
      BY <2>1, <3>4 DEF IInv
  <2> QED
    BY <2>2, <2>3
<1>3. ASSUME NEW no \in StoredNos, RestoreFrameNo(no)
      PROVE  IInv'
  <2>1. /\ current' = [current EXCEPT !.currentFrameNo = no]
        /\ save' = save /\ trimAt' = trimAt
    BY <1>3 DEF RestoreFrameNo
  <2>2. no \in Nat
    <3>1. PICK slot \in Slots(current) : no = FrameAt(current, slot).frame_no
      BY DEF StoredNos
    <3> QED
      BY <1>0, <3>1, OneOrder
  <2>3. current' \in BufferType /\ current'.levels = current.levels
    BY <1>0, <2>1, <2>2 DEF BufferType
  <2>4. BufferOK(current')
    BY <1>0, <2>3, SameLevelsOK
  <2> QED
    BY <2>1, <2>4 DEF IInv
<1> QED
  BY <1>1, <1>2, <1>3 DEF NextPause

LEMMA SaveStepOK ==
  ASSUME SameSize, IInv, NextSave
  PROVE  IInv'
<1>0. /\ BufferOK(current) /\ BufferOK(save)
      /\ current \in BufferType /\ save \in BufferType
  BY DEF IInv, BufferOK, LevelsOK
<1>1. ASSUME NEW s \in States, SetSaveKeyframe(s, current.currentFrameNo)
      PROVE  IInv'
  <2> DEFINE no  == current.currentFrameNo
             mid == WithLevel(EmptyBuffer, 1,
                              AppendStates(EmptyBuffer.levels[1], << Item(s, no, s) >>))
  <2>1. 1 \in Level /\ EmptyBuffer.levels[1] = EmptyLevel
    BY LevelsAssumption DEF Level, EmptyBuffer
  <2>2. /\ save' = [mid EXCEPT !.currentFrameNo = no]
        /\ current' = current /\ trimAt' = trimAt
    BY <1>1, <2>1 DEF SetSaveKeyframe
  <2>3. no \in Nat
    BY <1>0 DEF BufferType
  <2> HIDE DEF no
  <2>4. \A i \in Level : \A k \in 1 .. Size(EmptyBuffer, i) : No(EmptyBuffer, i, k) < no
    BY DEF EmptyBuffer, EmptyLevel, Size
  <2>5. BufferOK(mid)
    BY <2>3, <2>4, EmptyBufferOK, CaptureOK
  <2> HIDE DEF mid
  <2>6. save' \in BufferType /\ save'.levels = mid.levels
    BY <2>2, <2>3, <2>5 DEF BufferOK, LevelsOK, BufferType
  <2>7. BufferOK(save')
    BY <2>5, <2>6, SameLevelsOK
  <2> QED
    BY <2>2, <2>7 DEF IInv
<1>2. CASE Snapshot
  <2>1. save' = [current EXCEPT !.rollingPaused = FALSE] /\ current' = current
        /\ trimAt' = trimAt
    BY <1>2 DEF Snapshot
  <2>2. save' \in BufferType /\ save'.levels = current.levels
    BY <1>0, <2>1 DEF BufferType
  <2>3. BufferOK(save')
    BY <1>0, <2>2, SameLevelsOK
  <2> QED
    BY <2>1, <2>3 DEF IInv
<1>3. CASE RestoreSnapshot
  <2>1. /\ current' = [save EXCEPT !.paused = current.paused,
                                   !.rollingPaused = current.rollingPaused]
        /\ save' = save /\ trimAt' = trimAt
    BY <1>3 DEF RestoreSnapshot
  <2>2. current' \in BufferType /\ current'.levels = save.levels
    BY <1>0, <2>1 DEF BufferType
  <2>3. BufferOK(current')
    BY <1>0, <2>2, SameLevelsOK
  <2> QED
    BY <2>1, <2>3 DEF IInv
<1> QED
  BY <1>1, <1>2, <1>3 DEF NextSave

LEMMA StepOK ==
  ASSUME SameSize, IInv, [Next]_vars
  PROVE  IInv'
<1>1. CASE Next
  BY <1>1, TrimStepOK, CaptureStepOK, TrimAfterStepOK, PauseStepOK, SaveStepOK
     DEF Next, NextRecord
<1>2. CASE UNCHANGED vars
  BY <1>2 DEF vars, IInv
<1> QED
  BY <1>1, <1>2

-----------------------------------------------------------------------------
(* The byte counts *)

EmptyLevels == [i \in Level |-> EmptyLevel]

\* The count of each level is the bytes of its frames, and the count of the
\* buffer is what the levels hold together.
BytesOK(buf) ==
  /\ \A i \in Level : BytesCounted(buf.levels[i])
  /\ buf.totalBytes = SizeChange(EmptyLevels, buf.levels)

LEMMA LevelsWeighed ==
  ASSUME NEW buf \in BufferType, NEW out \in BufferType
  PROVE  Weighed(EmptyLevels, buf.levels) /\ Weighed(buf.levels, out.levels)
<1>1. \A i \in Level : /\ buf.levels[i].totalBytes \in Int
                       /\ out.levels[i].totalBytes \in Int
                       /\ EmptyLevels[i].totalBytes = 0
  BY DEF BufferType, LevelType, EmptyLevels, EmptyLevel
<1> QED
  BY <1>1 DEF Weighed

\* A change of the levels that adjusts the total by what they change keeps it.
LEMMA TotalKept ==
  ASSUME NEW buf \in BufferType, BytesOK(buf), NEW out \in BufferType,
         \A i \in Level : BytesCounted(out.levels[i]),
         out.totalBytes = buf.totalBytes + SizeChange(buf.levels, out.levels)
  PROVE  BytesOK(out)
<1>1. Weighed(EmptyLevels, buf.levels) /\ Weighed(buf.levels, out.levels)
  BY LevelsWeighed
<1>2. SizeChange(EmptyLevels, out.levels)
        = SizeChange(EmptyLevels, buf.levels) + SizeChange(buf.levels, out.levels)
  BY <1>1, SizeChangeAdds
<1> QED
  BY <1>2 DEF BytesOK

\* Replacing a level by a counted one does so.
LEMMA WithLevelBytes ==
  ASSUME NEW buf \in BufferType, BytesOK(buf), NEW i \in Level, NEW lvl \in LevelType,
         BytesCounted(lvl), NEW out, out = WithLevel(buf, i, lvl)
  PROVE  BytesOK(out) /\ out \in BufferType
<1>1. /\ out \in BufferType
      /\ \A j \in Level : out.levels[j] = IF j = i THEN lvl ELSE buf.levels[j]
  BY WithLevelIs
<1>2. out.totalBytes = buf.totalBytes + lvl.totalBytes - buf.levels[i].totalBytes
  BY DEF WithLevel, BufferType
<1>3. SizeChange(buf.levels, out.levels) = lvl.totalBytes - buf.levels[i].totalBytes
  <2>1. Weighed(buf.levels, out.levels)
    BY <1>1, LevelsWeighed
  <2>2. out.levels[i] = lvl /\ \A j \in Level : j # i => out.levels[j] = buf.levels[j]
    BY <1>1
  <2>3. SizeChange(buf.levels, out.levels)
          = out.levels[i].totalBytes - buf.levels[i].totalBytes
    BY <2>1, <2>2, SizeChangeOne
  <2> QED
    BY <2>2, <2>3
<1>4. buf.totalBytes \in Int /\ lvl.totalBytes \in Int /\ buf.levels[i].totalBytes \in Int
  BY DEF BufferType, LevelType
<1>5. out.totalBytes = buf.totalBytes + SizeChange(buf.levels, out.levels)
  BY <1>2, <1>3, <1>4
<1>6. \A j \in Level : BytesCounted(out.levels[j])
  BY <1>1 DEF BytesOK
<1> QED
  BY <1>1, <1>5, <1>6, TotalKept

LEMMA EmptyBytes == BytesOK(EmptyBuffer)
<1>1. EmptyBuffer.levels = EmptyLevels /\ EmptyBuffer.totalBytes = 0
  BY DEF EmptyBuffer, EmptyLevels
<1>2. BytesCounted(EmptyLevel)
  <2>1. Sized(<< >>, 0)
    BY DEF Sized
  <2>2. PrefixBytes(<< >>, 0) = 0
    BY <2>1, PrefixBytesType
  <2>3. EmptyLevel.frames = << >> /\ EmptyLevel.totalBytes = 0 /\ Len(<< >>) = 0
    BY DEF EmptyLevel
  <2> QED
    BY <2>2, <2>3 DEF BytesCounted
<1>3. SizeChange(EmptyLevels, EmptyLevels) = 0
  <2>1. 1 \in Level
    BY LevelsAssumption DEF Level
  <2>2. Weighed(EmptyLevels, EmptyLevels) /\ EmptyLevels[1].totalBytes = 0
    BY <2>1 DEF Weighed, EmptyLevels, EmptyLevel
  <2>3. SizeChange(EmptyLevels, EmptyLevels)
          = EmptyLevels[1].totalBytes - EmptyLevels[1].totalBytes
    BY <2>1, <2>2, SizeChangeOne
  <2> QED
    BY <2>2, <2>3
<1>4. \A i \in Level : EmptyLevels[i] = EmptyLevel
  BY DEF EmptyLevels
<1> QED
  BY <1>1, <1>2, <1>3, <1>4 DEF BytesOK

LEMMA SameLevelsBytes ==
  ASSUME NEW buf, BytesOK(buf), NEW out, out.levels = buf.levels,
         out.totalBytes = buf.totalBytes
  PROVE  BytesOK(out)
BY DEF BytesOK

LEMMA LeftCounted ==
  ASSUME SameSize, NEW lvl, LevelOK(lvl), BytesCounted(lvl), NEW n \in 0 .. Len(lvl.frames),
         NEW left, LeftOf(lvl, n, left)
  PROVE  BytesCounted(left)
<1>0. lvl \in LevelType /\ Chain(lvl.frames) /\ Len(lvl.frames) \in Nat
  BY LenProperties DEF LevelOK, Chain
<1>1. CASE n < Len(lvl.frames) /\ left = DropConverted(lvl, n)
  <2>1. n \in Nat /\ n < Len(lvl.frames) /\ left = DropConverted(lvl, n)
    BY <1>0, <1>1
  <2> QED
    BY <2>1, DropCounted
<1>2. CASE n = Len(lvl.frames) /\ ~(n < Len(lvl.frames))
  <2>1. left.frames = << >> /\ left.totalBytes = lvl.totalBytes - PrefixBytes(lvl.frames, n)
    BY <1>0, <1>2 DEF LeftOf, LevelType
  <2>2. lvl.totalBytes = PrefixBytes(lvl.frames, n) /\ PrefixBytes(lvl.frames, n) \in Nat
    BY <1>0, <1>2, ChainSized DEF BytesCounted
  <2>3. PrefixBytes(<< >>, 0) = 0 /\ Len(<< >>) = 0
    <3>1. Sized(<< >>, 0)
      BY DEF Sized
    <3> QED
      BY <3>1, PrefixBytesType
  <2>4. left.totalBytes = 0
    BY <2>1, <2>2
  <2> QED
    BY <2>1, <2>3, <2>4 DEF BytesCounted
<1> QED
  BY <1>0, <1>1, <1>2 DEF LeftOf

LEMMA CaptureBytes ==
  ASSUME SameSize, NEW buf, BufferOK(buf), BytesOK(buf), NEW s \in States, NEW no \in Nat,
         NEW out, out = WithLevel(buf, 1, AppendStates(buf.levels[1], << Item(s, no, s) >>))
  PROVE  BytesOK(out)
<1> DEFINE items == << Item(s, no, s) >>
           l1    == buf.levels[1]
           lvl   == AppendStates(l1, items)
<1>1. 1 \in Level /\ buf \in BufferType /\ LevelOK(l1) /\ BytesCounted(l1)
  BY LevelsAssumption DEF Level, BufferOK, LevelsOK, BytesOK
<1>2. ItemsOK(items)
  BY DEF ItemsOK, Item
<1>3. out = WithLevel(buf, 1, lvl) /\ lvl = AppendStates(l1, items)
  OBVIOUS
<1> HIDE DEF items, lvl, l1
<1>4. LevelOK(lvl)
  BY <1>1, <1>2, <1>3, AppendExact
<1>5. BytesCounted(lvl)
  BY <1>1, <1>2, <1>3, AppendCounted
<1> QED
  BY <1>1, <1>3, <1>4, <1>5, WithLevelBytes DEF LevelOK

LEMMA PromotedBytes ==
  ASSUME SameSize, NEW buf, BufferOK(buf), BytesOK(buf), NEW i \in Level, i + 1 \in Level,
         NEW out, out = Promoted(buf, i)
  PROVE  BytesOK(out)
<1> DEFINE src   == buf.levels[i]
           dst   == buf.levels[i + 1]
           n     == PromoteCount(buf, i)
           left  == IF n < Len(src.frames) THEN DropConverted(src, n)
                    ELSE [src EXCEPT !.frames = << >>,
                                     !.totalBytes = @ - PrefixBytes(src.frames, n)]
           items == PromotedItems(src.frames, n)
           grown == AppendStates(dst, items)
           mid   == WithLevel(buf, i, left)
<1>1. out = buf \/ out = WithLevel(mid, i + 1, grown)
  BY DEF Promoted
<1>2. /\ buf \in BufferType /\ LevelOK(src) /\ LevelOK(dst) /\ BytesCounted(src) /\ BytesCounted(dst)
      /\ Len(src.frames) \in Nat
  BY BufferShape DEF BufferOK, LevelsOK, BytesOK, Size
<1>3. n \in 0 .. Len(src.frames)
  BY PromoteCountIs DEF Size
<1>4. LeftOf(src, n, left)
  BY <1>2, <1>3 DEF LeftOf
<1>5. /\ items = PromotedItems(src.frames, n) /\ grown = AppendStates(dst, items)
      /\ mid = WithLevel(buf, i, left)
  OBVIOUS
<1> HIDE DEF src, dst, n, left, items, grown, mid
<1>6. LevelOK(left)
  BY <1>2, <1>3, <1>4, LeftOK
<1>7. BytesCounted(left)
  BY <1>2, <1>3, <1>4, LeftCounted
<1>8. ItemsOK(items)
  <2>1. Chain(src.frames)
    BY <1>2 DEF LevelOK
  <2> QED
    BY <2>1, <1>3, <1>5, PromotedExact
<1>9. LevelOK(grown)
  BY <1>2, <1>5, <1>8, AppendExact
<1>10. BytesCounted(grown)
  BY <1>2, <1>5, <1>8, AppendCounted
<1>11. BytesOK(mid) /\ mid \in BufferType
  BY <1>2, <1>5, <1>6, <1>7, WithLevelBytes DEF LevelOK
<1>12. BytesOK(WithLevel(mid, i + 1, grown))
  BY <1>9, <1>10, <1>11, WithLevelBytes DEF LevelOK
<1> QED
  BY <1>1, <1>12

LEMMA DroppedBytes ==
  ASSUME SameSize, NEW buf, BufferOK(buf), BytesOK(buf), NEW i \in Level, NEW out,
         out = DroppedOldest(buf, i)
  PROVE  BytesOK(out)
<1> DEFINE src  == buf.levels[i]
           n    == FramesToFree(src.frames, src.totalBytes - Budget(i))
           left == IF n < Len(src.frames) THEN DropConverted(src, n)
                   ELSE [src EXCEPT !.frames = << >>, !.prevState = NoState,
                                    !.totalBytes = @ - PrefixBytes(src.frames, n)]
<1>1. out = buf \/ out = WithLevel(buf, i, left)
  BY DEF DroppedOldest
<1>2. /\ buf \in BufferType /\ LevelOK(src) /\ BytesCounted(src) /\ Len(src.frames) \in Nat
      /\ src.frames \in Seq(Frame)
  BY BufferShape DEF BufferOK, LevelsOK, BytesOK, Size
<1>3. n \in 0 .. Len(src.frames)
  <2> HIDE DEF src
  <2> QED
    BY <1>2, FreeCount
<1>4. LeftOf(src, n, left)
  BY <1>2, <1>3 DEF LeftOf
<1> HIDE DEF src, n, left
<1>5. LevelOK(left)
  BY <1>2, <1>3, <1>4, LeftOK
<1>6. BytesCounted(left)
  BY <1>2, <1>3, <1>4, LeftCounted
<1>7. BytesOK(WithLevel(buf, i, left))
  BY <1>2, <1>5, <1>6, WithLevelBytes DEF LevelOK
<1> QED
  BY <1>1, <1>7

LEMMA CutCounted ==
  ASSUME NEW lvl, LevelOK(lvl), BytesCounted(lvl), NEW no, NEW out, out = CutLevel(lvl, no),
         Chain(out.frames)
  PROVE  BytesCounted(out)
<1> DEFINE kept == KeptUpTo(lvl.frames, no)
           w    == PrefixBytes(lvl.frames, Len(lvl.frames))
           b    == PrefixBytes(kept, Len(kept))
<1>1. out.frames = kept /\ out.totalBytes = lvl.totalBytes - w + b
  BY DEF CutLevel
<1>2. lvl.totalBytes = w
  BY DEF BytesCounted
<1>3. w \in Nat
  <2>1. Chain(lvl.frames) /\ Len(lvl.frames) \in 0 .. Len(lvl.frames)
    BY ChainSized DEF LevelOK
  <2> QED
    BY <2>1, ChainSized
<1> HIDE DEF kept
<1>4. b \in Nat
  <2>1. Chain(kept) /\ Len(kept) \in 0 .. Len(kept)
    BY <1>1, ChainSized
  <2> QED
    BY <2>1, ChainSized
<1>5. out.totalBytes = b
  <2> HIDE DEF w, b
  <2> QED
    BY <1>1, <1>2, <1>3, <1>4
<1> QED
  BY <1>1, <1>5 DEF BytesCounted

LEMMA TrimmedBytes ==
  ASSUME SameSize, NEW buf, BufferOK(buf), BytesOK(buf), NEW no \in Nat, NEW out,
         out = TrimmedAfter(buf, no)
  PROVE  BytesOK(out)
<1> DEFINE left  == CutBuffer(buf, no)
           exact == RestoredState(left, no)
<1>1. out = left \/ (exact # NoState /\ out = WithPrev(left, exact, no))
  BY DEF TrimmedAfter, WithPrev, CutBuffer, CutLevels
<1>2. left = CutBuffer(buf, no)
  OBVIOUS
<1> HIDE DEF left
<1>3. BufferOK(left)
  BY <1>2, CutBufferOK
<1>4. left.totalBytes = buf.totalBytes + SizeChange(buf.levels, left.levels)
  BY <1>2, CutBufferOK
<1>5. buf \in BufferType /\ left \in BufferType
  BY <1>3 DEF BufferOK, LevelsOK
<1>6. EachCut(left, buf, no)
  BY <1>2, CutBufferOK
<1>7. \A i \in Level : BytesCounted(left.levels[i])
  <2> TAKE i \in Level
  <2> DEFINE lvl == buf.levels[i]
             c   == CutLevel(lvl, no)
  <2>1. LevelOK(lvl) /\ BytesCounted(lvl)
    BY DEF BufferOK, LevelsOK, BytesOK
  <2>2. left.levels[i].frames = KeptUpTo(lvl.frames, no)
        /\ left.levels[i].totalBytes = c.totalBytes
    BY <1>6 DEF EachCut
  <2>3. c.frames = KeptUpTo(lvl.frames, no) /\ c = CutLevel(lvl, no)
    BY DEF CutLevel
  <2>4. Chain(c.frames)
    BY <1>3, <2>2, <2>3 DEF BufferOK, LevelsOK, LevelOK
  <2> HIDE DEF lvl, c
  <2>5. BytesCounted(c)
    BY <2>1, <2>3, <2>4, CutCounted
  <2> QED
    BY <2>2, <2>3, <2>5 DEF BytesCounted
<1>8. BytesOK(left)
  BY <1>4, <1>5, <1>7, TotalKept
<1>9. ASSUME exact # NoState, out = WithPrev(left, exact, no)
      PROVE  BytesOK(out)
  <2>1. HasFrameNo(left, no)
    BY <1>9 DEF RestoredState
  <2>2. exact \in States
    BY <1>3, <2>1, RestoreExact
  <2> HIDE DEF exact
  <2>3. out \in BufferType /\ out.totalBytes = left.totalBytes
    BY <2>2, <1>5, <1>9, PrevSet
  <2>4. \A i \in Level : /\ out.levels[i].frames = left.levels[i].frames
                         /\ out.levels[i].totalBytes = left.levels[i].totalBytes
                         /\ i # 1 => out.levels[i] = left.levels[i]
    BY <2>2, <1>5, <1>9, PrevSet
  <2>5. SizeChange(left.levels, out.levels) = 0
    <3>1. 1 \in Level
      BY LevelsAssumption DEF Level
    <3>2. Weighed(left.levels, out.levels)
      BY <2>3, <1>5, LevelsWeighed
    <3>3. SizeChange(left.levels, out.levels)
            = out.levels[1].totalBytes - left.levels[1].totalBytes
      BY <2>4, <3>1, <3>2, SizeChangeOne
    <3> QED
      BY <2>4, <3>1, <3>2, <3>3 DEF Weighed
  <2>6. \A i \in Level : BytesCounted(out.levels[i])
    BY <2>4, <1>7 DEF BytesCounted
  <2>7. left.totalBytes \in Int
    BY <1>5 DEF BufferType
  <2>8. out.totalBytes = left.totalBytes + SizeChange(left.levels, out.levels)
    BY <2>3, <2>5, <2>7
  <2> QED
    BY <2>3, <2>6, <2>8, <1>5, <1>8, TotalKept
<1> QED
  BY <1>1, <1>8, <1>9

\* Both timelines are well formed and counted.
CountedInv == IInv /\ BytesOK(current) /\ BytesOK(save)

LEMMA CountedStep ==
  ASSUME SameSize, CountedInv, [Next]_vars
  PROVE  CountedInv'
<1>0. /\ BufferOK(current) /\ BufferOK(save) /\ BytesOK(current) /\ BytesOK(save)
      /\ current \in BufferType /\ save \in BufferType
  BY DEF CountedInv, IInv, BufferOK, LevelsOK
<1>1. IInv'
  BY StepOK DEF CountedInv
<1>2. CASE Trim
  <2>1. CASE TrimPromote
    <3>1. trimAt \in Level /\ trimAt + 1 \in Level
      BY <2>1, LevelsAssumption DEF TrimPromote, Level
    <3>2. current' = Promoted(current, trimAt) /\ save' = save
      BY <2>1 DEF TrimPromote
    <3>3. BytesOK(current')
      BY <3>1, <3>2, <1>0, PromotedBytes
    <3> QED
      BY <3>2, <3>3, <1>0, <1>1 DEF CountedInv
  <2>2. CASE TrimDrop
    <3>1. trimAt \in Level
      BY <2>2, LevelsAssumption DEF TrimDrop, Level
    <3>2. current' = DroppedOldest(current, trimAt) /\ save' = save
      BY <2>2 DEF TrimDrop
    <3>3. BytesOK(current')
      BY <3>1, <3>2, <1>0, DroppedBytes
    <3> QED
      BY <3>2, <3>3, <1>0, <1>1 DEF CountedInv
  <2>3. CASE TrimNextLevel
    BY <2>3, <1>0, <1>1 DEF TrimNextLevel, CountedInv
  <2> QED
    BY <2>1, <2>2, <2>3, <1>2 DEF Trim
<1>3. ASSUME NEW s \in States, CaptureNext(s)
      PROVE  CountedInv'
  <2> DEFINE no  == current.currentFrameNo + 1
             mid == WithLevel(current, 1, AppendStates(current.levels[1], << Item(s, no, s) >>))
  <2>1. current' = [mid EXCEPT !.currentFrameNo = no] /\ save' = save
    BY <1>3 DEF CaptureNext, Capture
  <2>2. no \in Nat
    BY <1>0 DEF BufferType
  <2> HIDE DEF no
  <2>3. BytesOK(mid)
    BY <1>0, <2>2, CaptureBytes
  <2>4. current'.levels = mid.levels /\ current'.totalBytes = mid.totalBytes
    BY <2>1, <1>0 DEF WithLevel, BufferType
  <2> HIDE DEF mid
  <2>5. BytesOK(current')
    BY <2>3, <2>4, SameLevelsBytes
  <2> QED
    BY <2>1, <2>5, <1>0, <1>1 DEF CountedInv
<1>4. ASSUME NEW no \in StoredNos, TrimAfterFrameNo(no)
      PROVE  CountedInv'
  <2>1. PICK slot \in Slots(current) : no = FrameAt(current, slot).frame_no
    BY DEF StoredNos
  <2>2. no \in Nat
    BY <1>0, <2>1, OneOrder
  <2>3. current' = TrimmedAfter(current, no) /\ save' = save
    BY <1>4 DEF TrimAfterFrameNo
  <2>4. BytesOK(current')
    BY <1>0, <2>2, <2>3, TrimmedBytes
  <2> QED
    BY <2>3, <2>4, <1>0, <1>1 DEF CountedInv
<1>5. CASE NextPause
  <2>1. save' = save
    BY <1>5 DEF NextPause, SetPaused, SetRollingPaused, RestoreFrameNo
  <2>2. \/ current'.levels = current.levels /\ current'.totalBytes = current.totalBytes
        \/ /\ current'.levels = EmptyBuffer.levels
           /\ current'.totalBytes = EmptyBuffer.totalBytes
    <3>1. ASSUME NEW b \in BOOLEAN, SetPaused(b)
          PROVE  current'.levels = current.levels /\ current'.totalBytes = current.totalBytes
      BY <3>1, <1>0 DEF SetPaused, BufferType
    <3>2. ASSUME NEW b \in BOOLEAN, SetRollingPaused(b)
          PROVE  \/ current'.levels = current.levels /\ current'.totalBytes = current.totalBytes
                 \/ /\ current'.levels = EmptyBuffer.levels
                    /\ current'.totalBytes = EmptyBuffer.totalBytes
      <4>1. CASE b
        BY <4>1, <3>2, <1>0 DEF SetRollingPaused, BufferType
      <4>2. CASE ~b
        BY <4>2, <3>2, <1>0 DEF SetRollingPaused, EmptyBuffer
      <4> QED
        BY <4>1, <4>2
    <3>3. ASSUME NEW no \in StoredNos, RestoreFrameNo(no)
          PROVE  current'.levels = current.levels /\ current'.totalBytes = current.totalBytes
      BY <3>3, <1>0 DEF RestoreFrameNo, BufferType
    <3> QED
      BY <3>1, <3>2, <3>3, <1>5 DEF NextPause
  <2>3. BytesOK(current')
    BY <2>2, <1>0, EmptyBytes, SameLevelsBytes
  <2> QED
    BY <2>1, <2>3, <1>0, <1>1 DEF CountedInv
<1>6. ASSUME NEW s \in States, SetSaveKeyframe(s, current.currentFrameNo)
      PROVE  CountedInv'
  <2> DEFINE no  == current.currentFrameNo
             mid == WithLevel(EmptyBuffer, 1,
                              AppendStates(EmptyBuffer.levels[1], << Item(s, no, s) >>))
  <2>1. EmptyBuffer.levels[1] = EmptyLevel
    BY LevelsAssumption DEF Level, EmptyBuffer
  <2>2. save' = [mid EXCEPT !.currentFrameNo = no] /\ current' = current
    BY <1>6, <2>1 DEF SetSaveKeyframe
  <2>3. no \in Nat
    BY <1>0 DEF BufferType
  <2> HIDE DEF no
  <2>4. BytesOK(mid)
    BY <2>3, EmptyBufferOK, EmptyBytes, CaptureBytes
  <2>5. save'.levels = mid.levels /\ save'.totalBytes = mid.totalBytes
    BY <2>2 DEF WithLevel, EmptyBuffer
  <2> HIDE DEF mid
  <2>6. BytesOK(save')
    BY <2>4, <2>5, SameLevelsBytes
  <2> QED
    BY <2>2, <2>6, <1>0, <1>1 DEF CountedInv
<1>7. CASE Snapshot
  <2>1. save' = [current EXCEPT !.rollingPaused = FALSE] /\ current' = current
    BY <1>7 DEF Snapshot
  <2>2. save'.levels = current.levels /\ save'.totalBytes = current.totalBytes
    BY <2>1, <1>0 DEF BufferType
  <2>3. BytesOK(save')
    BY <2>2, <1>0, SameLevelsBytes
  <2> QED
    BY <2>1, <2>3, <1>0, <1>1 DEF CountedInv
<1>8. CASE RestoreSnapshot
  <2>1. /\ current' = [save EXCEPT !.paused = current.paused,
                                   !.rollingPaused = current.rollingPaused]
        /\ save' = save
    BY <1>8 DEF RestoreSnapshot
  <2>2. current'.levels = save.levels /\ current'.totalBytes = save.totalBytes
    BY <2>1, <1>0 DEF BufferType
  <2>3. BytesOK(current')
    BY <2>2, <1>0, SameLevelsBytes
  <2> QED
    BY <2>1, <2>3, <1>0, <1>1 DEF CountedInv
<1>9. CASE UNCHANGED vars
  BY <1>9, <1>0, <1>1 DEF vars, CountedInv
<1> QED
  BY <1>2, <1>3, <1>4, <1>5, <1>6, <1>7, <1>8, <1>9 DEF Next, NextRecord, NextSave

-----------------------------------------------------------------------------
(* Theorems *)

LEMMA InvariantHolds ==
  ASSUME SameSize
  PROVE  Spec => []IInv
<1>1. Init => IInv
  BY InitOK
<1>2. IInv /\ [Next]_vars => IInv'
  BY StepOK
<1> QED
  BY <1>1, <1>2, PTL DEF Spec

\* The buffers keep their shape.
THEOREM TypeCorrect ==
  ASSUME SameSize
  PROVE  Spec => []TypeOK
<1>1. IInv => TypeOK
  BY DEF IInv, BufferOK, LevelsOK, TypeOK
<1> QED
  BY <1>1, InvariantHolds, PTL

\* The invariant makes every stored frame exact.
LEMMA FramesExact ==
  ASSUME SameSize, IInv
  PROVE  ReconstructsCapture
<1> SUFFICES ASSUME NEW buf \in Buffers, NEW slot \in Slots(buf)
             PROVE  Reconstruct(buf.levels[slot[1]].frames, slot[2])
                      = FrameAt(buf, slot).captured
  BY DEF ReconstructsCapture
<1>1. BufferOK(buf)
  BY DEF IInv, Buffers
<1>2. /\ slot[1] \in Level /\ slot[2] \in 1 .. Size(buf, slot[1])
      /\ FrameAt(buf, slot) = buf.levels[slot[1]].frames[slot[2]]
  BY SlotShape
<1> DEFINE frames == buf.levels[slot[1]].frames
<1>3. Chain(frames) /\ slot[2] \in 1 .. Len(frames)
  BY <1>1, <1>2 DEF BufferOK, LevelsOK, LevelOK, Size
<1> HIDE DEF frames
<1>4. Reconstruct(frames, slot[2]) = frames[slot[2]].captured
  BY <1>3, ReconstructExact
<1> QED
  BY <1>2, <1>4 DEF frames

\* Reconstruction is exact: every stored frame of either timeline gives back the
\* state captured under its label, through any sequence of captures, promotions
\* (state_buffer_promoteOldest), drops, trims, saves and restores, as long as
\* the machine's states have one size.
THEOREM ExactReconstruction ==
  ASSUME SameSize
  PROVE  Spec => []ReconstructsCapture
<1>1. IInv => ReconstructsCapture
  BY FramesExact
<1> QED
  BY <1>1, InvariantHolds, PTL

\* The oldest frame of every level can be reconstructed, as the comment in
\* state_buffer_promoteOldest asks, when the states have one size.
THEOREM OldestAlwaysReconstructable ==
  ASSUME SameSize
  PROVE  Spec => []OldestReconstructable
<1>1. IInv => OldestReconstructable
  <2> SUFFICES ASSUME IInv, NEW buf \in Buffers, NEW i \in Level,
                      buf.levels[i].frames # << >>
               PROVE  CanReconstruct(buf.levels[i].frames, 1)
    BY DEF OldestReconstructable
  <2> DEFINE frames == buf.levels[i].frames
  <2>1. Chain(frames)
    BY DEF IInv, Buffers, BufferOK, LevelsOK, LevelOK
  <2>2. 1 \in 1 .. Len(frames)
    BY <2>1, LenProperties DEF Chain
  <2> HIDE DEF frames
  <2>3. CanReconstruct(frames, 1)
    BY <2>1, <2>2, ReconstructExact
  <2> QED
    BY <2>3 DEF frames
<1> QED
  BY <1>1, InvariantHolds, PTL

\* The labels order the frames as their places do, so that a label names one
\* frame of a timeline.
THEOREM LabelsOrdered ==
  ASSUME SameSize
  PROVE  Spec => []TimelineOrdered
<1>1. IInv => TimelineOrdered
  <2> SUFFICES ASSUME IInv, NEW buf \in Buffers, NEW a \in Slots(buf), NEW b \in Slots(buf),
                      a # b
               PROVE  FrameAt(buf, a).frame_no < FrameAt(buf, b).frame_no
                        <=> (a[1] > b[1] \/ (a[1] = b[1] /\ a[2] < b[2]))
    BY DEF TimelineOrdered
  <2>1. BufferOK(buf)
    BY DEF IInv, Buffers
  <2>2. /\ Older(a[1], a[2], b[1], b[2]) \/ Older(b[1], b[2], a[1], a[2])
        /\ Older(a[1], a[2], b[1], b[2]) =>
             FrameAt(buf, a).frame_no < FrameAt(buf, b).frame_no
        /\ Older(b[1], b[2], a[1], a[2]) =>
             FrameAt(buf, b).frame_no < FrameAt(buf, a).frame_no
        /\ FrameAt(buf, a).frame_no \in Nat /\ FrameAt(buf, b).frame_no \in Nat
    BY <2>1, OneOrder
  <2>3. FrameAt(buf, a).frame_no < FrameAt(buf, b).frame_no
          <=> Older(a[1], a[2], b[1], b[2])
    BY <2>2
  <2> QED
    BY <2>3 DEF Older
<1> QED
  BY <1>1, InvariantHolds, PTL

\* The byte counts, by which the buffer decides what to promote and to drop, are
\* exact: adding, promoting, converting, dropping and trimming adjust the count
\* of each level and the total by just the bytes that come and go.
THEOREM BytesAlwaysAccounted ==
  ASSUME SameSize
  PROVE  Spec => []BytesAccounted
<1>1. Init => CountedInv
  BY InitOK, EmptyBytes DEF Init, CountedInv
<1>2. CountedInv /\ [Next]_vars => CountedInv'
  BY CountedStep
<1>3. CountedInv => BytesAccounted
  BY DEF CountedInv, BytesOK, BytesAccounted, Buffers, BytesCounted, EmptyLevels
<1> QED
  BY <1>1, <1>2, <1>3, PTL DEF Spec

=============================================================================
