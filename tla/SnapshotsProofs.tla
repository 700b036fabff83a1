-------------------------- MODULE SnapshotsProofs ---------------------------
(***************************************************************************)
(* Proofs about the snapshot file of Snapshots.tla: what is written is     *)
(* read back, no part of a file is read as a timeline, the two copies of   *)
(* a saved state agree, and the start of the debugger brings back the      *)
(* state saved last.                                                       *)
(*                                                                         *)
(* The format comes first: where the levels lie among the records of a     *)
(* file, and that LevelStart finds them there.  The invariant is SnapInv;  *)
(* it says what the file holds, in every phase, of what was saved last.    *)
(***************************************************************************)
EXTENDS Snapshots, StateBufferProofs

-----------------------------------------------------------------------------
(* The records of a file *)

FileRecords ==
  [count : Nat, prevSize : Nat] \cup Frame \cup States
    \cup [currentFrameNo : Nat, romChecksum : Roms]

\* A level is written as its counts, its frames, and its previous state.
LEMMA LevelRecordsShape ==
  ASSUME NEW lvl \in LevelType, NEW r, r = LevelRecords(lvl)
  PROVE  /\ r \in Seq(FileRecords) /\ Len(r) \in Nat \ {0} /\ Len(lvl.frames) \in Nat
         /\ r[1].count = Len(lvl.frames) /\ LevelLength(r[1]) = Len(r)
         /\ Len(lvl.frames) < Len(r)
         /\ \A k \in 1 .. Len(lvl.frames) : r[k + 1] = lvl.frames[k]
         /\ IF r[1].prevSize > 0 THEN r[Len(r)] = lvl.prevState
            ELSE lvl.prevState = NoState
<1> DEFINE fs   == lvl.frames
           prev == lvl.prevState
           head == [count |-> Len(fs), prevSize |-> Len(prev)]
           tail == IF prev = NoState THEN << >> ELSE << prev >>
           both == << head >> \o fs
<1>1. fs \in Seq(Frame) /\ prev \in States \cup {NoState}
  BY DEF LevelType
<1>2. /\ Len(prev) \in Nat
      /\ prev # NoState => Len(prev) > 0 /\ prev \in States
      /\ prev = NoState => Len(prev) = 0
  BY <1>1, StatesAssumption, EmptySeq DEF NoState
<1>3. /\ r = both \o tail
      /\ head.count = Len(fs) /\ head.prevSize = Len(prev)
      /\ LevelLength(head) = Len(fs) + (IF Len(prev) > 0 THEN 2 ELSE 1)
  BY DEF LevelRecords, LevelLength
<1>4. /\ fs \in Seq(FileRecords) /\ Len(fs) \in Nat
      /\ << head >> \in Seq(FileRecords) /\ Len(<< head >>) = 1 /\ << head >>[1] = head
  <2>1. fs \in Seq(FileRecords)
    BY <1>1 DEF FileRecords
  <2>2. Len(fs) \in Nat
    BY <1>1
  <2>3. head \in FileRecords
    BY <1>2, <2>2 DEF FileRecords
  <2>. QED  BY <2>1, <2>2, <2>3
<1>5. tail \in Seq(FileRecords) /\ Len(tail) = IF prev = NoState THEN 0 ELSE 1
  <2>1. prev # NoState => prev \in FileRecords
    BY <1>2 DEF FileRecords
  <2>. QED  BY <2>1
<1>6. prev # NoState => tail[1] = prev
  OBVIOUS
<1> HIDE DEF fs, prev, head, tail
<1>7. /\ both \in Seq(FileRecords) /\ Len(both) = 1 + Len(fs)
      /\ both[1] = head /\ \A k \in 1 .. Len(fs) : both[k + 1] = fs[k]
  <2>1. both \in Seq(FileRecords) /\ Len(both) = 1 + Len(fs)
    BY <1>4, ConcatProperties
  <2>2. \A i \in 1 .. 1 + Len(fs) : both[i] = IF i <= 1 THEN << head >>[i] ELSE fs[i - 1]
    BY <1>4, ConcatProperties
  <2>3. 1 \in 1 .. 1 + Len(fs)
        /\ \A k \in 1 .. Len(fs) : /\ k + 1 \in 1 .. 1 + Len(fs)
                                   /\ ~(k + 1 <= 1) /\ (k + 1) - 1 = k
    BY <1>4
  <2>. QED  BY <1>4, <2>1, <2>2, <2>3
<1> HIDE DEF both
<1>8. /\ r \in Seq(FileRecords) /\ Len(r) = Len(both) + Len(tail)
      /\ \A i \in 1 .. Len(both) + Len(tail) :
           r[i] = IF i <= Len(both) THEN both[i] ELSE tail[i - Len(both)]
  <2>1. both \in Seq(FileRecords) /\ tail \in Seq(FileRecords) /\ r = both \o tail
    BY <1>3, <1>5, <1>7
  <2>2. both \o tail \in Seq(FileRecords) /\ Len(both \o tail) = Len(both) + Len(tail)
    BY <2>1, ConcatProperties
  <2>3. \A i \in 1 .. Len(both) + Len(tail) :
          (both \o tail)[i] = IF i <= Len(both) THEN both[i] ELSE tail[i - Len(both)]
    BY <2>1, ConcatProperties
  <2>. QED  BY <2>1, <2>2, <2>3
<1>9. Len(r) = LevelLength(head) /\ Len(r) \in Nat \ {0} /\ Len(fs) < Len(r)
  BY <1>2, <1>3, <1>4, <1>5, <1>7, <1>8
<1>10. r[1] = head /\ \A k \in 1 .. Len(fs) : r[k + 1] = fs[k]
  <2>1. /\ 1 \in 1 .. Len(both) + Len(tail) /\ 1 <= Len(both)
        /\ \A k \in 1 .. Len(fs) : /\ k + 1 \in 1 .. Len(both) + Len(tail)
                                   /\ k + 1 <= Len(both)
    BY <1>4, <1>5, <1>7
  <2>. QED  BY <1>7, <1>8, <2>1
<1>11. prev # NoState => r[Len(r)] = prev
  <2> SUFFICES ASSUME prev # NoState PROVE r[Len(r)] = prev
    OBVIOUS
  <2>1. /\ Len(r) \in 1 .. Len(both) + Len(tail) /\ ~(Len(r) <= Len(both))
        /\ Len(r) - Len(both) = 1
    BY <1>4, <1>5, <1>7, <1>8
  <2>. QED  BY <1>6, <1>8, <2>1
<1>12. /\ r[1].count = Len(fs) /\ LevelLength(r[1]) = Len(r)
       /\ IF r[1].prevSize > 0 THEN r[Len(r)] = prev ELSE prev = NoState
  BY <1>2, <1>3, <1>9, <1>10, <1>11
<1>. QED  BY <1>4, <1>8, <1>9, <1>10, <1>12 DEF fs, prev

-----------------------------------------------------------------------------
(* The layout of a file *)

\* u[i] is what has been written of a file after i levels.
WrittenUpTo(u, buf, rom) ==
  /\ u \in [0 .. LevelCount -> Seq(FileRecords)]
  /\ u[0] = << [currentFrameNo |-> buf.currentFrameNo, romChecksum |-> rom] >>
  /\ \A i \in Level : u[i] = u[i - 1] \o LevelRecords(buf.levels[i])

\* The file is its header and then the records of one level after the other.
LEMMA WrittenInSteps ==
  ASSUME NEW buf \in BufferType, NEW rom \in Roms
  PROVE  \E u : WrittenUpTo(u, buf, rom) /\ Written(buf, rom) = u[LevelCount]
<1> DEFINE x == << [currentFrameNo |-> buf.currentFrameNo, romChecksum |-> rom] >>
           S == Seq(FileRecords)
           r(i) == LevelRecords(buf.levels[i])
           g == [p \in (1 .. LevelCount) \X S |-> p[2] \o r(p[1])]
           Eqn(f) == f = [i \in 0 .. LevelCount |-> IF i = 0 THEN x ELSE f[i - 1] \o r(i)]
           w == CHOOSE f : Eqn(f)
<1>1. LevelCount \in Nat /\ LevelCount \in 0 .. LevelCount
  BY LevelsAssumption
<1>2. x \in S
  BY DEF BufferType, FileRecords
<1>3. \A i \in 1 .. LevelCount : r(i) \in S
  BY LevelRecordsShape DEF BufferType, Level
<1>4. Written(buf, rom) = w[LevelCount]
  BY DEF Written
<1> HIDE DEF x, r
<1>5. g \in [(1 .. LevelCount) \X S -> S]
  BY <1>3, ConcatProperties
<1>6. \A i \in 1 .. LevelCount, v \in S : g[<< i, v >>] = v \o r(i)
  OBVIOUS
<1> HIDE DEF g, S
<1>7. PICK f \in [0 .. LevelCount -> S] :
        f[0] = x /\ \A i \in 1 .. LevelCount : f[i] = g[<< i, f[i - 1] >>]
  <2>1. Recurs(LevelCount, S, x, g)
    BY <1>1, <1>2, <1>5, RecursionExists
  <2>. QED  BY <2>1 DEF Recurs
<1>8. \A i \in 1 .. LevelCount : f[i] = f[i - 1] \o r(i)
  <2> TAKE i \in 1 .. LevelCount
  <2>1. i - 1 \in 0 .. LevelCount
    BY <1>1
  <2>. QED  BY <1>6, <1>7, <2>1
<1>9. Eqn(f)
  <2>1. \A i \in 0 .. LevelCount : f[i] = IF i = 0 THEN x ELSE f[i - 1] \o r(i)
    <3> TAKE i \in 0 .. LevelCount
    <3>1. i # 0 => i \in 1 .. LevelCount
      BY <1>1
    <3>. QED  BY <1>7, <1>8, <3>1
  <2>. QED  BY <1>7, <2>1
<1>10. Eqn(w)
  <2> HIDE DEF Eqn
  <2>. QED  BY <1>9
<1> HIDE DEF w
<1>11. \A i \in 0 .. LevelCount : w[i] = IF i = 0 THEN x ELSE w[i - 1] \o r(i)
  <2> DEFINE e == [i \in 0 .. LevelCount |-> IF i = 0 THEN x ELSE w[i - 1] \o r(i)]
  <2>1. \A i \in 0 .. LevelCount : e[i] = IF i = 0 THEN x ELSE w[i - 1] \o r(i)
    OBVIOUS
  <2>2. w = e
    BY <1>10
  <2> HIDE DEF e
  <2>. QED  BY <2>1, <2>2
<1> DEFINE Bad == {i \in 0 .. LevelCount : w[i] # f[i]}
<1>12. Bad = {}
  <2> SUFFICES ASSUME Bad # {} PROVE FALSE
    OBVIOUS
  <2>1. Bad \in SUBSET Nat
    OBVIOUS
  <2>2. PICK i \in Bad : \A j \in Bad : ~(j < i)
    BY <2>1, LeastMember
  <2>3. i \in 0 .. LevelCount /\ w[i] # f[i]
    BY <2>2
  <2>4. i # 0
    BY <2>3, <1>7, <1>11
  <2>5. i \in 1 .. LevelCount /\ i - 1 \in 0 .. LevelCount /\ i - 1 < i
    BY <2>3, <2>4, <1>1
  <2>6. w[i - 1] = f[i - 1]
    BY <2>2, <2>5
  <2>. QED  BY <2>3, <2>4, <2>5, <2>6, <1>8, <1>11
<1>13. w[LevelCount] = f[LevelCount]
  BY <1>1, <1>12
<1>. QED  BY <1>4, <1>7, <1>8, <1>13 DEF WrittenUpTo, x, r, S, Level

\* Level i of the timeline begins at st[i] of the records, the end being the last.
LaidOut(W, buf, rom, st) ==
  /\ W \in Seq(FileRecords) /\ Len(W) \in Nat \ {0}
  /\ W[1] = [currentFrameNo |-> buf.currentFrameNo, romChecksum |-> rom]
  /\ st \in [1 .. LevelCount + 1 -> Nat]
  /\ st[1] = 2 /\ st[LevelCount + 1] = Len(W) + 1
  /\ \A i \in Level :
       LET lvl == buf.levels[i]
       IN  /\ 1 <= st[i] /\ st[i] <= Len(W)
           /\ st[i + 1] = st[i] + LevelLength(W[st[i]])
           /\ Len(lvl.frames) \in Nat /\ W[st[i]].count = Len(lvl.frames)
           /\ st[i] + Len(lvl.frames) < st[i + 1] /\ st[i + 1] <= Len(W) + 1
           /\ \A k \in 1 .. Len(lvl.frames) : W[st[i] + k] = lvl.frames[k]
           /\ IF W[st[i]].prevSize > 0 THEN W[st[i + 1] - 1] = lvl.prevState
              ELSE lvl.prevState = NoState

\* So the levels lie one after the other from the second record to the last.
LEMMA WrittenLaidOut ==
  ASSUME NEW buf \in BufferType, NEW rom \in Roms
  PROVE  \E st : LaidOut(Written(buf, rom), buf, rom, st)
<1>1. PICK u : WrittenUpTo(u, buf, rom) /\ Written(buf, rom) = u[LevelCount]
  BY WrittenInSteps
<1> DEFINE W  == Written(buf, rom)
           N  == LevelCount
           x  == [currentFrameNo |-> buf.currentFrameNo, romChecksum |-> rom]
           r  == [i \in Level |-> LevelRecords(buf.levels[i])]
           st == [i \in 1 .. N + 1 |-> Len(u[i - 1]) + 1]
<1>2. N \in Nat \ {0} /\ Level = 1 .. N
  BY LevelsAssumption DEF Level
<1>3. /\ \A i \in 0 .. N : u[i] \in Seq(FileRecords)
      /\ u[0] = << x >> /\ u[N] = W
      /\ \A i \in 1 .. N : u[i] = u[i - 1] \o r[i]
  BY <1>1, <1>2 DEF WrittenUpTo
<1>4. x \in FileRecords
  BY DEF BufferType, FileRecords
<1>5. ASSUME NEW i \in 1 .. N
      PROVE  LET lvl == buf.levels[i]
             IN  /\ r[i] \in Seq(FileRecords) /\ Len(r[i]) \in Nat \ {0}
                 /\ Len(lvl.frames) \in Nat
                 /\ r[i][1].count = Len(lvl.frames) /\ LevelLength(r[i][1]) = Len(r[i])
                 /\ Len(lvl.frames) < Len(r[i])
                 /\ \A k \in 1 .. Len(lvl.frames) : r[i][k + 1] = lvl.frames[k]
                 /\ IF r[i][1].prevSize > 0 THEN r[i][Len(r[i])] = lvl.prevState
                    ELSE lvl.prevState = NoState
  <2>1. buf.levels[i] \in LevelType /\ r[i] = LevelRecords(buf.levels[i])
    BY <1>2 DEF BufferType
  <2> DEFINE lvl == buf.levels[i]
             q   == r[i]
  <2>2. lvl \in LevelType /\ q = LevelRecords(lvl)
    BY <2>1
  <2> HIDE DEF lvl, q, r
  <2>3. /\ q \in Seq(FileRecords) /\ Len(q) \in Nat \ {0} /\ Len(lvl.frames) \in Nat
        /\ q[1].count = Len(lvl.frames) /\ LevelLength(q[1]) = Len(q)
        /\ Len(lvl.frames) < Len(q)
    BY <2>2, LevelRecordsShape
  <2>4. \A k \in 1 .. Len(lvl.frames) : q[k + 1] = lvl.frames[k]
    BY <2>2, LevelRecordsShape
  <2>5. IF q[1].prevSize > 0 THEN q[Len(q)] = lvl.prevState ELSE lvl.prevState = NoState
    BY <2>2, LevelRecordsShape
  <2>. QED  BY <2>3, <2>4, <2>5 DEF lvl, q
<1> HIDE DEF W, N, x, r
<1>6. \A i \in 0 .. N : Len(u[i]) \in Nat
  BY <1>3, LenProperties
<1>7. \A i \in 1 .. N :
        /\ Len(u[i]) = Len(u[i - 1]) + Len(r[i])
        /\ \A k \in 1 .. Len(u[i]) :
             u[i][k] = IF k <= Len(u[i - 1]) THEN u[i - 1][k] ELSE r[i][k - Len(u[i - 1])]
  <2> TAKE i \in 1 .. N
  <2>1. u[i - 1] \in Seq(FileRecords) /\ r[i] \in Seq(FileRecords) /\ u[i] = u[i - 1] \o r[i]
    <3>1. i - 1 \in 0 .. N
      BY <1>2
    <3>2. r[i] \in Seq(FileRecords)
      BY <1>5
    <3>. QED  BY <1>3, <3>1, <3>2
  <2> DEFINE a == u[i - 1]
             b == r[i]
             c == u[i]
  <2>2. a \in Seq(FileRecords) /\ b \in Seq(FileRecords) /\ c = a \o b
    BY <2>1
  <2> HIDE DEF a, b, c
  <2>3. Len(c) = Len(a) + Len(b)
    BY <2>2, ConcatProperties
  <2>4. \A k \in 1 .. Len(a) + Len(b) : c[k] = IF k <= Len(a) THEN a[k] ELSE b[k - Len(a)]
    BY <2>2, ConcatProperties
  <2>. QED  BY <2>3, <2>4 DEF a, b, c
\* What has been written stays as it is.
<1> DEFINE Stays(i) == /\ Len(u[i]) <= Len(W)
                       /\ \A k \in 1 .. Len(u[i]) : W[k] = u[i][k]
           Bad == {i \in 0 .. N : ~Stays(i)}
<1>8. \A i \in 0 .. N : Stays(i)
  <2> SUFFICES ASSUME Bad # {} PROVE FALSE
    OBVIOUS
  <2>1. Bad \in SUBSET (0 .. N)
    OBVIOUS
  <2>2. PICK i \in Bad : \A j \in Bad : j <= i
    BY <1>2, <2>1, GreatestMember
  <2>3. i \in 0 .. N /\ ~Stays(i)
    BY <2>2
  <2>4. i # N
    BY <1>3, <1>6, <1>2, <2>3
  <2>5. i + 1 \in 1 .. N /\ i + 1 \in 0 .. N /\ (i + 1) - 1 = i /\ ~(i + 1 <= i)
    BY <1>2, <2>3, <2>4
  <2>6. Stays(i + 1)
    BY <2>2, <2>5
  <2>7. /\ Len(u[i + 1]) = Len(u[i]) + Len(r[i + 1])
        /\ \A k \in 1 .. Len(u[i + 1]) :
             u[i + 1][k] = IF k <= Len(u[i]) THEN u[i][k] ELSE r[i + 1][k - Len(u[i])]
    BY <1>7, <2>5
  <2>8. Len(u[i]) \in Nat /\ Len(u[i + 1]) \in Nat /\ Len(r[i + 1]) \in Nat /\ Len(W) \in Nat
    BY <1>2, <1>3, <1>5, <1>6, <2>3, <2>5
  <2>9. Stays(i)
    <3> DEFINE a == u[i]
               b == u[i + 1]
               c == r[i + 1]
    <3>1. /\ Len(a) \in Nat /\ Len(b) \in Nat /\ Len(c) \in Nat /\ Len(W) \in Nat
          /\ Len(b) = Len(a) + Len(c) /\ Len(b) <= Len(W)
      BY <2>6, <2>7, <2>8
    <3>2. \A k \in 1 .. Len(b) : W[k] = b[k]
      BY <2>6
    <3>3. \A k \in 1 .. Len(b) : k <= Len(a) => b[k] = a[k]
      BY <2>7
    <3> HIDE DEF a, b, c
    <3>4. Len(a) <= Len(W)
      BY <3>1
    <3>5. \A k \in 1 .. Len(a) : k \in 1 .. Len(b) /\ k <= Len(a)
      BY <3>1
    <3>6. \A k \in 1 .. Len(a) : W[k] = a[k]
      BY <3>2, <3>3, <3>5
    <3>. QED  BY <3>4, <3>6 DEF a
  <2>. QED  BY <2>3, <2>9
<1>9. /\ W \in Seq(FileRecords) /\ Len(W) \in Nat \ {0} /\ W[1] = x /\ Len(u[0]) = 1
  <2>1. W \in Seq(FileRecords) /\ Len(W) \in Nat
    BY <1>2, <1>3, <1>6
  <2>2. Len(u[0]) = 1 /\ u[0][1] = x
    BY <1>3
  <2>3. 0 \in 0 .. N
    BY <1>2
  <2>. QED  BY <1>8, <2>1, <2>2, <2>3
<1>10. st \in [1 .. N + 1 -> Nat] /\ st[1] = 2 /\ st[N + 1] = Len(W) + 1
  <2>1. \A i \in 1 .. N + 1 : i - 1 \in 0 .. N
    BY <1>2
  <2>2. 1 \in 1 .. N + 1 /\ N + 1 \in 1 .. N + 1 /\ (N + 1) - 1 = N /\ 1 - 1 = 0
    BY <1>2
  <2>3. st \in [1 .. N + 1 -> Nat]
    BY <1>6, <2>1
  <2>4. st[1] = Len(u[0]) + 1 /\ st[N + 1] = Len(u[N]) + 1
    BY <2>2
  <2>. QED  BY <1>3, <1>9, <2>3, <2>4
<1>11. ASSUME NEW i \in 1 .. N
       PROVE  LET lvl == buf.levels[i]
              IN  /\ 1 <= st[i] /\ st[i] <= Len(W)
                  /\ st[i + 1] = st[i] + LevelLength(W[st[i]])
                  /\ Len(lvl.frames) \in Nat /\ W[st[i]].count = Len(lvl.frames)
                  /\ st[i] + Len(lvl.frames) < st[i + 1] /\ st[i + 1] <= Len(W) + 1
                  /\ \A k \in 1 .. Len(lvl.frames) : W[st[i] + k] = lvl.frames[k]
                  /\ IF W[st[i]].prevSize > 0 THEN W[st[i + 1] - 1] = lvl.prevState
                     ELSE lvl.prevState = NoState
  <2> DEFINE a   == Len(u[i - 1])
             q   == r[i]
             fs  == buf.levels[i].frames
             prev == buf.levels[i].prevState
  <2>1. i - 1 \in 0 .. N /\ i \in 0 .. N /\ i \in 1 .. N + 1 /\ i + 1 \in 1 .. N + 1
        /\ (i + 1) - 1 = i
    BY <1>2
  <2>2. a \in Nat /\ Len(W) \in Nat
    BY <1>6, <1>9, <2>1
  <2>3. st[i] = a + 1 /\ st[i + 1] = a + Len(q) + 1
    BY <1>7, <2>1
  <2>4. /\ Len(q) \in Nat \ {0} /\ Len(fs) \in Nat /\ Len(fs) < Len(q)
        /\ q[1].count = Len(fs) /\ LevelLength(q[1]) = Len(q)
        /\ \A k \in 1 .. Len(fs) : q[k + 1] = fs[k]
        /\ IF q[1].prevSize > 0 THEN q[Len(q)] = prev ELSE prev = NoState
    BY <1>5
  <2>5. a + Len(q) <= Len(W)
    BY <1>7, <1>8, <2>1
  <2>6. \A k \in 1 .. Len(q) : W[a + k] = q[k]
    <3> TAKE k \in 1 .. Len(q)
    <3>1. Len(u[i]) = a + Len(q) /\ a + k \in 1 .. Len(u[i]) /\ ~(a + k <= a)
          /\ (a + k) - a = k
      <4>1. Len(u[i]) = a + Len(q)
        BY <1>7
      <4>2. Len(q) \in Nat
        BY <2>4
      <4> DEFINE l == Len(q)
                 b == Len(u[i])
      <4>3. b = a + l /\ l \in Nat /\ k \in 1 .. l
        BY <4>1, <4>2
      <4> HIDE DEF a, l, b
      <4>4. a + k \in 1 .. b /\ ~(a + k <= a) /\ (a + k) - a = k
        BY <2>2, <4>3
      <4>. QED  BY <4>1, <4>4 DEF b
    <3>2. W[a + k] = u[i][a + k]
      BY <1>8, <2>1, <3>1
    <3>3. u[i][a + k] = q[(a + k) - a]
      BY <1>7, <3>1
    <3>. QED  BY <3>1, <3>2, <3>3
  <2> HIDE DEF a, q, fs, prev, st
  <2>7. 1 \in 1 .. Len(q) /\ Len(q) \in 1 .. Len(q)
        /\ \A k \in 1 .. Len(fs) : k + 1 \in 1 .. Len(q)
    BY <2>4
  <2>8. W[st[i]] = q[1] /\ W[st[i + 1] - 1] = q[Len(q)]
    <3>1. st[i + 1] - 1 = a + Len(q)
      BY <2>2, <2>3, <2>4
    <3>. QED  BY <2>3, <2>6, <2>7, <3>1
  <2>9. \A k \in 1 .. Len(fs) : W[st[i] + k] = fs[k]
    <3> TAKE k \in 1 .. Len(fs)
    <3>1. st[i] + k = a + (k + 1)
      BY <2>2, <2>3
    <3>. QED  BY <2>4, <2>6, <2>7, <3>1
  <2>10. 1 <= st[i] /\ st[i] <= Len(W) /\ st[i + 1] = st[i] + LevelLength(W[st[i]])
         /\ st[i] + Len(fs) < st[i + 1] /\ st[i + 1] <= Len(W) + 1
    <3>1. LevelLength(W[st[i]]) = Len(q)
      BY <2>4, <2>8
    <3> DEFINE l == Len(q)
               f == Len(fs)
    <3>2. l \in Nat \ {0} /\ f \in Nat /\ f < l /\ a + l <= Len(W)
          /\ st[i] = a + 1 /\ st[i + 1] = a + l + 1
      BY <2>3, <2>4, <2>5
    <3> HIDE DEF l, f
    <3>3. 1 <= st[i] /\ st[i] <= Len(W) /\ st[i + 1] = st[i] + l
          /\ st[i] + f < st[i + 1] /\ st[i + 1] <= Len(W) + 1
      BY <2>2, <3>2
    <3>. QED  BY <3>1, <3>3 DEF l, f
  <2>11. W[st[i]].count = Len(fs)
         /\ IF W[st[i]].prevSize > 0 THEN W[st[i + 1] - 1] = prev ELSE prev = NoState
    BY <2>4, <2>8
  <2>12. Len(fs) \in Nat
    BY <2>4
  <2>. QED  BY <2>9, <2>10, <2>11, <2>12 DEF fs, prev
<1> HIDE DEF st
<1>. QED  BY <1>2, <1>9, <1>10, <1>11 DEF LaidOut, W, N, x

\* Where level i is found in the first n records.
FoundAt(st, n, i) ==
  IF i = 1 THEN 2 ELSE IF st[i - 1] <= n THEN st[i] ELSE n + 2

Found(r, st, n) ==
  \A i \in 1 .. LevelCount + 1 : LevelStart(r)[i] = FoundAt(st, n, i)

\* Reading the first n records of a file, the levels are found where they lie, up
\* to the first one that does not begin among those n.
LEMMA StartsFound ==
  ASSUME NEW W, NEW buf, NEW rom, NEW st, LaidOut(W, buf, rom, st),
         NEW n \in 1 .. Len(W), NEW r, r = SubSeq(W, 1, n)
  PROVE  /\ r \in Seq(FileRecords) /\ Len(r) = n /\ \A k \in 1 .. n : r[k] = W[k]
         /\ Found(r, st, n)
<1> DEFINE N == LevelCount + 1
           Next1(a, i) == IF i = 1 THEN 2
                          ELSE IF a[i - 1] > Len(r) THEN Len(r) + 2
                          ELSE a[i - 1] + LevelLength(r[a[i - 1]])
           Eqn(a) == a = [i \in 1 .. N |-> Next1(a, i)]
           w == CHOOSE a : Eqn(a)
           h == [i \in 1 .. N |-> FoundAt(st, n, i)]
<1>1. /\ LevelCount \in Nat \ {0} /\ Level = 1 .. LevelCount /\ N \in Nat \ {0}
      /\ n \in Nat \ {0} /\ Len(W) \in Nat /\ n <= Len(W)
  BY LevelsAssumption DEF Level, LaidOut
<1>2. r \in Seq(FileRecords) /\ Len(r) = n /\ \A k \in 1 .. n : r[k] = W[k]
  <2>1. W \in Seq(FileRecords)
    BY DEF LaidOut
  <2>2. \A i \in 1 .. n : W[i] \in FileRecords
    BY <1>1, <2>1, ElementOfSeq
  <2>3. 1 \in Int /\ n \in Int
    BY <1>1
  <2>4. SubSeq(W, 1, n) \in Seq(FileRecords)
    BY <2>2, <2>3, SubSeqProperties
  <2>5. Len(SubSeq(W, 1, n)) = IF 1 <= n THEN n - 1 + 1 ELSE 0
    BY <2>2, <2>3, SubSeqProperties
  <2>6. \A k \in 1 .. n - 1 + 1 : SubSeq(W, 1, n)[k] = W[1 + k - 1]
    BY <2>2, <2>3, SubSeqProperties
  <2>7. \A k \in 1 .. n : k \in 1 .. n - 1 + 1 /\ 1 + k - 1 = k
    BY <1>1
  <2>8. \A k \in 1 .. n : SubSeq(W, 1, n)[k] = W[k]
    BY <2>6, <2>7
  <2>. QED  BY <1>1, <2>4, <2>5, <2>8
<1>3. LevelStart(r) = w
  BY DEF LevelStart
<1>4. \A i \in 1 .. N : st[i] \in Nat
  BY DEF LaidOut
<1>5. st[1] = 2
      /\ \A i \in 1 .. LevelCount : /\ st[i + 1] = st[i] + LevelLength(W[st[i]])
                                    /\ 1 <= st[i] /\ st[i] < st[i + 1]
  <2> SUFFICES ASSUME NEW i \in 1 .. LevelCount
               PROVE  /\ st[i + 1] = st[i] + LevelLength(W[st[i]])
                      /\ 1 <= st[i] /\ st[i] < st[i + 1]
    BY DEF LaidOut
  <2>1. /\ st[i + 1] = st[i] + LevelLength(W[st[i]]) /\ 1 <= st[i]
        /\ Len(buf.levels[i].frames) \in Nat
        /\ st[i] + Len(buf.levels[i].frames) < st[i + 1]
    BY <1>1 DEF LaidOut
  <2>2. st[i] \in Nat /\ st[i + 1] \in Nat
    BY <1>1, <1>4
  <2>. QED  BY <2>1, <2>2
<1>6. ASSUME NEW i \in 1 .. N
      PROVE  h[i] = Next1(h, i)
  <2>1. CASE i = 1
    BY <2>1 DEF FoundAt
  <2>2. CASE i # 1
    <3> DEFINE j == i - 1
    <3>1. j \in 1 .. LevelCount /\ j \in 1 .. N /\ j + 1 = i
      BY <1>1, <2>2
    <3>2. h[i] = IF st[j] <= n THEN st[i] ELSE n + 2
      BY <2>2 DEF FoundAt
    <3>3. h[j] = IF j = 1 THEN 2 ELSE IF st[j - 1] <= n THEN st[j] ELSE n + 2
      BY <3>1 DEF FoundAt
    <3>4. Next1(h, i) = IF h[j] > n THEN n + 2 ELSE h[j] + LevelLength(r[h[j]])
      <4>1. Len(r) = n
        BY <1>2
      <4> HIDE DEF h
      <4>. QED  BY <2>2, <4>1
    <3>5. st[i] = st[j] + LevelLength(W[st[j]]) /\ 1 <= st[j] /\ st[j] \in Nat
      BY <1>4, <1>5, <3>1
    <3> HIDE DEF h, Next1
    <3>6. CASE j = 1 \/ st[j - 1] <= n
      <4>1. h[j] = st[j]
        BY <1>5, <3>3, <3>6
      <4>2. CASE st[j] <= n
        <5>1. r[st[j]] = W[st[j]]
          BY <1>1, <1>2, <3>5, <4>2
        <5>. QED  BY <1>1, <3>2, <3>4, <3>5, <4>1, <4>2, <5>1
      <4>3. CASE ~(st[j] <= n)
        BY <1>1, <3>2, <3>4, <3>5, <4>1, <4>3
      <4>. QED  BY <4>2, <4>3
    <3>7. CASE j # 1 /\ ~(st[j - 1] <= n)
      <4>1. j - 1 \in 1 .. LevelCount /\ (j - 1) + 1 = j /\ j - 1 \in 1 .. N
        BY <1>1, <3>1, <3>7
      <4>2. st[j - 1] < st[j] /\ st[j - 1] \in Nat
        BY <1>4, <1>5, <4>1
      <4>3. ~(st[j] <= n) /\ h[j] = n + 2
        BY <1>1, <3>3, <3>5, <3>7, <4>2
      <4>. QED  BY <1>1, <3>2, <3>4, <4>3
    <3>. QED  BY <3>6, <3>7
  <2>. QED  BY <2>1, <2>2
<1>7. Eqn(h)
  <2>1. h = [i \in 1 .. N |-> h[i]]
    OBVIOUS
  <2> HIDE DEF h, Next1
  <2>. QED  BY <1>6, <2>1
<1>8. Eqn(w)
  <2> HIDE DEF Eqn, h
  <2>. QED  BY <1>7
<1> HIDE DEF w
<1>9. \A i \in 1 .. N : w[i] = Next1(w, i)
  <2> DEFINE e == [i \in 1 .. N |-> Next1(w, i)]
  <2>1. w = e
    BY <1>8
  <2> HIDE DEF Next1
  <2>2. \A i \in 1 .. N : e[i] = Next1(w, i)
    OBVIOUS
  <2> HIDE DEF e
  <2>. QED  BY <2>1, <2>2
<1> DEFINE Bad == {i \in 1 .. N : w[i] # h[i]}
<1>10. Bad = {}
  <2> SUFFICES ASSUME Bad # {} PROVE FALSE
    OBVIOUS
  <2>1. Bad \in SUBSET Nat
    OBVIOUS
  <2>2. PICK i \in Bad : \A j \in Bad : ~(j < i)
    BY <2>1, LeastMember
  <2>3. i \in 1 .. N /\ w[i] # h[i] /\ w[i] = Next1(w, i) /\ h[i] = Next1(h, i)
    BY <1>6, <1>9, <2>2
  <2>4. i # 1
    BY <2>3
  <2>5. i - 1 \in 1 .. N /\ i - 1 < i
    BY <1>1, <2>3, <2>4
  <2>6. w[i - 1] = h[i - 1]
    BY <2>2, <2>5
  <2> HIDE DEF h, Bad
  <2>7. Next1(w, i) = Next1(h, i)
    BY <2>6
  <2>. QED  BY <2>3, <2>7
<1>11. \A i \in 1 .. N : w[i] = h[i]
  <2> HIDE DEF h
  <2>. QED  BY <1>10
<1>12. \A i \in 1 .. N : h[i] = FoundAt(st, n, i)
  OBVIOUS
<1> HIDE DEF h
<1>. QED  BY <1>2, <1>3, <1>11, <1>12 DEF Found

\* A whole file reads to its end, and no part of it does.
LEMMA LoadsWhole ==
  ASSUME NEW buf \in BufferType, NEW rom \in Roms, NEW W, W = Written(buf, rom)
  PROVE  /\ W \in Seq(FileRecords) /\ Len(W) \in Nat \ {0}
         /\ W[1].romChecksum = rom
         /\ SubSeq(W, 1, Len(W)) = W /\ Loads(W)
         /\ \A n \in 0 .. Len(W) - 1 : ~Loads(SubSeq(W, 1, n))
<1>1. PICK st : LaidOut(W, buf, rom, st)
  BY WrittenLaidOut
<1>2. /\ W \in Seq(FileRecords) /\ Len(W) \in Nat \ {0}
      /\ W[1] = [currentFrameNo |-> buf.currentFrameNo, romChecksum |-> rom]
      /\ st[LevelCount + 1] = Len(W) + 1
  BY <1>1 DEF LaidOut
<1>3. LevelCount \in Level /\ LevelCount \in Nat \ {0}
      /\ LevelCount + 1 \in 1 .. LevelCount + 1 /\ LevelCount + 1 # 1
      /\ (LevelCount + 1) - 1 = LevelCount
  BY LevelsAssumption DEF Level
<1>4. st[LevelCount] <= Len(W) /\ st[LevelCount] \in Nat
  <2>1. LevelCount \in 1 .. LevelCount + 1
    BY <1>3
  <2>. QED  BY <1>1, <1>3, <2>1 DEF LaidOut
<1>5. ASSUME NEW n \in 1 .. Len(W)
      PROVE  /\ SubSeq(W, 1, n) # << >>
             /\ LevelStart(SubSeq(W, 1, n))[LevelCount + 1]
                  = IF st[LevelCount] <= n THEN Len(W) + 1 ELSE n + 2
             /\ Len(SubSeq(W, 1, n)) = n
  <2> DEFINE r == SubSeq(W, 1, n)
  <2>1. r = SubSeq(W, 1, n)
    OBVIOUS
  <2> HIDE DEF r
  <2>2. r \in Seq(FileRecords) /\ Len(r) = n
    BY <1>1, <2>1, StartsFound
  <2>3. Found(r, st, n)
    BY <1>1, <2>1, StartsFound
  <2>4. LevelStart(r)[LevelCount + 1] = IF st[LevelCount] <= n THEN Len(W) + 1 ELSE n + 2
    BY <1>2, <1>3, <2>3 DEF Found, FoundAt
  <2>5. r # << >>
    BY <2>2
  <2>. QED  BY <2>1, <2>2, <2>4, <2>5
<1>6. SubSeq(W, 1, Len(W)) = W
  BY <1>2
<1>7. Loads(W)
  <2>1. Len(W) \in 1 .. Len(W)
    BY <1>2
  <2>2. LevelStart(W)[LevelCount + 1] = Len(W) + 1
    BY <1>4, <1>5, <1>6, <2>1
  <2>3. W # << >>
    BY <1>2
  <2>. QED  BY <1>2, <2>2, <2>3 DEF Loads
<1>8. ASSUME NEW n \in 0 .. Len(W) - 1
      PROVE  ~Loads(SubSeq(W, 1, n))
  <2>1. CASE n = 0
    <3>1. SubSeq(W, 1, 0) = << >>
      BY SubSeqEmpty
    <3>. QED  BY <2>1, <3>1 DEF Loads
  <2>2. CASE n # 0
    <3>1. n \in 1 .. Len(W) /\ n \in Nat /\ n < Len(W)
      BY <1>2, <2>2
    <3>2. LevelStart(SubSeq(W, 1, n))[LevelCount + 1] \in {Len(W) + 1, n + 2}
          /\ Len(SubSeq(W, 1, n)) = n
      BY <1>5, <3>1
    <3>3. ~(LevelStart(SubSeq(W, 1, n))[LevelCount + 1] <= n + 1)
      BY <1>2, <3>1, <3>2
    <3>. QED  BY <3>2, <3>3 DEF Loads
  <2>. QED  BY <2>1, <2>2
<1>. QED  BY <1>2, <1>6, <1>7, <1>8

\* Reading a whole file back gives the timeline it was written from.
LEMMA ReadsBack ==
  ASSUME NEW buf \in BufferType, BytesOK(buf), NEW rom \in Roms, NEW W, W = Written(buf, rom)
  PROVE  Loaded(W) = [buf EXCEPT !.paused = FALSE, !.rollingPaused = FALSE]
<1> DEFINE start     == LevelStart(W)
           frames(i) == SubSeq(W, start[i] + 1, start[i] + W[start[i]].count)
           level(i)  == [frames     |-> frames(i),
                         totalBytes |-> PrefixBytes(frames(i), Len(frames(i))),
                         prevState  |-> IF W[start[i]].prevSize > 0
                                        THEN W[start[i + 1] - 1] ELSE NoState]
           levels    == [i \in Level |-> level(i)]
<1>1. Loaded(W) = [EmptyBuffer EXCEPT
                     !.levels = levels,
                     !.totalBytes = SizeChange(EmptyLevels, levels),
                     !.currentFrameNo = W[1].currentFrameNo]
  BY DEF Loaded, EmptyLevels
<1>2. PICK st : LaidOut(W, buf, rom, st)
  BY WrittenLaidOut
<1>3. /\ W \in Seq(FileRecords) /\ Len(W) \in Nat \ {0}
      /\ W[1].currentFrameNo = buf.currentFrameNo
      /\ SubSeq(W, 1, Len(W)) = W
  BY <1>2, LoadsWhole DEF LaidOut
<1>4. Found(W, st, Len(W))
  <2> DEFINE n == Len(W)
  <2>1. n \in 1 .. Len(W) /\ W = SubSeq(W, 1, n)
    BY <1>3
  <2> HIDE DEF n
  <2>2. Found(W, st, n)
    BY <1>2, <2>1, StartsFound
  <2>. QED  BY <2>2 DEF n
<1>5. LevelCount \in Nat \ {0} /\ Level = 1 .. LevelCount
      /\ \A i \in 1 .. LevelCount + 1 : st[i] \in Nat
  BY <1>2, LevelsAssumption DEF Level, LaidOut
<1>6. ASSUME NEW i \in 1 .. LevelCount + 1
      PROVE  start[i] = st[i]
  <2>1. start[i] = FoundAt(st, Len(W), i)
    BY <1>4 DEF Found
  <2>2. CASE i = 1
    BY <1>2, <2>1, <2>2 DEF FoundAt, LaidOut
  <2>3. CASE i # 1
    <3>1. i - 1 \in Level
      BY <1>5, <2>3
    <3>2. st[i - 1] <= Len(W)
      BY <1>2, <3>1 DEF LaidOut
    <3>. QED  BY <2>1, <2>3, <3>2 DEF FoundAt
  <2>. QED  BY <2>2, <2>3
<1> HIDE DEF start
<1>7. ASSUME NEW i \in Level
      PROVE  level(i) = buf.levels[i]
  <2> DEFINE lvl == buf.levels[i]
             fs  == lvl.frames
             a   == st[i]
  <2>1. i \in 1 .. LevelCount + 1 /\ i + 1 \in 1 .. LevelCount + 1
    BY <1>5
  <2>2. start[i] = a /\ start[i + 1] = st[i + 1] /\ a \in Nat /\ st[i + 1] \in Nat
    BY <1>5, <1>6, <2>1
  <2>3. /\ 1 <= a /\ Len(fs) \in Nat /\ W[a].count = Len(fs)
        /\ a + Len(fs) < st[i + 1] /\ st[i + 1] <= Len(W) + 1
        /\ \A k \in 1 .. Len(fs) : W[a + k] = fs[k]
        /\ IF W[a].prevSize > 0 THEN W[st[i + 1] - 1] = lvl.prevState
           ELSE lvl.prevState = NoState
    BY <1>2 DEF LaidOut
  <2>4. lvl \in LevelType /\ fs \in Seq(Frame)
    BY DEF BufferType, LevelType
  <2>5. frames(i) = fs
    <3> DEFINE l == Len(fs)
               q == SubSeq(W, a + 1, a + l)
    <3>1. frames(i) = q
      BY <2>2, <2>3
    <3>2. l \in Nat /\ a \in Nat /\ a + 1 \in Int /\ a + l \in Int /\ a + l <= Len(W)
      <4> DEFINE e == st[i + 1]
      <4>1. l \in Nat /\ a \in Nat /\ e \in Nat /\ Len(W) \in Nat
        BY <1>3, <2>2, <2>3
      <4>2. a + l < e /\ e <= Len(W) + 1
        BY <2>3
      <4> HIDE DEF a, l, e
      <4>. QED  BY <4>1, <4>2
    <3>3. \A k \in 1 .. l : W[a + k] = fs[k] /\ fs[k] \in Frame
      BY <2>3, <2>4, ElementOfSeq
    <3> HIDE DEF fs, a, l
    <3>4. \A k \in a + 1 .. a + l : W[k] \in Frame
      <4> TAKE k \in a + 1 .. a + l
      <4>1. k - a \in 1 .. l /\ a + (k - a) = k
        BY <3>2
      <4>. QED  BY <3>3, <4>1
    <3>5. q \in Seq(Frame)
      BY <3>2, <3>4, SubSeqProperties
    <3>6. Len(q) = IF a + 1 <= a + l THEN (a + l) - (a + 1) + 1 ELSE 0
      BY <3>2, <3>4, SubSeqProperties
    <3>7. \A k \in 1 .. (a + l) - (a + 1) + 1 : q[k] = W[(a + 1) + k - 1]
      BY <3>2, <3>4, SubSeqProperties
    <3> HIDE DEF q
    <3>8. Len(q) = l
      BY <3>2, <3>6
    <3>9. \A k \in 1 .. l : q[k] = fs[k]
      <4> TAKE k \in 1 .. l
      <4>1. k \in 1 .. (a + l) - (a + 1) + 1 /\ (a + 1) + k - 1 = a + k
        BY <3>2
      <4>. QED  BY <3>3, <3>7, <4>1
    <3>10. Len(fs) = l
      BY DEF l
    <3>11. q = fs
      BY <2>4, <3>5, <3>8, <3>9, <3>10, SeqEqual
    <3>. QED  BY <3>1, <3>11
  <2>6. PrefixBytes(frames(i), Len(frames(i))) = lvl.totalBytes
    BY <2>5 DEF BytesOK, BytesCounted
  <2>7. level(i).prevState = lvl.prevState
    <3> HIDE DEF frames
    <3>1. level(i).prevState = IF W[a].prevSize > 0 THEN W[st[i + 1] - 1] ELSE NoState
      BY <2>2
    <3>. QED  BY <2>3, <3>1
  <2>8. level(i) = [frames |-> frames(i), totalBytes |-> level(i).totalBytes,
                    prevState |-> level(i).prevState]
        /\ level(i).totalBytes = PrefixBytes(frames(i), Len(frames(i)))
    OBVIOUS
  <2>9. lvl = [frames |-> fs, totalBytes |-> lvl.totalBytes, prevState |-> lvl.prevState]
    BY <2>4 DEF LevelType
  <2> HIDE DEF level, frames, lvl
  <2>10. level(i) = lvl
    BY <2>5, <2>6, <2>7, <2>8, <2>9
  <2>. QED  BY <2>10 DEF lvl
<1>8. levels = buf.levels
  <2>1. buf.levels = [i \in Level |-> buf.levels[i]]
    BY DEF BufferType
  <2> HIDE DEF level
  <2>. QED  BY <1>7, <2>1
<1> HIDE DEF levels
<1>9. buf = [levels |-> buf.levels, totalBytes |-> buf.totalBytes, paused |-> buf.paused,
             rollingPaused |-> buf.rollingPaused, currentFrameNo |-> buf.currentFrameNo]
  BY DEF BufferType
<1>10. buf.totalBytes = SizeChange(EmptyLevels, buf.levels)
  BY DEF BytesOK
<1>11. Loaded(W) = [levels |-> buf.levels, totalBytes |-> buf.totalBytes, paused |-> FALSE,
                    rollingPaused |-> FALSE, currentFrameNo |-> buf.currentFrameNo]
  BY <1>1, <1>3, <1>8, <1>10 DEF EmptyBuffer
<1>12. [buf EXCEPT !.paused = FALSE, !.rollingPaused = FALSE]
         = [levels |-> buf.levels, totalBytes |-> buf.totalBytes, paused |-> FALSE,
            rollingPaused |-> FALSE, currentFrameNo |-> buf.currentFrameNo]
  <2> DEFINE x == [buf EXCEPT !.paused = FALSE, !.rollingPaused = FALSE]
  <2>1. /\ x.levels = buf.levels /\ x.totalBytes = buf.totalBytes /\ x.paused = FALSE
        /\ x.rollingPaused = FALSE /\ x.currentFrameNo = buf.currentFrameNo
    BY DEF BufferType
  <2>2. x = [levels |-> x.levels, totalBytes |-> x.totalBytes, paused |-> x.paused,
             rollingPaused |-> x.rollingPaused, currentFrameNo |-> x.currentFrameNo]
    <3>1. x \in BufferType
      BY DEF BufferType
    <3> HIDE DEF x
    <3>. QED  BY <3>1 DEF BufferType
  <2> HIDE DEF x
  <2>3. x = [levels |-> buf.levels, totalBytes |-> buf.totalBytes, paused |-> FALSE,
             rollingPaused |-> FALSE, currentFrameNo |-> buf.currentFrameNo]
    BY <2>1, <2>2
  <2>. QED  BY <2>3 DEF x
<1>. QED  BY <1>11, <1>12

-----------------------------------------------------------------------------
(* What Save keeps *)

\* The saved timeline after the Save button: one keyframe.
KeyBuffer(s, no) ==
  [WithLevel(EmptyBuffer, 1, AppendStates(EmptyLevel, << Item(s, no, s) >>))
     EXCEPT !.currentFrameNo = no]

\* It is well formed and is at its frame, which gives back the state.
LEMMA KeyBufferOK ==
  ASSUME SameSize, NEW s \in States, NEW no \in Nat, NEW b, b = KeyBuffer(s, no)
  PROVE  /\ BufferOK(b) /\ b \in BufferType /\ BytesOK(b)
         /\ b = [b EXCEPT !.paused = FALSE, !.rollingPaused = FALSE]
         /\ b.currentFrameNo = no /\ Slots(b) # {}
         /\ RestoredState(b, no) = s /\ SnapshotState(b) = s
<1> DEFINE lvl == AppendStates(EmptyLevel, << Item(s, no, s) >>)
           mid == WithLevel(EmptyBuffer, 1, lvl)
<1>1. 1 \in Level /\ EmptyBuffer.levels[1] = EmptyLevel
  BY LevelsAssumption DEF Level, EmptyBuffer
<1>2. /\ LevelOK(lvl) /\ Len(lvl.frames) = 1
      /\ lvl.frames[1].frame_no = no /\ lvl.frames[1].captured = s
  <2>1. LevelOK(EmptyLevel) /\ EmptyLevel.frames = << >> /\ Len(<< >>) = 0
    <3>1. EmptyLevel \in LevelType /\ EmptyLevel.frames = << >>
      BY DEF EmptyLevel, LevelType
    <3>. QED  BY <3>1, EmptyLevelOK
  <2>2. lvl = AppendStates(EmptyLevel, << Item(s, no, s) >>)
    OBVIOUS
  <2> DEFINE e == EmptyLevel
             n == Len(e.frames)
  <2>3. LevelOK(e) /\ lvl = AppendStates(e, << Item(s, no, s) >>) /\ n = 0
    BY <2>1, <2>2
  <2> HIDE DEF lvl, e
  <2>4. LevelOK(lvl)
    BY <2>3, AppendOne
  <2>5. Len(lvl.frames) = Len(e.frames) + 1
    <3>1. \A from, out : LevelOK(from) /\ out = AppendStates(from, << Item(s, no, s) >>)
                         => Len(out.frames) = Len(from.frames) + 1
      BY AppendOne
    <3>. QED  BY <2>3, <3>1
  <2>6. lvl.frames[Len(e.frames) + 1].frame_no = no
    BY <2>3, AppendOne
  <2>7. lvl.frames[Len(e.frames) + 1].captured = s
    BY <2>3, AppendOne
  <2>. QED  BY <2>3, <2>4, <2>6, <2>7, <2>5
<1>3. BytesOK(mid)
  <2>1. mid = WithLevel(EmptyBuffer, 1,
                        AppendStates(EmptyBuffer.levels[1], << Item(s, no, s) >>))
    BY <1>1
  <2> HIDE DEF mid
  <2>. QED  BY <2>1, EmptyBufferOK, EmptyBytes, CaptureBytes
<1>4. EmptyBuffer \in BufferType /\ lvl \in LevelType
  BY <1>2, EmptyBufferOK DEF BufferOK, LevelsOK, LevelOK
<1>5. mid.paused = FALSE /\ mid.rollingPaused = FALSE
  BY DEF WithLevel, EmptyBuffer
<1>6. b = [mid EXCEPT !.currentFrameNo = no]
  BY DEF KeyBuffer
<1> HIDE DEF lvl
<1>7. mid \in BufferType
      /\ \A j \in Level : mid.levels[j] = IF j = 1 THEN lvl ELSE EmptyBuffer.levels[j]
  BY <1>1, <1>4, WithLevelIs
<1> HIDE DEF mid
<1>8. /\ b \in BufferType /\ b.levels = mid.levels /\ b.totalBytes = mid.totalBytes
      /\ b.currentFrameNo = no /\ b.paused = FALSE /\ b.rollingPaused = FALSE
  BY <1>5, <1>6, <1>7 DEF BufferType
<1>9. BufferOK(b)
  <2>1. \A i \in Level : \A k \in 1 .. Size(EmptyBuffer, i) : No(EmptyBuffer, i, k) < no
    BY DEF EmptyBuffer, EmptyLevel, Size
  <2>2. mid = WithLevel(EmptyBuffer, 1,
                        AppendStates(EmptyBuffer.levels[1], << Item(s, no, s) >>))
    BY <1>1 DEF mid, lvl
  <2>3. BufferOK(mid)
    BY <2>1, <2>2, EmptyBufferOK, CaptureOK
  <2>. QED  BY <1>8, <2>3, SameLevelsOK
<1>10. BytesOK(b)
  BY <1>3, <1>8, SameLevelsBytes
<1>11. b = [b EXCEPT !.paused = FALSE, !.rollingPaused = FALSE]
  BY <1>8 DEF BufferType
<1>12. /\ b.levels[1] = lvl
       /\ \A j \in Level : j # 1 => b.levels[j].frames = << >>
  <2>1. \A j \in Level : EmptyBuffer.levels[j].frames = << >>
    BY DEF EmptyBuffer, EmptyLevel
  <2>. QED  BY <1>1, <1>7, <1>8, <2>1
<1>13. << 1, 1 >> \in Slots(b) /\ FrameAt(b, << 1, 1 >>).frame_no = no
  BY <1>1, <1>2, <1>12 DEF Slots, FrameAt
<1>14. \A slot \in Slots(b) : slot = << 1, 1 >>
  <2> TAKE slot \in Slots(b)
  <2>1. slot[1] \in Level /\ slot[2] \in 1 .. Size(b, slot[1])
        /\ slot = << slot[1], slot[2] >>
    BY SlotShape
  <2>2. slot[1] = 1
    BY <1>12, <2>1 DEF Size
  <2>3. Size(b, 1) = 1
    BY <1>2, <1>12 DEF Size
  <2>4. slot[2] = 1
    BY <2>1, <2>2, <2>3
  <2>. QED  BY <2>1, <2>2, <2>4
<1>15. Reconstruct(lvl.frames, 1) = s
  <2> DEFINE frames == lvl.frames
  <2>1. Chain(frames) /\ 1 \in 1 .. Len(frames) /\ frames[1].captured = s
    BY <1>2 DEF LevelOK
  <2> HIDE DEF frames
  <2>2. Reconstruct(frames, 1) = s
    BY <2>1, ReconstructExact
  <2>. QED  BY <2>2 DEF frames
<1>16. HasFrameNo(b, no)
  BY <1>13 DEF HasFrameNo
<1>17. RestoredState(b, no) = s
  <2>1. FindFrame(b, no) = << 1, 1 >>
    BY <1>14, <1>16, FirstFound
  <2>. QED  BY <1>12, <1>15, <1>16, <2>1 DEF RestoredState
<1>18. SnapshotState(b) = s
  <2>1. CASE no # 0
    BY <1>8, <1>16, <1>17, <2>1 DEF SnapshotState
  <2>2. CASE no = 0
    <3> DEFINE P(i) == /\ b.levels[i].frames # << >>
                       /\ \A j \in 1 .. i - 1 : b.levels[j].frames = << >>
    <3>1. P(1) /\ \A i \in Level : P(i) => i = 1
      <4>1. b.levels[1].frames # << >>
        BY <1>2, <1>12
      <4>2. \A j \in 1 .. 1 - 1 : b.levels[j].frames = << >>
        OBVIOUS
      <4>. QED  BY <1>12, <4>1, <4>2
    <3>2. (CHOOSE i \in Level : P(i)) = 1
      <4> HIDE DEF P
      <4>. QED  BY <1>1, <3>1
    <3>3. SnapshotState(b) = Last(b.levels[CHOOSE i \in Level : P(i)])
      BY <1>8, <2>2 DEF SnapshotState
    <3>4. Last(b.levels[1]) = s
      BY <1>2, <1>12, <1>15 DEF Last
    <3> HIDE DEF P
    <3>. QED  BY <3>2, <3>3, <3>4
  <2>. QED  BY <2>1, <2>2
<1>. QED  BY <1>8, <1>10, <1>11, <1>13, <1>17, <1>18, <1>9

-----------------------------------------------------------------------------
(* The invariant *)

\* The records in a file that is being written, and those that remain.
PartWritten(W, n, done, rest) ==
  n \in 0 .. Len(W) /\ done = SubSeq(W, 1, n) /\ rest = SubSeq(W, n + 1, Len(W))

\* Writing moves one record over, until none remains.
LEMMA WrittenOneMore ==
  ASSUME NEW W \in Seq(FileRecords), NEW n, NEW done, NEW rest,
         PartWritten(W, n, done, rest)
  PROVE  /\ rest = << >> <=> n = Len(W)
         /\ rest # << >> => PartWritten(W, n + 1, Append(done, Head(rest)), Tail(rest))
<1>1. /\ n \in 0 .. Len(W) /\ done = SubSeq(W, 1, n) /\ rest = SubSeq(W, n + 1, Len(W))
      /\ Len(W) \in Nat /\ n \in Nat
  BY DEF PartWritten
<1>2. CASE n = Len(W)
  BY <1>1, <1>2, SubSeqEmpty
<1>3. CASE n # Len(W)
  <2>1. n + 1 \in 1 .. Len(W) /\ n + 1 <= Len(W)
    BY <1>1, <1>3
  <2>2. Len(rest) = Len(W) - n /\ rest \in Seq(FileRecords)
    BY <1>1, <2>1, SubSeqProperties
  <2>3. rest # << >>
    <3>1. Len(rest) # 0
      BY <1>1, <1>3, <2>2
    <3>. QED  BY <3>1
  <2>4. Head(rest) = W[n + 1] /\ Tail(rest) = SubSeq(W, n + 2, Len(W))
    BY <1>1, <2>1, HeadTailOfSubSeq
  <2>5. Append(done, W[n + 1]) = SubSeq(W, 1, n + 1)
    BY <1>1, <2>1
  <2>. QED  BY <1>1, <1>3, <2>1, <2>3, <2>4, <2>5 DEF PartWritten
<1>. QED  BY <1>2, <1>3

\* What was saved last, for which build, and whether its file is complete or will
\* be when it is being written.
KeptType == [state : States, stamp : Roms, of : Roms, whole : BOOLEAN]

\* What the file is written with for it.
Image(k, no) == Written(KeyBuffer(k.state, no), k.stamp)

Writing(ph) == ph \in {"saving", "exiting"}

\* No file; or all of an image of what was saved last, or a part that a crash has
\* left; or what is written of one so far.
OnDisk(ph, k, f, rest) ==
  \/ ph \in {"off", "up"} /\ k = << >> /\ f = << >> /\ rest = << >>
  \/ /\ k \in KeptType /\ ph \in {"off", "up"} /\ rest = << >>
     /\ \E no \in Nat : \E n \in 0 .. Len(Image(k, no)) :
          /\ f = SubSeq(Image(k, no), 1, n)
          /\ k.whole <=> n = Len(Image(k, no))
  \/ /\ k \in KeptType /\ Writing(ph) /\ k.whole
     /\ \E no \in Nat : \E n : PartWritten(Image(k, no), n, f, rest)

\* A state on offer is the one saved last, in the core's copy and in the saved
\* timeline; otherwise there is none.
Offered ==
  IF hasStateSnapshot
  THEN /\ kept \in KeptType /\ hostState = kept.state
       /\ \E no \in Nat : save = KeyBuffer(kept.state, no)
  ELSE hostState = NoState

SnapInv ==
  /\ CountedInv
  /\ romFile \in Roms /\ romLoaded \in Roms
  /\ hasStateSnapshot \in BOOLEAN
  /\ Offered
  /\ OnDisk(phase, kept, file, toWrite)

\* A key buffer's image is a whole file, and is read back.
LEMMA ImageIs ==
  ASSUME SameSize, NEW k \in KeptType, NEW no \in Nat, NEW W, W = Image(k, no)
  PROVE  /\ W \in Seq(FileRecords) /\ Len(W) \in Nat \ {0}
         /\ W[1].romChecksum = k.stamp
         /\ SubSeq(W, 1, Len(W)) = W /\ Loads(W) /\ Loaded(W) = KeyBuffer(k.state, no)
         /\ \A n \in 0 .. Len(W) - 1 : ~Loads(SubSeq(W, 1, n))
<1>1. k.state \in States /\ k.stamp \in Roms
  BY DEF KeptType
<1> DEFINE b == KeyBuffer(k.state, no)
<1>2. b \in BufferType /\ BytesOK(b) /\ b = [b EXCEPT !.paused = FALSE, !.rollingPaused = FALSE]
  BY <1>1, KeyBufferOK
<1>3. W = Written(b, k.stamp)
  BY DEF Image
<1> HIDE DEF b
<1>4. Loaded(W) = b
  BY <1>1, <1>2, <1>3, ReadsBack
<1>5. /\ W \in Seq(FileRecords) /\ Len(W) \in Nat \ {0}
      /\ W[1].romChecksum = k.stamp
      /\ SubSeq(W, 1, Len(W)) = W /\ Loads(W)
      /\ \A n \in 0 .. Len(W) - 1 : ~Loads(SubSeq(W, 1, n))
  BY <1>1, <1>2, <1>3, LoadsWhole
<1>. QED  BY <1>4, <1>5 DEF b

\* What is kept is told from nothing kept.
LEMMA KeptIsRecord ==
  ASSUME NEW k \in KeptType
  PROVE  k # << >>
<1>1. "state" \in DOMAIN k
  BY DEF KeptType
<1>2. DOMAIN << >> = {}
  OBVIOUS
<1>. QED  BY <1>1, <1>2

\* Writing begins.
LEMMA WritingStarts ==
  ASSUME SameSize, NEW k \in KeptType, k.whole, NEW no \in Nat, NEW ph, Writing(ph),
         NEW rest, rest = Image(k, no)
  PROVE  OnDisk(ph, k, << >>, rest)
<1> DEFINE W == Image(k, no)
<1>1. W \in Seq(FileRecords) /\ Len(W) \in Nat /\ SubSeq(W, 1, Len(W)) = W
  BY ImageIs
<1>2. rest = W
  OBVIOUS
<1> HIDE DEF W
<1>3. PartWritten(W, 0, << >>, rest)
  <2>1. SubSeq(W, 1, 0) = << >>
    BY <1>1, SubSeqEmpty
  <2>. QED  BY <1>1, <1>2, <2>1 DEF PartWritten
<1>. QED  BY <1>3 DEF OnDisk, W

-----------------------------------------------------------------------------
(* The steps *)

\* At first nothing is kept.
LEMMA SnapInitOK == SnapshotsInit => SnapInv
<1> SUFFICES ASSUME SnapshotsInit PROVE SnapInv
  OBVIOUS
<1>1. CountedInv
  BY InitOK, EmptyBytes DEF SnapshotsInit, Init, CountedInv
<1>2. Offered /\ OnDisk(phase, kept, file, toWrite)
  BY DEF SnapshotsInit, Offered, OnDisk
<1>. QED  BY <1>1, <1>2 DEF SnapshotsInit, SnapInv

\* The start of the debugger: the file is read when it is whole, and offered when
\* it is stamped with the build that is there.
LEMMA BootOK ==
  ASSUME SameSize, SnapInv, Boot
  PROVE  /\ SnapInv'
         /\ IF kept # << >> /\ kept.whole /\ kept.stamp = romFile
            THEN hasStateSnapshot' /\ hostState' = kept.state
            ELSE ~hasStateSnapshot'
<1>1. /\ phase = "off" /\ phase' = "up"
      /\ save' = IF Loads(file) THEN Loaded(file) ELSE EmptyBuffer
      /\ hasStateSnapshot' = (Loads(file) /\ file[1].romChecksum = romFile)
      /\ hostState' = IF hasStateSnapshot' THEN SnapshotState(save') ELSE NoState
      /\ romLoaded' = romFile
      /\ current' = current /\ trimAt' = trimAt /\ romFile' = romFile
      /\ file' = file /\ toWrite' = toWrite /\ kept' = kept
  BY DEF Boot
<1>2. /\ CountedInv /\ romFile \in Roms /\ OnDisk(phase, kept, file, toWrite)
  BY DEF SnapInv
<1>3. OnDisk(phase', kept', file', toWrite')
  BY <1>1, <1>2 DEF OnDisk, Writing
<1>4. ASSUME BufferOK(save'), BytesOK(save')
      PROVE  CountedInv'
  BY <1>1, <1>2, <1>4 DEF CountedInv, IInv
<1>5. CASE ~Loads(file)
  <2>1. save' = EmptyBuffer /\ hasStateSnapshot' = FALSE /\ hostState' = NoState
    BY <1>1, <1>5
  <2>2. CountedInv'
    BY <1>4, <2>1, EmptyBufferOK, EmptyBytes
  <2>3. ~(kept # << >> /\ kept.whole)
    <3>1. SUFFICES ASSUME kept # << >>, kept.whole PROVE FALSE
      OBVIOUS
    <3>2. PICK no \in Nat : \E n \in 0 .. Len(Image(kept, no)) :
            /\ file = SubSeq(Image(kept, no), 1, n)
            /\ kept.whole <=> n = Len(Image(kept, no))
      BY <1>1, <1>2, <3>1 DEF OnDisk, Writing
    <3>3. kept \in KeptType
      BY <1>1, <1>2, <3>1 DEF OnDisk, Writing
    <3>4. file = SubSeq(Image(kept, no), 1, Len(Image(kept, no)))
      BY <3>1, <3>2
    <3>5. Loads(file)
      BY <3>3, <3>4, ImageIs
    <3>. QED  BY <1>5, <3>5
  <2>4. SnapInv'
    BY <1>1, <1>2, <1>3, <2>1, <2>2 DEF SnapInv, Offered
  <2>. QED  BY <2>1, <2>3, <2>4
<1>6. CASE Loads(file)
  <2>1. kept \in KeptType /\ kept # << >>
    <3>1. ~Loads(<< >>)
      BY DEF Loads
    <3>. QED  BY <1>1, <1>2, <1>6, <3>1, KeptIsRecord DEF OnDisk, Writing
  <2>2. PICK no \in Nat : \E n \in 0 .. Len(Image(kept, no)) :
          /\ file = SubSeq(Image(kept, no), 1, n)
          /\ kept.whole <=> n = Len(Image(kept, no))
    BY <1>1, <1>2, <2>1 DEF OnDisk, Writing
  <2> DEFINE W == Image(kept, no)
  <2>3. PICK n \in 0 .. Len(W) : file = SubSeq(W, 1, n) /\ (kept.whole <=> n = Len(W))
    BY <2>2
  <2>4. /\ Len(W) \in Nat \ {0} /\ W[1].romChecksum = kept.stamp
        /\ SubSeq(W, 1, Len(W)) = W /\ Loaded(W) = KeyBuffer(kept.state, no)
        /\ \A m \in 0 .. Len(W) - 1 : ~Loads(SubSeq(W, 1, m))
    BY <2>1, ImageIs
  <2> HIDE DEF W
  <2>5. n = Len(W)
    <3>1. n \in 0 .. Len(W) /\ Len(W) \in Nat
      BY <2>3, <2>4, Zenon
    <3>2. n # Len(W) => n \in 0 .. Len(W) - 1
      BY <3>1
    <3>. QED  BY <1>6, <2>3, <2>4, <3>2, Zenon
  <2>6. file = W /\ kept.whole
    BY <2>3, <2>4, <2>5
  <2>7. /\ save' = KeyBuffer(kept.state, no)
        /\ hasStateSnapshot' = (kept.stamp = romFile)
    BY <1>1, <1>6, <2>4, <2>6
  <2>8. kept.state \in States
    BY <2>1 DEF KeptType
  <2>9. BufferOK(save') /\ BytesOK(save') /\ SnapshotState(save') = kept.state
    BY <2>7, <2>8, KeyBufferOK
  <2>10. CountedInv'
    BY <1>4, <2>9
  <2>11. hostState' = IF hasStateSnapshot' THEN kept.state ELSE NoState
    BY <1>1, <2>9
  <2>12. Offered' /\ hasStateSnapshot' \in BOOLEAN
    BY <1>1, <2>1, <2>7, <2>11 DEF Offered
  <2>13. SnapInv'
    BY <1>1, <1>2, <1>3, <2>10, <2>12 DEF SnapInv
  <2>. QED  BY <2>1, <2>6, <2>7, <2>11, <2>13
<1>. QED  BY <1>5, <1>6

\* The end of the process, however it comes: nothing is left of its memory.
LEMMA GoneOK ==
  ASSUME SnapInv, Gone, OnDisk(phase', kept', file', toWrite')
  PROVE  SnapInv'
<1>1. /\ current' = EmptyBuffer /\ save' = EmptyBuffer /\ trimAt' = 0
      /\ hostState' = NoState /\ hasStateSnapshot' = FALSE
      /\ romFile' = romFile /\ romLoaded' = romLoaded
  BY DEF Gone
<1>2. CountedInv'
  BY <1>1, EmptyBufferOK, EmptyBytes, LevelsAssumption DEF CountedInv, IInv
<1>. QED  BY <1>1, <1>2 DEF SnapInv, Offered

\* Steps that leave the buffers alone.
LEMMA BuffersKept ==
  ASSUME SnapInv, current' = current, save' = save, trimAt' = trimAt
  PROVE  CountedInv'
BY DEF SnapInv, CountedInv, IInv

\* Save puts one keyframe into the saved timeline, and its image is what will be
\* written.
LEMMA SaveStateOK ==
  ASSUME SameSize, SnapInv, NEW s \in States, SaveState(s)
  PROVE  SnapInv'
<1> DEFINE no == current.currentFrameNo
<1>1. /\ phase' = "saving" /\ file' = << >> /\ toWrite' = Written(save', romFile)
      /\ SetSaveKeyframe(s, no)
      /\ hostState' = s /\ hasStateSnapshot' = TRUE
      /\ kept' = [state |-> s, stamp |-> romFile, of |-> romLoaded, whole |-> TRUE]
      /\ romFile' = romFile /\ romLoaded' = romLoaded
  BY DEF SaveState, StartWriting
<1>2. CountedInv /\ romFile \in Roms /\ romLoaded \in Roms /\ no \in Nat
  BY DEF SnapInv, CountedInv, IInv, BufferOK, LevelsOK, BufferType
<1>3. CountedInv'
  <2>1. NextSave
    BY <1>1 DEF NextSave
  <2>. QED  BY <1>2, <2>1, CountedStep DEF Next
<1>4. save' = KeyBuffer(s, no)
  BY <1>1 DEF SetSaveKeyframe, KeyBuffer
<1>5. kept' \in KeptType /\ kept'.whole /\ kept'.state = s /\ kept'.stamp = romFile
  BY <1>1, <1>2 DEF KeptType
<1> HIDE DEF no
<1>6. OnDisk(phase', kept', file', toWrite')
  <2>1. toWrite' = Image(kept', no)
    BY <1>1, <1>4, <1>5 DEF Image
  <2>. QED  BY <1>1, <1>2, <1>5, <2>1, WritingStarts DEF Writing
<1>7. Offered'
  BY <1>1, <1>2, <1>4, <1>5 DEF Offered
<1>. QED  BY <1>1, <1>2, <1>3, <1>6, <1>7 DEF SnapInv

\* What an end of the debugger writes is on offer, and so is what was kept; it is
\* now stamped for the build on the disk.
LEMMA BeginExitOK ==
  ASSUME SameSize, SnapInv, BeginExit
  PROVE  SnapInv'
<1>1. /\ phase' = "exiting" /\ file' = << >> /\ toWrite' = Written(save, romFile)
      /\ hasStateSnapshot
      /\ kept' = [kept EXCEPT !.stamp = romFile, !.whole = TRUE]
      /\ current' = current /\ save' = save /\ trimAt' = trimAt
      /\ hostState' = hostState /\ hasStateSnapshot' = hasStateSnapshot
      /\ romFile' = romFile /\ romLoaded' = romLoaded
  BY DEF BeginExit, StartWriting, hostVars
<1>2. /\ romFile \in Roms /\ romLoaded \in Roms /\ hasStateSnapshot \in BOOLEAN
      /\ kept \in KeptType /\ hostState = kept.state
  BY <1>1 DEF SnapInv, Offered
<1>3. PICK no \in Nat : save = KeyBuffer(kept.state, no)
  BY <1>1 DEF SnapInv, Offered
<1>4. /\ kept' \in KeptType /\ kept'.whole
      /\ kept'.state = kept.state /\ kept'.stamp = romFile
  BY <1>1, <1>2 DEF KeptType
<1>5. OnDisk(phase', kept', file', toWrite')
  <2>1. toWrite' = Image(kept', no)
    BY <1>1, <1>3, <1>4 DEF Image
  <2>. QED  BY <1>1, <1>4, <2>1, WritingStarts DEF Writing
<1>6. Offered'
  BY <1>1, <1>2, <1>3, <1>4 DEF Offered
<1>7. CountedInv'
  BY <1>1, BuffersKept
<1>. QED  BY <1>1, <1>2, <1>5, <1>6, <1>7 DEF SnapInv

\* Each record written belongs to the same image.
LEMMA WriteRecordOK ==
  ASSUME SameSize, SnapInv, WriteRecord
  PROVE  SnapInv'
<1>1. /\ Writing(phase) /\ toWrite # << >>
      /\ file' = Append(file, Head(toWrite)) /\ toWrite' = Tail(toWrite)
      /\ current' = current /\ save' = save /\ trimAt' = trimAt
      /\ hostState' = hostState /\ hasStateSnapshot' = hasStateSnapshot
      /\ phase' = phase /\ romFile' = romFile /\ romLoaded' = romLoaded /\ kept' = kept
  BY DEF WriteRecord, Writing, hostVars
<1>2. kept \in KeptType /\ kept.whole
  BY <1>1 DEF SnapInv, OnDisk, Writing
<1>3. PICK no \in Nat : \E n : PartWritten(Image(kept, no), n, file, toWrite)
  BY <1>1 DEF SnapInv, OnDisk, Writing
<1>4. Image(kept, no) \in Seq(FileRecords)
  BY <1>2, ImageIs
<1>5. \E n : PartWritten(Image(kept, no), n, file', toWrite')
  BY <1>1, <1>3, <1>4, WrittenOneMore
<1>6. OnDisk(phase', kept', file', toWrite')
  BY <1>1, <1>2, <1>5 DEF OnDisk
<1>7. CountedInv' /\ Offered'
  BY <1>1, BuffersKept DEF SnapInv, Offered
<1>. QED  BY <1>1, <1>6, <1>7 DEF SnapInv

\* Nothing is left to write: the file is whole.
LEMMA NoneLeft ==
  ASSUME SameSize, OnDisk(phase, kept, file, toWrite), Writing(phase), toWrite = << >>,
         NEW ph \in {"off", "up"}
  PROVE  OnDisk(ph, kept, file, toWrite)
<1>1. kept \in KeptType /\ kept.whole
  BY DEF OnDisk, Writing
<1>2. PICK no \in Nat : \E n : PartWritten(Image(kept, no), n, file, toWrite)
  BY DEF OnDisk, Writing
<1>3. PICK n : PartWritten(Image(kept, no), n, file, toWrite)
  BY <1>2
<1>4. Image(kept, no) \in Seq(FileRecords)
  BY <1>1, ImageIs
<1>5. n = Len(Image(kept, no)) /\ n \in 0 .. Len(Image(kept, no))
      /\ file = SubSeq(Image(kept, no), 1, n)
  BY <1>3, <1>4, WrittenOneMore DEF PartWritten
<1>. QED  BY <1>1, <1>5 DEF OnDisk

\* The end of a Save.
LEMMA SavedOK ==
  ASSUME SameSize, SnapInv, Saved
  PROVE  SnapInv'
<1>1. /\ phase = "saving" /\ toWrite = << >> /\ phase' = "up"
      /\ current' = current /\ save' = save /\ trimAt' = trimAt
      /\ hostState' = hostState /\ hasStateSnapshot' = hasStateSnapshot
      /\ romFile' = romFile /\ romLoaded' = romLoaded /\ kept' = kept
      /\ file' = file /\ toWrite' = toWrite
  BY DEF Saved, hostVars
<1>2. OnDisk(phase', kept', file', toWrite')
  BY <1>1, NoneLeft DEF SnapInv, Writing
<1>3. CountedInv' /\ Offered'
  BY <1>1, BuffersKept DEF SnapInv, Offered
<1>. QED  BY <1>1, <1>2, <1>3 DEF SnapInv

\* An end with or without a file to write.
LEMMA ExitedOK ==
  ASSUME SameSize, SnapInv, Exited
  PROVE  SnapInv'
<1>1. Gone /\ file' = file /\ toWrite' = toWrite /\ kept' = kept /\ phase' = "off"
  BY DEF Exited, Gone
<1>2. CASE phase = "exiting" /\ toWrite = << >>
  <2>1. OnDisk(phase', kept', file', toWrite')
    BY <1>1, <1>2, NoneLeft DEF SnapInv, Writing
  <2>. QED  BY <1>1, <2>1, GoneOK
<1>3. CASE phase = "up"
  <2>1. OnDisk(phase', kept', file', toWrite')
    BY <1>1, <1>3 DEF SnapInv, OnDisk, Writing
  <2>. QED  BY <1>1, <2>1, GoneOK
<1>. QED  BY <1>2, <1>3 DEF Exited, Up

\* A crash leaves a part of the image, a proper one if records were still to be
\* written.
LEMMA CrashOK ==
  ASSUME SameSize, SnapInv, Crash
  PROVE  SnapInv'
<1>1. /\ Gone /\ phase' = "off" /\ toWrite' = << >> /\ file' = file
      /\ kept' = IF toWrite # << >> THEN [kept EXCEPT !.whole = FALSE] ELSE kept
  BY DEF Crash, Gone
<1>2. OnDisk(phase, kept, file, toWrite)
  BY DEF SnapInv
<1>3. CASE toWrite = << >>
  <2>1. CASE Writing(phase)
    <3>1. OnDisk(phase', kept', file', toWrite')
      BY <1>1, <1>2, <1>3, <2>1, NoneLeft
    <3>. QED  BY <1>1, <3>1, GoneOK
  <2>2. CASE ~Writing(phase)
    <3>1. OnDisk(phase', kept', file', toWrite')
      BY <1>1, <1>2, <1>3, <2>2 DEF OnDisk
    <3>. QED  BY <1>1, <3>1, GoneOK
  <2>. QED  BY <2>1, <2>2
<1>4. CASE toWrite # << >>
  <2>1. kept \in KeptType
    BY <1>2, <1>4 DEF OnDisk
  <2>2. PICK no \in Nat : \E n : PartWritten(Image(kept, no), n, file, toWrite)
    BY <1>2, <1>4 DEF OnDisk
  <2>3. PICK n : PartWritten(Image(kept, no), n, file, toWrite)
    BY <2>2
  <2>4. Image(kept, no) \in Seq(FileRecords)
    BY <2>1, ImageIs
  <2>5. /\ n # Len(Image(kept, no)) /\ n \in 0 .. Len(Image(kept, no))
        /\ file = SubSeq(Image(kept, no), 1, n)
    BY <1>4, <2>3, <2>4, WrittenOneMore DEF PartWritten
  <2>6. /\ kept' \in KeptType /\ ~kept'.whole
        /\ kept'.state = kept.state /\ kept'.stamp = kept.stamp
    BY <1>1, <1>4, <2>1 DEF KeptType
  <2>7. Image(kept', no) = Image(kept, no)
    BY <2>6 DEF Image
  <2>8. OnDisk(phase', kept', file', toWrite')
    BY <1>1, <2>5, <2>6, <2>7 DEF OnDisk
  <2>. QED  BY <1>1, <2>8, GoneOK
<1>. QED  BY <1>3, <1>4

\* Steps that leave the file, what it was written for and what is offered alone.
LEMMA OthersKept ==
  ASSUME SnapInv, CountedInv', save' = save, hostState' = hostState,
         hasStateSnapshot' = hasStateSnapshot, kept' = kept, phase' = phase,
         file' = file, toWrite' = toWrite, romFile' \in Roms, romLoaded' = romLoaded
  PROVE  SnapInv'
BY DEF SnapInv, Offered

\* Recording touches neither the saved timeline nor the file.
LEMMA RecordOK ==
  ASSUME SameSize, SnapInv, SnapshotsRecord
  PROVE  SnapInv'
<1>1. /\ phase' = phase /\ hostState' = hostState /\ hasStateSnapshot' = hasStateSnapshot
      /\ romFile' = romFile /\ file' = file /\ toWrite' = toWrite
      /\ romLoaded' = romLoaded /\ kept' = kept
      /\ NextRecord \/ \E b \in BOOLEAN : SetRollingPaused(b)
  BY DEF SnapshotsRecord, hostVars
<1>2. save' = save
  <2>1. NextRecord => save' = save
    BY DEF NextRecord, Trim, TrimPromote, TrimDrop, TrimNextLevel, CaptureNext, Capture,
           TrimAfterFrameNo
  <2>2. \A b \in BOOLEAN : SetRollingPaused(b) => save' = save
    BY DEF SetRollingPaused
  <2>. QED  BY <1>1, <2>1, <2>2
<1>3. CountedInv'
  <2>1. Next
    BY <1>1 DEF Next, NextPause
  <2>. QED  BY <2>1, CountedStep DEF SnapInv
<1>. QED  BY <1>1, <1>2, <1>3, OthersKept DEF SnapInv

\* Restore replaces the live timeline alone, and only when a state is on offer.
LEMMA RestoreStateOK ==
  ASSUME SameSize, SnapInv, RestoreState
  PROVE  SnapInv'
<1>1. /\ phase' = phase /\ hostState' = hostState /\ hasStateSnapshot' = TRUE
      /\ romFile' = romFile /\ file' = file /\ toWrite' = toWrite
      /\ romLoaded' = romLoaded /\ kept' = kept /\ hostState # NoState
      /\ RestoreSnapshot \/ UNCHANGED << current, save, trimAt >>
  BY DEF RestoreState
<1>2. save' = save
  BY <1>1 DEF RestoreSnapshot
<1>3. hasStateSnapshot' = hasStateSnapshot
  BY <1>1 DEF SnapInv, Offered
<1>4. CountedInv'
  <2>1. [Next]_vars
    BY <1>1 DEF Next, NextSave, vars
  <2>. QED  BY <2>1, CountedStep DEF SnapInv
<1>. QED  BY <1>1, <1>2, <1>3, <1>4, OthersKept DEF SnapInv

\* Every step keeps the invariant.
LEMMA SnapStepOK ==
  ASSUME SameSize, SnapInv, [SnapshotsNext]_snapshotVars
  PROVE  SnapInv'
<1>1. CASE Rebuild
  <2>1. /\ romFile' \in Roms /\ current' = current /\ save' = save /\ trimAt' = trimAt
        /\ hostState' = hostState /\ hasStateSnapshot' = hasStateSnapshot
        /\ kept' = kept /\ phase' = phase /\ file' = file /\ toWrite' = toWrite
        /\ romLoaded' = romLoaded
    BY <1>1 DEF Rebuild, hostVars
  <2>. QED  BY <2>1, BuffersKept, OthersKept
<1>2. CASE UNCHANGED snapshotVars
  <2>1. /\ romFile' = romFile /\ current' = current /\ save' = save /\ trimAt' = trimAt
        /\ hostState' = hostState /\ hasStateSnapshot' = hasStateSnapshot
        /\ kept' = kept /\ phase' = phase /\ file' = file /\ toWrite' = toWrite
        /\ romLoaded' = romLoaded
    BY <1>2 DEF snapshotVars
  <2>. QED  BY <2>1, BuffersKept, OthersKept DEF SnapInv
<1>3. CASE SnapshotsRecord
  BY <1>3, RecordOK
<1>4. CASE \E s \in States : SaveState(s)
  BY <1>4, SaveStateOK
<1>5. CASE RestoreState
  BY <1>5, RestoreStateOK
<1>6. CASE WriteRecord \/ Saved \/ BeginExit
  BY <1>6, WriteRecordOK, SavedOK, BeginExitOK
<1>7. CASE Exited \/ Crash
  BY <1>7, ExitedOK, CrashOK
<1>8. CASE Boot
  BY <1>8, BootOK
<1>. QED  BY <1>1, <1>2, <1>3, <1>4, <1>5, <1>6, <1>7, <1>8 DEF SnapshotsNext

\* The invariant holds of every behaviour.
LEMMA SnapInvariant ==
  ASSUME SameSize
  PROVE  SnapshotsSpec => []SnapInv
<1>1. SnapshotsInit => SnapInv
  BY SnapInitOK
<1>2. SnapInv /\ [SnapshotsNext]_snapshotVars => SnapInv'
  BY SnapStepOK
<1>. QED  BY <1>1, <1>2, PTL DEF SnapshotsSpec

-----------------------------------------------------------------------------
(* Theorems *)

\* Whatever either timeline has become, state_buffer_loadSnapshotFile gets back
\* from state_buffer_saveSnapshotFile's records the timeline that was written,
\* its byte counts added up anew included; and of a file that a crash cut short,
\* wherever, it makes nothing.
THEOREM SavedIsLoaded ==
  ASSUME SameSize
  PROVE  SnapshotsSpec => []FileRoundTrip
<1>1. SnapInv => FileRoundTrip
  <2> SUFFICES ASSUME SnapInv, NEW buf \in Buffers, NEW rom \in Roms,
                      NEW W, W = Written(buf, rom)
               PROVE  /\ Loads(W)
                      /\ Loaded(W) = [buf EXCEPT !.paused = FALSE, !.rollingPaused = FALSE]
                      /\ \A n \in 0 .. Len(W) - 1 : ~Loads(SubSeq(W, 1, n))
    BY DEF FileRoundTrip
  <2>1. buf \in BufferType /\ BytesOK(buf)
    BY DEF SnapInv, CountedInv, IInv, BufferOK, LevelsOK, Buffers
  <2>2. Loads(W) /\ \A n \in 0 .. Len(W) - 1 : ~Loads(SubSeq(W, 1, n))
    BY <2>1, LoadsWhole
  <2>3. Loaded(W) = [buf EXCEPT !.paused = FALSE, !.rollingPaused = FALSE]
    BY <2>1, ReadsBack
  <2>. QED  BY <2>2, <2>3
<1>. QED  BY <1>1, SnapInvariant, PTL

\* The two copies that ui_restoreState goes back to agree: the saved timeline is
\* at a frame from which the very state in libretro_host.stateData is
\* reconstructed, through saves, restores, restarts, rebuilds and crashes.
THEOREM CopiesAgree ==
  ASSUME SameSize
  PROVE  SnapshotsSpec => []RestoreAgrees
<1>1. SnapInv => RestoreAgrees
  <2> SUFFICES ASSUME SnapInv, hasStateSnapshot
               PROVE  /\ hostState # NoState
                      /\ RestoredState(save, save.currentFrameNo) = hostState
    BY DEF RestoreAgrees
  <2>1. kept \in KeptType /\ hostState = kept.state
    BY DEF SnapInv, Offered
  <2>2. PICK no \in Nat : save = KeyBuffer(kept.state, no)
    BY DEF SnapInv, Offered
  <2>3. kept.state \in States /\ kept.state # NoState
    BY <2>1, StatesAssumption DEF KeptType, NoState
  <2>4. save.currentFrameNo = no /\ RestoredState(save, no) = kept.state
    BY <2>2, <2>3, KeyBufferOK
  <2>. QED  BY <2>1, <2>3, <2>4
<1>. QED  BY <1>1, SnapInvariant, PTL

\* debugger_ctor and snapshot_loadOnBoot offer the state that was saved last, and
\* with the saved timeline of its frame, whenever its file was written to the end
\* for the build that is there, and nothing otherwise; so the README's "ready
\* to be restored" holds over any number of runs, rebuilds and crashes.
THEOREM BootOffersLastSaved ==
  ASSUME SameSize
  PROVE  SnapshotsSpec => BootBringsBack
<1> DEFINE Offers ==
      phase = "off" /\ phase' = "up" =>
        IF kept # << >> /\ kept.whole /\ kept.stamp = romFile
        THEN hasStateSnapshot' /\ hostState' = kept.state
        ELSE ~hasStateSnapshot'
<1>1. SnapInv /\ [SnapshotsNext]_snapshotVars => [Offers]_snapshotVars
  <2> SUFFICES ASSUME SnapInv, SnapshotsNext, phase = "off", phase' = "up"
               PROVE  IF kept # << >> /\ kept.whole /\ kept.stamp = romFile
                      THEN hasStateSnapshot' /\ hostState' = kept.state
                      ELSE ~hasStateSnapshot'
    OBVIOUS
  <2>1. Boot
    BY DEF SnapshotsNext, SnapshotsRecord, SaveState, RestoreState, WriteRecord, Saved,
           BeginExit, Exited, Crash, Rebuild, Up, Gone
  <2>. QED  BY <2>1, BootOK
<1>. QED  BY <1>1, SnapInvariant, PTL DEF SnapshotsSpec, BootBringsBack

\* With the files and the restarts, too, every stored frame of either timeline
\* gives back the state that was captured under its label.
THEOREM ExactThroughRestarts ==
  ASSUME SameSize
  PROVE  SnapshotsSpec => []ReconstructsCapture
<1>1. SnapInv => ReconstructsCapture
  BY FramesExact DEF SnapInv, CountedInv
<1>. QED  BY <1>1, SnapInvariant, PTL

=============================================================================
