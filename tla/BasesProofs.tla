----------------------------- MODULE BasesProofs -----------------------------
(***************************************************************************)
(* For any address space, bases, hunks and breakpoints, and any number of  *)
(* stored states: the core has the breakpoints the list shows, a restored  *)
(* state brings its map back, and breakpoints keep their place in the text *)
(* when it moves and when it does not.                                     *)
(***************************************************************************)
EXTENDS Bases, NaturalLemmas, SequenceTheorems

Map == [mode : {"basic", "stack"}, base : Addr, stack : Seq(HunkInputs)]
Entry == [addr : Addr, enabled : BOOLEAN]

\* The map has hunks just when it is a stack, and its base is the machine's.
InStep(m, base) ==
  /\ m.mode = "basic" => m.base = base /\ m.stack = << >>
  /\ m.mode = "stack" => m.stack # << >>

\* What a stored state carries tells all that its map did.
Carries(frame) ==
  /\ frame.wrap.textBaseAddr \in Addr /\ frame.wrap.stack \in Seq(HunkInputs)
  /\ frame.map \in Map
  /\ frame.wrap.mode = frame.map.mode
  /\ frame.map.mode = "basic" => frame.wrap.textBaseAddr = frame.map.base
  /\ frame.map.mode = "stack" =>
       frame.wrap.stack = frame.map.stack /\ frame.map.stack # << >>

\* Two maps that translate alike.
Alike(m, n) ==
  /\ m.mode = n.mode
  /\ m.mode = "basic" => m.base = n.base
  /\ m.mode = "stack" => m.stack = n.stack

\* What every reachable state satisfies.
BasesInv ==
  /\ map \in Map /\ textBaseAddr \in Addr /\ InStep(map, textBaseAddr)
  /\ list \in Seq(Entry)
  /\ DOMAIN frames = 1 .. Len(frames) /\ Len(frames) \in Nat
  /\ \A i \in DOMAIN frames : Carries(frames[i])
  /\ ~clashed => core = EnabledAddrs(list) /\ ~Clash(list)

-----------------------------------------------------------------------------
(* Arithmetic of addresses *)

\* What a remainder is.
LEMMA MaskIsAddr ==
  ASSUME NEW a \in Int
  PROVE  /\ Mask(a) \in Addr
         /\ a \in Addr => Mask(a) = a
BY AddrSpaceAssumption DEF Mask, Addr

\* A remainder is the address or a multiple of the address space away from it.
LEMMA MaskIsUnique ==
  ASSUME NEW a \in Int, NEW b \in Addr, NEW n \in Int, a = b + n * AddrSpace
  PROVE  Mask(a) = b
<1> DEFINE N == AddrSpace
           q == a \div N
           r == a % N
<1>1. /\ N \in Nat /\ N > 0 /\ q \in Int /\ r \in 0 .. N - 1 /\ a = N * q + r
      /\ b \in 0 .. N - 1 /\ a = b + n * N
  BY AddrSpaceAssumption DEF Addr
<1> HIDE DEF N, q, r
<1>2. r - b = N * (n - q)
  BY <1>1
<1>3. n - q >= 1 => N * (n - q) >= N
  BY <1>1
<1>4. n - q <= -1 => N * (n - q) <= -N
  BY <1>1
<1>5. n - q = 0
  BY <1>1, <1>2, <1>3, <1>4
<1>6. r = b
  BY <1>1, <1>2, <1>5
<1> QED
  BY <1>6 DEF Mask, r, N

\* Counting from a base and back gives the address again.
LEMMA MaskBack ==
  ASSUME NEW a \in Addr, NEW base \in Addr
  PROVE  Mask(base + Mask(a - base)) = a
<1>0. a \in Int /\ base \in Int /\ AddrSpace \in Int
  BY AddrSpaceAssumption DEF Addr
<1>1. CASE a >= base
  <2>1. a - base \in Addr
    BY <1>0, <1>1 DEF Addr
  <2>2. Mask(a - base) = a - base
    BY <1>0, <2>1, MaskIsAddr
  <2> QED
    BY <1>0, <2>2, MaskIsAddr
<1>2. CASE a < base
  <2> DEFINE d == a - base + AddrSpace
  <2>1. d \in Addr /\ a - base \in Int
    BY <1>0, <1>2 DEF Addr
  <2>2. a - base = d + (-1) * AddrSpace
    BY <1>0
  <2>3. Mask(a - base) = d
    BY <2>1, <2>2, MaskIsUnique
  <2>4. base + d = a + 1 * AddrSpace /\ base + d \in Int
    BY <1>0
  <2>5. Mask(base + d) = a
    <3> HIDE DEF d
    <3> QED
      BY <2>4, MaskIsUnique
  <2> QED
    BY <2>3, <2>5
<1> QED
  BY <1>0, <1>1, <1>2

-----------------------------------------------------------------------------
(* The map *)

\* The newest of some hunks is one of them.
LEMMA NewestIsOne ==
  ASSUME NEW m \in Map, NEW indices \in SUBSET DOMAIN m.stack, indices # {}
  PROVE  Newest(indices) \in indices
<1>1. Len(m.stack) \in Nat /\ indices \subseteq 0 .. Len(m.stack)
  BY DEF Map
<1>2. PICK i \in indices : \A j \in indices : j <= i
  BY <1>1, GreatestMember
<1> QED
  BY <1>2 DEF Newest

\* A hunk in a stack lies at an address and has a size, or none.
LEMMA HunkOfStack ==
  ASSUME NEW m \in Map, NEW i \in DOMAIN m.stack
  PROVE  /\ m.stack[i].base \in Addr
         /\ Sized(m.stack[i]) => m.stack[i].size \in Nat
<1>1. m.stack[i] \in HunkInputs
  BY DEF Map
<1> QED
  BY <1>1, HunkInputsAssumption DEF Sized

\* The hunks that hold an address are among those of the stack.
LEMMA HoldingInStack ==
  ASSUME NEW m \in Map, NEW a
  PROVE  /\ Holding(m, a) \in SUBSET DOMAIN m.stack
         /\ HoldingDebug(m, a) \in SUBSET DOMAIN m.stack
BY DEF Holding, HoldingDebug, Texts

\* Addresses are translated to addresses.
LEMMA TranslatesToAddr ==
  ASSUME NEW m \in Map, NEW a \in Addr
  PROVE  ToDebug(m, a) \in Addr /\ ToRuntime(m, a) \in Addr
<1>0. a \in Int /\ m.base \in Int /\ m.base \in Addr
  BY DEF Map, Addr
<1>1. ToDebug(m, a) \in Addr
  <2>1. CASE m.mode = "basic"
    BY <1>0, <2>1, AddrSpaceAssumption DEF ToDebug, Addr
  <2>2. CASE m.mode # "basic" /\ Holding(m, a) # {}
    <3> DEFINE i == Newest(Holding(m, a))
    <3>1. i \in DOMAIN m.stack
      BY <2>2, HoldingInStack, NewestIsOne
    <3>2. m.stack[i].base \in Int
      BY <3>1, HunkOfStack DEF Addr
    <3>3. OffsetIn(m.stack[i], a) \in Addr
      BY <1>0, <3>2, MaskIsAddr DEF OffsetIn
    <3> QED
      BY <2>2, <3>3 DEF ToDebug
  <2>3. CASE m.mode # "basic" /\ Holding(m, a) = {}
    BY <2>3 DEF ToDebug
  <2> QED
    BY <2>1, <2>2, <2>3
<1>2. ToRuntime(m, a) \in Addr
  <2>1. CASE m.mode = "basic"
    BY <1>0, <2>1, MaskIsAddr DEF ToRuntime
  <2>2. CASE m.mode # "basic" /\ HoldingDebug(m, a) # {}
    <3> DEFINE i == Newest(HoldingDebug(m, a))
    <3>1. i \in DOMAIN m.stack
      BY <2>2, HoldingInStack, NewestIsOne
    <3>2. m.stack[i].base + a \in Int
      BY <1>0, <3>1, HunkOfStack DEF Addr
    <3>3. Mask(m.stack[i].base + a) \in Addr
      BY <3>2, MaskIsAddr
    <3> QED
      BY <2>2, <3>3 DEF ToRuntime
  <2>3. CASE m.mode # "basic" /\ HoldingDebug(m, a) = {}
    BY <2>3 DEF ToRuntime
  <2> QED
    BY <2>1, <2>2, <2>3
<1> QED
  BY <1>1, <1>2

\* Maps that are alike translate alike.
LEMMA AlikeTranslate ==
  ASSUME NEW m \in Map, NEW n \in Map, Alike(m, n), NEW a
  PROVE  ToDebug(m, a) = ToDebug(n, a) /\ ToRuntime(m, a) = ToRuntime(n, a)
<1>1. CASE m.mode = "basic"
  BY <1>1 DEF Alike, ToDebug, ToRuntime
<1>2. CASE m.mode = "stack"
  BY <1>2 DEF Alike, ToDebug, ToRuntime, Holding, HoldingDebug, Texts
<1> QED
  BY <1>1, <1>2 DEF Map

\* In a program of one hunk, a debug address is translated there and back.
LEMMA DebugAndBack ==
  ASSUME NEW m \in Map, NEW d \in Addr, HasDebug(m, d)
  PROVE  ToDebug(m, ToRuntime(m, d)) = d
<1>0. d \in Int /\ d >= 0 /\ m.base \in Addr /\ m.base \in Int /\ m.base >= 0
  BY DEF Map, Addr
<1>1. CASE m.mode = "basic"
  <2>1. m.base + d \in Addr
    BY <1>0, <1>1, AddrSpaceAssumption DEF HasDebug, Addr
  <2>2. Mask(m.base + d) = m.base + d
    BY <1>0, <2>1, MaskIsAddr
  <2> QED
    BY <1>0, <1>1, <2>2 DEF ToDebug, ToRuntime
<1>2. CASE m.mode = "stack"
  <2> DEFINE i == Newest(HoldingDebug(m, d))
             hunk == m.stack[i]
             a == hunk.base + d
  <2>1. i \in HoldingDebug(m, d) /\ i \in DOMAIN m.stack
    BY <1>2, HoldingInStack, NewestIsOne DEF HasDebug
  <2>2. i \in Texts(m)
    BY <2>1 DEF HoldingDebug
  <2>3. Texts(m) = {i}
    <3>1. OneText(m)
      BY <1>2 DEF HasDebug
    <3> QED
      BY <2>2, <3>1 DEF Texts, OneText
  <2>4. hunk.base \in Addr /\ hunk.base \in Int /\ hunk.base >= 0
        /\ (Sized(hunk) => hunk.size \in Nat)
    BY <2>1, HunkOfStack DEF Addr
  <2>5. a < AddrSpace
    BY <1>2, <2>1 DEF HasDebug
  <2>6. a \in Addr /\ a \in Int
    BY <1>0, <2>4, <2>5, AddrSpaceAssumption DEF Addr
  <2>7. ToRuntime(m, d) = a
    <3>1. Mask(a) = a
      BY <2>6, MaskIsAddr
    <3> QED
      BY <1>2, <2>1, <3>1 DEF ToRuntime
  <2>8. OffsetIn(hunk, a) = d
    <3>1. a - hunk.base = d
      BY <1>0, <2>4
    <3> QED
      BY <1>0, <3>1, MaskIsAddr DEF OffsetIn
  <2>9. Holding(m, a) = {i}
    <3>1. CASE Sized(hunk)
      <4>1. d < hunk.size
        BY <2>1, <3>1 DEF HoldingDebug
      <4> HIDE DEF i, a
      <4> QED
        BY <2>3, <2>8, <3>1, <4>1 DEF Holding
    <3>2. CASE ~Sized(hunk)
      <4>1. a >= hunk.base
        BY <1>0, <2>4
      <4> HIDE DEF i, a
      <4> QED
        BY <2>3, <3>2, <4>1 DEF Holding
    <3> QED
      BY <3>1, <3>2
  <2>10. Newest(Holding(m, a)) = i
    <3>1. Newest(Holding(m, a)) \in Holding(m, a)
      BY <2>1, <2>9, NewestIsOne
    <3> QED
      BY <2>9, <3>1
  <2> HIDE DEF i, a
  <2> QED
    BY <1>2, <2>7, <2>8, <2>9, <2>10 DEF ToDebug
<1> QED
  BY <1>1, <1>2 DEF Map

\* In a program of one hunk, an address of its text is translated there and back.
LEMMA RuntimeAndBack ==
  ASSUME NEW m \in Map, NEW a \in Addr, OneText(m), InText(m, a)
  PROVE  ToRuntime(m, ToDebug(m, a)) = a
<1>0. a \in Int /\ m.base \in Addr /\ m.base \in Int
  BY DEF Map, Addr
<1>1. CASE m.mode = "basic"
  <2>1. m.base + (a - m.base) = a /\ a >= m.base
    BY <1>0, <1>1 DEF InText
  <2>2. Mask(m.base + (a - m.base)) = a
    BY <1>0, <2>1, MaskIsAddr
  <2> QED
    BY <1>1, <2>1, <2>2 DEF ToDebug, ToRuntime
<1>2. CASE m.mode = "stack"
  <2> DEFINE i == Newest(Holding(m, a))
             hunk == m.stack[i]
             d == OffsetIn(hunk, a)
  <2>1. i \in Holding(m, a) /\ i \in DOMAIN m.stack
    BY <1>2, HoldingInStack, NewestIsOne DEF InText
  <2>2. Texts(m) = {i}
    BY <2>1 DEF Texts, OneText, Holding
  <2>3. ToDebug(m, a) = d
    BY <1>2, <2>1 DEF ToDebug
  <2>4. HoldingDebug(m, d) = {i}
    <3>1. CASE Sized(hunk)
      <4>1. d < hunk.size
        BY <2>1, <3>1 DEF Holding
      <4> HIDE DEF i, d
      <4> QED
        BY <2>2, <3>1, <4>1 DEF HoldingDebug
    <3>2. CASE ~Sized(hunk)
      <4> HIDE DEF i, d
      <4> QED
        BY <2>2, <3>2 DEF HoldingDebug
    <3> QED
      BY <3>1, <3>2
  <2>5. Newest(HoldingDebug(m, d)) = i
    <3>1. Newest(HoldingDebug(m, d)) \in HoldingDebug(m, d)
      BY <2>1, <2>4, NewestIsOne
    <3> QED
      BY <2>4, <3>1
  <2>6. Mask(hunk.base + d) = a
    BY <2>1, HunkOfStack, MaskBack DEF OffsetIn
  <2> HIDE DEF i, d
  <2> QED
    BY <1>2, <2>3, <2>4, <2>5, <2>6 DEF ToRuntime
<1> QED
  BY <1>1, <1>2 DEF Map

-----------------------------------------------------------------------------
(* The list and the core *)

\* First picks one of the entries it is given.
LEMMA FirstIsOne ==
  ASSUME NEW indices \in SUBSET Nat, indices # {}
  PROVE  First(indices) \in indices
<1>1. PICK m \in indices : \A k \in indices : ~(k < m)
  BY LeastMember
<1>2. \A k \in indices : m <= k
  BY <1>1
<1> QED
  BY <1>2 DEF First

\* The entry found at an address is one there.
LEMMA FoundIsThere ==
  ASSUME list \in Seq(Entry), NEW a, At(a) # {}
  PROVE  First(At(a)) \in DOMAIN list /\ list[First(At(a))].addr = a
<1>1. At(a) \subseteq Nat
  BY DEF At
<1>2. First(At(a)) \in At(a)
  BY <1>1, FirstIsOne
<1> QED
  BY <1>2 DEF At

\* Switching an entry on or off switches its address, off when it shares it with
\* no other entry.
LEMMA SwitchedIsSwitched ==
  ASSUME list \in Seq(Entry), NEW k \in DOMAIN list, NEW on \in BOOLEAN,
         NEW entries, entries = [list EXCEPT ![k].enabled = on]
  PROVE  /\ entries \in Seq(Entry)
         /\ Clash(entries) => Clash(list)
         /\ on => EnabledAddrs(entries) = EnabledAddrs(list) \cup {list[k].addr}
         /\ ~on /\ ~Clash(list) =>
              EnabledAddrs(entries) = EnabledAddrs(list) \ {list[k].addr}
<1>0. Len(list) \in Nat /\ DOMAIN list = 1 .. Len(list)
      /\ \A j \in DOMAIN list : list[j] \in Entry
  OBVIOUS
<1>1. \A j \in DOMAIN list :
        /\ entries[j].addr = list[j].addr
        /\ entries[j].enabled = IF j = k THEN on ELSE list[j].enabled
  BY <1>0 DEF Entry
<1>2. DOMAIN entries = DOMAIN list /\ entries \in Seq(Entry)
  BY <1>0 DEF Entry
<1>3. Clash(entries) => Clash(list)
  BY <1>1, <1>2 DEF Clash
<1>4. CASE on
  BY <1>1, <1>2, <1>3, <1>4 DEF EnabledAddrs
<1>5. CASE ~on
  BY <1>1, <1>2, <1>3, <1>5 DEF EnabledAddrs, Clash
<1> QED
  BY <1>4, <1>5

\* Adding a breakpoint shows it as enabled, and no other entry changes.
LEMMA AddedIsEnabled ==
  ASSUME list \in Seq(Entry), NEW a \in Addr
  PROVE  /\ Added(a) \in Seq(Entry)
         /\ EnabledAddrs(Added(a)) = EnabledAddrs(list) \cup {a}
<1>0. Len(list) \in Nat /\ DOMAIN list = 1 .. Len(list)
      /\ \A k \in DOMAIN list : list[k] \in Entry
  OBVIOUS
<1>1. CASE At(a) # {}
  <2> DEFINE k == First(At(a))
  <2>1. k \in DOMAIN list /\ list[k].addr = a
    BY <1>1, FoundIsThere
  <2>2. Added(a) = [list EXCEPT ![k].enabled = TRUE]
    BY <1>1 DEF Added
  <2> HIDE DEF k
  <2> QED
    BY <2>1, <2>2, SwitchedIsSwitched
<1>2. CASE At(a) = {}
  <2> DEFINE e == [addr |-> a, enabled |-> TRUE]
             n == Len(list) + 1
  <2>1. Added(a) = Append(list, e) /\ e \in Entry
    BY <1>2 DEF Added, Entry
  <2>2. /\ Added(a) \in Seq(Entry) /\ DOMAIN Added(a) = 1 .. n
        /\ Added(a)[n] = e
        /\ \A j \in 1 .. Len(list) : Added(a)[j] = list[j]
    <3> HIDE DEF e
    <3> QED
      BY <1>0, <2>1
  <2>3. EnabledAddrs(Added(a)) \subseteq EnabledAddrs(list) \cup {a}
    <3> SUFFICES ASSUME NEW j \in 1 .. n, Added(a)[j].enabled
                 PROVE  Added(a)[j].addr \in EnabledAddrs(list) \cup {a}
      BY <2>2 DEF EnabledAddrs
    <3>1. CASE j = n
      BY <2>2, <3>1
    <3>2. CASE j \in 1 .. Len(list)
      BY <1>0, <2>2, <3>2 DEF EnabledAddrs
    <3> QED
      BY <1>0, <3>1, <3>2
  <2>4. a \in EnabledAddrs(Added(a))
    <3>1. n \in DOMAIN Added(a) /\ Added(a)[n].enabled /\ Added(a)[n].addr = a
      BY <1>0, <2>2
    <3> QED
      BY <3>1 DEF EnabledAddrs
  <2>5. EnabledAddrs(list) \subseteq EnabledAddrs(Added(a))
    <3> SUFFICES ASSUME NEW j \in DOMAIN list, list[j].enabled
                 PROVE  list[j].addr \in EnabledAddrs(Added(a))
      BY DEF EnabledAddrs
    <3>1. j \in DOMAIN Added(a) /\ Added(a)[j] = list[j]
      BY <1>0, <2>2
    <3> QED
      BY <3>1 DEF EnabledAddrs
  <2> QED
    BY <2>2, <2>3, <2>4, <2>5
<1> QED
  BY <1>1, <1>2

\* Removing an entry that shares its address with none removes its address.
LEMMA RemovedIsGone ==
  ASSUME list \in Seq(Entry), NEW gone \in DOMAIN list, NEW entries,
         entries = SubSeq(list, 1, gone - 1) \o SubSeq(list, gone + 1, Len(list))
  PROVE  /\ entries \in Seq(Entry)
         /\ ~Clash(list) =>
              EnabledAddrs(entries) = EnabledAddrs(list) \ {list[gone].addr}
<1> DEFINE n == Len(list)
           front == SubSeq(list, 1, gone - 1)
           back == SubSeq(list, gone + 1, n)
<1>0. n \in Nat /\ DOMAIN list = 1 .. n /\ gone \in 1 .. n
      /\ \A j \in 1 .. n : list[j] \in Entry
  OBVIOUS
<1>1. /\ front \in Seq(Entry) /\ Len(front) = gone - 1
      /\ \A j \in 1 .. gone - 1 : front[j] = list[j]
  <2>1. \A j \in 1 .. gone - 1 : list[j] \in Entry
    BY <1>0
  <2>2. gone - 1 \in Int /\ 1 \in Int /\ gone - 1 >= 0
    BY <1>0
  <2>3. /\ front \in Seq(Entry)
        /\ Len(front) = IF 1 <= gone - 1 THEN gone - 1 - 1 + 1 ELSE 0
        /\ \A j \in 1 .. gone - 1 - 1 + 1 : front[j] = list[1 + j - 1]
    BY <2>1, <2>2, SubSeqProperties
  <2> HIDE DEF front
  <2> QED
    BY <1>0, <2>2, <2>3
<1>2. /\ back \in Seq(Entry) /\ Len(back) = n - gone
      /\ \A j \in 1 .. n - gone : back[j] = list[gone + j]
  <2>1. \A j \in gone + 1 .. n : list[j] \in Entry
    BY <1>0
  <2>2. gone + 1 \in Int /\ n \in Int
    BY <1>0
  <2> HIDE DEF n
  <2>3. /\ back \in Seq(Entry)
        /\ Len(back) = IF gone + 1 <= n THEN n - (gone + 1) + 1 ELSE 0
        /\ \A j \in 1 .. n - (gone + 1) + 1 : back[j] = list[gone + 1 + j - 1]
    BY <2>1, <2>2, SubSeqProperties
  <2> HIDE DEF back
  <2>4. n - (gone + 1) + 1 = n - gone /\ (gone + 1 <= n \/ n - gone = 0)
    BY <1>0, <2>2
  <2>5. \A j \in 1 .. n - gone : gone + 1 + j - 1 = gone + j
    BY <1>0, <2>2
  <2>6. back \in Seq(Entry) /\ Len(back) = n - gone
    BY <1>0, <2>2, <2>3, <2>4
  <2>7. \A j \in 1 .. n - gone : back[j] = list[gone + j]
    BY <2>3, <2>4, <2>5
  <2> QED
    BY <2>6, <2>7
<1>3. entries = front \o back
  OBVIOUS
<1> HIDE DEF n, front, back
<1>4. /\ entries \in Seq(Entry) /\ DOMAIN entries = 1 .. n - 1
      /\ \A j \in 1 .. n - 1 :
           entries[j] = IF j < gone THEN list[j] ELSE list[j + 1]
  <2>1. /\ front \o back \in Seq(Entry)
        /\ Len(front \o back) = n - 1
        /\ \A j \in 1 .. n - 1 : (front \o back)[j] =
                IF j <= gone - 1 THEN front[j] ELSE back[j - (gone - 1)]
    <3>1. /\ front \o back \in Seq(Entry)
          /\ Len(front \o back) = Len(front) + Len(back)
          /\ \A j \in 1 .. Len(front) + Len(back) : (front \o back)[j] =
                  IF j <= Len(front) THEN front[j] ELSE back[j - Len(front)]
      BY <1>1, <1>2, ConcatProperties
    <3>2. Len(front) + Len(back) = n - 1
      BY <1>0, <1>1, <1>2
    <3> QED
      BY <1>1, <3>1, <3>2
  <2>2. DOMAIN entries = 1 .. n - 1 /\ entries \in Seq(Entry)
    BY <1>3, <2>1
  <2> SUFFICES ASSUME NEW j \in 1 .. n - 1
               PROVE  entries[j] = IF j < gone THEN list[j] ELSE list[j + 1]
    BY <2>2
  <2>3. CASE j < gone
    BY <1>0, <1>1, <1>3, <2>1, <2>3
  <2>4. CASE ~(j < gone)
    <3>1. j - (gone - 1) \in 1 .. n - gone /\ gone + (j - (gone - 1)) = j + 1
      BY <1>0, <2>4
    <3>2. ~(j <= gone - 1)
      BY <1>0, <2>4
    <3>3. entries[j] = back[j - (gone - 1)]
      BY <1>3, <2>1, <3>2
    <3>4. back[j - (gone - 1)] = list[gone + (j - (gone - 1))]
      BY <1>2, <3>1
    <3> QED
      BY <2>4, <3>1, <3>3, <3>4
  <2> QED
    BY <2>3, <2>4
\* The entries left are the others.
<1>5. \A j \in 1 .. n - 1 : \E k \in 1 .. n : k # gone /\ entries[j] = list[k]
  <2> TAKE j \in 1 .. n - 1
  <2>1. CASE j < gone
    <3>1. j \in 1 .. n /\ j # gone
      BY <1>0, <2>1
    <3>2. entries[j] = list[j]
      BY <1>4, <2>1
    <3> QED
      BY <3>1, <3>2
  <2>2. CASE ~(j < gone)
    <3>1. j + 1 \in 1 .. n /\ j + 1 # gone
      BY <1>0, <2>2
    <3>2. entries[j] = list[j + 1]
      BY <1>4, <2>2
    <3> QED
      BY <3>1, <3>2
  <2> QED
    BY <2>1, <2>2
<1>6. \A k \in 1 .. n : k # gone => \E j \in 1 .. n - 1 : entries[j] = list[k]
  <2> SUFFICES ASSUME NEW k \in 1 .. n, k # gone
               PROVE  \E j \in 1 .. n - 1 : entries[j] = list[k]
    OBVIOUS
  <2>1. CASE k < gone
    <3>1. k \in 1 .. n - 1
      BY <1>0, <2>1
    <3>2. entries[k] = list[k]
      BY <1>4, <2>1, <3>1
    <3> QED
      BY <3>1, <3>2
  <2>2. CASE gone < k
    <3>1. k - 1 \in 1 .. n - 1 /\ ~(k - 1 < gone) /\ k - 1 + 1 = k
      BY <1>0, <2>2
    <3>2. entries[k - 1] = list[k]
      BY <1>4, <3>1
    <3> QED
      BY <3>1, <3>2
  <2>3. k < gone \/ gone < k
    BY <1>0
  <2> QED
    BY <2>1, <2>2, <2>3
<1>7. ASSUME ~Clash(list)
      PROVE  EnabledAddrs(entries) = EnabledAddrs(list) \ {list[gone].addr}
  <2>1. \A k \in 1 .. n : k # gone => list[k].addr # list[gone].addr
    BY <1>0, <1>7 DEF Clash
  <2>2. EnabledAddrs(entries) \subseteq EnabledAddrs(list) \ {list[gone].addr}
    <3> SUFFICES ASSUME NEW j \in 1 .. n - 1, entries[j].enabled
                 PROVE  entries[j].addr \in EnabledAddrs(list) \ {list[gone].addr}
      BY <1>4 DEF EnabledAddrs
    <3>1. PICK k \in 1 .. n : k # gone /\ entries[j] = list[k]
      BY <1>5
    <3> QED
      BY <1>0, <2>1, <3>1 DEF EnabledAddrs
  <2>3. EnabledAddrs(list) \ {list[gone].addr} \subseteq EnabledAddrs(entries)
    <3> SUFFICES ASSUME NEW k \in 1 .. n, list[k].enabled,
                        list[k].addr # list[gone].addr
                 PROVE  list[k].addr \in EnabledAddrs(entries)
      BY <1>0 DEF EnabledAddrs
    <3>1. PICK j \in 1 .. n - 1 : entries[j] = list[k]
      BY <1>6
    <3> QED
      BY <1>4, <3>1 DEF EnabledAddrs
  <2> QED
    BY <2>2, <2>3
<1> QED
  BY <1>4, <1>7

\* Moving the list keeps it in the core, as far as its entries stay apart.
LEMMA MoveKeepsCore ==
  ASSUME BasesInv, NEW entries, MoveTo(entries)
  PROVE  ~clashed' => core' = EnabledAddrs(list') /\ ~Clash(list')
<1>1. /\ list' = entries /\ clashed' = (clashed \/ Clash(entries))
      /\ core' = (core \ EnabledAddrs(list)) \cup EnabledAddrs(entries)
  BY DEF MoveTo, Listed
<1> QED
  BY <1>1 DEF BasesInv

\* What is in the list is an entry.
LEMMA ListedIsEntry ==
  ASSUME list \in Seq(Entry), NEW k \in DOMAIN list
  PROVE  list[k] \in Entry /\ list[k].addr \in Addr
<1>1. list[k] \in Entry
  OBVIOUS
<1> QED
  BY <1>1 DEF Entry

\* A list whose addresses are replaced is a list.
LEMMA MovedIsList ==
  ASSUME list \in Seq(Entry), NEW to, \A k \in DOMAIN list : to[k] \in Addr,
         NEW entries, entries = [k \in DOMAIN list |-> entries[k]],
         \A k \in DOMAIN list : entries[k] = [list[k] EXCEPT !.addr = to[k]]
  PROVE  entries \in Seq(Entry) /\ \A k \in DOMAIN list : entries[k].addr = to[k]
<1>1. Len(list) \in Nat /\ DOMAIN list = 1 .. Len(list)
  OBVIOUS
<1>2. \A k \in 1 .. Len(list) : entries[k] \in Entry /\ entries[k].addr = to[k]
  BY <1>1, ListedIsEntry DEF Entry
<1>3. entries \in [1 .. Len(list) -> Entry]
  BY <1>1, <1>2
<1>4. entries \in Seq(Entry)
  BY <1>1, <1>3
<1> QED
  BY <1>1, <1>2, <1>4

\* A new base in basic mode translates to debug addresses and back.
LEMMA RebasedTranslates ==
  ASSUME NEW m \in Map, m.mode = "basic", NEW base \in Addr, NEW a \in Addr
  PROVE  Rebased(a, m.base, base) = ToRuntime([m EXCEPT !.base = base], ToDebug(m, a))
<1>1. m.base \in Int /\ m.base >= 0 /\ base \in Int /\ a \in Int
  BY DEF Map, Addr
<1>2. [m EXCEPT !.base = base].mode = "basic" /\ [m EXCEPT !.base = base].base = base
  BY DEF Map
<1> QED
  BY <1>1, <1>2 DEF Rebased, ToRuntime, ToDebug

\* Rebasing gives an address, in any mode.
LEMMA RebasedIsAddr ==
  ASSUME NEW from \in Addr, NEW to \in Addr, NEW a \in Addr
  PROVE  Rebased(a, from, to) \in Addr
<1> DEFINE relative == IF from # 0 /\ a >= from THEN a - from ELSE a
<1>1. relative \in Addr /\ relative + to \in Int
  BY AddrSpaceAssumption DEF Addr
<1>2. Mask(relative + to) \in Addr
  BY <1>1, MaskIsAddr
<1> QED
  BY <1>1, <1>2 DEF Rebased

\* The map made of what a state carries is like the one it was made from.
LEMMA UnwrappedIsAlike ==
  ASSUME NEW frame, Carries(frame)
  PROVE  /\ Unwrapped(frame.wrap) \in Map
         /\ Alike(Unwrapped(frame.wrap), frame.map)
         /\ InStep(Unwrapped(frame.wrap),
                   TextBaseOf(Unwrapped(frame.wrap).stack, frame.wrap.textBaseAddr))
         /\ TextBaseOf(Unwrapped(frame.wrap).stack, frame.wrap.textBaseAddr) \in Addr
<1> DEFINE wrap == frame.wrap
           next == Unwrapped(wrap)
           base == TextBaseOf(next.stack, wrap.textBaseAddr)
<1>0. /\ wrap.textBaseAddr \in Addr /\ wrap.stack \in Seq(HunkInputs)
      /\ frame.map \in Map /\ wrap.mode = frame.map.mode /\ 0 \in Addr
  BY AddrSpaceAssumption DEF Carries, Addr
<1>1. CASE wrap.mode = "basic"
  <2>1. next = [mode |-> "basic", base |-> wrap.textBaseAddr, stack |-> << >>]
    BY <1>1 DEF Unwrapped, NoMap
  <2>2. next \in Map
    BY <1>0, <2>1 DEF Map
  <2>3. base = wrap.textBaseAddr
    <3>1. next.stack = << >>
      BY <2>1
    <3>2. DOMAIN next.stack = {}
      BY <3>1
    <3> QED
      BY <3>2 DEF TextBaseOf
  <2> HIDE DEF next, base, wrap
  <2> QED
    BY <1>0, <1>1, <2>1, <2>2, <2>3 DEF Alike, InStep, Carries, wrap, next, base
<1>2. CASE wrap.mode = "stack"
  <2>1. wrap.stack = frame.map.stack /\ wrap.stack # << >>
    BY <1>0, <1>2 DEF Carries
  <2>2. next = [mode |-> "stack", base |-> 0, stack |-> wrap.stack]
    BY <1>2, <2>1 DEF Unwrapped, NoMap
  <2>3. next \in Map
    BY <1>0, <2>2 DEF Map
  <2>4. base \in Addr
    <3> DEFINE texts == {i \in DOMAIN next.stack : next.stack[i].section = "text"}
    <3>1. CASE texts = {}
      BY <1>0, <3>1 DEF TextBaseOf
    <3>2. CASE texts # {}
      <4>1. Newest(texts) \in texts
        BY <2>3, <3>2, NewestIsOne
      <4>2. next.stack[Newest(texts)].base \in Addr
        BY <2>3, <4>1, HunkOfStack
      <4> QED
        BY <3>2, <4>2 DEF TextBaseOf
    <3> QED
      BY <3>1, <3>2
  <2> HIDE DEF next, base, wrap
  <2> QED
    BY <1>0, <1>2, <2>1, <2>2, <2>3, <2>4 DEF Alike, InStep, wrap, next, base
<1> QED
  BY <1>0, <1>1, <1>2 DEF Map

\* Where a restore leaves the map and the breakpoints.
LEMMA RestoreMoves ==
  ASSUME BasesInv, NEW i \in DOMAIN frames, RestoreState(frames[i])
  PROVE  /\ map' \in Map /\ Alike(map', frames[i].map)
         /\ textBaseAddr' \in Addr /\ InStep(map', textBaseAddr')
         /\ list' \in Seq(Entry)
         /\ \A k \in DOMAIN list : 
              /\ list'[k] = [list[k] EXCEPT !.addr = ToRuntime(map', ToDebug(map, @))]
              /\ list'[k].addr = ToRuntime(map', ToDebug(map, list[k].addr))
         /\ ~clashed' => core' = EnabledAddrs(list') /\ ~Clash(list')
         /\ frames' = frames
<1> DEFINE frame == frames[i]
           next == Unwrapped(frame.wrap)
           to == [k \in DOMAIN list |-> ToRuntime(next, ToDebug(map, list[k].addr))]
           entries == [k \in DOMAIN list |->
                         [list[k] EXCEPT !.addr = ToRuntime(next, ToDebug(map, @))]]
<1>1. /\ map' = next /\ frames' = frames /\ MoveTo(entries)
      /\ textBaseAddr' = TextBaseOf(next.stack, frame.wrap.textBaseAddr)
  BY DEF RestoreState
<1>2. Carries(frame) /\ map \in Map /\ list \in Seq(Entry)
  BY DEF BasesInv
<1>3. /\ next \in Map /\ Alike(next, frame.map)
      /\ InStep(next, textBaseAddr') /\ textBaseAddr' \in Addr
  BY <1>1, <1>2, UnwrappedIsAlike
<1>4. \A k \in DOMAIN list : to[k] \in Addr
  <2>1. \A k \in DOMAIN list : list[k].addr \in Addr
    BY <1>2, ListedIsEntry
  <2> HIDE DEF next
  <2> QED
    BY <1>2, <1>3, <2>1, TranslatesToAddr
<1>5. /\ entries = [k \in DOMAIN list |-> entries[k]]
      /\ \A k \in DOMAIN list : entries[k] = [list[k] EXCEPT !.addr = to[k]]
  <2> HIDE DEF next
  <2> QED
    BY DEF to, entries
<1>6. entries \in Seq(Entry) /\ \A k \in DOMAIN list : entries[k].addr = to[k]
  <2> HIDE DEF entries, to
  <2> QED
    BY <1>2, <1>4, <1>5, MovedIsList
<1>7. list' = entries
  BY <1>1 DEF MoveTo, Listed
<1>8. ~clashed' => core' = EnabledAddrs(list') /\ ~Clash(list')
  <2> HIDE DEF entries
  <2> QED
    BY <1>1, MoveKeepsCore
<1>9. \A k \in DOMAIN list :
        /\ list'[k] = [list[k] EXCEPT !.addr = ToRuntime(map', ToDebug(map, @))]
        /\ list'[k].addr = ToRuntime(map', ToDebug(map, list[k].addr))
  <2> HIDE DEF next
  <2> QED
    BY <1>1, <1>6, <1>7
<1> HIDE DEF next, entries, to
<1> QED
  BY <1>1, <1>3, <1>6, <1>7, <1>8, <1>9

\* Where a new base leaves the map and the breakpoints.
LEMMA NewBaseMoves ==
  ASSUME BasesInv, NEW base \in Addr, SetTextBase(base)
  PROVE  /\ map' = [map EXCEPT !.base = base] /\ map' \in Map
         /\ textBaseAddr' = base /\ InStep(map', base)
         /\ list' \in Seq(Entry)
         /\ base # map.base =>
              \A k \in DOMAIN list : list'[k].addr = Rebased(list[k].addr, map.base, base)
         /\ base = map.base => list' = list
         /\ ~clashed' => core' = EnabledAddrs(list') /\ ~Clash(list')
         /\ frames' = frames
<1>0. map \in Map /\ list \in Seq(Entry) /\ InStep(map, textBaseAddr)
  BY DEF BasesInv
<1>1. /\ map' = [map EXCEPT !.base = base] /\ map' \in Map
      /\ textBaseAddr' = base /\ InStep(map', base) /\ frames' = frames
  BY <1>0 DEF SetTextBase, Map, InStep
<1>2. CASE base = map.base
  BY <1>0, <1>1, <1>2 DEF SetTextBase, BasesInv
<1>3. CASE base # map.base
  <2> DEFINE to == [k \in DOMAIN list |-> Rebased(list[k].addr, map.base, base)]
             entries == [k \in DOMAIN list |->
                           [list[k] EXCEPT !.addr = Rebased(@, map.base, base)]]
  <2>1. MoveTo(entries)
    BY <1>3 DEF SetTextBase
  <2>2. \A k \in DOMAIN list : to[k] \in Addr
    <3>1. map.base \in Addr /\ \A k \in DOMAIN list : list[k].addr \in Addr
      BY <1>0, ListedIsEntry DEF Map
    <3> QED
      BY <3>1, RebasedIsAddr
  <2>3. /\ entries = [k \in DOMAIN list |-> entries[k]]
        /\ \A k \in DOMAIN list : entries[k] = [list[k] EXCEPT !.addr = to[k]]
    OBVIOUS
  <2>4. entries \in Seq(Entry) /\ \A k \in DOMAIN list : entries[k].addr = to[k]
    <3> HIDE DEF entries, to
    <3> QED
      BY <1>0, <2>2, <2>3, MovedIsList
  <2>5. list' = entries
    BY <2>1 DEF MoveTo, Listed
  <2>6. ~clashed' => core' = EnabledAddrs(list') /\ ~Clash(list')
    <3> HIDE DEF entries
    <3> QED
      BY <2>1, MoveKeepsCore
  <2> QED
    BY <1>1, <1>3, <2>4, <2>5, <2>6
<1> QED
  BY <1>2, <1>3

\* The invariant holds at the start.
LEMMA BasesStart == BasesInit => BasesInv
<1> SUFFICES ASSUME BasesInit PROVE BasesInv
  OBVIOUS
<1>1. 0 \in Addr
  BY AddrSpaceAssumption DEF Addr
<1>2. EnabledAddrs(list) = {} /\ ~Clash(list)
  BY DEF BasesInit, EnabledAddrs, Clash
<1> QED
  BY <1>1, <1>2 DEF BasesInit, BasesInv, Map, NoMap, InStep

\* And every step keeps it.
LEMMA BasesStep == BasesInv /\ [BasesNext]_basesVars => BasesInv'
<1> SUFFICES ASSUME BasesInv, [BasesNext]_basesVars PROVE BasesInv'
  OBVIOUS
<1> USE DEF BasesInv
\* What is left to show when only the list and the core change.
<1>0. ASSUME UNCHANGED << map, textBaseAddr, frames >>, list' \in Seq(Entry),
             ~clashed' => core' = EnabledAddrs(list') /\ ~Clash(list')
      PROVE  BasesInv'
  BY <1>0
<1>1. ASSUME NEW a \in Addr, AddBreakpoint(a) PROVE BasesInv'
  <2>1. /\ list' = Added(a) /\ clashed' = (clashed \/ Clash(Added(a)))
        /\ core' = core \cup {a} /\ UNCHANGED << map, textBaseAddr, frames >>
    BY <1>1 DEF AddBreakpoint, Listed
  <2>2. Added(a) \in Seq(Entry) /\ EnabledAddrs(Added(a)) = EnabledAddrs(list) \cup {a}
    BY AddedIsEnabled
  <2> QED
    BY <1>0, <2>1, <2>2
<1>2. ASSUME NEW a, RemoveBreakpoint(a) PROVE BasesInv'
  <2> DEFINE gone == First(At(a))
             entries == SubSeq(list, 1, gone - 1) \o SubSeq(list, gone + 1, Len(list))
  <2>1. At(a) # {} /\ Listed(entries) /\ core' = core \ {a}
        /\ UNCHANGED << map, textBaseAddr, frames >>
    BY <1>2 DEF RemoveBreakpoint
  <2>2. gone \in DOMAIN list /\ list[gone].addr = a
    BY <2>1, FoundIsThere
  <2>3. /\ entries \in Seq(Entry)
        /\ ~Clash(list) => EnabledAddrs(entries) = EnabledAddrs(list) \ {a}
    <3> HIDE DEF gone
    <3> QED
      BY <2>2, RemovedIsGone
  <2> HIDE DEF entries
  <2> QED
    BY <1>0, <2>1, <2>3 DEF Listed
<1>3. ASSUME NEW k \in DOMAIN list, NEW on \in BOOLEAN, EnableBreakpoint(k, on)
      PROVE  BasesInv'
  <2> DEFINE entries == [list EXCEPT ![k].enabled = on]
  <2>1. /\ Listed(entries) /\ UNCHANGED << map, textBaseAddr, frames >>
        /\ core' = IF on THEN core \cup {list[k].addr} ELSE core \ {list[k].addr}
    BY <1>3 DEF EnableBreakpoint
  <2>2. /\ entries \in Seq(Entry)
        /\ on => EnabledAddrs(entries) = EnabledAddrs(list) \cup {list[k].addr}
        /\ ~on /\ ~Clash(list) =>
             EnabledAddrs(entries) = EnabledAddrs(list) \ {list[k].addr}
    BY SwitchedIsSwitched
  <2> HIDE DEF entries
  <2> QED
    BY <1>0, <2>1, <2>2 DEF Listed
<1>4. CASE BreakpointNext
  <2>1. BreakInputs \subseteq Addr
    BY InputsAssumption
  <2> QED
    BY <1>1, <1>2, <1>3, <1>4, <2>1 DEF BreakpointNext, ProgramBreakpoint
<1>5. ASSUME NEW base \in BaseInputs, SetTextBase(base) PROVE BasesInv'
  <2>1. base \in Addr
    BY InputsAssumption
  <2> QED
    BY <1>5, <2>1, NewBaseMoves
<1>6. ASSUME NEW hunk \in HunkInputs, PushHunk(hunk) PROVE BasesInv'
  <2>1. map' = [map EXCEPT !.mode = "stack", !.stack = Append(@, hunk)]
        /\ UNCHANGED << list, core, frames, clashed >>
    BY <1>6 DEF PushHunk
  <2>2. Append(map.stack, hunk) \in Seq(HunkInputs) /\ Append(map.stack, hunk) # << >>
    BY DEF Map
  <2>3. map' \in Map /\ map'.mode = "stack" /\ map'.stack # << >>
    BY <2>1, <2>2 DEF Map
  <2>4. textBaseAddr' \in Addr
    BY <1>6, HunkInputsAssumption DEF PushHunk
  <2> QED
    BY <2>1, <2>3, <2>4 DEF InStep
<1>7. CASE ResetCore
  <2>1. CASE map.mode = "stack"
    <3>1. map' = NoMap /\ textBaseAddr' = 0
          /\ UNCHANGED << core, list, frames, clashed >>
      BY <1>7, <2>1 DEF ResetCore
    <3>2. 0 \in Addr
      BY AddrSpaceAssumption DEF Addr
    <3> QED
      BY <3>1, <3>2 DEF NoMap, Map, InStep
  <2>2. CASE map.mode # "stack"
    BY <1>7, <2>2 DEF ResetCore
  <2> QED
    BY <2>1, <2>2
<1>8. ASSUME StoreState PROVE BasesInv'
  <2> DEFINE new == [wrap |-> Wrap, map |-> map]
  <2>1. frames' = Append(frames, new)
        /\ UNCHANGED << map, textBaseAddr, list, core, clashed >>
    BY <1>8 DEF StoreState
  <2>2. Carries(new)
    BY DEF Carries, Wrap, Map, InStep
  <2> HIDE DEF new
  <2>3. /\ DOMAIN frames' = 1 .. Len(frames') /\ Len(frames') \in Nat
        /\ \A i \in DOMAIN frames' : Carries(frames'[i])
    BY <2>1, <2>2
  <2> QED
    BY <2>1, <2>3
<1>9. ASSUME NEW i \in DOMAIN frames, RestoreState(frames[i]) PROVE BasesInv'
  BY <1>9, RestoreMoves
<1>10. CASE UNCHANGED basesVars
  BY <1>10 DEF basesVars, EnabledAddrs, Clash
<1>11. CASE MapNext
  BY <1>5, <1>6, <1>7, <1>11 DEF MapNext, ProgramSetsBase, ConsoleBase
<1>12. CASE StateNext
  BY <1>8, <1>9, <1>12 DEF StateNext
<1> QED
  BY <1>4, <1>10, <1>11, <1>12 DEF BasesNext

\* What holds in every reachable state.
LEMMA BasesAlways == BasesSpec => []BasesInv
BY BasesStart, BasesStep, PTL DEF BasesSpec

-----------------------------------------------------------------------------
(* The theorems *)

\* The core has exactly the breakpoints the list shows as enabled, through any
\* moves, restores and resets, as long as no two entries came to lie at one
\* address.
THEOREM CoreHasTheList == BasesSpec => []CoreFollowsList
<1>1. BasesInv => CoreFollowsList
  BY DEF BasesInv, CoreFollowsList
<1> QED
  BY <1>1, BasesAlways, PTL

\* A state restores the map it was captured under, to the meaning of every
\* address, for any stack of hunks.
THEOREM MapRestored == BasesSpec => MapComesBack
<1>1. ASSUME BasesInv
      PROVE  \A i \in DOMAIN frames : RestoreState(frames[i]) =>
               \A a \in Addr : /\ ToDebug(map', a) = ToDebug(frames[i].map, a)
                               /\ ToRuntime(map', a) = ToRuntime(frames[i].map, a)
  <2> TAKE i \in DOMAIN frames
  <2> HAVE RestoreState(frames[i])
  <2>1. map' \in Map /\ Alike(map', frames[i].map)
    BY <1>1, RestoreMoves
  <2>2. frames[i].map \in Map
    BY <1>1 DEF BasesInv, Carries
  <2> QED
    BY <2>1, <2>2, AlikeTranslate
<1> QED
  BY <1>1, BasesAlways, PTL DEF MapComesBack

\* A breakpoint keeps its debug address when the text moves, for any bases and
\* any two maps.
THEOREM DebugAddressesKept == BasesSpec => OffsetsKept
<1>1. ASSUME BasesInv
      PROVE  (\/ \E i \in DOMAIN frames : RestoreState(frames[i])
              \/ map.mode = "basic" /\ \E base \in BaseInputs : SetTextBase(base)) =>
               \A k \in DOMAIN list :
                 HasDebug(map', ToDebug(map, list[k].addr)) =>
                   ToDebug(map', list'[k].addr) = ToDebug(map, list[k].addr)
  <2>0. map \in Map /\ \A k \in DOMAIN list : list[k].addr \in Addr
    BY <1>1, ListedIsEntry DEF BasesInv
  <2>1. ASSUME NEW i \in DOMAIN frames, RestoreState(frames[i]),
               NEW k \in DOMAIN list, HasDebug(map', ToDebug(map, list[k].addr))
        PROVE  ToDebug(map', list'[k].addr) = ToDebug(map, list[k].addr)
    <3>1. map' \in Map /\ list'[k].addr = ToRuntime(map', ToDebug(map, list[k].addr))
      BY <1>1, <2>1, RestoreMoves
    <3>2. ToDebug(map, list[k].addr) \in Addr
      BY <2>0, TranslatesToAddr
    <3> QED
      BY <2>1, <3>1, <3>2, DebugAndBack
  <2>2. ASSUME map.mode = "basic", NEW base \in BaseInputs, SetTextBase(base),
               NEW k \in DOMAIN list, HasDebug(map', ToDebug(map, list[k].addr))
        PROVE  ToDebug(map', list'[k].addr) = ToDebug(map, list[k].addr)
    <3>0. base \in Addr
      BY InputsAssumption
    <3>1. /\ map' = [map EXCEPT !.base = base] /\ map' \in Map
          /\ base # map.base => list'[k].addr = Rebased(list[k].addr, map.base, base)
          /\ base = map.base => list' = list
      BY <1>1, <2>2, <3>0, NewBaseMoves
    <3>2. CASE base = map.base
      <4>1. map' = map /\ list' = list
        BY <2>0, <3>1, <3>2 DEF Map
      <4> QED
        BY <4>1
    <3>3. CASE base # map.base
      <4>1. list'[k].addr = ToRuntime(map', ToDebug(map, list[k].addr))
        BY <2>0, <2>2, <3>0, <3>1, <3>3, RebasedTranslates
      <4>2. ToDebug(map, list[k].addr) \in Addr
        BY <2>0, TranslatesToAddr
      <4> QED
        BY <2>2, <3>1, <4>1, <4>2, DebugAndBack
    <3> QED
      BY <3>2, <3>3
  <2> QED
    BY <2>1, <2>2
<1> QED
  BY <1>1, BasesAlways, PTL DEF OffsetsKept

\* Seeking among states of a program of one hunk moves no breakpoint in its text,
\* wherever the hunk lies and whether its size is known or not.
THEOREM SeekingKeepsBreakpoints == BasesSpec => SeekMovesNothing
<1>1. ASSUME BasesInv
      PROVE  \A i \in DOMAIN frames :
               (/\ RestoreState(frames[i])
                /\ frames[i].map = map
                /\ OneText(map)) =>
                 \A k \in DOMAIN list :
                   InText(map, list[k].addr) => list'[k] = list[k]
  <2> TAKE i \in DOMAIN frames
  <2> HAVE RestoreState(frames[i]) /\ frames[i].map = map /\ OneText(map)
  <2> TAKE k \in DOMAIN list
  <2> HAVE InText(map, list[k].addr)
  <2>0. map \in Map /\ list[k] \in Entry /\ list[k].addr \in Addr
    BY <1>1, ListedIsEntry DEF BasesInv
  <2>1. /\ map' \in Map /\ Alike(map', map)
        /\ list'[k] = [list[k] EXCEPT !.addr = ToRuntime(map', ToDebug(map, @))]
    BY <1>1, RestoreMoves
  <2>2. ToRuntime(map', ToDebug(map, list[k].addr)) = list[k].addr
    BY <2>0, <2>1, AlikeTranslate, RuntimeAndBack
  <2> QED
    BY <2>0, <2>1, <2>2 DEF Entry
<1> QED
  BY <1>1, BasesAlways, PTL DEF SeekMovesNothing

=============================================================================
