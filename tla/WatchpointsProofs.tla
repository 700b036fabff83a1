-------------------------- MODULE WatchpointsProofs --------------------------
(***************************************************************************)
(* For every program, every set of rules and any number of windows, pages, *)
(* rules and watchpoints: the page mask is current, so no write gets past  *)
(* an enabled rule; a hit names an access of the program; and a hit hides  *)
(* later ones only behind a command of the user.                           *)
(***************************************************************************)
EXTENDS Watchpoints, NaturalLemmas

Rule == [addr : Offset, mode : {"none", "block", "set"}, value : Seq(Byte)]

\* The tables hold rules.
RulesOK == entries \in [Slot -> Rule]

-----------------------------------------------------------------------------
(* The operators *)

\* First picks one of the slots it is given.
LEMMA FirstIsOne ==
  ASSUME NEW slots \in SUBSET Nat, slots # {}
  PROVE  First(slots) \in slots
<1>1. PICK m \in slots : \A k \in slots : ~(k < m)
  BY LeastMember
<1>2. \A k \in slots : m <= k
  BY <1>1
<1> QED
  BY <1>2 DEF First

\* An address has an offset, which is itself in the first window.
LEMMA CanonicalIsOffset ==
  ASSUME NEW a \in Int
  PROVE  /\ Canonical(a) \in Offset
         /\ a \in Offset => Canonical(a) = a
BY RamAssumption DEF Canonical, Offset

\* The pages of rules are page numbers.
LEMMA PagesAreNumbers ==
  ASSUME NEW ents \in [Slot -> Rule], NEW on \in SUBSET Slot
  PROVE  PagesOf(ents, on) \subseteq Nat
<1> SUFFICES ASSUME NEW slot \in on, NEW i \in DOMAIN ents[slot].value
             PROVE  Page(ByteAddr(ents[slot], i)) \in Nat
  BY DEF PagesOf
<1>1. ents[slot] \in Rule
  OBVIOUS
<1>2. i \in Nat /\ i >= 1 /\ ents[slot].addr \in Nat
  BY <1>1 DEF Rule, Offset
<1>3. ByteAddr(ents[slot], i) \in Nat
  BY <1>2 DEF ByteAddr
<1> QED
  BY <1>3, RamAssumption DEF Page

\* Where an enabled rule has a byte, the rule that answers is enabled and used,
\* and answers with what was there or with what it sets for that byte.
LEMMA RuledByARule ==
  ASSUME RulesOK, enabled \subseteq Slot, NEW a, RulesAt(a) # {}, NEW old
  PROVE  \E slot \in enabled :
           /\ Used(slot)
           /\ First(RulesAt(a)) = slot
           /\ \/ Ruled(slot, a, old) = old
              \/ /\ entries[slot].mode = "set"
                 /\ \E i \in DOMAIN entries[slot].value :
                      /\ Canonical(a) = Canonical(ByteAddr(entries[slot], i))
                      /\ Ruled(slot, a, old) = entries[slot].value[i]
<1> DEFINE slot == First(RulesAt(a))
           value == entries[slot].value
           places == {i \in DOMAIN value :
                        Canonical(a) = Canonical(ByteAddr(entries[slot], i))}
<1>1. slot \in RulesAt(a)
  <2>1. RulesAt(a) \subseteq Nat
    <3>1. RulesAt(a) \subseteq Slot
      BY DEF RulesAt
    <3> QED
      BY <3>1 DEF Slot
  <2> QED
    BY <2>1, FirstIsOne
<1>2. slot \in enabled /\ slot \in Slot /\ Used(slot) /\ places # {}
  BY <1>1 DEF RulesAt
<1>3. value \in Seq(Byte)
  BY <1>2 DEF RulesOK, Rule
<1>4. places \subseteq Nat /\ DOMAIN value = 1 .. Len(value)
  BY <1>3
<1>5. PICK m \in places : \A k \in places : ~(k < m)
  BY <1>2, <1>4, LeastMember
<1>6. \A j \in 1 .. m - 1 : j \in DOMAIN value /\ ~(j \in places)
  <2> TAKE j \in 1 .. m - 1
  <2>1. m \in 1 .. Len(value) /\ Len(value) \in Nat
    BY <1>3, <1>4, <1>5
  <2>2. j < m /\ j \in DOMAIN value
    BY <2>1, <1>4
  <2> QED
    BY <2>2, <1>5
<1> DEFINE IsPlace(i) ==
             /\ Canonical(a) = Canonical(ByteAddr(entries[slot], i))
             /\ \A j \in 1 .. i - 1 :
                  Canonical(a) # Canonical(ByteAddr(entries[slot], j))
           place == CHOOSE i \in DOMAIN value : IsPlace(i)
<1>7. m \in DOMAIN value /\ IsPlace(m)
  BY <1>5, <1>6
<1>8. place \in DOMAIN value /\ IsPlace(place)
  <2> HIDE DEF IsPlace, value
  <2> QED
    BY <1>7
<1>9. Ruled(slot, a, old) =
        IF entries[slot].mode = "set" THEN value[place] ELSE old
  BY DEF Ruled
<1> QED
  BY <1>2, <1>8, <1>9

\* Filtering a value gives a value of the same length.
LEMMA FilteredIsValue ==
  ASSUME RulesOK, enabled \subseteq Slot, ram \in [Offset -> Byte],
         NEW a \in Address, NEW value \in Seq(Byte)
  PROVE  Filtered(a, value) \in Seq(Byte) /\ Len(Filtered(a, value)) = Len(value)
<1>1. \A b \in Int, new \in Byte : FilteredByte(b, new) \in Byte
  <2> TAKE b \in Int, new \in Byte
  <2>1. CASE Page(b) \notin pages \/ RulesAt(b) = {}
    BY <2>1 DEF FilteredByte
  <2>2. CASE ~(Page(b) \notin pages \/ RulesAt(b) = {})
    <3> DEFINE old == ram[Canonical(b)]
    <3>1. old \in Byte
      BY CanonicalIsOffset
    <3>2. PICK slot \in enabled :
            /\ First(RulesAt(b)) = slot
            /\ \/ Ruled(slot, b, old) = old
               \/ \E i \in DOMAIN entries[slot].value :
                    Ruled(slot, b, old) = entries[slot].value[i]
      <4> HIDE DEF old
      <4> QED
        BY <2>2, RuledByARule
    <3>3. entries[slot].value \in Seq(Byte)
      BY DEF RulesOK, Rule
    <3>4. \A i \in DOMAIN entries[slot].value : entries[slot].value[i] \in Byte
      BY <3>3
    <3>5. Ruled(slot, b, old) \in Byte
      BY <3>1, <3>2, <3>4
    <3> QED
      BY <2>2, <3>2, <3>5 DEF FilteredByte
  <2> QED
    BY <2>1, <2>2
<1>2. a \in Int /\ DOMAIN value = 1 .. Len(value) /\ Len(value) \in Nat
  BY DEF Address
<1>3. \A i \in 1 .. Len(value) : FilteredByte(a + i - 1, value[i]) \in Byte
  <2> TAKE i \in 1 .. Len(value)
  <2>1. a + i - 1 \in Int /\ value[i] \in Byte
    BY <1>2
  <2> QED
    BY <2>1, <1>1
<1>4. Filtered(a, value) = [i \in 1 .. Len(value) |-> FilteredByte(a + i - 1, value[i])]
  BY <1>2 DEF Filtered
<1> QED
  BY <1>2, <1>3, <1>4

\* What is read from RAM is a value.
LEMMA ReadIsValue ==
  ASSUME ram \in [Offset -> Byte], NEW a \in Address, NEW n \in Nat
  PROVE  InRam(a, n) \in Seq(Byte)
<1>1. \A i \in 1 .. n : ram[Canonical(a + i - 1)] \in Byte
  <2> TAKE i \in 1 .. n
  <2>1. a + i - 1 \in Int
    BY DEF Address
  <2> QED
    BY <2>1, CanonicalIsOffset
<1> QED
  BY <1>1 DEF InRam

\* RAM holds bytes after a write of bytes.
LEMMA PokedIsRam ==
  ASSUME ram \in [Offset -> Byte], NEW a, NEW value \in Seq(Byte)
  PROVE  Poked(a, value) \in [Offset -> Byte]
<1> SUFFICES ASSUME NEW o \in Offset,
                    \E i \in DOMAIN value : Canonical(a + i - 1) = o
             PROVE  value[CHOOSE i \in DOMAIN value : Canonical(a + i - 1) = o]
                      \in Byte
  BY DEF Poked
<1>1. (CHOOSE i \in DOMAIN value : Canonical(a + i - 1) = o) \in DOMAIN value
  OBVIOUS
<1> QED
  BY <1>1

-----------------------------------------------------------------------------
(* The steps *)

\* What every reachable state satisfies.
MemoryInv == WatchTypeOK /\ RulesOK /\ PagesCurrent /\ HidesOnlyWhenRaced

\* Any change of the rules leaves rules, and pages that are theirs.
LEMMA RebuiltIsCurrent ==
  ASSUME NEW ents \in [Slot -> Rule], NEW on \in SUBSET Slot, Rebuilt(ents, on)
  PROVE  RulesOK' /\ enabled' \subseteq Slot /\ pages' \subseteq Nat /\ PagesCurrent'
<1>1. entries' = ents /\ enabled' = on
  BY DEF Rebuilt
<1>2. pages' = PagesOf(ents, {slot \in on : ents[slot].mode # "none"})
  BY DEF Rebuilt
<1>3. PagesOf(ents, {slot \in on : ents[slot].mode # "none"}) \subseteq Nat
  BY PagesAreNumbers
<1>4. PagesCurrent'
  BY <1>1, <1>2 DEF PagesCurrent, Used, PagesOf
<1> QED
  BY <1>1, <1>2, <1>3, <1>4 DEF RulesOK

\* A command about rules leaves rules, and the page mask that is theirs.
LEMMA ProtectKeepsRules ==
  ASSUME MemoryInv, ProtectCommands
  PROVE  /\ RulesOK' /\ enabled' \subseteq Slot /\ pages' \subseteq Nat
         /\ PagesCurrent'
         /\ ram' = ram
<1> USE DEF MemoryInv
<1>0. entries \in [Slot -> Rule] /\ enabled \in SUBSET Slot /\ Slot \subseteq Nat
  BY DEF RulesOK, WatchTypeOK, Slot
<1>1. Unused \in Rule
  BY RamAssumption DEF Unused, Rule, Offset
<1>2. ASSUME NEW p \in ProtectInputs, AddProtect(p.addr, p.mode, p.value)
      PROVE  RulesOK' /\ enabled' \subseteq Slot /\ pages' \subseteq Nat
               /\ PagesCurrent' /\ ram' = ram
  <2> DEFINE e == [addr |-> Canonical(p.addr), mode |-> p.mode, value |-> p.value]
             free == {slot \in Slot : ~Used(slot)}
             ents == [entries EXCEPT ![First(free)] = e]
             on == enabled \cup {First(free)}
  <2>1. CASE UNCHANGED << entries, enabled, pages >>
    BY <1>2, <2>1 DEF RulesOK, WatchTypeOK, PagesCurrent, PagesOf, Used, AddProtect
  <2>2. CASE free # {} /\ Rebuilt(ents, on)
    <3>1. p \in [addr : Address, mode : {"block", "set"}, value : Seq(Byte)]
      BY ProtectInputsAssumption
    <3>2. e \in Rule
      <4>1. p.addr \in Int
        BY <3>1 DEF Address
      <4> QED
        BY <3>1, <4>1, CanonicalIsOffset DEF Rule
    <3>3. First(free) \in Slot
      <4>1. free \subseteq Nat
        BY <1>0
      <4> QED
        BY <4>1, <2>2, FirstIsOne
    <3>4. ents \in [Slot -> Rule] /\ on \in SUBSET Slot
      BY <1>0, <3>2, <3>3
    <3> HIDE DEF ents, on
    <3> QED
      BY <2>2, <3>4, <1>2, RebuiltIsCurrent DEF AddProtect
  <2> QED
    BY <1>2, <2>1, <2>2 DEF AddProtect
<1>3. ASSUME NEW p \in ProtectInputs, NEW size, RemoveProtect(p.addr, size)
      PROVE  RulesOK' /\ enabled' \subseteq Slot /\ pages' \subseteq Nat
               /\ PagesCurrent' /\ ram' = ram
  <2> DEFINE hits == {slot \in enabled :
                        /\ size \in {0, Len(entries[slot].value)}
                        /\ Canonical(p.addr) = entries[slot].addr}
             ents == [entries EXCEPT ![First(hits)] = Unused]
             on == enabled \ {First(hits)}
  <2>1. ents \in [Slot -> Rule] /\ on \in SUBSET Slot
    BY <1>0, <1>1
  <2>2. Rebuilt(ents, on) /\ ram' = ram
    BY <1>3 DEF RemoveProtect
  <2> HIDE DEF ents, on
  <2> QED
    BY <2>1, <2>2, RebuiltIsCurrent
<1>4. ASSUME NEW slot \in Slot, NEW on \in BOOLEAN, EnableProtect(slot, on)
      PROVE  RulesOK' /\ enabled' \subseteq Slot /\ pages' \subseteq Nat
               /\ PagesCurrent' /\ ram' = ram
  BY <1>0, <1>4, RebuiltIsCurrent DEF EnableProtect
<1>5. ASSUME ToggleProtects
      PROVE  RulesOK' /\ enabled' \subseteq Slot /\ pages' \subseteq Nat
               /\ PagesCurrent' /\ ram' = ram
  BY <1>0, <1>5, RebuiltIsCurrent DEF ToggleProtects
<1>6. ASSUME ClearProtects
      PROVE  RulesOK' /\ enabled' \subseteq Slot /\ pages' \subseteq Nat
               /\ PagesCurrent' /\ ram' = ram
  BY <1>1, <1>6, RebuiltIsCurrent DEF ClearProtects
<1> QED
  BY <1>2, <1>3, <1>4, <1>5, <1>6 DEF ProtectCommands

\* An access reported to the watchpoints stops the machine or leaves the hit
\* there is.
LEMMA WatchKeepsHit ==
  ASSUME MemoryInv, NEW kind \in {"read", "write"}, NEW a \in Address,
         NEW value \in Seq(Byte), NEW old \in Seq(Byte),
         Watch(kind, a, value, old)
  PROVE  /\ paused' \in BOOLEAN /\ hit' \in Hit \cup {None}
         /\ \/ UNCHANGED << paused, hit >>
            \/ paused' = TRUE
<1>1. CASE UNCHANGED << paused, hit >>
  BY <1>1 DEF MemoryInv, WatchTypeOK
<1>2. CASE ~(paused \/ Hits(kind, a, value, old) = {} \/ hit # None)
  <2>1. Hits(kind, a, value, old) \subseteq Nat
        /\ Hits(kind, a, value, old) \subseteq WatchSlot
    BY WatchCountAssumption DEF Hits, WatchSlot
  <2>2. First(Hits(kind, a, value, old)) \in WatchSlot
    BY <1>2, <2>1, FirstIsOne
  <2> QED
    BY <1>2, <2>2 DEF Watch, Hit
<1> QED
  BY <1>1, <1>2 DEF Watch

\* An access of the program leaves bytes in RAM and a hit of its own kind.
LEMMA AccessKeeps ==
  ASSUME MemoryInv, NEW acc \in Accesses, Access(acc)
  PROVE  /\ ram' \in [Offset -> Byte]
         /\ UNCHANGED << entries, enabled, pages >>
         /\ paused' \in BOOLEAN /\ hit' \in Hit \cup {None}
         /\ \/ UNCHANGED << paused, hit >>
            \/ paused' = TRUE
<1> DEFINE a == acc.addr
<1>0. /\ a \in Address
      /\ acc.kind = "read" => acc.size \in Nat
      /\ acc.kind = "write" => acc.value \in Seq(Byte)
      /\ ram \in [Offset -> Byte] /\ RulesOK /\ enabled \subseteq Slot
  BY AccessesAssumption DEF MemoryInv, WatchTypeOK
<1>1. CASE acc.kind = "read" /\ CpuRead(a, acc.size)
  <2>1. InRam(a, acc.size) \in Seq(Byte)
    BY <1>0, <1>1, ReadIsValue
  <2>2. Watch("read", a, InRam(a, acc.size), InRam(a, acc.size))
        /\ UNCHANGED protectVars
    BY <1>1 DEF CpuRead
  <2> HIDE DEF a
  <2> QED
    BY <1>0, <2>1, <2>2, WatchKeepsHit DEF protectVars
<1>2. CASE acc.kind = "write" /\ CpuWrite(a, acc.value)
  <2> DEFINE value == acc.value
             told == IF Len(value) = 4 THEN value ELSE Filtered(a, value)
  <2>1. Filtered(a, value) \in Seq(Byte) /\ told \in Seq(Byte)
    BY <1>0, <1>2, FilteredIsValue
  <2>2. Poked(a, Filtered(a, value)) \in [Offset -> Byte]
    BY <1>0, <2>1, PokedIsRam
  <2>3. InRam(a, Len(value)) \in Seq(Byte)
    <3>1. Len(value) \in Nat
      BY <1>0, <1>2
    <3> QED
      BY <1>0, <3>1, ReadIsValue
  <2>4. /\ ram' = Poked(a, Filtered(a, value))
        /\ Watch("write", a, told, InRam(a, Len(value)))
        /\ UNCHANGED << entries, enabled, pages >>
    BY <1>2 DEF CpuWrite
  <2> HIDE DEF a, value, told
  <2> QED
    BY <1>0, <2>1, <2>2, <2>3, <2>4, WatchKeepsHit
<1> QED
  BY <1>1, <1>2 DEF Access

\* The invariant holds at the start.
LEMMA MemoryStart == WatchInit => MemoryInv
<1> SUFFICES ASSUME WatchInit PROVE MemoryInv
  OBVIOUS
<1> USE DEF WatchInit, ProtectInit
<1>1. WatchTypeOK
  BY ByteAssumption DEF WatchTypeOK
<1>2. RulesOK
  BY RamAssumption DEF RulesOK, Rule, Unused, Offset
<1>3. PagesCurrent
  BY DEF PagesCurrent, PagesOf
<1>4. HidesOnlyWhenRaced
  BY DEF HidesOnlyWhenRaced
<1> QED
  BY <1>1, <1>2, <1>3, <1>4 DEF MemoryInv

\* And every step keeps it.
LEMMA MemoryStep == MemoryInv /\ [WatchNext]_watchVars => MemoryInv'
<1> SUFFICES ASSUME MemoryInv, [WatchNext]_watchVars PROVE MemoryInv'
  OBVIOUS
<1> USE DEF MemoryInv
<1> DEFINE Parts == WatchTypeOK' /\ RulesOK' /\ PagesCurrent' /\ HidesOnlyWhenRaced'
\* PagesCurrent depends on the rules alone.
<1>0. ASSUME UNCHANGED << entries, enabled, pages >>
      PROVE  RulesOK' /\ PagesCurrent' /\ enabled' \subseteq Slot /\ pages' \subseteq Nat
  BY <1>0 DEF RulesOK, PagesCurrent, PagesOf, Used, WatchTypeOK
<1>1. ASSUME NEW acc \in Accesses, Access(acc), midInstr' \in BOOLEAN,
             UNCHANGED << wps, hostVars, raced >>
      PROVE  Parts
  <2>1. /\ ram' \in [Offset -> Byte]
        /\ UNCHANGED << entries, enabled, pages >>
        /\ paused' \in BOOLEAN /\ hit' \in Hit \cup {None}
        /\ (UNCHANGED << paused, hit >>) \/ paused' = TRUE
    BY <1>1, AccessKeeps
  <2>2. WatchTypeOK'
    BY <1>0, <1>1, <2>1 DEF WatchTypeOK, hostVars
  <2>3. HidesOnlyWhenRaced'
    BY <1>1, <2>1 DEF HidesOnlyWhenRaced, WatchTypeOK
  <2> QED
    BY <1>0, <2>1, <2>2, <2>3
<1>2. CASE EndInstr
  BY <1>0, <1>2 DEF EndInstr, WatchTypeOK, HidesOnlyWhenRaced, protectVars, hostVars
<1>3. CASE CoreBreaks
  BY <1>0, <1>3 DEF CoreBreaks, WatchTypeOK, HidesOnlyWhenRaced, protectVars, hostVars
<1>4. CASE Poll
  <2>1. UNCHANGED << ram, entries, enabled, pages, ignored, trainIndex, midInstr >>
    BY <1>4 DEF Poll, protectVars
  <2>2. hit' \in {hit, None} /\ lastTrain' \in Address \cup {None}
    BY <1>4 DEF Poll, WatchTypeOK, Hit
  <2>3. paused' \in BOOLEAN /\ running' \in BOOLEAN /\ raced' \in BOOLEAN
    BY <1>4 DEF Poll, WatchTypeOK
  <2>4. WatchTypeOK'
    BY <1>0, <2>1, <2>2, <2>3 DEF WatchTypeOK
  <2>5. HidesOnlyWhenRaced'
    BY <1>4 DEF Poll, WatchTypeOK, HidesOnlyWhenRaced
  <2> QED
    BY <1>0, <2>1, <2>4, <2>5
<1>5. CASE Commands
  <2> USE DEF protectVars, hostVars, WatchTypeOK, HidesOnlyWhenRaced
  <2>1. CASE Pause
    BY <1>0, <2>1 DEF Pause
  <2>2. CASE Continue
    BY <1>0, <2>2 DEF Continue, Resume
  <2>3. CASE TrainerIgnore
    BY <1>0, <2>3 DEF TrainerIgnore, IgnoreLast, Resume
  <2>4. CASE TrainIgnore
    BY <1>0, <2>4 DEF TrainIgnore, IgnoreLast
  <2>5. CASE TrainClear
    BY <1>0, <2>5 DEF TrainClear
  <2>6. ASSUME NEW wp \in WatchInputs, AddWatchpoint(wp) PROVE Parts
    BY <1>0, <2>6 DEF AddWatchpoint
  <2>7. ASSUME NEW t \in TrainInputs, Train(t[1], t[2]) PROVE Parts
    <3>1. First(FreeWatch) \in WatchSlot
      <4>1. FreeWatch \subseteq Nat /\ FreeWatch \subseteq WatchSlot
        BY WatchCountAssumption DEF FreeWatch, WatchSlot
      <4> QED
        BY <2>7, <4>1, FirstIsOne DEF Train
    <3> QED
      BY <1>0, <2>7, <3>1 DEF Train
  <2>8. ASSUME NEW slot \in WatchSlot, RemoveWatchpoint(slot) PROVE Parts
    BY <1>0, <2>8 DEF RemoveWatchpoint
  <2>9. CASE ClearWatchpoints
    BY <1>0, <2>9 DEF ClearWatchpoints
  <2> QED
    BY <1>5, <2>1, <2>2, <2>3, <2>4, <2>5, <2>6, <2>7, <2>8, <2>9 DEF Commands
<1>6. CASE ProtectCommands
  <2>1. /\ RulesOK' /\ enabled' \subseteq Slot /\ pages' \subseteq Nat
        /\ PagesCurrent' /\ ram' = ram
    BY <1>6, ProtectKeepsRules
  <2>2. UNCHANGED << wps, paused, midInstr, hit, hostVars, raced >>
    BY <1>6 DEF ProtectCommands
  <2> QED
    BY <2>1, <2>2 DEF WatchTypeOK, HidesOnlyWhenRaced, hostVars
<1>7. ASSUME NEW acc \in Accesses, acc.kind = "write", DebugWrite(acc.addr, acc.value)
      PROVE  Parts
  <2>0. acc.addr \in Address /\ acc.value \in Seq(Byte)
    BY <1>7, AccessesAssumption
  <2>1. ram' \in [Offset -> Byte]
    <3>1. Filtered(acc.addr, acc.value) \in Seq(Byte)
      BY <2>0, FilteredIsValue DEF WatchTypeOK
    <3> QED
      BY <3>1, <1>7, PokedIsRam DEF DebugWrite, WatchTypeOK
  <2> QED
    BY <1>0, <1>7, <2>1 DEF DebugWrite, WatchTypeOK, HidesOnlyWhenRaced, hostVars
<1>8. CASE UNCHANGED watchVars
  BY <1>0, <1>8 DEF watchVars, WatchTypeOK, HidesOnlyWhenRaced
<1> QED
  BY <1>1, <1>2, <1>3, <1>4, <1>5, <1>6, <1>7, <1>8 DEF WatchNext, CpuAccess

\* What holds in every reachable state.
LEMMA MemoryAlways == WatchSpec => []MemoryInv
BY MemoryStart, MemoryStep, PTL DEF WatchSpec

\* The memory holds bytes, a hit is of a watchpoint slot and an address of the
\* program, and the trainer's lists hold addresses, for every program.
THEOREM MemoryTypeCorrect == WatchSpec => []WatchTypeOK
<1>1. MemoryInv => WatchTypeOK
  BY DEF MemoryInv
<1> QED
  BY <1>1, MemoryAlways, PTL

\* The page mask is that of the enabled rules, for any size of page, table and
\* RAM and after any sequence of adding, removing, switching and clearing.
THEOREM MaskIsCurrent == WatchSpec => []PagesCurrent
<1>1. MemoryInv => PagesCurrent
  BY DEF MemoryInv
<1> QED
  BY <1>1, MemoryAlways, PTL

\* A hit left behind under a running machine, which hides every later one, has
\* always been raced by a command.
THEOREM HiddenOnlyByCommands == WatchSpec => []HidesOnlyWhenRaced
<1>1. MemoryInv => HidesOnlyWhenRaced
  BY DEF MemoryInv
<1> QED
  BY <1>1, MemoryAlways, PTL

-----------------------------------------------------------------------------
(* Writes *)

\* Filtering respects the rules at every byte of a value that lies in the first
\* window, because the page of each byte a rule lies on is in the mask.
LEMMA FilterRespects ==
  ASSUME MemoryInv, NEW a \in Address, NEW value \in Seq(Byte),
         a + Len(value) <= RamBytes, ram' = Poked(a, Filtered(a, value))
  PROVE  Respected
<1>0. /\ RulesOK /\ enabled \subseteq Slot /\ PagesCurrent
      /\ ram \in [Offset -> Byte] /\ Len(value) \in Nat /\ a \in Nat
  BY DEF MemoryInv, WatchTypeOK, Address
<1> DEFINE filtered == Filtered(a, value)
<1>1. filtered \in Seq(Byte) /\ Len(filtered) = Len(value)
  BY <1>0, FilteredIsValue
<1> SUFFICES ASSUME NEW o \in Offset, ram'[o] # ram[o],
                    NEW guard \in Slot, GuardedBy(guard, o)
             PROVE  \E slot \in enabled :
                      /\ entries[slot].mode = "set"
                      /\ \E i \in DOMAIN entries[slot].value :
                           /\ Canonical(ByteAddr(entries[slot], i)) = o
                           /\ ram'[o] = entries[slot].value[i]
  BY DEF Respected
<1>2. DOMAIN filtered = 1 .. Len(value) /\ ram' = Poked(a, filtered)
  BY <1>1
<1>3. \A i \in 1 .. Len(value) : Canonical(a + i - 1) = a + i - 1
  <2> TAKE i \in 1 .. Len(value)
  <2>1. a + i - 1 \in Offset
    BY <1>0, RamAssumption DEF Offset
  <2> QED
    BY <2>1, CanonicalIsOffset DEF Offset
<1>4. \E i \in DOMAIN filtered : Canonical(a + i - 1) = o
  <2> HIDE DEF filtered
  <2> QED
    BY <1>2 DEF Poked
<1> DEFINE at == CHOOSE i \in DOMAIN filtered : Canonical(a + i - 1) = o
<1>5. at \in 1 .. Len(value) /\ a + at - 1 = o /\ ram'[o] = filtered[at]
  <2>1. at \in DOMAIN filtered /\ Canonical(a + at - 1) = o
    <3> HIDE DEF filtered
    <3> QED
      BY <1>4
  <2>2. ram'[o] = filtered[at]
    <3> HIDE DEF filtered
    <3> QED
      BY <1>2, <1>4 DEF Poked
  <2> HIDE DEF at
  <2> QED
    BY <1>2, <1>3, <2>1, <2>2
<1>6. filtered[at] = FilteredByte(o, value[at])
  <2>1. filtered = [i \in DOMAIN value |-> FilteredByte(a + i - 1, value[i])]
    BY DEF Filtered
  <2>2. DOMAIN value = 1 .. Len(value)
    OBVIOUS
  <2> HIDE DEF filtered, at
  <2> QED
    BY <1>5, <2>1, <2>2
\* The rule lies on the byte itself: its page is looked at.
<1>7. Canonical(o) = o /\ guard \in RulesAt(o) /\ Page(o) \in pages
  <2>1. PICK i \in DOMAIN entries[guard].value : ByteAddr(entries[guard], i) = o
    BY DEF GuardedBy
  <2>2. guard \in enabled /\ Used(guard)
    BY DEF GuardedBy
  <2>3. Canonical(o) = o
    BY CanonicalIsOffset DEF Offset
  <2>4. guard \in RulesAt(o)
    BY <2>1, <2>2 DEF RulesAt
  <2>5. Page(o) \in pages
    BY <1>0, <2>1, <2>2 DEF PagesCurrent, PagesOf
  <2> QED
    BY <2>3, <2>4, <2>5
<1>8. PICK slot \in enabled :
        /\ First(RulesAt(o)) = slot
        /\ \/ Ruled(slot, o, ram[o]) = ram[o]
           \/ /\ entries[slot].mode = "set"
              /\ \E i \in DOMAIN entries[slot].value :
                   /\ Canonical(o) = Canonical(ByteAddr(entries[slot], i))
                   /\ Ruled(slot, o, ram[o]) = entries[slot].value[i]
  BY <1>0, <1>7, RuledByARule
<1>9. ram'[o] = Ruled(slot, o, ram[o])
  BY <1>5, <1>6, <1>7, <1>8 DEF FilteredByte
<1> QED
  BY <1>7, <1>8, <1>9

\* No write through the first window gets past an enabled rule, whatever rules
\* overlap, wherever their pages end and however they came to be enabled.
THEOREM RulesHold == WatchSpec => ProtectionHolds
<1>1. ASSUME MemoryInv
      PROVE  ram' # ram =>
               \A acc \in {w \in Accesses : w.kind = "write"} :
                 /\ acc.addr + Len(acc.value) <= RamBytes
                 /\ CpuWrite(acc.addr, acc.value) \/ DebugWrite(acc.addr, acc.value)
                 => Respected
  <2> SUFFICES ASSUME NEW acc \in {w \in Accesses : w.kind = "write"},
                      acc.addr + Len(acc.value) <= RamBytes,
                      CpuWrite(acc.addr, acc.value) \/ DebugWrite(acc.addr, acc.value)
               PROVE  Respected
    OBVIOUS
  <2>1. acc.addr \in Address /\ acc.value \in Seq(Byte)
    BY AccessesAssumption
  <2>2. ram' = Poked(acc.addr, Filtered(acc.addr, acc.value))
    BY DEF CpuWrite, DebugWrite
  <2> QED
    BY <1>1, <2>1, <2>2, FilterRespects
<1> QED
  BY <1>1, MemoryAlways, PTL DEF ProtectionHolds

-----------------------------------------------------------------------------
(* Hits *)

\* Bytes that are fewer than RAM apart have different offsets.
LEMMA CanonicalApart ==
  ASSUME NEW x \in Int, NEW y \in Int, x < y, y < x + RamBytes
  PROVE  Canonical(x) # Canonical(y)
<1> SUFFICES ASSUME x % RamBytes = y % RamBytes PROVE FALSE
  BY DEF Canonical
<1> DEFINE R == RamBytes
           p == x \div R
           q == y \div R
<1>1. R \in Nat /\ R > 0 /\ p \in Int /\ q \in Int
  BY RamAssumption
<1>2. x = R * p + (x % R) /\ y = R * q + (y % R) /\ x % R \in Int
  BY <1>1
<1>3. x < y /\ y < x + R /\ x % R = y % R
  OBVIOUS
<1> HIDE DEF R, p, q
<1>4. y - x = R * (q - p)
  BY <1>1, <1>2, <1>3
<1>5. q - p \in Int /\ (q - p >= 1 \/ q - p <= 0)
  BY <1>1
<1>6. q - p >= 1 => R * (q - p) >= R
  BY <1>1, <1>5
<1>7. q - p <= 0 => R * (q - p) <= 0
  BY <1>1, <1>5
<1> QED
  BY <1>1, <1>2, <1>3, <1>4, <1>5, <1>6, <1>7

\* What was written is there, when it is no longer than RAM.
LEMMA PokedIsThere ==
  ASSUME NEW a \in Int, NEW value \in Seq(Byte), Len(value) <= RamBytes,
         NEW i \in DOMAIN value
  PROVE  Poked(a, value)[Canonical(a + i - 1)] = value[i]
<1> DEFINE o == Canonical(a + i - 1)
           at == CHOOSE j \in DOMAIN value : Canonical(a + j - 1) = o
<1>1. DOMAIN value = 1 .. Len(value) /\ Len(value) \in Nat
  OBVIOUS
<1>2. o \in Offset
  BY <1>1, CanonicalIsOffset
<1>3. at \in DOMAIN value /\ Canonical(a + at - 1) = o
  OBVIOUS
<1>4. at = i
  <2> HIDE DEF at
  <2>1. a + at - 1 \in Int /\ a + i - 1 \in Int /\ RamBytes \in Nat
    BY <1>1, <1>3, RamAssumption
  <2>2. ~(a + at - 1 < a + i - 1)
    <3>1. a + i - 1 < a + at - 1 + RamBytes
      BY <1>1, <1>3, <2>1
    <3> QED
      BY <1>3, <2>1, <3>1, CanonicalApart
  <2>3. ~(a + i - 1 < a + at - 1)
    <3>1. a + at - 1 < a + i - 1 + RamBytes
      BY <1>1, <1>3, <2>1
    <3> QED
      BY <1>3, <2>1, <3>1, CanonicalApart
  <2> QED
    BY <1>1, <1>3, <2>1, <2>2, <2>3
<1> HIDE DEF o
<1>5. Poked(a, value)[o] = value[at]
  BY <1>2, <1>3 DEF Poked
<1> QED
  BY <1>4, <1>5 DEF o

\* A step that makes a hit of a byte or word written tells what is in memory.
LEMMA HitIsTrue ==
  ASSUME MemoryInv, WatchNext, hit = None, hit' # None, hit'.kind = "write",
         Len(hit'.value) < 4
  PROVE  /\ hit'.value = [i \in DOMAIN hit'.value |->
                            ram'[Canonical(hit'.addr + i - 1)]]
         /\ hit'.old = InRam(hit'.addr, Len(hit'.value))
<1>1. PICK acc \in Accesses : Access(acc)
  <2>1. ~EndInstr /\ ~CoreBreaks /\ ~ProtectCommands
    BY DEF EndInstr, CoreBreaks, ProtectCommands
  <2>2. ~Poll
    BY DEF Poll
  <2>3. ~Commands
    BY DEF Commands, Pause, Continue, TrainerIgnore, Resume, TrainIgnore,
           TrainClear, AddWatchpoint, Train, RemoveWatchpoint, ClearWatchpoints
  <2>4. \A acc \in Accesses : ~DebugWrite(acc.addr, acc.value)
    BY DEF DebugWrite
  <2> QED
    BY <2>1, <2>2, <2>3, <2>4 DEF WatchNext, CpuAccess
<1> DEFINE a == acc.addr
           value == acc.value
           told == IF Len(value) = 4 THEN value ELSE Filtered(a, value)
<1>2. acc.kind = "write" /\ CpuWrite(a, value)
  <2>1. CASE acc.kind = "read" /\ CpuRead(a, acc.size)
    BY <2>1 DEF CpuRead, Watch
  <2> QED
    BY <1>1, <2>1 DEF Access
<1>3. /\ hit'.addr = a /\ hit'.value = told
      /\ hit'.old = InRam(a, Len(value))
  BY <1>2 DEF CpuWrite, Watch
<1>4. /\ a \in Int /\ a \in Address /\ value \in Seq(Byte)
      /\ RulesOK /\ enabled \subseteq Slot /\ ram \in [Offset -> Byte]
  BY <1>2, AccessesAssumption DEF Address, MemoryInv, WatchTypeOK
<1> DEFINE filtered == Filtered(a, value)
<1>5. filtered \in Seq(Byte) /\ Len(filtered) = Len(value)
  BY <1>4, FilteredIsValue
<1>6. ram' = Poked(a, filtered)
  BY <1>2 DEF CpuWrite
<1>7. told = filtered /\ Len(filtered) < 4
  <2>1. Len(told) < 4
    BY <1>3
  <2>2. ASSUME Len(value) = 4 PROVE FALSE
    <3>1. told = value
      BY <2>2
    <3> HIDE DEF told, value
    <3> QED
      BY <2>1, <2>2, <3>1
  <2>3. told = filtered
    BY <2>2
  <2> QED
    BY <2>1, <2>3
<1>8. \A i \in DOMAIN filtered : ram'[Canonical(a + i - 1)] = filtered[i]
  <2> HIDE DEF filtered, a
  <2>1. Len(filtered) <= RamBytes
    BY <1>5, <1>7, RamAssumption
  <2> QED
    BY <1>4, <1>5, <1>6, <2>1, PokedIsThere
<1> HIDE DEF filtered, a, told, value
<1>9. filtered = [i \in DOMAIN filtered |-> ram'[Canonical(a + i - 1)]]
  BY <1>5, <1>8
<1> QED
  BY <1>3, <1>5, <1>7, <1>9

\* A hit on a byte or word written says what is in memory now, after the rules,
\* and what was there before, for every program and set of rules.
THEOREM HitsAreTrue == WatchSpec => HitTellsTruth
<1> DEFINE Truth ==
      hit = None /\ hit' # None /\ hit'.kind = "write" /\ Len(hit'.value) < 4 =>
        /\ hit'.value = [i \in DOMAIN hit'.value |->
                           ram'[Canonical(hit'.addr + i - 1)]]
        /\ hit'.old = InRam(hit'.addr, Len(hit'.value))
<1>1. MemoryInv /\ [WatchNext]_watchVars => [Truth]_watchVars
  BY HitIsTrue
<1> QED
  BY <1>1, MemoryAlways, PTL DEF HitTellsTruth, WatchSpec

=============================================================================
