-------------------------------- MODULE Bases --------------------------------
(***************************************************************************)
(* Where the text of the debugged program lies (base_map.c): one base that *)
(* is set, or a stack of hunks that the loader running inside the Amiga    *)
(* pushes through the debugger's registers (ami9000 memory.c); the list of *)
(* breakpoints, which moves along (debugger.c, machine.c); and the copy of *)
(* the map that every stored state carries (state_wrap.c), which a restore *)
(* brings back before the core gets its state.                             *)
(*                                                                         *)
(* A runtime address is where the program lies in memory; a debug address  *)
(* counts from the start of its text.  The bases of data and bss serve to  *)
(* look up symbols only; in the stack, such a hunk stands for both.        *)
(***************************************************************************)
EXTENDS Integers, Sequences

CONSTANTS
  AddrSpace,       \* BASE_MAP_ADDR_SPACE (2^24)
  StackCap,        \* BASE_MAP_STACK_CAP
  Unsized,         \* BASE_MAP_INVALID_SIZE, and 0
  BaseInputs,      \* the bases a user or the program sets
  HunkInputs,      \* the hunks the loader pushes
  BreakInputs,     \* the runtime addresses breakpoints are set at
  MaxBreakpoints, MaxFrames    \* bounds, for model checking only

ASSUME AddrSpaceAssumption == AddrSpace \in Nat \ {0}

Addr == 0 .. AddrSpace - 1

ASSUME InputsAssumption == BreakInputs \subseteq Addr /\ BaseInputs \subseteq Addr
ASSUME HunkInputsAssumption ==
  \A hunk \in HunkInputs : /\ hunk.base \in Addr
                           /\ hunk.size # Unsized => hunk.size \in Nat

VARIABLES
  map,           \* base_map_mode, the basic base of text, the stack
  textBaseAddr,  \* machine.textBaseAddr
  list,          \* machine.breakpoints
  core,          \* e9k_debug_breakpoints, which is never full here
  frames,        \* the maps in stored states, each with the map it was made from
  clashed        \* history: two entries of the list have lain at one address

basesVars == << map, textBaseAddr, list, core, frames, clashed >>

-----------------------------------------------------------------------------
(* The map *)

Mask(a) == a % AddrSpace

NoMap == [mode |-> "basic", base |-> 0, stack |-> << >>]

Sized(hunk) == hunk.size # Unsized

OffsetIn(hunk, a) == Mask(a - hunk.base)

Texts_AllSections(m) == DOMAIN m.stack

\* The places of the text hunks in the stack.
Texts(m) == {i \in DOMAIN m.stack : m.stack[i].section = "text"}

\* Those that have runtime address a (base_map_rangeContains), the one pushed
\* last first; a hunk without a size has everything above it that no other has.
Holding(m, a) ==
  LET sized == {i \in Texts(m) : /\ Sized(m.stack[i])
                                 /\ OffsetIn(m.stack[i], a) < m.stack[i].size}
      open  == {i \in Texts(m) : ~Sized(m.stack[i]) /\ a >= m.stack[i].base}
  IN  IF sized # {} THEN sized ELSE open

\* Those that have debug address d.
HoldingDebug(m, d) ==
  LET sized == {i \in Texts(m) : Sized(m.stack[i]) /\ d < m.stack[i].size}
      open  == {i \in Texts(m) : ~Sized(m.stack[i])}
  IN  IF sized # {} THEN sized ELSE open

Newest(indices) == CHOOSE i \in indices : \A j \in indices : j <= i

\* base_map_runtimeToDebug for text; an address outside of it stays.
ToDebug(m, a) ==
  IF m.mode = "basic"
  THEN IF m.base # 0 /\ a >= m.base THEN a - m.base ELSE a
  ELSE IF Holding(m, a) # {} THEN OffsetIn(m.stack[Newest(Holding(m, a))], a)
       ELSE a

\* base_map_debugToRuntime for text
ToRuntime(m, d) ==
  IF m.mode = "basic" THEN IF m.base # 0 THEN Mask(m.base + d) ELSE d
  ELSE IF HoldingDebug(m, d) # {}
       THEN Mask(m.stack[Newest(HoldingDebug(m, d))].base + d)
       ELSE d

-----------------------------------------------------------------------------
(* The list and the core *)

EnabledAddrs(entries) ==
  {entries[k].addr : k \in {k \in DOMAIN entries : entries[k].enabled}}

Clash(entries) ==
  \E j, k \in DOMAIN entries : j # k /\ entries[j].addr = entries[k].addr

\* The breakpoints at a; the first of them is found.
At(a) == {k \in DOMAIN list : list[k].addr = a}

First(indices) == CHOOSE i \in indices : \A j \in indices : i <= j

Listed(entries) == list' = entries /\ clashed' = (clashed \/ Clash(entries))

MoveTo_LeavesOld(entries) ==
  /\ Listed(entries)
  /\ core' = core \cup EnabledAddrs(entries)

\* Every enabled breakpoint leaves the core, the list moves, and every enabled
\* one goes back in.
MoveTo(entries) ==
  /\ Listed(entries)
  /\ core' = (core \ EnabledAddrs(list)) \cup EnabledAddrs(entries)

\* machine_addBreakpoint: one that is there is enabled.
Added(a) ==
  IF At(a) # {} THEN [list EXCEPT ![First(At(a))].enabled = TRUE]
  ELSE Append(list, [addr |-> a, enabled |-> TRUE])

AddBreakpoint(a) ==
  /\ Listed(Added(a))
  /\ core' = core \cup {a}
  /\ UNCHANGED << map, textBaseAddr, frames >>

\* A breakpoint the program sets itself; the list hears of it when it is new to
\* the core.
ProgramBreakpoint(a) ==
  /\ a \notin core
  /\ AddBreakpoint(a)

EnableBreakpoint(k, on) ==
  /\ Listed([list EXCEPT ![k].enabled = on])
  /\ core' = IF on THEN core \cup {list[k].addr} ELSE core \ {list[k].addr}
  /\ UNCHANGED << map, textBaseAddr, frames >>

\* machine_removeBreakpointByAddr
RemoveBreakpoint(a) ==
  LET gone == First(At(a)) IN
    /\ At(a) # {}
    /\ Listed(SubSeq(list, 1, gone - 1) \o SubSeq(list, gone + 1, Len(list)))
    /\ core' = core \ {a}
    /\ UNCHANGED << map, textBaseAddr, frames >>

-----------------------------------------------------------------------------
(* Changes of the map *)

\* machine_rebaseTextBreakpoints
Rebased(a, from, to) ==
  LET relative == IF from # 0 /\ a >= from THEN a - from ELSE a
  IN  IF to # 0 THEN Mask(relative + to) ELSE relative

SetTextBase_MapOnly(base) ==
  /\ map' = [map EXCEPT !.base = base]
  /\ textBaseAddr' = base
  /\ UNCHANGED << list, core, frames, clashed >>

\* debugger_setTextBaseAddress, whatever the mode.
SetTextBase(base) ==
  /\ map' = [map EXCEPT !.base = base]
  /\ textBaseAddr' = base
  /\ IF base = map.base THEN UNCHANGED << list, core, clashed >>
     ELSE MoveTo([k \in DOMAIN list |->
                    [list[k] EXCEPT !.addr = Rebased(@, map.base, base)]])
  /\ UNCHANGED frames

\* The program's register for the base; once hunks were pushed it is ignored.
ProgramSetsBase(base) == map.mode = "basic" /\ SetTextBase(base)

\* The base command looks at no mode.
ConsoleBase(base) == SetTextBase(base)

TextBaseOf(stack, otherwise) ==
  LET texts == {i \in DOMAIN stack : stack[i].section = "text"}
  IN  IF texts = {} THEN otherwise ELSE stack[Newest(texts)].base

\* debugger_onPushDebugBaseFromCore; breakpoints stay where they are.
PushHunk(hunk) ==
  /\ Len(map.stack) < StackCap
  /\ map' = [map EXCEPT !.mode = "stack", !.stack = Append(@, hunk)]
  /\ textBaseAddr' = IF hunk.section = "text" THEN hunk.base ELSE textBaseAddr
  /\ UNCHANGED << list, core, frames, clashed >>

\* The reset button: breakpoints go back into the core, or the hunks of the
\* program that is gone are forgotten.
ResetCore ==
  /\ IF map.mode = "stack"
     THEN map' = NoMap /\ textBaseAddr' = 0 /\ UNCHANGED core
     ELSE core' = core \cup EnabledAddrs(list) /\ UNCHANGED << map, textBaseAddr >>
  /\ UNCHANGED << list, frames, clashed >>

-----------------------------------------------------------------------------
(* Stored states *)

Wrap_BasicBase ==
  [mode |-> map.mode, textBaseAddr |-> 0,
   stack |-> IF map.mode = "stack" THEN map.stack ELSE << >>]

\* state_wrap_writeHeader
Wrap ==
  [mode |-> map.mode, textBaseAddr |-> textBaseAddr,
   stack |-> IF map.mode = "stack" THEN map.stack ELSE << >>]

StoreState ==
  /\ frames' = Append(frames, [wrap |-> Wrap, map |-> map])
  /\ UNCHANGED << map, textBaseAddr, list, core, clashed >>

\* The map debugger_applyStateWrapBases makes of what a state carries.
Unwrapped(wrap) ==
  IF wrap.mode = "stack" /\ wrap.stack # << >>
  THEN [NoMap EXCEPT !.mode = "stack", !.stack = wrap.stack]
  ELSE [NoMap EXCEPT !.base = wrap.textBaseAddr]

\* A restore, by the seek bar, a frame step, Restore or a trace of memory, takes
\* the breakpoints to debug addresses with the old map and back with the new.
RestoreState(frame) ==
  LET wrap == frame.wrap
      next == Unwrapped(wrap)
  IN  /\ map' = next
      /\ textBaseAddr' = TextBaseOf(next.stack, wrap.textBaseAddr)
      /\ MoveTo([k \in DOMAIN list |->
                   [list[k] EXCEPT !.addr = ToRuntime(next, ToDebug(map, @))]])
      /\ UNCHANGED frames

-----------------------------------------------------------------------------

BasesInit ==
  /\ map = NoMap /\ textBaseAddr = 0
  /\ list = << >> /\ core = {} /\ clashed = FALSE
  /\ frames = << >>

BreakpointNext ==
  \/ \E a \in BreakInputs :
       \/ Len(list) < MaxBreakpoints /\ (AddBreakpoint(a) \/ ProgramBreakpoint(a))
       \/ RemoveBreakpoint(a)
  \/ \E k \in DOMAIN list, on \in BOOLEAN : EnableBreakpoint(k, on)

MapNext ==
  \/ \E base \in BaseInputs : ProgramSetsBase(base) \/ ConsoleBase(base)
  \/ \E hunk \in HunkInputs : PushHunk(hunk)
  \/ ResetCore

StateNext ==
  \/ Len(frames) < MaxFrames /\ StoreState
  \/ \E i \in DOMAIN frames : RestoreState(frames[i])

BasesNext == BreakpointNext \/ MapNext \/ StateNext

BasesSpec == BasesInit /\ [][BasesNext]_basesVars

-----------------------------------------------------------------------------
(* Properties *)

\* The core stops at the breakpoints the list shows as enabled and nowhere else,
\* whatever was set, moved, restored and reset, unless two entries have come to
\* lie at one address.
CoreFollowsList == ~clashed => core = EnabledAddrs(list)

\* A state brings back the map it was captured under: each address means after a
\* restore what it meant then, also when the base has been set, hunks pushed or
\* the map forgotten in between.
MapComesBack ==
  [][\A i \in DOMAIN frames : RestoreState(frames[i]) =>
       \A a \in Addr : /\ ToDebug(map', a) = ToDebug(frames[i].map, a)
                       /\ ToRuntime(map', a) = ToRuntime(frames[i].map, a)
    ]_basesVars

OneText(m) ==
  \A i, j \in DOMAIN m.stack :
    m.stack[i].section = "text" /\ m.stack[j].section = "text" => i = j

\* The program of m is one hunk of text, which has debug address d.
HasDebug(m, d) ==
  IF m.mode = "basic" THEN m.base + d < AddrSpace
  ELSE /\ OneText(m) /\ HoldingDebug(m, d) # {}
       /\ \A i \in HoldingDebug(m, d) : m.stack[i].base + d < AddrSpace

\* README.md, of the base command: debug_addr = runtime_addr - <sectionBase>.
\* When the text moves, by a command, by the program or by going back to a state
\* from before it was loaded, a breakpoint stays at its debug address.
OffsetsKept ==
  [][(\/ \E i \in DOMAIN frames : RestoreState(frames[i])
      \/ map.mode = "basic" /\ \E base \in BaseInputs : SetTextBase(base)) =>
       \A k \in DOMAIN list :
         HasDebug(map', ToDebug(map, list[k].addr)) =>
           ToDebug(map', list'[k].addr) = ToDebug(map, list[k].addr)]_basesVars

InText(m, a) ==
  IF m.mode = "basic" THEN a >= m.base ELSE Holding(m, a) # {}

\* Going to and fro between states of a program that is one hunk of text moves
\* none of the breakpoints in it.
SeekMovesNothing ==
  [][\A i \in DOMAIN frames :
       (/\ RestoreState(frames[i])
        /\ frames[i].map = map
        /\ OneText(map)) =>
       \A k \in DOMAIN list :
         InText(map, list[k].addr) => list'[k] = list[k]]_basesVars

=============================================================================
