----------------------------- MODULE DebugCore -----------------------------
(***************************************************************************)
(* The 68000 debugger of the Neo Geo core, src/geo9000/src/e9k_debugger.c, *)
(* in the frame loop that calls it (geo_exec, retro_run) and in front of a *)
(* small program.                                                          *)
(*                                                                         *)
(* A frame is a sequence of slices: the 68000 takes an interrupt or runs   *)
(* one instruction (m68k_execute is given one cycle), then the Z80 catches *)
(* up.  Before an instruction the debugger's hook looks at it and may ask  *)
(* for a break; the request is a flag, break_now, which the loop takes     *)
(* back at its head or in the Z80's part, wherever it sees it first.       *)
(*                                                                         *)
(* A program is given by what each address holds (Op), the source line it  *)
(* belongs to (Line) and the addresses execution may go on to (Follows);   *)
(* a call goes to Callee and comes back to the one address that follows.   *)
(***************************************************************************)
EXTENDS Integers, Sequences, FiniteSets

CONSTANTS
  PC, Entry,   \* the addresses of the program, and where it begins
  Op,          \* what is at an address: "plain", "call", "ret" or "rte"
  Line,        \* its source line, None when the resolver knows of none
  Follows,     \* the addresses that may be next
  Callee,      \* where a call goes
  Handler,     \* the interrupt handler, None when interrupts are off
  Watched,     \* the addresses whose instruction touches a watchpoint
  Z80Stops,    \* whether the Z80 has a breakpoint it may come to
  BpMax,       \* E9K_DBG_BP_MAX
  StackMax,    \* E9K_DBG_STACK_MAX
  MaxDepth,    \* bound on the real call depth, for model checking only
  None

ASSUME DebugCoreAssumption ==
  /\ Entry \in PC /\ Handler \in PC \cup {None} /\ None \notin PC
  /\ Op \in [PC -> {"plain", "call", "ret", "rte"}]
  /\ Follows \in [PC -> SUBSET PC] /\ Callee \in [PC -> PC]
  /\ \A p \in PC : Op[p] = "call" => Follows[p] # {}
  /\ Watched \subseteq PC /\ Z80Stops \in BOOLEAN
  /\ BpMax \in Nat /\ StackMax \in Nat /\ MaxDepth \in Nat

VARIABLES
  dbg,     \* the debugger's s_ variables
  pc,      \* the 68000's program counter
  stack,   \* what is on its stack: return addresses, and of what
  at       \* where the frame loop is: "idle", "head", "z80" or "end"

coreVars == << dbg, pc, stack, at >>

-----------------------------------------------------------------------------
(* The commands *)

\* A step_next and step_out that are not None stand for the flag with its
\* depth, a next_return for the flag with its address, a line_start of None for
\* the cleared has_start.
DebugInit ==
  [paused |-> FALSE, step_instr |-> FALSE, step_instr_after |-> FALSE,
   step_line |-> FALSE, line_start |-> None,
   step_next |-> None, next_skip_once |-> FALSE, next_return |-> None,
   step_out |-> None, out_skip_once |-> FALSE, into_pending |-> FALSE,
   break_requested |-> FALSE, break_now |-> FALSE,
   watchbreak_requested |-> FALSE, watchbreak_pending |-> FALSE,
   callstack_depth |-> 0, bps |-> {}]

\* What every command clears.
NotStepping(d) ==
  [d EXCEPT !.step_instr_after = FALSE, !.step_line = FALSE,
            !.step_next = None, !.next_skip_once = FALSE, !.next_return = None,
            !.step_out = None, !.out_skip_once = FALSE, !.into_pending = FALSE]

Resumed(d) ==
  [NotStepping(d) EXCEPT !.paused = FALSE, !.break_requested = FALSE,
                         !.watchbreak_requested = FALSE, !.break_now = FALSE]

BreakImmediate(d) ==
  [NotStepping(d) EXCEPT !.step_instr = FALSE, !.paused = TRUE,
                         !.break_requested = TRUE, !.break_now = TRUE]

StepInstrCmd(d) == [NotStepping(d) EXCEPT !.paused = FALSE, !.step_instr = TRUE]

StepLineCmd(d, p) ==
  [NotStepping(d) EXCEPT !.paused = FALSE, !.step_instr = FALSE,
                         !.step_line = TRUE, !.line_start = Line[p]]

\* The address a call comes back to, None at any other instruction.
CallReturn(p) ==
  IF Op[p] = "call" THEN CHOOSE q \in Follows[p] : TRUE ELSE None

StepNextCmd(d, p) ==
  [StepLineCmd(d, p) EXCEPT !.step_next = d.callstack_depth,
                            !.next_return = CallReturn(p)]

StepOutCmd(d, p) ==
  [StepLineCmd(d, p) EXCEPT
     !.step_out = IF d.callstack_depth > 0 THEN d.callstack_depth - 1 ELSE 0]

AddBreakpoint(d, p) ==
  IF Cardinality(d.bps) < BpMax THEN [d EXCEPT !.bps = @ \cup {p}] ELSE d

RemoveBreakpoint(d, p) == [d EXCEPT !.bps = @ \ {p}]

-----------------------------------------------------------------------------
(* The hook before an instruction *)

Broken_KeepsRunning(d) == [d EXCEPT !.paused = TRUE]

Broken(d) == [d EXCEPT !.paused = TRUE, !.break_now = TRUE]

Mirrored_BelowEmpty(d, p) ==
  CASE Op[p] = "call" ->
         IF d.callstack_depth < StackMax
         THEN [d EXCEPT !.callstack_depth = @ + 1] ELSE d
    [] Op[p] \in {"ret", "rte"} ->
         [d EXCEPT !.callstack_depth = @ - 1,
                   !.next_skip_once  = @ \/ d.step_next # None,
                   !.out_skip_once   = @ \/ d.step_out # None]
    [] OTHER -> d

\* The mirror call stack: a call pushes, a return pops, when the hook sees
\* them; whether they are then executed is not known yet.
Mirrored(d, p) ==
  CASE Op[p] = "call" ->
         IF d.callstack_depth < StackMax
         THEN [d EXCEPT !.callstack_depth = @ + 1] ELSE d
    [] Op[p] \in {"ret", "rte"} ->
         [d EXCEPT !.callstack_depth = IF @ > 0 THEN @ - 1 ELSE 0,
                   !.next_skip_once  = @ \/ d.step_next # None,
                   !.out_skip_once   = @ \/ d.step_out # None]
    [] OTHER -> d

StepArmed_Forgets(d) == [d EXCEPT !.step_instr = FALSE]

\* An instruction step breaks at the hook after this one.
StepArmed(d) == [d EXCEPT !.step_instr = FALSE, !.step_instr_after = TRUE]

\* A call met on the line `next' started from is stepped over.
StepOverCall(d, p) ==
  IF /\ d.step_next # None /\ d.next_return = None
     /\ d.line_start # None /\ Line[p] = d.line_start
  THEN [d EXCEPT !.next_return = CallReturn(p)] ELSE d

StepsInto(d) == d.step_line /\ d.step_next = None /\ d.step_out = None

\* The line step waits for the address a call comes back to.
AwaitsReturn(d, p) == d.next_return \notin {None, p}

AtDepth_AnyDepth(d) == TRUE

AtDepth(d) ==
  /\ d.step_next # None => d.callstack_depth <= d.step_next
  /\ d.step_out # None => d.callstack_depth <= d.step_out

LineReached(d, p) ==
  /\ d.step_line /\ ~AwaitsReturn(d, p)
  /\ Line[p] \notin {None, d.line_start}
  /\ AtDepth(d)

LineOrBreakpoint(d, p) ==
  LET e == IF d.next_return = p THEN [d EXCEPT !.next_return = None] ELSE d
  IN  IF LineReached(d, p)
      THEN Broken([e EXCEPT !.step_line = FALSE, !.step_next = None,
                            !.step_out = None, !.into_pending = FALSE])
      ELSE IF p \in d.bps THEN Broken([e EXCEPT !.break_requested = TRUE])
      ELSE e

\* e9k_debugger_instr_hook: its early returns in their order.
Hook(d, p) ==
  LET m == Mirrored(d, p)
      n == StepOverCall(m, p)
  IN  IF d.step_instr_after THEN Broken([d EXCEPT !.step_instr_after = FALSE])
      ELSE IF d.step_instr THEN StepArmed(m)
      ELSE IF StepsInto(d) /\ d.into_pending
        THEN Broken([m EXCEPT !.into_pending = FALSE])
      ELSE IF StepsInto(d) /\ Op[p] = "call"
        THEN [m EXCEPT !.into_pending = TRUE]
      ELSE IF n.step_next # None /\ n.next_skip_once
        THEN [n EXCEPT !.next_skip_once = FALSE]
      ELSE IF n.step_out # None /\ n.out_skip_once
        THEN [n EXCEPT !.out_skip_once = FALSE]
      ELSE LineOrBreakpoint(n, p)

\* watchbreak_request: a hit not yet consumed hides the later ones.
WatchHit(d) ==
  IF d.watchbreak_pending THEN d
  ELSE [Broken(d) EXCEPT !.watchbreak_pending = TRUE,
                         !.watchbreak_requested = TRUE]

EndOfFrameUpdate(d) ==
  IF d.watchbreak_requested
  THEN [d EXCEPT !.watchbreak_requested = FALSE, !.paused = TRUE]
  ELSE IF d.break_requested
  THEN [d EXCEPT !.break_requested = FALSE, !.paused = TRUE]
  ELSE d

-----------------------------------------------------------------------------
(* A frame *)

CoreInit ==
  /\ dbg = DebugInit
  /\ pc = Entry
  /\ stack = << >>
  /\ at = "idle"

\* retro_run: a paused core runs nothing, but ends its frame.
RetroRun ==
  /\ at = "idle"
  /\ at' = IF dbg.paused THEN "end" ELSE "head"
  /\ UNCHANGED << dbg, pc, stack >>

\* e9k_debugger_break_now() at the head of the loop, or after a Z80 step: the
\* request is taken back and the frame given up.
BreakNow_StaysInFrame ==
  /\ at \in {"head", "z80"}
  /\ dbg.break_now
  /\ dbg' = [dbg EXCEPT !.break_now = FALSE]
  /\ at' = IF at = "z80" THEN "head" ELSE "end"
  /\ UNCHANGED << pc, stack >>

BreakNow ==
  /\ at \in {"head", "z80"}
  /\ dbg.break_now
  /\ dbg' = [dbg EXCEPT !.break_now = FALSE]
  /\ at' = "end"
  /\ UNCHANGED << pc, stack >>

InHandler == \E k \in 1 .. Len(stack) : stack[k].irq

\* Exception entry uses the slice up: no hook, no instruction.
TakeInterrupt ==
  /\ at = "head" /\ ~dbg.break_now
  /\ Handler # None /\ ~InHandler /\ Len(stack) < MaxDepth
  /\ stack' = Append(stack, [return |-> pc, irq |-> TRUE])
  /\ pc' = Handler
  /\ at' = "z80"
  /\ UNCHANGED dbg

\* The hook asks for a break: the instruction is not executed.
StopBefore ==
  /\ at = "head" /\ ~dbg.break_now
  /\ Hook(dbg, pc).break_now
  /\ dbg' = Hook(dbg, pc)
  /\ at' = "z80"
  /\ UNCHANGED << pc, stack >>

\* The bound on the depth keeps execution away from a call it has no room for.
Plain ==
  /\ Op[pc] = "plain"
  /\ \E next \in Follows[pc] :
       /\ Op[next] = "call" => Len(stack) < MaxDepth
       /\ pc' = next
  /\ UNCHANGED stack

Call ==
  /\ Op[pc] = "call" /\ Len(stack) < MaxDepth
  /\ pc' = Callee[pc]
  /\ stack' = Append(stack, [return |-> CallReturn(pc), irq |-> FALSE])

Return ==
  /\ Op[pc] \in {"ret", "rte"} /\ stack # << >>
  /\ pc' = stack[Len(stack)].return
  /\ stack' = SubSeq(stack, 1, Len(stack) - 1)

RunInstr ==
  /\ at = "head" /\ ~dbg.break_now
  /\ ~Hook(dbg, pc).break_now
  /\ Plain \/ Call \/ Return
  /\ dbg' = IF pc \in Watched THEN WatchHit(Hook(dbg, pc)) ELSE Hook(dbg, pc)
  /\ at' = "z80"

\* The Z80 comes to its breakpoint, and the loop to the check after it.
Z80Stop ==
  /\ at = "z80" /\ Z80Stops
  /\ dbg' = [BreakImmediate(dbg) EXCEPT !.break_now = FALSE]
  /\ at' = "end"
  /\ UNCHANGED << pc, stack >>

\* The Z80 is ahead and does not run, or has caught up: the slice ends, and
\* with the cycles of the frame the frame.
SliceEnds ==
  /\ at = "z80"
  /\ at' \in {"head", "end"}
  /\ UNCHANGED << dbg, pc, stack >>

EndFrame ==
  /\ at = "end"
  /\ dbg' = EndOfFrameUpdate(dbg)
  /\ at' = "idle"
  /\ UNCHANGED << pc, stack >>

\* The steps that execute no instruction.
FrameLoop ==
  BreakNow \/ TakeInterrupt \/ StopBefore \/ Z80Stop \/ SliceEnds \/ EndFrame
=============================================================================
