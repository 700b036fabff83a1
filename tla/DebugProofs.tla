---------------------------- MODULE DebugProofs ----------------------------
(***************************************************************************)
(* What holds of the debugger for every program, set of breakpoints and    *)
(* size of its tables: types, the finality of a pause, what the host       *)
(* knows of a stopped machine and of the core's breakpoints, and the one   *)
(* instruction of a stepi.                                                 *)
(***************************************************************************)
EXTENDS DebugHost, FiniteSetTheorems, SequenceTheorems, TLAPS

-----------------------------------------------------------------------------
(* The commands                                                            *)

\* Clearing the steps keeps the type.
LEMMA NotSteppingType ==
  ASSUME NEW d \in DebugType
  PROVE  NotStepping(d) \in DebugType
  BY DEF NotStepping, DebugType

\* So does what the commands set after that.
LEMMA RunAndPauseType ==
  ASSUME NEW n \in DebugType, NEW l \in {Line[p] : p \in PC} \cup {None}
  PROVE  /\ [n EXCEPT !.paused = FALSE, !.break_requested = FALSE,
                      !.watchbreak_requested = FALSE, !.break_now = FALSE] \in DebugType
         /\ [n EXCEPT !.step_instr = FALSE, !.paused = TRUE,
                      !.break_requested = TRUE, !.break_now = TRUE] \in DebugType
         /\ [n EXCEPT !.paused = FALSE, !.step_instr = TRUE] \in DebugType
         /\ [n EXCEPT !.paused = FALSE, !.step_instr = FALSE,
                      !.step_line = TRUE, !.line_start = l] \in DebugType
<1>1. [n EXCEPT !.paused = FALSE, !.break_requested = FALSE,
                !.watchbreak_requested = FALSE, !.break_now = FALSE] \in DebugType
  BY DEF DebugType
<1>2. [n EXCEPT !.step_instr = FALSE, !.paused = TRUE,
                !.break_requested = TRUE, !.break_now = TRUE] \in DebugType
  BY DEF DebugType
<1>3. [n EXCEPT !.paused = FALSE, !.step_instr = TRUE] \in DebugType
  BY DEF DebugType
<1>4. [n EXCEPT !.paused = FALSE, !.step_instr = FALSE,
                !.step_line = TRUE, !.line_start = l] \in DebugType
  BY DEF DebugType
<1>. QED  BY <1>1, <1>2, <1>3, <1>4

\* The commands that take no address keep the type.
LEMMA CommandsKeepType ==
  ASSUME NEW d \in DebugType
  PROVE  /\ Resumed(d) \in DebugType
         /\ BreakImmediate(d) \in DebugType
         /\ StepInstrCmd(d) \in DebugType
<1>1. NotStepping(d) \in DebugType
  BY NotSteppingType
<1>. QED
  BY <1>1, RunAndPauseType DEF Resumed, BreakImmediate, StepInstrCmd

\* They keep the breakpoints; a pause asks for a break, the others take it back.
LEMMA CommandsKeepBreakpoints ==
  ASSUME NEW d \in DebugType
  PROVE  /\ Resumed(d).bps = d.bps /\ ~Resumed(d).paused
         /\ BreakImmediate(d).bps = d.bps /\ BreakImmediate(d).break_now
         /\ StepInstrCmd(d).bps = d.bps /\ ~StepInstrCmd(d).paused
  BY DEF DebugType, NotStepping, Resumed, BreakImmediate, StepInstrCmd

\* A line step keeps the type.
LEMMA StepLineKeepsType ==
  ASSUME NEW d \in DebugType, NEW p \in PC
  PROVE  StepLineCmd(d, p) \in DebugType
<1>1. NotStepping(d) \in DebugType
  BY NotSteppingType
<1>2. Line[p] \in {Line[q] : q \in PC} \cup {None}
  OBVIOUS
<1>. QED  BY <1>1, <1>2, RunAndPauseType DEF StepLineCmd

\* The address a call comes back to, where there is one.
LEMMA CallReturnType ==
  ASSUME NEW p \in PC
  PROVE  CallReturn(p) \in PC \cup {None} /\ (Op[p] = "call" => CallReturn(p) \in PC)
<1>1. CASE Op[p] = "call"
  <2>1. Follows[p] # {} /\ Follows[p] \subseteq PC
    BY <1>1, DebugCoreAssumption
  <2>2. (CHOOSE q \in Follows[p] : TRUE) \in Follows[p]
    BY <2>1
  <2>. QED  BY <1>1, <2>1, <2>2 DEF CallReturn
<1>. QED  BY <1>1 DEF CallReturn

\* So do the steps over a call and out of a function.
LEMMA StepOverKeepsType ==
  ASSUME NEW d \in DebugType, NEW p \in PC
  PROVE  /\ StepNextCmd(d, p) \in DebugType
         /\ StepOutCmd(d, p) \in DebugType
<1> DEFINE l == StepLineCmd(d, p)
<1>1. l \in DebugType
  BY StepLineKeepsType
<1>2. d.callstack_depth \in 0 .. StackMax /\ StackMax \in Nat
  BY DebugCoreAssumption DEF DebugType
<1>3. CallReturn(p) \in PC \cup {None}
  BY CallReturnType
<1> HIDE DEF l
<1>4. d.callstack_depth \in (0 .. StackMax) \cup {None}
  BY <1>2
<1>5. [l EXCEPT !.step_next = d.callstack_depth, !.next_return = CallReturn(p)] \in DebugType
  BY <1>1, <1>3, <1>4 DEF DebugType
<1>6. (IF d.callstack_depth > 0 THEN d.callstack_depth - 1 ELSE 0) \in (0 .. StackMax) \cup {None}
  BY <1>2
<1>7. \A v \in (0 .. StackMax) \cup {None} : [l EXCEPT !.step_out = v] \in DebugType
  BY <1>1 DEF DebugType
<1>. QED  BY <1>5, <1>6, <1>7 DEF l, StepNextCmd, StepOutCmd

\* The line steps keep the breakpoints and take the pause back.
LEMMA StepsKeepBreakpoints ==
  ASSUME NEW d \in DebugType, NEW p \in PC
  PROVE  /\ StepLineCmd(d, p).bps = d.bps /\ ~StepLineCmd(d, p).paused
         /\ StepNextCmd(d, p).bps = d.bps /\ ~StepNextCmd(d, p).paused
         /\ StepOutCmd(d, p).bps = d.bps /\ ~StepOutCmd(d, p).paused
<1>1. StepLineCmd(d, p).bps = d.bps /\ ~StepLineCmd(d, p).paused
  BY DEF DebugType, NotStepping, StepLineCmd
<1>2. /\ StepNextCmd(d, p).bps = StepLineCmd(d, p).bps
      /\ StepNextCmd(d, p).paused = StepLineCmd(d, p).paused
  BY StepLineKeepsType DEF StepNextCmd, DebugType
<1>3. /\ StepOutCmd(d, p).bps = StepLineCmd(d, p).bps
      /\ StepOutCmd(d, p).paused = StepLineCmd(d, p).paused
  BY StepLineKeepsType DEF StepOutCmd, DebugType
<1>. QED  BY <1>1, <1>2, <1>3

-----------------------------------------------------------------------------
(* The hook: each part of it keeps the breakpoints, and what pauses asks   *)
(* for a break.                                                            *)

\* e is d after a step of the hook: breakpoints are kept, and whoever pauses
\* asks for a break.
HookStep(d, e) ==
  /\ e \in DebugType
  /\ e.bps = d.bps
  /\ e.paused => d.paused \/ e.break_now
  /\ d.break_now => e.break_now

\* Steps of the hook compose.
LEMMA HookSteps ==
  ASSUME NEW a \in DebugType, NEW b, NEW c, HookStep(a, b), HookStep(b, c)
  PROVE  HookStep(a, c)
  BY DEF HookStep

\* The mirror call stack stays within its array, and is all that moves.
LEMMA MirroredStep ==
  ASSUME NEW d \in DebugType, NEW p \in PC
  PROVE  HookStep(d, Mirrored(d, p))
<1> USE DebugCoreAssumption
<1>1. d.callstack_depth \in 0 .. StackMax
  BY DEF DebugType
<1>2. CASE Op[p] = "call"
  <2>1. CASE d.callstack_depth < StackMax
    <3>1. d.callstack_depth + 1 \in 0 .. StackMax
      BY <1>1, <2>1
    <3>2. [d EXCEPT !.callstack_depth = @ + 1] \in DebugType
      BY <3>1 DEF DebugType
    <3>. QED  BY <1>2, <2>1, <3>2 DEF Mirrored, HookStep, DebugType
  <2>2. CASE ~(d.callstack_depth < StackMax)
    BY <1>2, <2>2 DEF Mirrored, HookStep
  <2>. QED  BY <2>1, <2>2
<1>3. CASE Op[p] \in {"ret", "rte"}
  <2> DEFINE v == IF d.callstack_depth > 0 THEN d.callstack_depth - 1 ELSE 0
  <2>1. v \in 0 .. StackMax
    BY <1>1
  <2> DEFINE nx == d.next_skip_once \/ d.step_next # None
             ou == d.out_skip_once \/ d.step_out # None
             e == [d EXCEPT !.callstack_depth = v, !.next_skip_once = nx,
                            !.out_skip_once = ou]
  <2>2. Mirrored(d, p) = e
    BY <1>3 DEF Mirrored
  <2>3. nx \in BOOLEAN /\ ou \in BOOLEAN
    OBVIOUS
  <2> HIDE DEF v, nx, ou
  <2>5. e \in DebugType
    BY <2>1, <2>3 DEF DebugType
  <2>4. e.bps = d.bps /\ e.paused = d.paused /\ e.break_now = d.break_now
    BY DEF DebugType
  <2>. QED  BY <2>2, <2>4, <2>5 DEF HookStep
<1>4. CASE Op[p] = "plain"
  BY <1>4 DEF Mirrored, HookStep
<1>. QED  BY <1>2, <1>3, <1>4

\* Noting where a call comes back is a step of the hook.
LEMMA StepOverCallStep ==
  ASSUME NEW d \in DebugType, NEW p \in PC
  PROVE  HookStep(d, StepOverCall(d, p))
<1>1. \A v \in PC \cup {None} : [d EXCEPT !.next_return = v] \in DebugType
  BY DEF DebugType
<1>2. \A v \in PC \cup {None} : HookStep(d, [d EXCEPT !.next_return = v])
  BY <1>1 DEF HookStep, DebugType
<1>3. HookStep(d, d)
  BY DEF HookStep
<1>4. StepOverCall(d, p) = [d EXCEPT !.next_return = CallReturn(p)] \/ StepOverCall(d, p) = d
  BY DEF StepOverCall
<1>. QED  BY <1>2, <1>3, <1>4, CallReturnType

\* So is a break, and it asks for one.
LEMMA BrokenStep ==
  ASSUME NEW d \in DebugType
  PROVE  HookStep(d, Broken(d)) /\ Broken(d).break_now
<1>1. Broken(d) \in DebugType
  BY DEF Broken, DebugType
<1>. QED  BY <1>1 DEF HookStep, Broken, DebugType

\* So are the flags the hook sets and clears.
LEMMA FlagSteps ==
  ASSUME NEW d \in DebugType
  PROVE  /\ HookStep(d, StepArmed(d))
         /\ HookStep(d, [d EXCEPT !.step_instr_after = FALSE])
         /\ HookStep(d, [d EXCEPT !.into_pending = FALSE])
         /\ HookStep(d, [d EXCEPT !.into_pending = TRUE])
         /\ HookStep(d, [d EXCEPT !.next_skip_once = FALSE])
         /\ HookStep(d, [d EXCEPT !.out_skip_once = FALSE])
         /\ HookStep(d, [d EXCEPT !.break_requested = TRUE])
         /\ HookStep(d, [d EXCEPT !.next_return = None])
         /\ HookStep(d, [d EXCEPT !.step_line = FALSE, !.step_next = None,
                                  !.step_out = None, !.into_pending = FALSE])
<1>1. StepArmed(d) \in DebugType
  BY DEF DebugType, StepArmed
<1>2. [d EXCEPT !.step_instr_after = FALSE] \in DebugType
  BY DEF DebugType
<1>3. [d EXCEPT !.into_pending = FALSE] \in DebugType
  BY DEF DebugType
<1>4. [d EXCEPT !.into_pending = TRUE] \in DebugType
  BY DEF DebugType
<1>5. [d EXCEPT !.next_skip_once = FALSE] \in DebugType
  BY DEF DebugType
<1>6. [d EXCEPT !.out_skip_once = FALSE] \in DebugType
  BY DEF DebugType
<1>7. [d EXCEPT !.break_requested = TRUE] \in DebugType
  BY DEF DebugType
<1>8. [d EXCEPT !.next_return = None] \in DebugType
  BY DEF DebugType
<1>9. [d EXCEPT !.step_line = FALSE, !.step_next = None,
                !.step_out = None, !.into_pending = FALSE] \in DebugType
  BY DEF DebugType
<1>10. /\ HookStep(d, StepArmed(d))
       /\ HookStep(d, [d EXCEPT !.step_instr_after = FALSE])
       /\ HookStep(d, [d EXCEPT !.into_pending = FALSE])
       /\ HookStep(d, [d EXCEPT !.into_pending = TRUE])
  BY <1>1, <1>2, <1>3, <1>4 DEF HookStep, DebugType, StepArmed
<1>11. /\ HookStep(d, [d EXCEPT !.next_skip_once = FALSE])
       /\ HookStep(d, [d EXCEPT !.out_skip_once = FALSE])
       /\ HookStep(d, [d EXCEPT !.break_requested = TRUE])
  BY <1>5, <1>6, <1>7 DEF HookStep, DebugType
<1>12. /\ HookStep(d, [d EXCEPT !.next_return = None])
       /\ HookStep(d, [d EXCEPT !.step_line = FALSE, !.step_next = None,
                                !.step_out = None, !.into_pending = FALSE])
  BY <1>8, <1>9 DEF HookStep, DebugType
<1>. QED  BY <1>10, <1>11, <1>12

\* So is the last part of the hook, which looks at the line and the breakpoints.
LEMMA LineOrBreakpointStep ==
  ASSUME NEW d \in DebugType, NEW p \in PC
  PROVE  HookStep(d, LineOrBreakpoint(d, p))
<1> DEFINE e == IF d.next_return = p THEN [d EXCEPT !.next_return = None] ELSE d
           l == [e EXCEPT !.step_line = FALSE, !.step_next = None,
                          !.step_out = None, !.into_pending = FALSE]
           b == [e EXCEPT !.break_requested = TRUE]
<1>1. HookStep(d, e) /\ e \in DebugType
  BY FlagSteps DEF HookStep
<1>2. LineOrBreakpoint(d, p) \in {Broken(l), Broken(b), e}
  BY DEF LineOrBreakpoint
<1> HIDE DEF e
<1>3. HookStep(e, l) /\ l \in DebugType
  BY <1>1, FlagSteps DEF HookStep
<1>4. HookStep(e, b) /\ b \in DebugType
  BY <1>1, FlagSteps DEF HookStep
<1> HIDE DEF l, b
<1>5. HookStep(l, Broken(l)) /\ HookStep(b, Broken(b))
  BY <1>3, <1>4, BrokenStep
<1>6. HookStep(d, Broken(l)) /\ HookStep(d, Broken(b))
  BY <1>1, <1>3, <1>4, <1>5 DEF HookStep
<1>. QED  BY <1>1, <1>2, <1>6

\* The hook as a whole: it keeps the type and the breakpoints, and where it
\* pauses it asks for a break.
LEMMA HookKeeps ==
  ASSUME NEW d \in DebugType, NEW p \in PC
  PROVE  HookStep(d, Hook(d, p))
<1> DEFINE m == Mirrored(d, p)
           n == StepOverCall(m, p)
           a == [d EXCEPT !.step_instr_after = FALSE]
           i == [m EXCEPT !.into_pending = FALSE]
<1>1. HookStep(d, m) /\ m \in DebugType
  BY MirroredStep DEF HookStep
<1>2. HookStep(d, n) /\ n \in DebugType
  <2> HIDE DEF m
  <2>1. HookStep(m, n)
    BY <1>1, StepOverCallStep
  <2>. QED  BY <1>1, <2>1, HookSteps DEF HookStep
<1>3. HookStep(d, Broken(a))
  <2>1. HookStep(d, a) /\ a \in DebugType
    BY FlagSteps DEF HookStep
  <2> HIDE DEF a
  <2>. QED  BY <2>1, BrokenStep, HookSteps
<1>4. Hook(d, p) \in {Broken(a), StepArmed(m), Broken(i), [m EXCEPT !.into_pending = TRUE],
                     [n EXCEPT !.next_skip_once = FALSE], [n EXCEPT !.out_skip_once = FALSE],
                     LineOrBreakpoint(n, p)}
  BY DEF Hook
<1> HIDE DEF m, n, a
<1>5. HookStep(d, Broken(i))
  <2>1. HookStep(m, i) /\ i \in DebugType
    BY <1>1, FlagSteps DEF HookStep
  <2> HIDE DEF i
  <2>. QED  BY <1>1, <2>1, BrokenStep, HookSteps
<1> HIDE DEF i
<1>6. HookStep(d, StepArmed(m)) /\ HookStep(d, [m EXCEPT !.into_pending = TRUE])
  BY <1>1, FlagSteps, HookSteps
<1>7. /\ HookStep(d, [n EXCEPT !.next_skip_once = FALSE])
      /\ HookStep(d, [n EXCEPT !.out_skip_once = FALSE])
  BY <1>2, FlagSteps, HookSteps
<1>8. HookStep(d, LineOrBreakpoint(n, p))
  BY <1>2, LineOrBreakpointStep, HookSteps
<1>. QED  BY <1>3, <1>4, <1>5, <1>6, <1>7, <1>8

\* A watchpoint that hits does no more than the hook.
LEMMA WatchHitStep ==
  ASSUME NEW d \in DebugType
  PROVE  HookStep(d, WatchHit(d))
<1> DEFINE b == Broken(d)
<1>1. HookStep(d, b) /\ b \in DebugType
  BY BrokenStep DEF HookStep
<1>2. WatchHit(d) = d \/ WatchHit(d) = [b EXCEPT !.watchbreak_pending = TRUE,
                                                !.watchbreak_requested = TRUE]
  BY DEF WatchHit
<1> HIDE DEF b
<1>3. [b EXCEPT !.watchbreak_pending = TRUE, !.watchbreak_requested = TRUE] \in DebugType
  BY <1>1 DEF DebugType
<1>4. HookStep(b, [b EXCEPT !.watchbreak_pending = TRUE, !.watchbreak_requested = TRUE])
  BY <1>1, <1>3 DEF HookStep, DebugType
<1>. QED  BY <1>1, <1>2, <1>4 DEF HookStep

\* The update at the end of a frame keeps the type and the breakpoints.
LEMMA EndOfFrameKeeps ==
  ASSUME NEW d \in DebugType
  PROVE  EndOfFrameUpdate(d) \in DebugType /\ EndOfFrameUpdate(d).bps = d.bps
<1>1. [d EXCEPT !.watchbreak_requested = FALSE, !.paused = TRUE] \in DebugType
  BY DEF DebugType
<1>2. [d EXCEPT !.break_requested = FALSE, !.paused = TRUE] \in DebugType
  BY DEF DebugType
<1>3. EndOfFrameUpdate(d).bps = d.bps
  BY DEF EndOfFrameUpdate, DebugType
<1>. QED  BY <1>1, <1>2, <1>3 DEF EndOfFrameUpdate

-----------------------------------------------------------------------------
(* The breakpoint table of the core                                        *)

\* The core's breakpoint table of d: finite, and no larger than the array.
Table(d) == IsFiniteSet(d.bps) /\ Cardinality(d.bps) <= BpMax

\* Adding a breakpoint, where there is room, adds that one and nothing else.
LEMMA AddKeepsTable ==
  ASSUME NEW d \in DebugType, NEW a \in BpAddrs, Table(d)
  PROVE  LET e == AddBreakpoint(d, a) IN
         /\ e \in DebugType /\ Table(e)
         /\ d.bps \subseteq e.bps /\ e.bps \subseteq d.bps \cup {a}
         /\ Cardinality(d.bps) < BpMax => a \in e.bps
         /\ e.paused = d.paused /\ e.break_now = d.break_now
<1> DEFINE b == d.bps \cup {a}
           f == [d EXCEPT !.bps = b]
<1>1. d.bps \subseteq BpAddrs /\ BpMax \in Nat
  BY DebugCoreAssumption DEF DebugType
<1>2. b \in SUBSET BpAddrs
  BY <1>1
<1>3. IsFiniteSet(b) /\ Cardinality(b) \in {Cardinality(d.bps), Cardinality(d.bps) + 1}
  BY FS_AddElement DEF Table
<1>4. Cardinality(d.bps) \in Nat
  BY FS_CardinalityType DEF Table
<1>5. AddBreakpoint(d, a) = IF Cardinality(d.bps) < BpMax THEN f ELSE d
  BY DEF AddBreakpoint
<1> HIDE DEF b
<1>6. f \in DebugType /\ f.bps = b
  BY <1>2 DEF DebugType
<1>7. f.paused = d.paused /\ f.break_now = d.break_now
  BY DEF DebugType
<1> HIDE DEF f
<1>8. Cardinality(d.bps) < BpMax => Table(f)
  BY <1>1, <1>3, <1>4, <1>6 DEF Table
<1>. QED  BY <1>5, <1>6, <1>7, <1>8 DEF b

\* Removing one removes that one.
LEMMA RemoveKeepsTable ==
  ASSUME NEW d \in DebugType, NEW a, Table(d)
  PROVE  LET e == RemoveBreakpoint(d, a) IN
         /\ e \in DebugType /\ Table(e)
         /\ e.bps = d.bps \ {a}
         /\ e.paused = d.paused /\ e.break_now = d.break_now
<1> DEFINE b == d.bps \ {a}
           f == [d EXCEPT !.bps = b]
<1>1. b \in SUBSET BpAddrs /\ BpMax \in Nat
  BY DebugCoreAssumption DEF DebugType
<1>2. IsFiniteSet(b) /\ Cardinality(b) <= Cardinality(d.bps)
  BY FS_Subset, b \subseteq d.bps DEF Table
<1>3. Cardinality(d.bps) \in Nat /\ Cardinality(b) \in Nat
  BY <1>2, FS_CardinalityType DEF Table
<1> HIDE DEF b
<1>4. f \in DebugType /\ f.bps = b /\ f.paused = d.paused /\ f.break_now = d.break_now
  BY <1>1 DEF DebugType
<1> HIDE DEF f
<1>5. Table(f)
  BY <1>1, <1>2, <1>3, <1>4 DEF Table
<1>. QED  BY <1>4, <1>5 DEF RemoveBreakpoint, b, f

\* Whoever keeps the breakpoints keeps the table.
LEMMA TableKept ==
  ASSUME NEW d, NEW e, Table(d), e.bps = d.bps
  PROVE  Table(e)
  BY DEF Table

-----------------------------------------------------------------------------
(* The type invariant in parts, and the steps it is kept by                *)

\* The type invariant, with the finiteness that cardinalities need.
TypeInv == DebugTypeOK /\ IsFiniteSet(dbg.bps)

\* What it says of the core.
LEMMA TypeInvTable == TypeInv => dbg \in DebugType /\ Table(dbg) /\ pc \in PC
  BY DEF TypeInv, DebugTypeOK, Table

\* The variables the core's debugger does not have.
RestTypeOK ==
  /\ pc \in PC /\ at \in {"idle", "head", "z80", "end"}
  /\ stack \in Seq([return : PC, irq : BOOLEAN])
  /\ running \in BOOLEAN /\ drawn \in BOOLEAN
  /\ shownPc \in PC \cup {None} /\ hitPc \in PC \cup {None}
  /\ list \in [BpAddrs -> {"none", "off", "on"}]
  /\ suppressed \in BpAddrs \cup {None}
  /\ loop \in {"events", "polled", "frame"}
  /\ last \in [cmd : CommandNames \cup {"none"}, depth : Nat] /\ ran \in 0 .. 2

\* What it says of the core's debugger and of the rest.
LEMMA TypeInvParts == TypeInv <=> dbg \in DebugType /\ Table(dbg) /\ RestTypeOK
  BY DEF TypeInv, DebugTypeOK, Table, RestTypeOK

\* The breakpoint a step lifts is one the user set.
LEMMA SuppressedAddress ==
  ASSUME TypeInv, Suppresses
  PROVE  shownPc \in BpAddrs /\ shownPc # None
  BY DebugCoreAssumption, DebugHostAssumption DEF Suppresses, Enabled

\* Without that breakpoint the core has its others.
LEMMA UnblockedTable ==
  ASSUME TypeInv
  PROVE  /\ Unblocked \in DebugType /\ Table(Unblocked)
         /\ Unblocked.bps = IF Suppresses THEN dbg.bps \ {shownPc} ELSE dbg.bps
         /\ Unblocked.paused = dbg.paused
<1>1. dbg \in DebugType /\ Table(dbg)
  BY TypeInvTable
<1>. QED  BY <1>1, RemoveKeepsTable DEF Unblocked

\* What a step command leaves in the core.
LEMMA StepCommandTable ==
  ASSUME TypeInv, NEW d, d \in {StepLineCmd(Unblocked, pc), StepNextCmd(Unblocked, pc),
                                StepInstrCmd(Unblocked), StepOutCmd(Unblocked, pc)}
  PROVE  /\ d \in DebugType /\ Table(d) /\ ~d.paused
         /\ d.bps = Unblocked.bps
<1>1. Unblocked \in DebugType /\ Table(Unblocked) /\ pc \in PC
  BY UnblockedTable, TypeInvTable
<1>2. d \in DebugType
  BY <1>1, StepLineKeepsType, StepOverKeepsType, CommandsKeepType
<1>3. d.bps = Unblocked.bps /\ ~d.paused
  BY <1>1, StepsKeepBreakpoints, CommandsKeepBreakpoints
<1>. QED  BY <1>1, <1>2, <1>3, TableKept

\* The step commands as one.
StepCommands == Step \/ NextLine \/ Stepi \/ Finish

\* Each of them is StepCommand with what it leaves in the core.
LEMMA StepCommandsAre ==
  ASSUME StepCommands
  PROVE  \E name \in CommandNames :
           /\ dbg' \in {StepLineCmd(Unblocked, pc), StepNextCmd(Unblocked, pc),
                        StepInstrCmd(Unblocked), StepOutCmd(Unblocked, pc)}
           /\ StepCommand(name, dbg')
<1>1. CASE Step
  BY <1>1 DEF Step, StepCommand, CommandNames
<1>2. CASE NextLine
  BY <1>2 DEF NextLine, StepCommand, CommandNames
<1>3. CASE Stepi
  BY <1>3 DEF Stepi, StepCommand, CommandNames
<1>4. CASE Finish
  BY <1>4 DEF Finish, StepCommand, CommandNames
<1>. QED  BY <1>1, <1>2, <1>3, <1>4 DEF StepCommands

\* The record of the last command keeps its type.
LEMMA GivenType ==
  ASSUME RestTypeOK, NEW name, Given(name)
  PROVE  /\ last' \in [cmd : CommandNames \cup {"none"}, depth : Nat]
         /\ ran' \in 0 .. 2
<1>1. name \in CommandNames /\ Len(stack) \in Nat
  BY DebugHostAssumption, LenProperties DEF Given, RestTypeOK
<1>. QED  BY <1>1 DEF Given

\* machine_setRunning keeps the types of what it sets.
LEMMA SetRunningType ==
  ASSUME RestTypeOK, NEW r \in BOOLEAN, SetRunning(r)
  PROVE  running' \in BOOLEAN /\ shownPc' \in PC \cup {None}
  BY DEF SetRunning, RestTypeOK

\* A stack that is not empty can be popped.
LEMMA PopType ==
  ASSUME NEW S, NEW s \in Seq(S), s # << >>
  PROVE  s[Len(s)] \in S /\ SubSeq(s, 1, Len(s) - 1) \in Seq(S)
<1>1. Len(s) \in Nat \ {0}
  BY EmptySeq
<1>2. \A i \in 1 .. Len(s) : s[i] \in S
  BY ElementOfSeq
<1>3. \A i \in 1 .. Len(s) - 1 : s[i] \in S
  BY <1>1, <1>2
<1>. QED  BY <1>1, <1>2, <1>3, SubSeqProperties

\* What the core executes.
LEMMA RunInstrTypes ==
  ASSUME TypeInv, RunInstr
  PROVE  /\ dbg' \in DebugType /\ Table(dbg')
         /\ pc' \in PC /\ stack' \in Seq([return : PC, irq : BOOLEAN])
<1>1. /\ dbg \in DebugType /\ Table(dbg) /\ pc \in PC
      /\ stack \in Seq([return : PC, irq : BOOLEAN])
  BY TypeInvParts DEF RestTypeOK
<1>2. dbg' \in DebugType /\ dbg'.bps = dbg.bps
  BY <1>1, HookKeeps, WatchHitStep DEF RunInstr, HookStep
<1>3. Table(dbg')
  BY <1>1, <1>2, TableKept
<1>4. CASE Plain
  <2>1. pc' \in Follows[pc] /\ Follows[pc] \subseteq PC
    BY <1>1, <1>4, DebugCoreAssumption DEF Plain
  <2>. QED  BY <1>1, <1>2, <1>3, <1>4, <2>1 DEF Plain
<1>5. CASE Call
  <2>1. Callee[pc] \in PC /\ CallReturn(pc) \in PC
    BY <1>1, <1>5, DebugCoreAssumption, CallReturnType DEF Call
  <2>2. [return |-> CallReturn(pc), irq |-> FALSE] \in [return : PC, irq : BOOLEAN]
    BY <2>1
  <2>. QED  BY <1>1, <1>2, <1>3, <1>5, <2>1, <2>2, AppendProperties DEF Call
<1>6. CASE Return
  <2>1. stack # << >>
    BY <1>6 DEF Return
  <2>2. /\ stack[Len(stack)] \in [return : PC, irq : BOOLEAN]
        /\ SubSeq(stack, 1, Len(stack) - 1) \in Seq([return : PC, irq : BOOLEAN])
    BY <1>1, <2>1, PopType
  <2>3. stack[Len(stack)].return \in PC
    BY <2>2
  <2>. QED  BY <1>2, <1>3, <1>6, <2>2, <2>3 DEF Return
<1>. QED  BY <1>4, <1>5, <1>6 DEF RunInstr

\* The steps of the frame that execute nothing keep types and breakpoints.
LEMMA FrameLoopTypes ==
  ASSUME TypeInv, FrameLoop
  PROVE  /\ dbg' \in DebugType /\ Table(dbg')
         /\ pc' \in PC /\ stack' \in Seq([return : PC, irq : BOOLEAN])
         /\ at' \in {"idle", "head", "z80", "end"}
         /\ dbg'.bps = dbg.bps
<1>1. /\ dbg \in DebugType /\ Table(dbg) /\ pc \in PC
      /\ stack \in Seq([return : PC, irq : BOOLEAN])
  BY TypeInvParts DEF RestTypeOK
<1>2. CASE BreakNow
  <2>1. [dbg EXCEPT !.break_now = FALSE] \in DebugType
    BY <1>1 DEF DebugType
  <2>2. [dbg EXCEPT !.break_now = FALSE].bps = dbg.bps
    BY <1>1 DEF DebugType
  <2>. QED  BY <1>1, <1>2, <2>1, <2>2, TableKept DEF BreakNow
<1>3. CASE TakeInterrupt
  <2>1. [return |-> pc, irq |-> TRUE] \in [return : PC, irq : BOOLEAN] /\ Handler \in PC
    BY <1>1, <1>3, DebugCoreAssumption DEF TakeInterrupt
  <2>. QED  BY <1>1, <1>3, <2>1, AppendProperties DEF TakeInterrupt
<1>4. CASE StopBefore
  <2>1. dbg' \in DebugType /\ dbg'.bps = dbg.bps
    BY <1>1, <1>4, HookKeeps DEF StopBefore, HookStep
  <2>. QED  BY <1>1, <1>4, <2>1, TableKept DEF StopBefore
<1>5. CASE Z80Stop
  <2> DEFINE b == BreakImmediate(dbg)
  <2>1. b \in DebugType /\ b.bps = dbg.bps
    BY <1>1, CommandsKeepType, CommandsKeepBreakpoints
  <2> HIDE DEF b
  <2>2. [b EXCEPT !.break_now = FALSE] \in DebugType
    BY <2>1 DEF DebugType
  <2>3. [b EXCEPT !.break_now = FALSE].bps = dbg.bps
    BY <2>1 DEF DebugType
  <2>4. dbg' = [b EXCEPT !.break_now = FALSE]
    BY <1>5 DEF Z80Stop, b
  <2>. QED  BY <1>1, <1>5, <2>2, <2>3, <2>4, TableKept DEF Z80Stop
<1>6. CASE SliceEnds
  BY <1>1, <1>6 DEF SliceEnds
<1>7. CASE EndFrame
  BY <1>1, <1>7, EndOfFrameKeeps, TableKept DEF EndFrame
<1>. QED  BY <1>2, <1>3, <1>4, <1>5, <1>6, <1>7 DEF FrameLoop

\* What the poll puts back.
LEMMA RestoreTypes ==
  ASSUME TypeInv
  PROVE  LET d == Consumed(RestoreSuppressed(dbg)) IN
         /\ d \in DebugType /\ Table(d)
         /\ d.bps = RestoreSuppressed(dbg).bps
         /\ d.paused = dbg.paused /\ d.break_now = dbg.break_now
<1> DEFINE e == RestoreSuppressed(dbg)
<1>1. dbg \in DebugType /\ Table(dbg) /\ suppressed \in BpAddrs \cup {None}
  BY TypeInvParts DEF RestTypeOK
<1>2. e \in DebugType /\ Table(e) /\ e.paused = dbg.paused /\ e.break_now = dbg.break_now
  BY <1>1, AddKeepsTable DEF RestoreSuppressed
<1> HIDE DEF e
<1>3. Consumed(e) \in DebugType
  BY <1>2 DEF Consumed, DebugType
<1>4. Consumed(e).bps = e.bps /\ Consumed(e).paused = e.paused /\ Consumed(e).break_now = e.break_now
  BY <1>2 DEF Consumed, DebugType
<1>. QED  BY <1>2, <1>3, <1>4, TableKept DEF e

-----------------------------------------------------------------------------
(* Types                                                                   *)

\* The debugger starts with an empty table.
LEMMA TypeInitially == DebugInitial => TypeInv
<1> SUFFICES ASSUME DebugInitial  PROVE TypeInv
  OBVIOUS
<1> USE DebugCoreAssumption
<1>1. DebugInit \in DebugType
  <2>1. 0 \in 0 .. StackMax /\ {} \in SUBSET BpAddrs
    OBVIOUS
  <2>. QED  BY <2>1 DEF DebugInit, DebugType
<1>2. Table(DebugInit)
  BY FS_EmptySet DEF Table, DebugInit
<1>3. dbg = DebugInit /\ RestTypeOK
  <2>1. << >> \in Seq([return : PC, irq : BOOLEAN])
    OBVIOUS
  <2>2. [cmd |-> "none", depth |-> 0] \in [cmd : CommandNames \cup {"none"}, depth : Nat]
    BY DEF CommandNames
  <2>3. 0 \in 0 .. 2
    OBVIOUS
  <2>4. last \in [cmd : CommandNames \cup {"none"}, depth : Nat]
    BY <2>2 DEF DebugInitial, HostInit
  <2>5. list \in [BpAddrs -> {"none", "off", "on"}]
    BY DEF DebugInitial, HostInit
  <2>. QED  BY <2>1, <2>3, <2>4, <2>5 DEF DebugInitial, CoreInit, HostInit, RestTypeOK
<1>. QED  BY <1>1, <1>2, <1>3, TypeInvParts

\* Every step of the program, the core and the user keeps the types.
LEMMA TypePreserved ==
  ASSUME TypeInv, [DebugNext]_debugVars
  PROVE  TypeInv'
<1>1. dbg \in DebugType /\ Table(dbg) /\ RestTypeOK
  BY TypeInvParts
<1>2. SUFFICES dbg' \in DebugType /\ Table(dbg') /\ RestTypeOK'
  BY DEF TypeInv, DebugTypeOK, Table, RestTypeOK
<1>3. CASE Pause
  BY <1>1, <1>3, CommandsKeepType, CommandsKeepBreakpoints, TableKept,
     GivenType, SetRunningType DEF Pause, RestTypeOK
<1>4. CASE Continue
  BY <1>1, <1>4, CommandsKeepType, CommandsKeepBreakpoints, TableKept,
     GivenType, SetRunningType DEF Continue, RestTypeOK
<1>5. CASE StepCommands
  <2>1. PICK name \in CommandNames : StepCommand(name, dbg')
    BY <1>5, StepCommandsAre
  <2>2. dbg' \in DebugType /\ Table(dbg')
    BY <1>5, StepCommandsAre, StepCommandTable
  <2>3. suppressed' \in BpAddrs \cup {None}
    BY <1>1, <2>1, SuppressedAddress DEF StepCommand, RestTypeOK
  <2>. QED  BY <1>1, <2>1, <2>2, <2>3, GivenType, SetRunningType DEF StepCommand, RestTypeOK
<1>6. ASSUME NEW a \in BpAddrs, EnableBreakpoint(a)
      PROVE  dbg' \in DebugType /\ Table(dbg') /\ RestTypeOK'
  <2>1. dbg' \in DebugType /\ Table(dbg')
    BY <1>1, <1>6, AddKeepsTable DEF EnableBreakpoint
  <2>2. list' \in [BpAddrs -> {"none", "off", "on"}]
    BY <1>1, <1>6 DEF EnableBreakpoint, RestTypeOK
  <2>. QED  BY <1>1, <1>6, <2>1, <2>2 DEF EnableBreakpoint, RestTypeOK, history
<1>7. ASSUME NEW a \in BpAddrs, DisableBreakpoint(a)
      PROVE  dbg' \in DebugType /\ Table(dbg') /\ RestTypeOK'
  <2>1. dbg' \in DebugType /\ Table(dbg')
    BY <1>1, <1>7, RemoveKeepsTable DEF DisableBreakpoint
  <2>2. list' \in [BpAddrs -> {"none", "off", "on"}]
    BY <1>1, <1>7 DEF DisableBreakpoint, RestTypeOK
  <2>. QED  BY <1>1, <1>7, <2>1, <2>2 DEF DisableBreakpoint, RestTypeOK, history
<1>8. ASSUME NEW a \in BpAddrs, ForgetBreakpoint(a)
      PROVE  dbg' \in DebugType /\ Table(dbg') /\ RestTypeOK'
  <2>1. dbg' \in DebugType /\ Table(dbg')
    BY <1>1, <1>8, RemoveKeepsTable DEF ForgetBreakpoint
  <2>2. list' \in [BpAddrs -> {"none", "off", "on"}]
    BY <1>1, <1>8 DEF ForgetBreakpoint, RestTypeOK
  <2>. QED  BY <1>1, <1>8, <2>1, <2>2 DEF ForgetBreakpoint, RestTypeOK, history
<1>9. CASE PollQuiet
  <2>1. (~dbg.paused) \in BOOLEAN
    OBVIOUS
  <2>. QED  BY <1>1, <1>9, <2>1, SetRunningType DEF PollQuiet, RestTypeOK, history
<1>10. CASE PollStopped
  BY <1>1, <1>10, RestoreTypes, SetRunningType DEF PollStopped, RestTypeOK, history
<1>11. CASE PollIgnored
  <2> DEFINE d == Consumed(RestoreSuppressed(dbg))
  <2>1. d \in DebugType /\ Table(d)
    BY RestoreTypes
  <2> HIDE DEF d
  <2>2. Resumed(d) \in DebugType /\ Table(Resumed(d))
    BY <2>1, CommandsKeepType, CommandsKeepBreakpoints, TableKept
  <2>. QED  BY <1>1, <1>11, <2>2 DEF PollIgnored, RestTypeOK, history, d
<1>12. CASE BeginFrame
  BY <1>1, <1>12 DEF BeginFrame, RetroRun, RestTypeOK, history
<1>13. CASE Execute
  <2>1. /\ dbg' \in DebugType /\ Table(dbg')
        /\ pc' \in PC /\ stack' \in Seq([return : PC, irq : BOOLEAN])
    BY <1>13, RunInstrTypes DEF Execute
  <2>2. at' = "z80" /\ ran' \in 0 .. 2 /\ hitPc' \in PC \cup {None}
    BY <1>1, <1>13 DEF Execute, RunInstr, RestTypeOK
  <2>. QED  BY <1>1, <1>13, <2>1, <2>2 DEF Execute, RestTypeOK
<1>14. CASE ContinueFrame
  BY <1>1, <1>14, FrameLoopTypes DEF ContinueFrame, RestTypeOK, history, hostVars
<1>15. CASE Draw
  BY <1>1, <1>15 DEF Draw, RestTypeOK, history
<1>16. CASE UNCHANGED debugVars
  BY <1>1, <1>16 DEF debugVars, RestTypeOK, history, hostVars
<1>. QED  BY <1>3, <1>4, <1>5, <1>6, <1>7, <1>8, <1>9, <1>10, <1>11, <1>12,
             <1>13, <1>14, <1>15, <1>16
          DEF DebugNext, User, StepCommands, DebugSystem, Poll

-----------------------------------------------------------------------------
(* The pause, and the registers the host shows                             *)

\* Within a frame, a core that is paused has asked for a break.
PauseAsksForBreak == at \in {"head", "z80"} /\ dbg.paused => dbg.break_now

\* A frame is executed only while the host has the machine run.
FrameRuns == loop = "frame" => running

\* Where the buttons were last drawn for a stopped machine, the registers shown
\* are still right, whatever was clicked since.
ShownWhenDrawn == loop = "events" /\ ~drawn => shownPc \in {None, pc}

\* The inductive invariant.
DebugInv ==
  TypeInv /\ PauseAsksForBreak /\ FrameRuns /\ ShownWhenStopped /\ ShownWhenDrawn

\* Only the hook and a watchpoint pause within a frame, and both ask for a
\* break; nothing takes the request back but the loop, which then leaves.
LEMMA PausePreserved ==
  ASSUME TypeInv, PauseAsksForBreak, [DebugNext]_debugVars
  PROVE  PauseAsksForBreak'
<1>1. dbg \in DebugType /\ Table(dbg) /\ RestTypeOK
  BY TypeInvParts
<1>3. CASE Pause
  BY <1>1, <1>3, CommandsKeepBreakpoints DEF Pause, PauseAsksForBreak
<1>4. CASE Continue
  BY <1>1, <1>4, CommandsKeepBreakpoints DEF Continue, PauseAsksForBreak
<1>5. CASE StepCommands
  BY <1>5, StepCommandsAre, StepCommandTable DEF PauseAsksForBreak
<1>6. ASSUME NEW a \in BpAddrs, EnableBreakpoint(a)
      PROVE  PauseAsksForBreak'
  BY <1>1, <1>6, AddKeepsTable DEF EnableBreakpoint, PauseAsksForBreak
<1>7. ASSUME NEW a \in BpAddrs, DisableBreakpoint(a)
      PROVE  PauseAsksForBreak'
  BY <1>1, <1>7, RemoveKeepsTable DEF DisableBreakpoint, PauseAsksForBreak
<1>8. ASSUME NEW a \in BpAddrs, ForgetBreakpoint(a)
      PROVE  PauseAsksForBreak'
  BY <1>1, <1>8, RemoveKeepsTable DEF ForgetBreakpoint, PauseAsksForBreak
<1>9. CASE PollQuiet
  BY <1>9 DEF PollQuiet, PauseAsksForBreak
<1>10. CASE PollStopped
  BY <1>1, <1>10, RestoreTypes DEF PollStopped, PauseAsksForBreak
<1>11. CASE PollIgnored
  <2>1. ~dbg'.paused
    BY <1>1, <1>11, RestoreTypes, CommandsKeepBreakpoints DEF PollIgnored
  <2>. QED  BY <2>1 DEF PauseAsksForBreak
<1>12. CASE BeginFrame
  BY <1>12 DEF BeginFrame, RetroRun, PauseAsksForBreak
<1>13. CASE Execute
  <2> DEFINE h == Hook(dbg, pc)
  <2>1. pc \in PC /\ ~dbg.break_now /\ at = "head" /\ ~h.break_now
    BY <1>1, <1>13 DEF Execute, RunInstr, RestTypeOK
  <2>2. ~dbg.paused
    BY <2>1 DEF PauseAsksForBreak
  <2>3. HookStep(dbg, h)
    BY <1>1, <2>1, HookKeeps
  <2>4. dbg' \in {h, WatchHit(h)}
    BY <1>13 DEF Execute, RunInstr
  <2> HIDE DEF h
  <2>5. HookStep(h, WatchHit(h))
    BY <2>3, WatchHitStep DEF HookStep
  <2>. QED  BY <2>1, <2>2, <2>3, <2>4, <2>5 DEF HookStep, PauseAsksForBreak
<1>14. CASE ContinueFrame
  <2>1. CASE StopBefore
    BY <1>1, <2>1 DEF StopBefore, PauseAsksForBreak
  <2>2. CASE BreakNow \/ Z80Stop \/ EndFrame
    BY <2>2 DEF BreakNow, Z80Stop, EndFrame, PauseAsksForBreak
  <2>3. CASE TakeInterrupt \/ SliceEnds
    BY <2>3 DEF TakeInterrupt, SliceEnds, PauseAsksForBreak
  <2>. QED  BY <1>14, <2>1, <2>2, <2>3 DEF ContinueFrame, FrameLoop
<1>15. CASE Draw
  BY <1>15 DEF Draw, PauseAsksForBreak
<1>16. CASE UNCHANGED debugVars
  BY <1>16 DEF debugVars, PauseAsksForBreak
<1>. QED  BY <1>3, <1>4, <1>5, <1>6, <1>7, <1>8, <1>9, <1>10, <1>11, <1>12,
             <1>13, <1>14, <1>15, <1>16
          DEF DebugNext, User, StepCommands, DebugSystem, Poll

\* What the host knows of the registers.
Shown == FrameRuns /\ ShownWhenStopped /\ ShownWhenDrawn

\* The machine moves only in a frame, and a frame ends in a drawing; a machine
\* that stops has its registers fetched before the next command.
LEMMA ShownPreserved ==
  ASSUME TypeInv, Shown, [DebugNext]_debugVars
  PROVE  Shown'
<1>1. running \in BOOLEAN /\ drawn \in BOOLEAN /\ loop \in {"events", "polled", "frame"}
  BY TypeInvParts DEF RestTypeOK
<1> USE DEF Shown, FrameRuns, ShownWhenStopped, ShownWhenDrawn
<1>3. CASE Pause
  BY <1>1, <1>3 DEF Pause, Given, SetRunning
<1>4. CASE Continue
  BY <1>1, <1>4 DEF Continue, Given, SetRunning
<1>5. CASE StepCommands
  <2>1. PICK name \in CommandNames : StepCommand(name, dbg')
    BY <1>5, StepCommandsAre
  <2>. QED  BY <1>1, <2>1 DEF StepCommand, Given, SetRunning
<1>6. ASSUME NEW a \in BpAddrs, EnableBreakpoint(a) \/ DisableBreakpoint(a) \/ ForgetBreakpoint(a)
      PROVE  Shown'
  BY <1>1, <1>6 DEF EnableBreakpoint, DisableBreakpoint, ForgetBreakpoint
<1>9. CASE PollQuiet
  BY <1>1, <1>9 DEF PollQuiet, SetRunning
<1>10. CASE PollStopped
  BY <1>1, <1>10 DEF PollStopped, SetRunning
<1>11. CASE PollIgnored
  BY <1>1, <1>11 DEF PollIgnored
<1>12. CASE BeginFrame
  BY <1>1, <1>12 DEF BeginFrame, RetroRun
<1>13. CASE Execute
  BY <1>1, <1>13 DEF Execute
<1>14. CASE ContinueFrame
  BY <1>1, <1>14 DEF ContinueFrame, hostVars
<1>15. CASE Draw
  BY <1>1, <1>15 DEF Draw
<1>16. CASE UNCHANGED debugVars
  BY <1>16 DEF debugVars, hostVars
<1>. QED  BY <1>3, <1>4, <1>5, <1>6, <1>9, <1>10, <1>11, <1>12,
             <1>13, <1>14, <1>15, <1>16
          DEF DebugNext, User, StepCommands, DebugSystem, Poll

\* The inductive invariant holds.
LEMMA DebugInvHolds == DebugSpec => []DebugInv
<1>1. DebugInitial => DebugInv
  <2>1. DebugInitial => PauseAsksForBreak /\ Shown
    BY DEF DebugInitial, CoreInit, HostInit, PauseAsksForBreak, Shown, FrameRuns, ShownWhenStopped, ShownWhenDrawn
  <2>. QED  BY <2>1, TypeInitially DEF DebugInv, Shown
<1>2. DebugInv /\ [DebugNext]_debugVars => DebugInv'
  BY TypePreserved, PausePreserved, ShownPreserved DEF DebugInv, Shown
<1>. QED  BY <1>1, <1>2, PTL DEF DebugSpec

\* The types are right for every program and every set of breakpoints: the
\* core's table (e9k_debugger_add_breakpoint) stays within E9K_DBG_BP_MAX and the
\* mirror stack the hook keeps within E9K_DBG_STACK_MAX, and never below empty.
THEOREM DebugTypeCorrect == DebugSpec => []DebugTypeOK
<1>1. DebugInv => DebugTypeOK
  BY DEF DebugInv, TypeInv
<1>. QED  BY <1>1, DebugInvHolds, PTL

\* Once the core is paused it executes nothing until a command takes the pause
\* back: the hook sets break_now with the pause, and geo_exec looks at it before
\* every instruction.
THEOREM PauseIsFinal == DebugSpec => PausedStandsStill
<1>1. ASSUME DebugInv, [DebugNext]_debugVars, dbg.paused
      PROVE  UNCHANGED << pc, stack >>
  <2>1. CASE Execute
    BY <1>1, <2>1 DEF Execute, RunInstr, DebugInv, PauseAsksForBreak
  <2>2. CASE ContinueFrame
    BY <1>1, <2>2 DEF ContinueFrame, FrameLoop, BreakNow, TakeInterrupt, StopBefore, Z80Stop,
                      SliceEnds, EndFrame, DebugInv, PauseAsksForBreak
  <2>3. CASE User
    BY <2>3 DEF User, Pause, Continue, Step, NextLine, Stepi, Finish, StepCommand,
                EnableBreakpoint, DisableBreakpoint, ForgetBreakpoint
  <2>4. CASE Poll \/ BeginFrame \/ Draw
    BY <2>4 DEF Poll, PollQuiet, PollStopped, PollIgnored, BeginFrame, RetroRun, Draw
  <2>5. CASE UNCHANGED debugVars
    BY <2>5 DEF debugVars
  <2>. QED  BY <1>1, <2>1, <2>2, <2>3, <2>4, <2>5 DEF DebugNext, DebugSystem
<1>2. DebugInv /\ [DebugNext]_debugVars => [dbg.paused => UNCHANGED << pc, stack >>]_debugVars
  BY <1>1
<1>. QED  BY <1>2, DebugInvHolds, PTL DEF DebugSpec, PausedStandsStill

\* The registers shown for a stopped machine are its registers: machine_setRunning
\* fetches them whenever the machine stops.
THEOREM ShownIsTrue == DebugSpec => []ShownWhenStopped
<1>1. DebugInv => ShownWhenStopped
  BY DEF DebugInv
<1>. QED  BY <1>1, DebugInvHolds, PTL

\* The breakpoint a step lifts from the core is the one the machine stands on,
\* although debugger_suppressBreakpointAtPC reads registers fetched earlier.
THEOREM LiftsWhereItStands == DebugSpec => SuppressesWhereItStands
<1>1. ASSUME DebugInv, [DebugNext]_debugVars, suppressed' \notin {None, suppressed}
      PROVE  suppressed' = pc
  <2>1. CASE StepCommands
    <3>1. PICK name \in CommandNames : StepCommand(name, dbg')
      BY <2>1, StepCommandsAre
    <3>2. suppressed' = shownPc /\ Suppresses /\ loop = "events" /\ ~drawn
      BY <1>1, <3>1 DEF StepCommand, Given, StepButton
    <3>. QED  BY <1>1, <3>2 DEF DebugInv, ShownWhenDrawn
  <2>2. CASE Pause \/ Continue \/ DebugSystem \/ UNCHANGED debugVars
    BY <1>1, <2>2 DEF Pause, Continue, DebugSystem, Poll, PollQuiet, PollStopped, PollIgnored,
       BeginFrame, Execute, ContinueFrame, Draw, hostVars, debugVars
  <2>3. ASSUME NEW a \in BpAddrs, EnableBreakpoint(a) \/ DisableBreakpoint(a) \/ ForgetBreakpoint(a)
        PROVE  FALSE
    BY <1>1, <2>3 DEF EnableBreakpoint, DisableBreakpoint, ForgetBreakpoint
  <2>. QED  BY <1>1, <2>1, <2>2, <2>3 DEF DebugNext, User, StepCommands
<1>2. DebugInv /\ [DebugNext]_debugVars
        => [suppressed' \notin {None, suppressed} => suppressed' = pc]_debugVars
  BY <1>1
<1>. QED  BY <1>2, DebugInvHolds, PTL DEF DebugSpec, SuppressesWhereItStands

-----------------------------------------------------------------------------
(* The breakpoints in the core                                             *)

\* The core's table has room for every address breakpoints are set at.
Room == IsFiniteSet(BpAddrs) /\ Cardinality(BpAddrs) <= BpMax

\* With room in the table no breakpoint that is added is lost.
LEMMA AddReaches ==
  ASSUME Room, NEW d \in DebugType, NEW a \in BpAddrs, Table(d)
  PROVE  AddBreakpoint(d, a).bps = d.bps \cup {a}
<1>1. d.bps \subseteq BpAddrs /\ BpMax \in Nat
  BY DebugCoreAssumption DEF DebugType
<1>2. CASE Cardinality(d.bps) < BpMax
  BY <1>2, AddKeepsTable
<1>3. CASE ~(Cardinality(d.bps) < BpMax)
  <2>1. /\ Cardinality(d.bps) \in Nat /\ Cardinality(BpAddrs) \in Nat
        /\ Cardinality(d.bps) <= Cardinality(BpAddrs)
    BY <1>1, FS_CardinalityType, FS_Subset DEF Room, Table
  <2>2. Cardinality(d.bps) = Cardinality(BpAddrs)
    BY <1>1, <1>3, <2>1 DEF Room
  <2>3. d.bps = BpAddrs
    BY <1>1, <2>2, FS_Subset DEF Room
  <2>. QED  BY <1>3, <2>3 DEF AddBreakpoint
<1>. QED  BY <1>2, <1>3

\* Every edit, step and stop keeps the core in step with the list.
LEMMA EnabledPreserved ==
  ASSUME Room, TypeInv, EnabledReachCore, [DebugNext]_debugVars
  PROVE  EnabledReachCore'
<1>1. dbg \in DebugType /\ Table(dbg) /\ RestTypeOK
  BY TypeInvParts
<1>2. ASSUME dbg'.bps = dbg.bps, UNCHANGED << list, suppressed >>
      PROVE  EnabledReachCore'
  BY <1>2 DEF EnabledReachCore, Enabled
<1>3. CASE Pause
  BY <1>1, <1>2, <1>3, CommandsKeepBreakpoints DEF Pause
<1>4. CASE Continue
  BY <1>1, <1>2, <1>4, CommandsKeepBreakpoints DEF Continue
<1>5. CASE StepCommands
  <2>1. PICK name \in CommandNames : StepCommand(name, dbg')
    BY <1>5, StepCommandsAre
  <2>2. dbg'.bps = IF Suppresses THEN dbg.bps \ {shownPc} ELSE dbg.bps
    BY <1>5, StepCommandsAre, StepCommandTable, UnblockedTable
  <2>3. CASE Suppresses
    <3>1. suppressed = None /\ suppressed' = shownPc /\ UNCHANGED list
      BY <2>1, <2>3 DEF StepCommand, Suppresses
    <3>2. None \notin BpAddrs
      BY DebugCoreAssumption, DebugHostAssumption
    <3>. QED  BY <2>2, <2>3, <3>1, <3>2 DEF EnabledReachCore, Enabled
  <2>4. CASE ~Suppresses
    BY <1>2, <2>1, <2>2, <2>4 DEF StepCommand
  <2>. QED  BY <2>3, <2>4
<1>6. ASSUME NEW a \in BpAddrs, EnableBreakpoint(a)
      PROVE  EnabledReachCore'
  <2>1. dbg'.bps = dbg.bps \cup {a}
    BY <1>1, <1>6, AddReaches DEF EnableBreakpoint
  <2>2. Enabled' \subseteq Enabled \cup {a} /\ UNCHANGED suppressed
    BY <1>1, <1>6 DEF EnableBreakpoint, Enabled, RestTypeOK
  <2>. QED  BY <2>1, <2>2 DEF EnabledReachCore
<1>7. ASSUME NEW a \in BpAddrs, DisableBreakpoint(a) \/ ForgetBreakpoint(a)
      PROVE  EnabledReachCore'
  <2>1. dbg'.bps = dbg.bps \ {a}
    BY <1>1, <1>7, RemoveKeepsTable DEF DisableBreakpoint, ForgetBreakpoint
  <2>2. Enabled' \subseteq Enabled \ {a} /\ UNCHANGED suppressed
    BY <1>1, <1>7 DEF DisableBreakpoint, ForgetBreakpoint, Enabled, RestTypeOK
  <2>. QED  BY <2>1, <2>2 DEF EnabledReachCore
<1>8. ASSUME dbg'.bps = RestoreSuppressed(dbg).bps, suppressed' = None, UNCHANGED list
      PROVE  EnabledReachCore'
  <2>1. suppressed # None => dbg'.bps = dbg.bps \cup {suppressed}
    BY <1>1, <1>8, AddReaches DEF RestoreSuppressed, RestTypeOK
  <2>2. suppressed = None => dbg'.bps = dbg.bps
    BY <1>8 DEF RestoreSuppressed
  <2>. QED  BY <1>8, <2>1, <2>2 DEF EnabledReachCore, Enabled
<1>9. CASE PollQuiet
  BY <1>2, <1>9 DEF PollQuiet
<1>10. CASE PollStopped
  BY <1>8, <1>10, RestoreTypes DEF PollStopped
<1>11. CASE PollIgnored
  BY <1>8, <1>11, RestoreTypes, CommandsKeepBreakpoints DEF PollIgnored
<1>12. CASE BeginFrame
  BY <1>2, <1>12 DEF BeginFrame, RetroRun
<1>13. CASE Execute
  <2>1. dbg'.bps = dbg.bps
    BY <1>1, <1>13, HookKeeps, WatchHitStep DEF Execute, RunInstr, HookStep, RestTypeOK
  <2>. QED  BY <1>2, <1>13, <2>1 DEF Execute
<1>14. CASE ContinueFrame
  BY <1>1, <1>2, <1>14, FrameLoopTypes DEF ContinueFrame, hostVars
<1>15. CASE Draw
  BY <1>2, <1>15 DEF Draw
<1>16. CASE UNCHANGED debugVars
  BY <1>2, <1>16 DEF debugVars, hostVars
<1>. QED  BY <1>3, <1>4, <1>5, <1>6, <1>7, <1>9, <1>10, <1>11, <1>12,
             <1>13, <1>14, <1>15, <1>16
          DEF DebugNext, User, StepCommands, DebugSystem, Poll

\* While the table of the core has room, every breakpoint shown as enabled is in
\* the core, except the one a step has lifted: no step, stop or edit loses one.
THEOREM EnabledAreInCore ==
  ASSUME IsFiniteSet(BpAddrs), Cardinality(BpAddrs) <= BpMax
  PROVE  DebugSpec => []EnabledReachCore
<1>1. Room
  BY DEF Room
<1>2. DebugInitial => EnabledReachCore
  BY DEF DebugInitial, HostInit, EnabledReachCore, Enabled
<1>3. DebugInv /\ EnabledReachCore /\ [DebugNext]_debugVars => EnabledReachCore'
  BY <1>1, EnabledPreserved DEF DebugInv
<1>. QED  BY <1>2, <1>3, DebugInvHolds, PTL DEF DebugSpec

-----------------------------------------------------------------------------
(* The instruction of a stepi                                              *)

\* Where a stepi stands: not begun, its instruction under way, or over.
StepiPhases ==
  last.cmd = "stepi" =>
    \/ ran = 0 /\ dbg.step_instr
    \/ ran <= 1 /\ dbg.step_instr_after
    \/ ran <= 1 /\ dbg.paused

\* The hook takes a stepi from its first phase to its second, and from there to
\* the pause.
LEMMA HookPhases ==
  ASSUME NEW d \in DebugType, NEW p \in PC
  PROVE  /\ d.step_instr_after => Hook(d, p).paused /\ Hook(d, p).break_now
         /\ d.step_instr /\ ~d.step_instr_after => Hook(d, p).step_instr_after
<1> DEFINE m == Mirrored(d, p)
           a == [d EXCEPT !.step_instr_after = FALSE]
<1>1. m \in DebugType
  BY MirroredStep DEF HookStep
<1>2. a \in DebugType
  BY FlagSteps DEF HookStep
<1>3. d.step_instr_after => Hook(d, p) = Broken(a)
  BY DEF Hook
<1>4. d.step_instr /\ ~d.step_instr_after => Hook(d, p) = StepArmed(m)
  BY DEF Hook
<1> HIDE DEF a, m
<1>5. Broken(a).paused /\ Broken(a).break_now
  BY <1>2 DEF Broken, DebugType
<1>6. StepArmed(m).step_instr_after
  BY <1>1 DEF StepArmed, DebugType
<1>. QED  BY <1>3, <1>4, <1>5, <1>6

\* d is not further back in a stepi than e.
SamePhase(d, e) ==
  /\ e.step_instr = d.step_instr
  /\ e.step_instr_after = d.step_instr_after
  /\ d.paused => e.paused

\* What loses no phase keeps the phases.
LEMMA PhaseKept ==
  ASSUME StepiPhases, SamePhase(dbg, dbg'), UNCHANGED << last, ran >>
  PROVE  StepiPhases'
  BY DEF StepiPhases, SamePhase

\* Edits of the table lose no phase.
LEMMA TablePhase ==
  ASSUME NEW d \in DebugType, NEW a
  PROVE  SamePhase(d, AddBreakpoint(d, a)) /\ SamePhase(d, RemoveBreakpoint(d, a))
  BY DEF SamePhase, AddBreakpoint, RemoveBreakpoint, DebugType

\* Nor does what the poll puts back.
LEMMA RestoredPhase ==
  ASSUME TypeInv
  PROVE  SamePhase(dbg, Consumed(RestoreSuppressed(dbg)))
<1> DEFINE e == RestoreSuppressed(dbg)
<1>1. dbg \in DebugType /\ Table(dbg) /\ suppressed \in BpAddrs \cup {None}
  BY TypeInvParts DEF RestTypeOK
<1>2. e \in DebugType /\ SamePhase(dbg, e)
  BY <1>1, AddKeepsTable, TablePhase DEF RestoreSuppressed, SamePhase
<1> HIDE DEF e
<1>3. SamePhase(e, Consumed(e))
  BY <1>2 DEF SamePhase, Consumed, DebugType
<1>. QED  BY <1>2, <1>3 DEF SamePhase, e

\* A stepi goes forward only.
LEMMA PhasePreserved ==
  ASSUME Ignored = {}, TypeInv, PauseAsksForBreak, StepiPhases, [DebugNext]_debugVars
  PROVE  StepiPhases'
<1>1. dbg \in DebugType /\ Table(dbg) /\ RestTypeOK
  BY TypeInvParts
<1>2. CASE Pause \/ Continue \/ Step \/ NextLine \/ Finish
  <2>1. \E name \in CommandNames \ {"stepi"} : Given(name)
    BY <1>2 DEF Pause, Continue, Step, NextLine, Finish, StepCommand, CommandNames
  <2>2. last'.cmd # "stepi"
    BY <2>1 DEF Given
  <2>. QED  BY <2>2 DEF StepiPhases
<1>3. CASE Stepi
  <2>1. Unblocked \in DebugType
    BY UnblockedTable
  <2>2. StepInstrCmd(Unblocked).step_instr
    <3> DEFINE u == Unblocked
    <3> HIDE DEF u
    <3>1. u \in DebugType => StepInstrCmd(u).step_instr
      BY DEF StepInstrCmd, NotStepping, DebugType
    <3>. QED  BY <2>1, <3>1 DEF u
  <2>. QED  BY <1>3, <2>2 DEF Stepi, StepCommand, Given, StepiPhases
<1>6. ASSUME NEW a \in BpAddrs, EnableBreakpoint(a) \/ DisableBreakpoint(a) \/ ForgetBreakpoint(a)
      PROVE  StepiPhases'
  BY <1>1, <1>6, TablePhase, PhaseKept
     DEF EnableBreakpoint, DisableBreakpoint, ForgetBreakpoint, history
<1>9. CASE PollQuiet \/ BeginFrame \/ Draw \/ UNCHANGED debugVars
  BY <1>9 DEF PollQuiet, BeginFrame, RetroRun, Draw, debugVars, history, StepiPhases
<1>10. CASE PollStopped
  BY <1>10, RestoredPhase, PhaseKept DEF PollStopped, history
<1>11. CASE PollIgnored
  BY <1>11, Ignored = {} DEF PollIgnored
<1>13. CASE Execute
  <2> DEFINE h == Hook(dbg, pc)
  <2>1. pc \in PC /\ ~dbg.break_now /\ at = "head" /\ ~h.break_now
    BY <1>1, <1>13 DEF Execute, RunInstr, RestTypeOK
  <2>2. ~dbg.paused
    BY <2>1 DEF PauseAsksForBreak
  <2>3. ~dbg.step_instr_after /\ (dbg.step_instr => h.step_instr_after)
    BY <1>1, <2>1, HookPhases
  <2>4. h \in DebugType /\ dbg' \in {h, WatchHit(h)}
    BY <1>1, <1>13, <2>1, HookKeeps DEF Execute, RunInstr, HookStep
  <2> HIDE DEF h
  <2>5. WatchHit(h).step_instr_after = h.step_instr_after
    BY <2>4 DEF WatchHit, Broken, DebugType
  <2>6. last.cmd = "stepi" => ran = 0 /\ dbg.step_instr
    BY <2>2, <2>3 DEF StepiPhases
  <2>7. last' = last /\ (ran = 0 => ran' = 1)
    BY <1>13 DEF Execute
  <2>. QED  BY <2>3, <2>4, <2>5, <2>6, <2>7 DEF StepiPhases
<1>14. CASE ContinueFrame
  <2>1. UNCHANGED << last, ran >>
    BY <1>14 DEF ContinueFrame, history
  <2>2. CASE StopBefore
    <3>1. pc \in PC /\ dbg' = Hook(dbg, pc) /\ ~dbg.paused
      BY <1>1, <2>2 DEF StopBefore, RestTypeOK, PauseAsksForBreak
    <3>. QED  BY <1>1, <2>1, <3>1, HookPhases DEF StepiPhases
  <2>3. CASE BreakNow \/ EndFrame
    <3>1. SamePhase(dbg, dbg')
      BY <1>1, <2>3 DEF BreakNow, EndFrame, EndOfFrameUpdate, SamePhase, DebugType
    <3>. QED  BY <2>1, <3>1, PhaseKept
  <2>4. CASE Z80Stop
    <3>1. dbg'.paused
      BY <1>1, <2>4, CommandsKeepType DEF Z80Stop, BreakImmediate, NotStepping, DebugType
    <3>. QED  BY <2>1, <3>1 DEF StepiPhases
  <2>5. CASE TakeInterrupt \/ SliceEnds
    BY <2>1, <2>5 DEF TakeInterrupt, SliceEnds, StepiPhases
  <2>. QED  BY <1>14, <2>2, <2>3, <2>4, <2>5 DEF ContinueFrame, FrameLoop
<1>. QED  BY <1>2, <1>3, <1>6, <1>9, <1>10, <1>11, <1>13, <1>14
          DEF DebugNext, User, DebugSystem, Poll

\* stepi executes one instruction at the most, whatever interrupts, frame
\* boundaries, breakpoints, watchpoints and Z80 breakpoints it meets, as long as
\* no watchpoint is on the ignore list (poll then resumes what stepi had ended).
THEOREM StepiRunsOne ==
  ASSUME Ignored = {}
  PROVE  DebugSpec => []StepInstrRunsOne
<1>1. DebugInitial => StepiPhases
  BY DEF DebugInitial, HostInit, StepiPhases
<1>2. DebugInv /\ StepiPhases /\ [DebugNext]_debugVars => StepiPhases'
  BY PhasePreserved DEF DebugInv
<1>3. DebugInv /\ StepiPhases => StepInstrRunsOne
  BY DEF DebugInv, TypeInv, DebugTypeOK, StepiPhases, StepInstrRunsOne
<1>. QED  BY <1>1, <1>2, <1>3, DebugInvHolds, PTL DEF DebugSpec
-----------------------------------------------------------------------------
(* The depth of a next                                                     *)

\* What a `next' counts by.
SameDepths(d, e) ==
  /\ e.step_next = d.step_next /\ e.callstack_depth = d.callstack_depth
  /\ d.paused => e.paused
  /\ e.paused \/ e.break_now = d.break_now

\* By how much an instruction moves the depth of the stack.
Moves(p) == IF Op[p] = "call" THEN 1 ELSE IF Op[p] = "plain" THEN 0 ELSE -1

\* Setting a flag of the hook moves no depth, and breaking pauses.
LEMMA FlagDepths ==
  ASSUME NEW d \in DebugType
  PROVE  /\ SameDepths(d, Broken(d)) /\ SameDepths(d, StepArmed(d))
         /\ SameDepths(d, [d EXCEPT !.next_skip_once = FALSE])
         /\ SameDepths(d, [d EXCEPT !.out_skip_once = FALSE])
         /\ \A v : SameDepths(d, [d EXCEPT !.next_return = v])
         /\ SameDepths(d, [d EXCEPT !.break_requested = TRUE])
         /\ SameDepths(d, [d EXCEPT !.step_instr_after = FALSE])
         /\ Broken(d).paused
  BY DEF SameDepths, Broken, StepArmed, DebugType

\* The mirror moves as the stack will, unless it is full or empty.
LEMMA MirroredDepth ==
  ASSUME NEW d \in DebugType, NEW p \in PC, NEW m, m = Mirrored(d, p)
  PROVE  /\ m.step_next = d.step_next /\ m.break_now = d.break_now /\ m.paused = d.paused
         /\ m.callstack_depth \in Nat
         /\ d.callstack_depth < StackMax => m.callstack_depth >= d.callstack_depth + Moves(p)
         /\ Op[p] \in {"ret", "rte"} \/ m.callstack_depth >= d.callstack_depth
         /\ Op[p] \in {"ret", "rte"} /\ d.step_next # None => m.next_skip_once
<1>0. /\ d.callstack_depth \in Nat /\ StackMax \in Nat
      /\ Op[p] \in {"plain", "call", "ret", "rte"}
  BY DebugCoreAssumption DEF DebugType
<1>1. CASE Op[p] = "call"
  <2>1. m = IF d.callstack_depth < StackMax
            THEN [d EXCEPT !.callstack_depth = @ + 1] ELSE d
    BY <1>1 DEF Mirrored
  <2>. QED  BY <1>0, <1>1, <2>1 DEF Moves, DebugType
<1>2. CASE Op[p] \in {"ret", "rte"}
  <2> DEFINE c == IF d.callstack_depth > 0 THEN d.callstack_depth - 1 ELSE 0
             s == d.next_skip_once \/ d.step_next # None
             o == d.out_skip_once \/ d.step_out # None
  <2>1. m = [d EXCEPT !.callstack_depth = c, !.next_skip_once = s, !.out_skip_once = o]
    BY <1>2 DEF Mirrored, DebugType
  <2>2. c \in Nat /\ c >= d.callstack_depth - 1
    BY <1>0
  <2>3. d.step_next # None => s
    OBVIOUS
  <2> HIDE DEF c, s, o
  <2>4. m.step_next = d.step_next /\ m.callstack_depth = c /\ m.next_skip_once = s
        /\ m.break_now = d.break_now /\ m.paused = d.paused
    BY <2>1 DEF DebugType
  <2>5. Moves(p) = -1
    BY <1>2 DEF Moves
  <2>. QED  BY <1>0, <1>2, <2>2, <2>3, <2>4, <2>5
<1>3. CASE Op[p] = "plain"
  <2>1. m = d
    BY <1>3 DEF Mirrored
  <2>. QED  BY <1>0, <1>3, <2>1 DEF Moves
<1>. QED  BY <1>0, <1>1, <1>2, <1>3

\* A next is over, at the hook, only where the mirror is no deeper than it was
\* when the next was given; as long as it is under way the mirror moves as the
\* stack will.
LEMMA HookDepth ==
  ASSUME NEW d \in DebugType, NEW p \in PC, d.step_next # None,
         NEW h, h = Hook(d, p)
  PROVE  /\ h.paused \/ h.break_now = d.break_now
         /\ h.step_next = None => d.callstack_depth <= d.step_next
         /\ ~h.paused => h.step_next = d.step_next
         /\ ~h.paused /\ d.callstack_depth < StackMax =>
              h.callstack_depth >= d.callstack_depth + Moves(p)
<1> DEFINE m == Mirrored(d, p)
           n == StepOverCall(m, p)
           a == [d EXCEPT !.step_instr_after = FALSE]
<1>0. /\ m \in DebugType /\ n \in DebugType /\ a \in DebugType
      /\ d.step_next \in Nat /\ d.callstack_depth \in Nat
  <2>1. m \in DebugType /\ a \in DebugType
    BY MirroredStep, FlagSteps DEF HookStep
  <2> HIDE DEF m, a
  <2>2. n \in DebugType
    BY <2>1, StepOverCallStep DEF HookStep
  <2>3. d.step_next \in Nat /\ d.callstack_depth \in Nat
    BY DEF DebugType
  <2>. QED  BY <2>1, <2>2, <2>3
<1>1. /\ m.step_next = d.step_next /\ m.callstack_depth \in Nat
      /\ m.break_now = d.break_now /\ m.paused = d.paused
      /\ d.callstack_depth < StackMax => m.callstack_depth >= d.callstack_depth + Moves(p)
      /\ Op[p] \in {"ret", "rte"} \/ m.callstack_depth >= d.callstack_depth
      /\ Op[p] \in {"ret", "rte"} => m.next_skip_once
  BY MirroredDepth
<1>2. n = m \/ \E v : n = [m EXCEPT !.next_return = v]
  BY DEF StepOverCall
<1>3. h = IF d.step_instr_after THEN Broken(a)
          ELSE IF d.step_instr THEN StepArmed(m)
          ELSE IF n.step_next # None /\ n.next_skip_once
            THEN [n EXCEPT !.next_skip_once = FALSE]
          ELSE IF n.step_out # None /\ n.out_skip_once
            THEN [n EXCEPT !.out_skip_once = FALSE]
          ELSE LineOrBreakpoint(n, p)
  BY DEF Hook, StepsInto
<1> HIDE DEF m, n, a
<1>4. SameDepths(m, n) /\ n.next_skip_once = m.next_skip_once
  BY <1>0, <1>2, FlagDepths DEF DebugType, SameDepths
<1>5. CASE d.step_instr_after
  <2>1. h = Broken(a) /\ SameDepths(a, h) /\ h.paused
    BY <1>0, <1>3, <1>5, FlagDepths
  <2>2. SameDepths(d, a)
    BY FlagDepths DEF a
  <2>. QED  BY <2>1, <2>2 DEF SameDepths
<1>6. CASE ~d.step_instr_after /\ d.step_instr
  <2>1. h = StepArmed(m) /\ SameDepths(m, h)
    BY <1>0, <1>3, <1>6, FlagDepths
  <2>. QED  BY <1>1, <2>1 DEF SameDepths
<1>7. CASE \/ h = [n EXCEPT !.next_skip_once = FALSE]
           \/ h = [n EXCEPT !.out_skip_once = FALSE]
  <2>1. SameDepths(n, h)
    BY <1>0, <1>7, FlagDepths
  <2>. QED  BY <1>1, <1>4, <2>1 DEF SameDepths
<1>8. CASE h = LineOrBreakpoint(n, p) /\ ~(n.step_next # None /\ n.next_skip_once)
  <2> DEFINE e == IF n.next_return = p THEN [n EXCEPT !.next_return = None] ELSE n
             f == [e EXCEPT !.step_line = FALSE, !.step_next = None,
                            !.step_out = None, !.into_pending = FALSE]
             g == [e EXCEPT !.break_requested = TRUE]
  <2>1. n.step_next # None /\ ~n.next_skip_once /\ n.callstack_depth >= d.callstack_depth
        /\ n.step_next = d.step_next
    BY <1>1, <1>4, <1>8 DEF SameDepths
  <2>2. e \in DebugType /\ SameDepths(n, e)
    <3>1. SameDepths(n, n)
      BY DEF SameDepths
    <3>2. SameDepths(n, [n EXCEPT !.next_return = None])
      BY <1>0, FlagDepths
    <3>3. [n EXCEPT !.next_return = None] \in DebugType
      BY <1>0, FlagSteps DEF HookStep
    <3>. QED  BY <1>0, <3>1, <3>2, <3>3
  <2>3. h = IF LineReached(n, p) THEN Broken(f)
            ELSE IF p \in n.bps THEN Broken(g) ELSE e
    BY <1>8 DEF LineOrBreakpoint
  <2> HIDE DEF e
  <2>4. f \in DebugType /\ g \in DebugType /\ SameDepths(e, g)
    BY <2>2, FlagSteps, FlagDepths DEF HookStep
  <2> HIDE DEF f, g
  <2>5. CASE LineReached(n, p)
    <3>1. h.paused
      BY <2>3, <2>4, <2>5, FlagDepths
    <3>2. n.callstack_depth <= n.step_next
      BY <2>1, <2>5 DEF LineReached, AtDepth
    <3>3. d.callstack_depth <= d.step_next
      BY <1>0, <1>1, <1>4, <2>1, <3>2 DEF SameDepths
    <3>. QED  BY <3>1, <3>3
  <2>6. CASE ~LineReached(n, p) /\ p \in n.bps
    <3>1. h = Broken(g) /\ h.paused /\ SameDepths(g, h)
      BY <2>3, <2>4, <2>6, FlagDepths
    <3>. QED  BY <2>1, <2>2, <2>4, <3>1 DEF SameDepths
  <2>7. CASE h = e
    BY <1>1, <1>4, <2>1, <2>2, <2>7 DEF SameDepths
  <2>. QED  BY <2>3, <2>5, <2>6, <2>7
<1>. QED  BY <1>3, <1>5, <1>6, <1>7, <1>8

\* Every command but next ends a next, and next takes the depth of the mirror.
LEMMA CommandDepths ==
  ASSUME NEW d \in DebugType, NEW p
  PROVE  /\ Resumed(d).step_next = None /\ BreakImmediate(d).step_next = None
         /\ StepInstrCmd(d).step_next = None /\ StepLineCmd(d, p).step_next = None
         /\ StepOutCmd(d, p).step_next = None
         /\ StepNextCmd(d, p).step_next = d.callstack_depth
         /\ StepNextCmd(d, p).callstack_depth = d.callstack_depth
<1> DEFINE l == StepLineCmd(d, p)
           s == IF d.callstack_depth > 0 THEN d.callstack_depth - 1 ELSE 0
           r == CallReturn(p)
<1>1. /\ Resumed(d).step_next = None /\ BreakImmediate(d).step_next = None
      /\ StepInstrCmd(d).step_next = None
  BY DEF Resumed, BreakImmediate, StepInstrCmd, NotStepping, DebugType
<1>2. l.step_next = None /\ l.callstack_depth = d.callstack_depth
      /\ DOMAIN l = DOMAIN d
  BY DEF StepLineCmd, NotStepping, DebugType
<1>3. StepOutCmd(d, p) = [l EXCEPT !.step_out = s]
  BY DEF StepOutCmd
<1>4. StepNextCmd(d, p) = [l EXCEPT !.step_next = d.callstack_depth, !.next_return = r]
  BY DEF StepNextCmd
<1>5. "step_next" \in DOMAIN l /\ "callstack_depth" \in DOMAIN l
  BY <1>2 DEF DebugType
<1> HIDE DEF l, s, r
<1>. QED  BY <1>1, <1>2, <1>3, <1>4, <1>5 DEF l

\* Where no next is under way the hook starts none.
LEMMA NoNext ==
  ASSUME NEW d \in DebugType, NEW p \in PC, d.step_next = None
  PROVE  Hook(d, p).step_next = None
<1> DEFINE m == Mirrored(d, p)
           n == StepOverCall(m, p)
           a == [d EXCEPT !.step_instr_after = FALSE]
           i == [m EXCEPT !.into_pending = FALSE]
           j == [m EXCEPT !.into_pending = TRUE]
           k == [n EXCEPT !.next_skip_once = FALSE]
           l == [n EXCEPT !.out_skip_once = FALSE]
           h == LineOrBreakpoint(n, p)
<1>0. \A x \in DebugType : x.step_next = None =>
        /\ Broken(x).step_next = None /\ StepArmed(x).step_next = None
        /\ [x EXCEPT !.next_skip_once = FALSE].step_next = None
        /\ [x EXCEPT !.out_skip_once = FALSE].step_next = None
        /\ \A v : [x EXCEPT !.next_return = v].step_next = None
        /\ \A v : [x EXCEPT !.into_pending = v].step_next = None
        /\ [x EXCEPT !.break_requested = TRUE].step_next = None
  BY DEF Broken, StepArmed, DebugType
<1>1. m \in DebugType /\ m.step_next = None
  <2>1. m \in DebugType
    BY MirroredStep DEF HookStep
  <2>2. m.step_next = d.step_next
    BY MirroredDepth
  <2>. QED  BY <2>1, <2>2
<1>2. Broken(a).step_next = None
  <2>1. a \in DebugType /\ a.step_next = None
    BY DEF DebugType
  <2> HIDE DEF a
  <2>. QED  BY <1>0, <2>1
<1>3. Hook(d, p) \in {Broken(a), StepArmed(m), Broken(i), j, k, l, h}
  BY DEF Hook
<1> HIDE DEF m, a
<1>4. StepArmed(m).step_next = None /\ j.step_next = None
  BY <1>0, <1>1
<1>5. Broken(i).step_next = None
  <2>1. i \in DebugType /\ i.step_next = None
    <3>1. i \in DebugType
      BY <1>1, FlagSteps DEF HookStep
    <3>. QED  BY <1>0, <1>1, <3>1
  <2> HIDE DEF i
  <2>. QED  BY <1>0, <2>1
<1>6. n \in DebugType /\ n.step_next = None
  <2>1. n \in DebugType
    BY <1>1, StepOverCallStep DEF HookStep
  <2>2. n = m \/ \E v : n = [m EXCEPT !.next_return = v]
    BY DEF StepOverCall
  <2> HIDE DEF n
  <2>. QED  BY <1>0, <1>1, <2>1, <2>2
<1> HIDE DEF n
<1>7. k.step_next = None /\ l.step_next = None
  BY <1>0, <1>6
<1>8. h.step_next = None
  <2> DEFINE e == IF n.next_return = p THEN [n EXCEPT !.next_return = None] ELSE n
             f == [e EXCEPT !.step_line = FALSE, !.step_next = None,
                            !.step_out = None, !.into_pending = FALSE]
             g == [e EXCEPT !.break_requested = TRUE]
  <2>1. e \in DebugType /\ e.step_next = None
    <3>1. [n EXCEPT !.next_return = None] \in DebugType
      BY <1>6, FlagSteps DEF HookStep
    <3>2. [n EXCEPT !.next_return = None].step_next = None
      BY <1>0, <1>6
    <3>. QED  BY <1>6, <3>1, <3>2
  <2>2. h \in {Broken(f), Broken(g), e}
    BY DEF LineOrBreakpoint
  <2> HIDE DEF e
  <2>3. f \in DebugType /\ g \in DebugType
    BY <2>1, FlagSteps DEF HookStep
  <2>4. f.step_next = None
    BY <2>1 DEF DebugType
  <2>5. g.step_next = None
    BY <1>0, <2>1
  <2> HIDE DEF f, g, h
  <2>. QED  BY <1>0, <2>1, <2>2, <2>3, <2>4, <2>5
<1> HIDE DEF i, j, k, l, h
<1>. QED  BY <1>2, <1>3, <1>4, <1>5, <1>7, <1>8

\* While a next is under way the machine is no deeper, compared with where the
\* next was given, than the mirror says.
NextKept ==
  dbg.step_next # None /\ ~dbg.paused =>
    dbg.callstack_depth - dbg.step_next >= Len(stack) - last.depth

\* Between the frames nothing is executed.
FrameIsOver == loop # "frame" => at = "idle"

\* What moves neither depth keeps a next as it is.
LEMMA DepthKept ==
  ASSUME NextKept, SameDepths(dbg, dbg'), UNCHANGED << stack, last >>
  PROVE  NextKept'
  BY DEF NextKept, SameDepths

\* The commands about breakpoints move no depth.
LEMMA TableDepths ==
  ASSUME NEW d \in DebugType, NEW b
  PROVE  /\ SameDepths(d, AddBreakpoint(d, b)) /\ AddBreakpoint(d, b).paused = d.paused
         /\ SameDepths(d, RemoveBreakpoint(d, b)) /\ RemoveBreakpoint(d, b).paused = d.paused
  BY DEF SameDepths, AddBreakpoint, RemoveBreakpoint, DebugType

\* Nor does putting the lifted breakpoint back.
LEMMA RestoredDepths ==
  ASSUME TypeInv
  PROVE  /\ Consumed(RestoreSuppressed(dbg)) \in DebugType
         /\ SameDepths(dbg, Consumed(RestoreSuppressed(dbg)))
         /\ Consumed(RestoreSuppressed(dbg)).paused = dbg.paused
<1> DEFINE e == RestoreSuppressed(dbg)
<1>1. dbg \in DebugType /\ Table(dbg) /\ suppressed \in BpAddrs \cup {None}
  BY TypeInvParts DEF RestTypeOK
<1>2. e \in DebugType /\ SameDepths(dbg, e) /\ e.paused = dbg.paused
  BY <1>1, AddKeepsTable, TableDepths DEF RestoreSuppressed, SameDepths
<1> HIDE DEF e
<1>3. Consumed(e) \in DebugType /\ SameDepths(e, Consumed(e)) /\ Consumed(e).paused = e.paused
  BY <1>2 DEF SameDepths, Consumed, DebugType
<1>. QED  BY <1>2, <1>3 DEF SameDepths, e

\* The stack moves with what is executed.
LEMMA StackMoves ==
  ASSUME TypeInv, Plain \/ Call \/ Return
  PROVE  Len(stack') = Len(stack) + Moves(pc) /\ Len(stack) \in Nat
<1>1. stack \in Seq([return : PC, irq : BOOLEAN]) /\ pc \in PC
  BY TypeInvParts DEF RestTypeOK
<1>2. Len(stack) \in Nat
  BY <1>1
<1>3. CASE Plain
  BY <1>2, <1>3 DEF Plain, Moves
<1>4. CASE Call
  BY <1>1, <1>2, <1>4 DEF Call, Moves
<1>5. CASE Return
  <2>1. stack # << >> /\ stack' = SubSeq(stack, 1, Len(stack) - 1)
    BY <1>5 DEF Return
  <2> DEFINE S == [return : PC, irq : BOOLEAN]
             k == Len(stack) - 1
  <2>2. k \in Nat /\ Len(stack) = k + 1
    BY <1>1, <1>2, <2>1, EmptySeq
  <2>3. stack' = SubSeq(stack, 1, k) /\ stack \in Seq(S)
    BY <1>1, <2>1
  <2> HIDE DEF k, S
  <2>4. \A i \in 1 .. Len(stack) : stack[i] \in S
    BY <2>3, ElementOfSeq
  <2>5. \A i \in 1 .. k : stack[i] \in S
    BY <2>2, <2>4
  <2>6. Len(SubSeq(stack, 1, k)) = IF 1 <= k THEN k - 1 + 1 ELSE 0
    BY <2>2, <2>5, SubSeqProperties
  <2>7. Len(stack') = k
    BY <2>2, <2>3, <2>6
  <2>. QED  BY <1>5, <2>2, <2>7 DEF Return, Moves
<1>. QED  BY <1>2, <1>3, <1>4, <1>5

\* Every step keeps a next within the depth of the mirror, while that is not full.
LEMMA DepthPreserved ==
  ASSUME Handler = None, TypeInv, PauseAsksForBreak, NextKept, FrameIsOver,
         dbg.callstack_depth < StackMax, [DebugNext]_debugVars
  PROVE  NextKept' /\ FrameIsOver'
<1>1. /\ dbg \in DebugType /\ Table(dbg) /\ RestTypeOK /\ pc \in PC
      /\ Len(stack) \in Nat /\ last.depth \in Nat
  BY TypeInvParts DEF RestTypeOK
<1>2. FrameIsOver'
  BY DEF FrameIsOver, DebugNext, User, Pause, Continue, Step, NextLine, Stepi, Finish, StepCommand,
         Given, EnableBreakpoint, DisableBreakpoint, ForgetBreakpoint, DebugSystem, Poll,
         PollQuiet, PollStopped, PollIgnored, BeginFrame, Execute, ContinueFrame, Draw, hostVars,
         debugVars
<1>3. CASE Pause \/ Continue
  <2>1. dbg'.step_next = None
    BY <1>1, <1>3, CommandDepths DEF Pause, Continue
  <2>. QED  BY <1>2, <2>1 DEF NextKept
<1>4. CASE StepCommands
  <2> DEFINE u == Unblocked
  <2>1. u \in DebugType /\ u.callstack_depth = dbg.callstack_depth
    BY <1>1, UnblockedTable, TableDepths DEF Unblocked, SameDepths
  <2> HIDE DEF u
  <2>2. CASE NextLine
    <3>1. dbg' = StepNextCmd(u, pc) /\ last'.depth = Len(stack) /\ stack' = stack
      BY <2>2 DEF NextLine, StepCommand, Given, u
    <3>2. dbg'.step_next = dbg.callstack_depth /\ dbg'.callstack_depth = dbg.callstack_depth
      BY <2>1, <3>1, CommandDepths
    <3>3. dbg.callstack_depth \in Nat
      BY <1>1 DEF DebugType
    <3>. QED  BY <1>1, <1>2, <3>1, <3>2, <3>3 DEF NextKept
  <2>3. CASE Step \/ Stepi \/ Finish
    <3>1. dbg'.step_next = None
      BY <2>1, <2>3, CommandDepths DEF Step, Stepi, Finish, StepCommand, u
    <3>. QED  BY <1>2, <3>1 DEF NextKept
  <2>. QED  BY <1>4, <2>2, <2>3 DEF StepCommands
<1>5. ASSUME NEW b \in BpAddrs, EnableBreakpoint(b) \/ DisableBreakpoint(b) \/ ForgetBreakpoint(b)
      PROVE  NextKept'
  BY <1>1, <1>5, TableDepths, DepthKept
     DEF EnableBreakpoint, DisableBreakpoint, ForgetBreakpoint, history
<1>6. CASE PollQuiet \/ BeginFrame \/ Draw \/ UNCHANGED debugVars
  BY <1>2, <1>6 DEF PollQuiet, BeginFrame, RetroRun, Draw, debugVars, history, NextKept
<1>7. CASE PollStopped
  BY <1>2, <1>7, RestoredDepths, DepthKept DEF PollStopped, history
<1>8. CASE PollIgnored
  <2>1. dbg'.step_next = None
    BY <1>8, RestoredDepths, CommandDepths DEF PollIgnored
  <2>. QED  BY <1>2, <2>1 DEF NextKept
<1>9. CASE Execute
  <2> DEFINE h == Hook(dbg, pc)
  <2>1. /\ ~dbg.break_now /\ at = "head" /\ ~h.break_now /\ last' = last
        /\ Plain \/ Call \/ Return
    BY <1>9 DEF Execute, RunInstr
  <2>2. ~dbg.paused
    BY <2>1 DEF PauseAsksForBreak
  <2>3. h \in DebugType /\ dbg' \in {h, WatchHit(h)}
    BY <1>1, <1>9, HookKeeps DEF Execute, RunInstr, HookStep
  <2>4. Len(stack') = Len(stack) + Moves(pc)
    BY <2>1, StackMoves
  <2>5. SUFFICES ASSUME dbg'.step_next # None, ~dbg'.paused
                 PROVE  dbg'.callstack_depth - dbg'.step_next >= Len(stack') - last'.depth
    BY <1>2 DEF NextKept
  <2>6. dbg' = h
    <3> HIDE DEF h
    <3>1. WatchHit(h) = h \/ WatchHit(h).paused
      BY <2>3 DEF WatchHit, Broken, DebugType
    <3>. QED  BY <2>3, <2>5, <3>1
  <2>7. dbg.step_next # None
    BY <1>1, <2>5, <2>6, NoNext
  <2>8. /\ h.step_next = dbg.step_next
        /\ h.callstack_depth >= dbg.callstack_depth + Moves(pc)
    BY <1>1, <2>5, <2>6, <2>7, HookDepth
  <2>9. dbg.callstack_depth - dbg.step_next >= Len(stack) - last.depth
    BY <2>2, <2>7 DEF NextKept
  <2>10. /\ dbg.callstack_depth \in Nat /\ dbg.step_next \in Nat /\ h.callstack_depth \in Nat
         /\ Moves(pc) \in Int
    BY <1>1, <2>3, <2>7 DEF DebugType, Moves
  <2> HIDE DEF h
  <2>. QED  BY <1>1, <2>1, <2>4, <2>6, <2>8, <2>9, <2>10
<1>10. CASE ContinueFrame
  <2>1. last' = last
    BY <1>10 DEF ContinueFrame, history
  <2>2. CASE StopBefore
    <3> DEFINE h == Hook(dbg, pc)
    <3>1. dbg' = h /\ h.break_now /\ ~dbg.break_now /\ ~dbg.paused /\ stack' = stack
      BY <2>2 DEF StopBefore, PauseAsksForBreak
    <3>2. CASE dbg.step_next = None
      BY <1>1, <1>2, <3>1, <3>2, NoNext DEF NextKept
    <3>3. CASE dbg.step_next # None
      <4>1. h.paused
        BY <1>1, <3>1, <3>3, HookDepth
      <4>. QED  BY <1>2, <3>1, <4>1 DEF NextKept
    <3>. QED  BY <3>2, <3>3
  <2>3. CASE BreakNow
    <3>1. dbg' = [dbg EXCEPT !.break_now = FALSE] /\ stack' = stack
      BY <2>3 DEF BreakNow
    <3>2. /\ dbg'.step_next = dbg.step_next /\ dbg'.callstack_depth = dbg.callstack_depth
          /\ dbg'.paused = dbg.paused
      BY <1>1, <3>1 DEF DebugType
    <3>. QED  BY <1>2, <2>1, <3>1, <3>2 DEF NextKept
  <2>4. CASE EndFrame
    <3>1. SameDepths(dbg, dbg') /\ (dbg.paused => dbg'.paused) /\ stack' = stack
      BY <1>1, <2>4 DEF EndFrame, EndOfFrameUpdate, SameDepths, DebugType
    <3>. QED  BY <1>2, <2>1, <3>1, DepthKept
  <2>5. CASE Z80Stop
    <3> DEFINE b == BreakImmediate(dbg)
    <3>1. dbg' = [b EXCEPT !.break_now = FALSE]
      BY <2>5 DEF Z80Stop
    <3>2. b \in DebugType /\ b.step_next = None
      BY <1>1, CommandsKeepType, CommandDepths
    <3> HIDE DEF b
    <3>3. dbg'.step_next = None
      BY <3>1, <3>2 DEF DebugType
    <3>. QED  BY <1>2, <3>3 DEF NextKept
  <2>6. CASE TakeInterrupt \/ SliceEnds
    BY <1>2, <2>1, <2>6, Handler = None DEF TakeInterrupt, SliceEnds, NextKept
  <2>. QED  BY <1>2, <1>10, <2>2, <2>3, <2>4, <2>5, <2>6 DEF ContinueFrame, FrameLoop
<1>. QED  BY <1>2, <1>3, <1>4, <1>5, <1>6, <1>7, <1>8, <1>9, <1>10
          DEF DebugNext, User, StepCommands, DebugSystem, Poll

\* A next that ends on a line ends in the function it was given in or in a caller,
\* without interrupts and as long as the mirror call stack is not full: although
\* the mirror counts calls and returns that are not executed, and may be anywhere,
\* it never falls behind the stack while a next is under way.
THEOREM NextStaysUp ==
  ASSUME Handler = None
  PROVE  DebugSpec /\ [](dbg.callstack_depth < StackMax) => NextSameDepth
<1>1. DebugInitial => NextKept /\ FrameIsOver
  BY DEF DebugInitial, CoreInit, HostInit, DebugInit, NextKept, FrameIsOver
<1>2. DebugInv /\ NextKept /\ FrameIsOver /\ dbg.callstack_depth < StackMax
        /\ [DebugNext]_debugVars => NextKept' /\ FrameIsOver'
  BY DepthPreserved DEF DebugInv
<1>3. ASSUME DebugInv, NextKept, FrameIsOver, [DebugNext]_debugVars,
             dbg.step_next # None, dbg'.step_next = None, at = "head",
             ~dbg'.break_requested
      PROVE  Len(stack') <= last.depth
  <2>1. /\ dbg \in DebugType /\ RestTypeOK /\ pc \in PC /\ TypeInv /\ PauseAsksForBreak
        /\ Len(stack) \in Nat /\ last.depth \in Nat /\ loop = "frame"
    BY <1>3, TypeInvParts DEF DebugInv, RestTypeOK, FrameIsOver
  <2>2. Execute \/ ContinueFrame \/ Draw \/ UNCHANGED debugVars
    BY <1>3, <2>1 DEF DebugNext, User, Pause, Continue, Step, NextLine, Stepi, Finish, StepCommand,
         Given, EnableBreakpoint, DisableBreakpoint, ForgetBreakpoint, DebugSystem, Poll,
         PollQuiet, PollStopped, PollIgnored, BeginFrame
  <2>3. /\ ~dbg.break_now /\ (StopBefore \/ RunInstr)
    <3>1. CASE Draw \/ UNCHANGED debugVars
      BY <1>3, <3>1 DEF Draw, debugVars
    <3>2. CASE ContinueFrame /\ ~StopBefore
      <4>1. BreakNow \/ TakeInterrupt
        BY <1>3, <3>2 DEF ContinueFrame, FrameLoop, Z80Stop, SliceEnds, EndFrame
      <4>2. dbg'.step_next = dbg.step_next
        BY <2>1, <4>1 DEF BreakNow, TakeInterrupt, DebugType
      <4>. QED  BY <1>3, <4>2
    <3>. QED  BY <2>2, <3>1, <3>2 DEF Execute, ContinueFrame, StopBefore, RunInstr
  <2>4. ~dbg.paused
    BY <1>3, <2>1, <2>3 DEF PauseAsksForBreak
  <2>5. dbg.callstack_depth - dbg.step_next >= Len(stack) - last.depth
    BY <1>3, <2>4 DEF NextKept
  <2>6. dbg.callstack_depth \in Nat /\ dbg.step_next \in Nat
    BY <1>3, <2>1 DEF DebugType
  <2> DEFINE h == Hook(dbg, pc)
  <2>7. CASE StopBefore
    <3>1. h.step_next = None /\ stack' = stack
      BY <1>3, <2>7 DEF StopBefore
    <3>2. dbg.callstack_depth <= dbg.step_next
      BY <1>3, <2>1, <3>1, HookDepth
    <3>. QED  BY <2>1, <2>5, <2>6, <3>1, <3>2
  <2>8. CASE RunInstr
    <3>1. h \in DebugType /\ dbg' \in {h, WatchHit(h)} /\ ~h.break_now
      BY <2>1, <2>8, HookKeeps DEF RunInstr, HookStep
    <3>2. ~h.paused
      BY <2>1, <2>4, <3>1, HookKeeps DEF HookStep
    <3>3. h.step_next = dbg.step_next
      BY <1>3, <2>1, <3>2, HookDepth
    <3> HIDE DEF h
    <3>4. WatchHit(h).step_next = h.step_next
      BY <3>1 DEF WatchHit, Broken, DebugType
    <3>. QED  BY <1>3, <3>1, <3>3, <3>4
  <2>. QED  BY <2>3, <2>7, <2>8
<1>4. DebugInv /\ NextKept /\ FrameIsOver /\ [DebugNext]_debugVars
        => [(dbg.step_next # None /\ dbg'.step_next = None /\ at = "head"
               /\ ~dbg'.break_requested) => Len(stack') <= last.depth]_debugVars
  BY <1>3
<1>. QED  BY <1>1, <1>2, <1>4, DebugInvHolds, PTL DEF DebugSpec, NextSameDepth
=============================================================================
