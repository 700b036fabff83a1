----------------------------- MODULE DebugHost -----------------------------
(***************************************************************************)
(* The debugger program in front of the core: the main loop of             *)
(* src/e9k-debugger/runtime.c, the commands of ui.c and the console, the   *)
(* breakpoint list of machine.c and breakpoints.c, and the breakpoint that *)
(* is lifted while a step leaves it (debugger.c).                          *)
(*                                                                         *)
(* One turn of the loop handles the pending events, asks the core whether  *)
(* it is paused, runs at most one frame, and draws.  The step and continue *)
(* buttons and the prompt act only when the machine stood still at the     *)
(* last drawing, the pause button only when it ran.                        *)
(***************************************************************************)
EXTENDS DebugCore

CONSTANTS
  BpAddrs,     \* the addresses the user sets breakpoints at
  Ignored,     \* watched addresses on the ignore list of the trainer
  Commands     \* the commands the user gives, of CommandNames

CommandNames == {"pause", "continue", "step", "next", "stepi", "finish"}

ASSUME DebugHostAssumption ==
  /\ BpAddrs \subseteq PC /\ Ignored \subseteq Watched
  /\ Commands \subseteq CommandNames

VARIABLES
  running,     \* machine.running
  drawn,       \* what running was when the buttons were last drawn
  shownPc,     \* the program counter last fetched, None before the first time
  list,        \* the breakpoint list: "none", "off" or "on" for an address
  suppressed,  \* debugger.suppressBpAddr, None when not active
  loop,        \* where the main loop is: "events", "polled" or "frame"
  hitPc,       \* the address of the watched instruction that hit last
  last,        \* the last command, with the depth of the stack it was given at
  ran          \* instructions executed since, counted up to 2

hostVars == << running, drawn, shownPc, list, suppressed, loop, hitPc >>
history == << last, ran >>
debugVars == << dbg, pc, stack, at, hostVars, history >>

Enabled == {a \in BpAddrs : list[a] = "on"}

HostInit ==
  /\ running = FALSE /\ drawn = FALSE /\ shownPc = None
  /\ list = [a \in BpAddrs |-> "none"]
  /\ suppressed = None
  /\ loop = "events"
  /\ hitPc = None
  /\ last = [cmd |-> "none", depth |-> 0]
  /\ ran = 0

-----------------------------------------------------------------------------
(* The user: any number of commands and edits among the events of a turn. *)

Given(name) ==
  /\ loop = "events" /\ name \in Commands
  /\ last' = [cmd |-> name, depth |-> Len(stack)]
  /\ ran' = 0

SetRunning_KeepsShown(r) ==
  /\ running' = r
  /\ UNCHANGED shownPc

\* machine_setRunning: a machine that stops has its registers fetched.
SetRunning(r) ==
  /\ running' = r
  /\ shownPc' = IF running /\ ~r THEN pc ELSE shownPc

Pause ==
  /\ Given("pause")
  /\ drawn
  /\ dbg' = BreakImmediate(dbg)
  /\ SetRunning(FALSE)
  /\ UNCHANGED << pc, stack, at, drawn, list, suppressed, loop, hitPc >>

Continue ==
  /\ Given("continue")
  /\ ~drawn
  /\ dbg' = Resumed(dbg)
  /\ SetRunning(TRUE)
  /\ UNCHANGED << pc, stack, at, drawn, list, suppressed, loop, hitPc >>

\* debugger_suppressBreakpointAtPC: the breakpoint the machine stands on is
\* taken out of the core until the machine has stopped again.
Suppresses ==
  /\ suppressed = None
  /\ shownPc \in Enabled

StepButton_Always == TRUE

\* The step buttons and the prompt are disabled when drawn with a running machine.
StepButton == ~drawn

\* The core without that breakpoint.
Unblocked == IF Suppresses THEN RemoveBreakpoint(dbg, shownPc) ELSE dbg

\* A step command, which leaves the core's debugger in the state d.
StepCommand(name, d) ==
  /\ Given(name)
  /\ StepButton
  /\ suppressed' = IF Suppresses THEN shownPc ELSE suppressed
  /\ dbg' = d
  /\ SetRunning(TRUE)
  /\ UNCHANGED << pc, stack, at, drawn, list, loop, hitPc >>

Step == StepCommand("step", StepLineCmd(Unblocked, pc))

NextLine == StepCommand("next", StepNextCmd(Unblocked, pc))

Stepi == StepCommand("stepi", StepInstrCmd(Unblocked))

Finish == StepCommand("finish", StepOutCmd(Unblocked, pc))

\* A breakpoint is added, or an existing one enabled.
EnableBreakpoint(a) ==
  /\ loop = "events" /\ list[a] # "on"
  /\ list' = [list EXCEPT ![a] = "on"]
  /\ dbg' = AddBreakpoint(dbg, a)
  /\ UNCHANGED << pc, stack, at, running, drawn, shownPc, suppressed, loop,
                  hitPc, history >>

\* A breakpoint is disabled, or removed.
DisableBreakpoint(a) ==
  /\ loop = "events" /\ list[a] = "on"
  /\ \E now \in {"none", "off"} : list' = [list EXCEPT ![a] = now]
  /\ dbg' = RemoveBreakpoint(dbg, a)
  /\ UNCHANGED << pc, stack, at, running, drawn, shownPc, suppressed, loop,
                  hitPc, history >>

\* One that is off is removed from the list.
ForgetBreakpoint(a) ==
  /\ loop = "events" /\ list[a] = "off"
  /\ list' = [list EXCEPT ![a] = "none"]
  /\ dbg' = RemoveBreakpoint(dbg, a)
  /\ UNCHANGED << pc, stack, at, running, drawn, shownPc, suppressed, loop,
                  hitPc, history >>

User ==
  \/ Pause \/ Continue \/ Step \/ NextLine \/ Stepi \/ Finish
  \/ \E a \in BpAddrs :
       EnableBreakpoint(a) \/ DisableBreakpoint(a) \/ ForgetBreakpoint(a)

-----------------------------------------------------------------------------
(* The loop *)

RestoreSuppressed_Forgets(d) == d

\* runtime_restoreSuppressedBreakpoint
RestoreSuppressed(d) ==
  IF suppressed # None THEN AddBreakpoint(d, suppressed) ELSE d

Consumed(d) == [d EXCEPT !.watchbreak_pending = FALSE]

\* The poll finds the machine as it was, or running.
PollQuiet ==
  /\ loop = "events"
  /\ ~(dbg.paused /\ running)
  /\ SetRunning(~dbg.paused)
  /\ loop' = "polled"
  /\ UNCHANGED << dbg, pc, stack, at, drawn, list, suppressed, hitPc, history >>

\* It finds that the machine has stopped.
PollStopped ==
  /\ loop = "events"
  /\ dbg.paused /\ running
  /\ ~(dbg.watchbreak_pending /\ hitPc \in Ignored)
  /\ dbg' = Consumed(RestoreSuppressed(dbg))
  /\ suppressed' = None
  /\ SetRunning(FALSE)
  /\ loop' = "polled"
  /\ UNCHANGED << pc, stack, at, drawn, list, hitPc, history >>

\* It has stopped at an access the trainer ignores: the machine goes on, and
\* the loop begins a new turn.
PollIgnored ==
  /\ loop = "events"
  /\ dbg.paused /\ running
  /\ dbg.watchbreak_pending /\ hitPc \in Ignored
  /\ dbg' = Resumed(Consumed(RestoreSuppressed(dbg)))
  /\ suppressed' = None
  /\ shownPc' = pc
  /\ UNCHANGED << pc, stack, at, running, drawn, list, loop, hitPc, history >>

Poll == PollQuiet \/ PollStopped \/ PollIgnored

\* A frame is due.
BeginFrame ==
  /\ loop = "polled" /\ running
  /\ RetroRun
  /\ loop' = "frame"
  /\ UNCHANGED << running, drawn, shownPc, list, suppressed, hitPc, history >>

Execute ==
  /\ loop = "frame"
  /\ RunInstr
  /\ ran' = IF ran < 2 THEN ran + 1 ELSE ran
  /\ hitPc' = IF dbg'.watchbreak_pending /\ ~dbg.watchbreak_pending
              THEN pc ELSE hitPc
  /\ UNCHANGED << running, drawn, shownPc, list, suppressed, loop, last >>

ContinueFrame ==
  /\ loop = "frame"
  /\ FrameLoop
  /\ UNCHANGED << hostVars, history >>

\* The turn ends; when the frame was not due yet it had none.
Draw ==
  /\ loop = "polled" \/ (loop = "frame" /\ at = "idle")
  /\ drawn' = running
  /\ loop' = "events"
  /\ UNCHANGED << dbg, pc, stack, at, running, shownPc, list, suppressed, hitPc,
                  history >>

DebugSystem == Poll \/ BeginFrame \/ Execute \/ ContinueFrame \/ Draw

DebugInitial == CoreInit /\ HostInit

DebugNext == User \/ DebugSystem

DebugSpec == DebugInitial /\ [][DebugNext]_debugVars

\* The loop turns, and what it calls returns.  A frame is begun again and
\* again, as the time since the last one adds up.
DebugFairness ==
  /\ WF_debugVars(Poll) /\ WF_debugVars(Draw)
  /\ WF_debugVars(Execute) /\ WF_debugVars(ContinueFrame)
  /\ SF_debugVars(BeginFrame)

DebugSpecLive == DebugSpec /\ DebugFairness

-----------------------------------------------------------------------------
(* Correctness *)

DebugType ==
  [paused : BOOLEAN, step_instr : BOOLEAN, step_instr_after : BOOLEAN,
   step_line : BOOLEAN, line_start : {Line[p] : p \in PC} \cup {None},
   step_next : (0 .. StackMax) \cup {None}, next_skip_once : BOOLEAN,
   next_return : PC \cup {None},
   step_out : (0 .. StackMax) \cup {None}, out_skip_once : BOOLEAN,
   into_pending : BOOLEAN,
   break_requested : BOOLEAN, break_now : BOOLEAN,
   watchbreak_requested : BOOLEAN, watchbreak_pending : BOOLEAN,
   callstack_depth : 0 .. StackMax, bps : SUBSET BpAddrs]

\* The core's table never exceeds its size and holds only what was set; the
\* mirror call stack stays within its array.
DebugTypeOK ==
  /\ dbg \in DebugType /\ Cardinality(dbg.bps) <= BpMax
  /\ pc \in PC /\ at \in {"idle", "head", "z80", "end"}
  /\ stack \in Seq([return : PC, irq : BOOLEAN])
  /\ running \in BOOLEAN /\ drawn \in BOOLEAN
  /\ shownPc \in PC \cup {None} /\ hitPc \in PC \cup {None}
  /\ list \in [BpAddrs -> {"none", "off", "on"}]
  /\ suppressed \in BpAddrs \cup {None}
  /\ loop \in {"events", "polled", "frame"}
  /\ last \in [cmd : CommandNames \cup {"none"}, depth : Nat] /\ ran \in 0 .. 2

\* Once the core says it is paused (hook, watchpoint, Z80 or user), nothing of
\* the program is executed, not even in what is left of the frame, until a
\* command takes the pause back.
PausedStandsStill == [][dbg.paused => UNCHANGED << pc, stack >>]_debugVars

\* stepi executes one instruction at the most, whatever interrupt, frame
\* boundary, breakpoint, watchpoint or other processor it meets.
StepInstrRunsOne == last.cmd = "stepi" => ran <= 1

\* And the machine then stands still, unless the user has said otherwise.
StepInstrReturns ==
  (last.cmd = "stepi" /\ running) ~> (last.cmd # "stepi" \/ ~running)

\* Every breakpoint shown as enabled is in the core, except the one a step is
\* leaving (holds while the core's table has room for the list).
EnabledReachCore == Enabled \subseteq dbg.bps \cup {suppressed}

\* The breakpoint a step leaves is the one the machine stands on, although the
\* host takes the address from registers it fetched earlier.
SuppressesWhereItStands ==
  [][suppressed' \notin {None, suppressed} => suppressed' = pc]_debugVars

\* The registers shown while the machine is stopped are its registers.
ShownWhenStopped ==
  (~running /\ shownPc # None) => shownPc = pc

\* `next' ends on a line (not at a breakpoint) of the function it was given in
\* or of a caller: the comment of s_step_next.  Breaks in an interrupt handler
\* are why this needs Handler = None.
NextSameDepth ==
  [][(dbg.step_next # None /\ dbg'.step_next = None /\ at = "head"
        /\ ~dbg'.break_requested)
       => Len(stack') <= last.depth]_debugVars

\* `finish' ends in a caller of the function it was given in.
FinishLeaves ==
  [][(dbg.step_out # None /\ dbg'.step_out = None /\ at = "head"
        /\ last.depth > 0)
       => Len(stack') < last.depth]_debugVars

=============================================================================
