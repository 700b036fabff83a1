---------------------------- MODULE Watchpoints ----------------------------
(***************************************************************************)
(* Watchpoints of the Neo Geo core (src/geo9000/src/e9k_debugger.c) on the *)
(* accesses of the 68000 to RAM (geo_m68k.c), behind the protections of    *)
(* Protect.tla; the poll of the debugger that takes a hit (runtime.c); and *)
(* the trainer, whose watchpoint looks for a write of one value over       *)
(* another anywhere, and whose ignore list lets the machine run on after a *)
(* hit (train.c).                                                          *)
(*                                                                         *)
(* An instruction may make several accesses.  After a hit the rest of them *)
(* are still made; then the core leaves its frame.  Where the frame ends   *)
(* and how steps and breakpoints stop the machine is in DebugCore.tla.     *)
(***************************************************************************)
EXTENDS Protect

CONSTANTS
  WatchCount,     \* E9K_WATCHPOINT_COUNT
  Accesses,       \* the accesses of the program
  WatchInputs,    \* the watchpoints a user adds
  TrainInputs,    \* the pairs of values given to train
  ProtectInputs,  \* the rules a user adds
  None

ASSUME AccessesAssumption ==
  \A acc \in Accesses :
    /\ acc.addr \in Address
    /\ acc.kind = "read" => acc.size \in Nat
    /\ acc.kind = "write" => acc.value \in Seq(Byte)
ASSUME ProtectInputsAssumption ==
  ProtectInputs \subseteq
    [addr : Address, mode : {"block", "set"}, value : Seq(Byte)]
ASSUME WatchCountAssumption == WatchCount \in Nat

WatchSlot == 1 .. WatchCount

\* A watchpoint: the kinds of access, the addresses its compare mask lets
\* through, and the operands it has; None stands for an operand it lacks.
\* An operand is a sequence of four bytes.
NoWatchpoint == [kinds |-> {}, addrs |-> {}, size |-> None, value |-> None,
                 old |-> None, diff |-> None]

VARIABLES
  wps,           \* s_wps; a slot is enabled when it is in use
  paused,        \* s_paused
  midInstr,      \* the instruction under way makes another access
  hit,           \* s_watchbreak, None when s_watchbreak_pending is clear
  running,       \* machine.running, the debugger's last sample
  ignored,       \* s_train_ignoreAddrs
  trainIndex,    \* s_train_watchIndex
  lastTrain,     \* s_train_lastWatchAddr, None when there is none
  raced          \* history: a command was given between the hit and its poll

hostVars == << running, ignored, trainIndex, lastTrain >>
watchVars == << ram, entries, enabled, pages, wps, paused, midInstr, hit,
                running, ignored, trainIndex, lastTrain, raced >>

-----------------------------------------------------------------------------
(* The hooks *)

\* The operand masked to an access of n bytes.
Masked(operand, n) == SubSeq(operand, 5 - n, 4)

\* watchpoint_match; the value before is known everywhere in RAM.
Matches(wp, kind, a, value, old) ==
  LET n == Len(value) IN
    /\ kind \in wp.kinds
    /\ a \in wp.addrs
    /\ wp.size \in {None, n}
    /\ wp.value # None => value = Masked(wp.value, n)
    /\ wp.old # None => old = Masked(wp.old, n)
    /\ wp.diff # None => old # Masked(wp.diff, n)

Hits(kind, a, value, old) ==
  {slot \in WatchSlot : Matches(wps[slot], kind, a, value, old)}

\* e9k_debugger_watchpoint_read, _write and watchbreak_request.
Watch(kind, a, value, old) ==
  LET hits == Hits(kind, a, value, old) IN
    IF paused \/ hits = {} \/ hit # None
    THEN UNCHANGED << paused, hit >>
    ELSE /\ paused' = TRUE
         /\ hit' = [index |-> First(hits), kind |-> kind, addr |-> a,
                    value |-> value, old |-> old]

CpuRead(a, n) ==
  /\ Watch("read", a, InRam(a, n), InRam(a, n))
  /\ UNCHANGED protectVars

CpuWrite_HookFirst(a, value) ==
  /\ ram' = Poked(a, Filtered(a, value))
  /\ Watch("write", a, value, InRam(a, Len(value)))
  /\ UNCHANGED << entries, enabled, pages >>

\* A long is written as two words, the watchpoints suspended, and its hook is
\* then given the value the program meant to write.
CpuWrite(a, value) ==
  /\ ram' = Poked(a, Filtered(a, value))
  /\ Watch("write", a, IF Len(value) = 4 THEN value ELSE Filtered(a, value),
           InRam(a, Len(value)))
  /\ UNCHANGED << entries, enabled, pages >>

Access(acc) ==
  \/ acc.kind = "read" /\ CpuRead(acc.addr, acc.size)
  \/ acc.kind = "write" /\ CpuWrite(acc.addr, acc.value)

\* An access of the program, the last of its instruction or not.
CpuAccess ==
  /\ ~paused \/ midInstr
  /\ \E acc \in Accesses : Access(acc)
  /\ midInstr' \in BOOLEAN
  /\ UNCHANGED << wps, hostVars, raced >>

\* The instruction ends without another access.
EndInstr ==
  /\ midInstr
  /\ midInstr' = FALSE
  /\ UNCHANGED << protectVars, wps, paused, hit, hostVars, raced >>

\* A breakpoint or step stops the machine.
CoreBreaks ==
  /\ ~paused /\ ~midInstr
  /\ paused' = TRUE
  /\ UNCHANGED << protectVars, wps, midInstr, hit, hostVars, raced >>

-----------------------------------------------------------------------------
(* The debugger between two frames *)

Idle == ~midInstr

Poll_KeepsStopped ==
  /\ Idle
  /\ hit' = IF paused /\ running THEN None ELSE hit
  /\ paused' = paused /\ running' = ~paused
  /\ lastTrain' = IF paused /\ running /\ hit # None
                  THEN IF hit.index = trainIndex THEN hit.addr ELSE None
                  ELSE lastTrain
  /\ raced' = (raced /\ hit' # None)
  /\ UNCHANGED << protectVars, wps, midInstr, ignored, trainIndex >>

Poll_LeavesIgnored ==
  LET stopped == paused /\ running
      resumes == stopped /\ hit # None /\ hit.addr \in ignored
  IN  /\ Idle
      /\ hit' = IF stopped /\ ~resumes THEN None ELSE hit
      /\ paused' = (paused /\ ~resumes)
      /\ running' = ~paused'
      /\ lastTrain' = IF stopped /\ hit # None
                      THEN IF hit.index = trainIndex THEN hit.addr ELSE None
                      ELSE lastTrain
      /\ raced' = (raced /\ hit' # None)
      /\ UNCHANGED << protectVars, wps, midInstr, ignored, trainIndex >>

\* The poll looks at a hit only when it sees the machine go from running to
\* stopped, and resumes it when the address is on the ignore list, whichever
\* watchpoint was hit.
Poll ==
  LET stopped == paused /\ running
      resumes == stopped /\ hit # None /\ hit.addr \in ignored
  IN  /\ Idle
      /\ hit' = IF stopped THEN None ELSE hit
      /\ paused' = (paused /\ ~resumes)
      /\ running' = ~paused'
      /\ lastTrain' = IF stopped /\ hit # None
                      THEN IF hit.index = trainIndex THEN hit.addr ELSE None
                      ELSE lastTrain
      /\ raced' = (raced /\ hit' # None)
      /\ UNCHANGED << protectVars, wps, midInstr, ignored, trainIndex >>

\* ui_pause and ui_continue, and the trainer's button that ignores the address
\* hit last and resumes.
Pause ==
  /\ Idle
  /\ paused' = TRUE /\ running' = FALSE
  /\ raced' = (hit # None)
  /\ UNCHANGED << protectVars, wps, midInstr, hit, ignored, trainIndex,
                  lastTrain >>

Resume ==
  /\ Idle
  /\ paused' = FALSE /\ running' = TRUE
  /\ raced' = (hit # None)
  /\ UNCHANGED << protectVars, wps, midInstr, hit, trainIndex, lastTrain >>

Continue == Resume /\ UNCHANGED ignored

IgnoreLast_Unchecked == ignored' = ignored \cup {lastTrain}

IgnoreLast == lastTrain # None /\ ignored' = ignored \cup {lastTrain}

TrainerIgnore == ~running /\ IgnoreLast /\ Resume

\* train ignore, train clear
TrainIgnore ==
  /\ Idle /\ IgnoreLast
  /\ UNCHANGED << protectVars, wps, paused, midInstr, hit, running, trainIndex,
                  lastTrain, raced >>

TrainClear ==
  /\ Idle
  /\ ignored' = {}
  /\ UNCHANGED << protectVars, wps, paused, midInstr, hit, running, trainIndex,
                  lastTrain, raced >>

\* e9k_debugger_add_watchpoint takes the first free slot.
FreeWatch == {slot \in WatchSlot : wps[slot] = NoWatchpoint}

AddWatchpoint(wp) ==
  /\ Idle /\ FreeWatch # {}
  /\ wps' = [wps EXCEPT ![First(FreeWatch)] = wp]
  /\ UNCHANGED << protectVars, paused, midInstr, hit, hostVars, raced >>

\* train: a write, anywhere, of one value over another.
Train(from, to) ==
  /\ Idle /\ FreeWatch # {}
  /\ wps' = [wps EXCEPT ![First(FreeWatch)] =
               [NoWatchpoint EXCEPT !.kinds = {"write"}, !.addrs = Address,
                                    !.old = from, !.value = to]]
  /\ trainIndex' = First(FreeWatch) /\ lastTrain' = None
  /\ UNCHANGED << protectVars, paused, midInstr, hit, running, ignored, raced >>

\* watch del, watch clear; neither tells the trainer.
RemoveWatchpoint(slot) ==
  /\ Idle
  /\ wps' = [wps EXCEPT ![slot] = NoWatchpoint]
  /\ UNCHANGED << protectVars, paused, midInstr, hit, hostVars, raced >>

ClearWatchpoints ==
  /\ Idle
  /\ wps' = [slot \in WatchSlot |-> NoWatchpoint]
  /\ hit' = None /\ raced' = FALSE
  /\ UNCHANGED << protectVars, paused, midInstr, hostVars >>

\* A write of the debugger itself: protections hold for it, watchpoints do not.
DebugWrite(a, value) ==
  /\ Idle
  /\ ram' = Poked(a, Filtered(a, value))
  /\ UNCHANGED << entries, enabled, pages, wps, paused, midInstr, hit, hostVars,
                  raced >>

Commands ==
  \/ Pause \/ Continue \/ TrainerIgnore \/ TrainIgnore \/ TrainClear
  \/ \E wp \in WatchInputs : AddWatchpoint(wp)
  \/ \E t \in TrainInputs : Train(t[1], t[2])
  \/ \E slot \in WatchSlot : RemoveWatchpoint(slot)
  \/ ClearWatchpoints

ProtectCommands ==
  /\ Idle
  /\ \/ \E p \in ProtectInputs :
          \/ AddProtect(p.addr, p.mode, p.value)
          \/ \E size \in {0, Len(p.value)} : RemoveProtect(p.addr, size)
     \/ \E slot \in Slot, on \in BOOLEAN : EnableProtect(slot, on)
     \/ ToggleProtects \/ ClearProtects
  /\ UNCHANGED << wps, paused, midInstr, hit, hostVars, raced >>

-----------------------------------------------------------------------------

WatchInit ==
  /\ ProtectInit
  /\ wps = [slot \in WatchSlot |-> NoWatchpoint]
  /\ paused = FALSE /\ running = TRUE
  /\ midInstr = FALSE
  /\ hit = None
  /\ ignored = {}
  /\ trainIndex = None /\ lastTrain = None
  /\ raced = FALSE

WatchNext ==
  \/ CpuAccess \/ EndInstr \/ CoreBreaks \/ Poll
  \/ Commands \/ ProtectCommands
  \/ \E acc \in Accesses : acc.kind = "write" /\ DebugWrite(acc.addr, acc.value)

\* The main loop polls the core in every turn, and instructions end.
WatchSpec ==
  /\ WatchInit /\ [][WatchNext]_watchVars
  /\ WF_watchVars(Poll) /\ WF_watchVars(EndInstr)

(* Properties *)

Hit == [index : WatchSlot, kind : {"read", "write"}, addr : Address,
        value : Seq(Byte), old : Seq(Byte)]

\* A hit is of a watchpoint slot and an access; the debugger's lists hold
\* addresses.
WatchTypeOK ==
  /\ ram \in [Offset -> Byte]
  /\ enabled \subseteq Slot /\ pages \subseteq Nat
  /\ paused \in BOOLEAN /\ running \in BOOLEAN
  /\ midInstr \in BOOLEAN /\ raced \in BOOLEAN
  /\ hit \in Hit \cup {None}
  /\ ignored \subseteq Address /\ lastTrain \in Address \cup {None}
  /\ trainIndex \in WatchSlot \cup {None}

\* No write through the first window, the program's or the debugger's, gets
\* past the rules that are enabled, however they came to be there.
ProtectionHolds ==
  [][ram' # ram =>
       \A acc \in {w \in Accesses : w.kind = "write"} :
         /\ acc.addr + Len(acc.value) <= RamBytes
         /\ CpuWrite(acc.addr, acc.value) \/ DebugWrite(acc.addr, acc.value)
         => Respected]_watchVars

\* What a hit says of a write of a byte or word is true of the memory: the
\* value is what is there now, after the protections, and the old value what
\* was there before.
HitTellsTruth ==
  [][hit = None /\ hit' # None /\ hit'.kind = "write" /\ Len(hit'.value) < 4 =>
       /\ hit'.value = [i \in DOMAIN hit'.value |->
                          ram'[Canonical(hit'.addr + i - 1)]]
       /\ hit'.old = InRam(hit'.addr, Len(hit'.value))]_watchVars

\* A hit that nobody has taken hides every later one.  The machine only runs on
\* with one when the user gave a command in the turn of the hit, before the
\* poll.
HidesOnlyWhenRaced == hit # None /\ ~paused => raced

\* The user gave a command between the hit and its poll: the hit is there but
\* the machine was stopped by hand, or the watchpoints were cleared.
TakenByUser == (hit # None /\ ~running) \/ (hit = None /\ running)

\* An access the user chose to ignore does not leave the machine stopped: the
\* poll resumes it, unless a command came first or the list was cleared.
IgnoredRunsOn ==
  (/\ paused /\ running /\ hit # None /\ hit.addr \in ignored)
    ~> (~paused \/ TakenByUser \/ ignored = {})

=============================================================================
