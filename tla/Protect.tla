------------------------------ MODULE Protect ------------------------------
(***************************************************************************)
(* The protections of the Neo Geo core (src/geo9000/src/e9k_protect.c) and *)
(* the main RAM they guard: rules that block writes to a few bytes or      *)
(* force a value there, a bit for each that is enabled, and the pages the  *)
(* enabled ones touch, which is what a write looks at first.               *)
(*                                                                         *)
(* RAM is seen through several windows.  An address here counts from the   *)
(* start of the first, and a value is the sequence of its bytes.           *)
(***************************************************************************)
EXTENDS Integers, Sequences, FiniteSets

CONSTANTS
  RamBytes,        \* the size of the RAM (64K)
  Windows,         \* how many times it is mirrored (16)
  PageBytes,       \* the size of a page (4K)
  Byte,            \* the values of a byte
  ProtectCount     \* E9K_PROTECT_COUNT

ASSUME RamAssumption ==
  RamBytes \in Nat /\ RamBytes >= 4 /\ Windows \in Nat \ {0} /\ PageBytes \in Nat \ {0}
ASSUME ByteAssumption == 0 \in Byte
ASSUME ProtectCountAssumption == ProtectCount \in Nat

Offset == 0 .. RamBytes - 1
Address == 0 .. RamBytes * Windows - 1
Slot == 1 .. ProtectCount

\* No rule in a slot, the slot memset to zero.
Unused == [addr |-> 0, mode |-> "none", value |-> << >>]

VARIABLES
  ram,        \* the bytes of the main RAM
  entries,    \* e9k_protect_entries
  enabled,    \* e9k_protect_enabledMask
  pages       \* e9k_protect_pageMask

protectVars == << ram, entries, enabled, pages >>

-----------------------------------------------------------------------------

Canonical(a) == a % RamBytes

Page(a) == a \div PageBytes

Used(slot) == entries[slot].mode # "none"

\* The addresses of the bytes of a rule.  They count on from its canonical
\* address, into the second window when it lies at the end of the first.
ByteAddr(e, i) == e.addr + i - 1

\* e9k_protect_rebuildPageMask
PagesOf(ents, on) ==
  UNION {{Page(ByteAddr(ents[slot], i)) : i \in DOMAIN ents[slot].value} :
           slot \in on}

Rebuilt(ents, on) ==
  /\ entries' = ents /\ enabled' = on
  /\ pages' = PagesOf(ents, {slot \in on : ents[slot].mode # "none"})

First(slots) == CHOOSE slot \in slots : \A other \in slots : slot <= other

\* e9k_protect_add: a rule that is there already is left as it is, enabled or
\* not; a full table takes no more.
AddProtect(addr, mode, value) ==
  LET e    == [addr |-> Canonical(addr), mode |-> mode, value |-> value]
      free == {slot \in Slot : ~Used(slot)}
  IN  /\ IF (\E slot \in Slot : entries[slot] = e) \/ free = {}
         THEN UNCHANGED << entries, enabled, pages >>
         ELSE Rebuilt([entries EXCEPT ![First(free)] = e],
                      enabled \cup {First(free)})
      /\ UNCHANGED ram

\* protect_remove of the host: the first enabled rule at the address, of the
\* given size unless that is 0.
RemoveProtect(addr, size) ==
  LET hits == {slot \in enabled :
                 /\ size \in {0, Len(entries[slot].value)}
                 /\ Canonical(addr) = entries[slot].addr}
  IN  /\ hits # {}
      /\ Rebuilt([entries EXCEPT ![First(hits)] = Unused],
                 enabled \ {First(hits)})
      /\ UNCHANGED ram

EnableProtect_KeepsPages(slot, on) ==
  /\ Used(slot)
  /\ enabled' = (IF on THEN enabled \cup {slot} ELSE enabled \ {slot})
  /\ UNCHANGED << entries, pages, ram >>

\* The checkbox of a rule in the trainer.
EnableProtect(slot, on) ==
  /\ Used(slot)
  /\ Rebuilt(entries, IF on THEN enabled \cup {slot} ELSE enabled \ {slot})
  /\ UNCHANGED ram

\* The trainer's button for all rules: off when any is on.
ToggleProtects ==
  /\ Rebuilt(entries, IF enabled # {} THEN {} ELSE {slot \in Slot : Used(slot)})
  /\ UNCHANGED ram

\* e9k_protect_reset
ClearProtects ==
  /\ Rebuilt([slot \in Slot |-> Unused], {})
  /\ UNCHANGED ram

-----------------------------------------------------------------------------
(* Writes *)

RulesAt_Disabled(a) ==
  {slot \in Slot :
     /\ Used(slot)
     /\ \E i \in DOMAIN entries[slot].value :
          Canonical(a) = Canonical(ByteAddr(entries[slot], i))}

\* The enabled rules that have the byte at a.
RulesAt(a) ==
  {slot \in enabled :
     /\ Used(slot)
     /\ \E i \in DOMAIN entries[slot].value :
          Canonical(a) = Canonical(ByteAddr(entries[slot], i))}

\* What slot's rule gives for the byte at a, whose old value is old.
Ruled(slot, a, old) ==
  LET e == entries[slot]
      i == CHOOSE i \in DOMAIN e.value :
             /\ Canonical(a) = Canonical(ByteAddr(e, i))
             /\ \A j \in 1 .. i - 1 : Canonical(a) # Canonical(ByteAddr(e, j))
  IN  IF e.mode = "set" THEN e.value[i] ELSE old

FilteredByte(a, new) ==
  IF Page(a) \notin pages \/ RulesAt(a) = {} THEN new
  ELSE Ruled(First(RulesAt(a)), a, ram[Canonical(a)])

\* e9k_protect_filterWrite of a value written at address a of the RAM.
Filtered(a, value) == [i \in DOMAIN value |-> FilteredByte(a + i - 1, value[i])]

InRam(a, n) == [i \in 1 .. n |-> ram[Canonical(a + i - 1)]]

\* The RAM once the bytes of value are at a.
Poked(a, value) ==
  [o \in Offset |->
     IF \E i \in DOMAIN value : Canonical(a + i - 1) = o
     THEN value[CHOOSE i \in DOMAIN value : Canonical(a + i - 1) = o]
     ELSE ram[o]]

ProtectInit ==
  /\ ram = [o \in Offset |-> 0]
  /\ entries = [slot \in Slot |-> Unused]
  /\ enabled = {}
  /\ pages = {}

-----------------------------------------------------------------------------
(* Properties *)

\* The pages a write looks at before anything else are those of the enabled
\* rules, whatever was added, removed, switched and cleared before: a stale one
\* would let writes past a rule.
PagesCurrent ==
  pages = PagesOf(entries, {slot \in enabled : Used(slot)})

\* A rule that lies at offset o itself, in the first window.
GuardedBy(slot, o) ==
  /\ slot \in enabled /\ Used(slot)
  /\ \E i \in DOMAIN entries[slot].value : ByteAddr(entries[slot], i) = o

\* README.md: block prevents writes to an address, set forces a value at it.
\* Where an enabled rule lies a byte does not change, unless to what an enabled
\* rule sets there.
Respected ==
  \A o \in Offset :
    (ram'[o] # ram[o] /\ \E slot \in Slot : GuardedBy(slot, o)) =>
      \E slot \in enabled :
        /\ entries[slot].mode = "set"
        /\ \E i \in DOMAIN entries[slot].value :
             /\ Canonical(ByteAddr(entries[slot], i)) = o
             /\ ram'[o] = entries[slot].value[i]

=============================================================================
