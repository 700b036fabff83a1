-------------------------- MODULE RecordedHistory --------------------------
(***************************************************************************)
(* What the rolling state buffer promises, without levels, differences,    *)
(* keyframes and byte counts: a history is a set of machine states, each   *)
(* under its label, and a position in it.  States are recorded under ever  *)
(* newer labels; to make room a history may be thinned or lose its oldest  *)
(* part, but never the state recorded last and never a state for another;  *)
(* and going back cuts off what is ahead and nothing else.                 *)
(***************************************************************************)
EXTENDS Integers

CONSTANT State

VARIABLES
  live,     \* the history being recorded
  saved     \* the one put aside

Labels(recorded) == {r.label : r \in recorded}

Nothing(position) == [recorded |-> {}, position |-> position]

HistoryInit == live = Nothing(0) /\ saved = Nothing(0)

\* State s is recorded under the next label, newer than all there are.
Record(s) ==
  LET next == live.position + 1 IN
    /\ \A r \in live.recorded : r.label < next
    /\ live' = [recorded |-> live.recorded \cup {[label |-> next, state |-> s]},
                position |-> next]
    /\ UNCHANGED saved

\* Room is made by leaving out states in the middle or by dropping the oldest.
Thins(had, kept) == \E k \in kept : \A r \in had : k.label <= r.label
DropsOldest(had, kept) ==
  \A k \in kept : \A r \in had : r.label >= k.label => r \in kept
KeepsNewest(had, kept) == \E k \in kept : \A r \in had : r.label <= k.label

MakeRoom(had, kept) ==
  /\ kept \subseteq had
  /\ KeepsNewest(had, kept)
  /\ Thins(had, kept) \/ DropsOldest(had, kept)

Forget ==
  /\ MakeRoom(live.recorded, live'.recorded)
  /\ live'.position = live.position
  /\ UNCHANGED saved

GoTo ==
  /\ live'.position \in Labels(live.recorded)
  /\ live'.recorded = live.recorded
  /\ UNCHANGED saved

\* Going back to a label to record on from there.
CutAfter ==
  /\ live'.position \in Labels(live.recorded)
  /\ live'.recorded = {r \in live.recorded : r.label <= live'.position}
  /\ UNCHANGED saved

StartAnew ==
  /\ live' = Nothing(live.position)
  /\ UNCHANGED saved

\* A single state, or the whole history, is put aside; it replaces the history.
PutAside(s) ==
  /\ saved' = [recorded |-> {[label |-> live.position, state |-> s]},
               position |-> live.position]
  /\ UNCHANGED live

PutAllAside == saved' = live /\ UNCHANGED live

TakeBack ==
  /\ saved.recorded # {}
  /\ live' = saved
  /\ UNCHANGED saved

HistoryNext ==
  \/ GoTo \/ CutAfter \/ Forget
  \/ \E s \in State : Record(s) \/ PutAside(s)
  \/ StartAnew \/ PutAllAside \/ TakeBack

HistorySpec == HistoryInit /\ [][HistoryNext]_<< live, saved >>

=============================================================================
