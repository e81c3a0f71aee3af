--------------------------- MODULE ResyncDebounce ---------------------------
(* The one resync a pane actor owes (struct ResyncDebounce,                  *)
(* crates/phux-server/src/resource/terminal/run_loop.rs): whether one is     *)
(* owed, and to whom.  The deadline is not a clock here: an owed resync may  *)
(* fire at any later moment.  The reason only labels the frames.             *)
EXTENDS Naturals

Audience(Targets) == [everyone: BOOLEAN, only: SUBSET Targets]
Debounce(Targets) == [pending: BOOLEAN, everyone: BOOLEAN, targets: SUBSET Targets]

Idle == [pending |-> FALSE, everyone |-> FALSE, targets |-> {}]

MayFire(d, capturing) == d.pending /\ ~capturing

(* A reflow of the grid (target: None).                                      *)
ArmForEveryone(d) == [d EXCEPT !.pending = TRUE, !.everyone = TRUE]

(* Mutant of ArmFor: the early return comes before the target is recorded,   *)
(* so only the first one of a resync not owed yet is.                        *)
ArmForFirst(d, targets) ==
    IF d.pending \/ targets = {} THEN d
    ELSE [d EXCEPT !.pending = TRUE, !.targets = {CHOOSE t \in targets : TRUE}]

(* Each target is recorded before the early return that keeps the deadline   *)
(* of a resync already owed.  An empty set of targets arms nothing.          *)
ArmFor(d, targets) ==
    [d EXCEPT !.pending = @ \/ targets # {}, !.targets = @ \cup targets]

Take(d) == [everyone |-> d.everyone, only |-> d.targets]
=============================================================================
