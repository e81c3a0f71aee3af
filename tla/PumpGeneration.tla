--------------------------- MODULE PumpGeneration ---------------------------
(* Where one output pump has got to inside the generation it publishes       *)
(* (struct PumpGeneration, crates/phux-server/src/runtime/pump.rs), and who  *)
(* a resync is for (ResyncTarget and ResyncAudience,                         *)
(* crates/phux-server/src/resource/mod.rs).  Pure operators: both pumps of   *)
(* the server (ATTACH / SPAWN_RESOURCE and ATTACH_RESOURCE) drive the same   *)
(* struct.  The publication instant is time and is not kept.                 *)
EXTENDS Naturals

CONSTANT GapBudget      \* GAP_RESYNC_MAX_ATTEMPTS

ASSUME GapBudgetAssumption == GapBudget \in Nat \ {0}

Generation(Seqs, Ids) ==
    [cut: Seqs, last: Seqs, id: Ids, active: BOOLEAN, gap: BOOLEAN, attempts: 0 .. GapBudget]

OpenedAt(cut, id) ==
    [cut |-> cut, last |-> cut, id |-> id, active |-> TRUE, gap |-> FALSE, attempts |-> 0]

(* Mutant of Forwards: the fence is not looked at.                           *)
ForwardsUnfenced(g, s) == g.active /\ s > g.cut

(* The gate every live delta passes.                                         *)
Forwards(g, s) == g.active /\ ~g.gap /\ s > g.cut

NoteForwarded(g, s) == [g EXCEPT !.last = s]

Retire(g) == [g EXCEPT !.active = FALSE]

FenceForGap(g) == [g EXCEPT !.gap = TRUE]

NoteResyncRequested(g) == [g EXCEPT !.attempts = @ + 1]

(* gap_retry_delay() is None: next_event gives up before it looks at the     *)
(* channel again.                                                            *)
BudgetSpent(g) == g.gap /\ g.attempts >= GapBudget

ResyncTarget(p, g) == [pump |-> p, id |-> g.id]

(* Mutant of TakesResync: a named pump takes it whatever its state and       *)
(* whatever generation the request was for.                                  *)
TakesResyncAgain(g, audience, target) ==
    audience.everyone \/ \E t \in audience.only : t.pump = target.pump

(* A resync for everyone replaces the generation; an addressed one only that *)
(* of a pump it names, on the generation it names, that is fenced or retired.*)
TakesResync(g, audience, target) ==
    \/ audience.everyone
    \/ (g.gap \/ ~g.active) /\ target \in audience.only

SetBootstrapId(g, id) == [g EXCEPT !.id = id]

RepublishedAt(g, base) ==
    [g EXCEPT !.cut = base, !.last = base, !.active = TRUE, !.gap = FALSE, !.attempts = 0]
=============================================================================
