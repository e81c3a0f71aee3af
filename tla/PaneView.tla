------------------------------ MODULE PaneView ------------------------------
(* What a consumer of a pane is promised, with no pump, generation, command  *)
(* or snapshot in sight: its screen is the pane's as of some moment,         *)
(* complete up to it, and that moment only moves forward.  A stream that     *)
(* breaks down is taken away, not repaired in silence.                       *)
(*                                                                           *)
(* AttachStreams implements it (ShowsThePane there).                         *)
EXTENDS Naturals

CONSTANT Lost           \* what is shown once the stream has broken down

VARIABLES
    produced,           \* chunks the pane has output
    shown               \* chunks up to which the screen is complete

VInit == produced = 0 /\ shown = 0

Produce == produced' = produced + 1 /\ UNCHANGED shown

\* The next chunk, or a whole screen that skips what the consumer missed.
Show ==
    /\ shown # Lost
    /\ shown' \in shown + 1 .. produced
    /\ UNCHANGED produced

Break == shown # Lost /\ shown' = Lost /\ UNCHANGED produced

VNext == Produce \/ Show \/ Break

VSpec == VInit /\ [][VNext]_<<produced, shown>>
=============================================================================
