---------------------------- MODULE MCInputLane ----------------------------
(* Small instances of InputLane for TLC.                                     *)
EXTENDS InputHandedInv, TLC

MCDigests == Resources \X Payloads
Symmetric == Permutations(Operations) \cup Permutations(Clients)
============================================================================
