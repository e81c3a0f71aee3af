---------------------------- MODULE MCPaneOutput ----------------------------
(* PaneOutput for TLC: consumers (n: native, s: synthesized) and grid sizes  *)
(* are model values, given in the configurations.                            *)
EXTENDS PaneOutputInv, TLC
=============================================================================
