---------------------------- MODULE MCPanelLink ----------------------------
(* A small instance of PanelLink for TLC: three rows of two bytes on a     *)
(* panel of four rows of three.                                            *)
EXTENDS PanelLink

Address == 0..(EpdRamSize - 1)

(* All white (COLOR_FILL_WHITE), and pixels of every value in every place  *)
(* of a byte.                                                              *)
MCFrames == {[i \in Address |-> 85], [i \in Address |-> (228 + 55 * i) % 256]}
=============================================================================
