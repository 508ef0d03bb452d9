-------------------------- MODULE MCConsoleOutput ---------------------------
(* ConsoleOutput on a screen of 2 by 3 cells, with the full screen and a   *)
(* window of one column and two lines in its upper right corner: from the   *)
(* left column, the right one and the bottom line the cursor is left beside *)
(* it, on it and below it when the window is set.                          *)
EXTENDS ConsoleOutput

MCRegions == {[x |-> 0, y |-> 0, w |-> 0, h |-> 0], [x |-> 1, y |-> 0, w |-> 1, h |-> 2]}
=============================================================================
