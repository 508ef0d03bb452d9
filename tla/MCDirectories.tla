--------------------------- MODULE MCDirectories ---------------------------
(* Directories with three handles and two paths on two drives.               *)
EXTENDS Directories, TLC

CONSTANTS p1, p2

MCPaths == {p1, p2}
MCDrives == {{p1}, {p2}}
MCSymmetry == Permutations(MCPaths)
=============================================================================
