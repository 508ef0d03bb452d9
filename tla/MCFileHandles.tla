--------------------------- MODULE MCFileHandles ---------------------------
(* FileHandles with two descriptors, a small pool of channels, a device    *)
(* above CDEV_FILE that uses it too, and two paths on two drives.          *)
EXTENDS FileHandles, TLC

CONSTANTS p1, p2

MCPaths == {p1, p2}
MCDrives == {{p1}, {p2}}
MCSymmetry == Permutations(MCPaths)
=============================================================================
