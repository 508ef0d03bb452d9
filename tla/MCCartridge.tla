---------------------------- MODULE MCCartridge -----------------------------
(* Cartridge with three bytes of one bit each, and time for some calls one *)
(* after the other.                                                        *)
EXTENDS Cartridge
MCBits == {0}
MCProbe == {}
=============================================================================
