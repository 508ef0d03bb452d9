----------------------------- MODULE MCStorage -----------------------------
(* Storage with every kind of card, of three blocks, so that a transfer of *)
(* two has a neighbour to miss, and two attempts to wake a card.           *)
EXTENDS Storage

MCKinds == {"SDHC", "SDSC", "SDv1", "MMC"}
=============================================================================
