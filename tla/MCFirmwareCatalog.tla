-------------------------- MODULE MCFirmwareCatalog --------------------------
(* FirmwareCatalog for TLC.                                                  *)
EXTENDS FirmwareCatalog, TLC

CONSTANTS h, r1, r2, v1, v2, i1, i2, p1, p2

OneCode == [r \in {r1, r2} |-> h]
OneEach == [v \in {v1, v2} |-> IF v = v1 THEN r1 ELSE r2]
Swaps == Permutations({i1, i2}) \cup Permutations({p1, p2})
=============================================================================
