-------------------------- MODULE MCDeviceRegistry --------------------------
(* Small instances of DeviceRegistry: two ids, so that a device can be renamed *)
(* to a free id or merged into the other.                                      *)
EXTENDS DeviceRegistry, TLC

CONSTANTS a, b, t, h, admin1

TwoIds == {a, b}
TwoMetrics == {t, h}
OneAdmin == {admin1}
Swaps == Permutations(TwoIds) \cup Permutations(TwoMetrics)
=============================================================================
