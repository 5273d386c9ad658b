------------------------- MODULE MCCalibrationMirror -------------------------
(* CalibrationMirror for TLC.                                               *)
EXTENDS CalibrationMirror

CONSTANTS a1, k1, k2
=============================================================================
