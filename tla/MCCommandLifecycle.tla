------------------------- MODULE MCCommandLifecycle -------------------------
(* Small instances of CommandLifecycle: which commands are sent, and what is *)
(* assumed of the broker and the device.                                     *)
EXTENDS CommandLifecycle, TLC

CONSTANTS c1, c2

OneSet == [c \in {c1} |-> "set"]
OneRequest == [c \in {c1} |-> "request_capabilities"]
TwoSets == [c \in {c1, c2} |-> "set"]
RequestAndUpdate ==
    [c \in {c1, c2} |-> IF c = c1 THEN "request_capabilities" ELSE "ota_update"]

One == {c1}
Two == {c1, c2}

LossySleeper == {"sensors first", "patient", "long sleeps"}
Swap == Permutations(Two)
Orderly == {"persistent session", "no loss", "no duplicates", "sensors first"}
Attentive == Orderly \cup {"patient", "short sleeps"}
LongSleeper == {"no loss", "no duplicates", "sensors first", "patient", "long sleeps"}
=============================================================================
