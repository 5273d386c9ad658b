----------------------------- MODULE AlertLatch -----------------------------
(***************************************************************************)
(* What the alert shown for a device promises to who reads it              *)
(* (docs/mqtt-protocol.md:88-104, 391-404): it is latched as the device    *)
(* claimed it, and changes as a whole, by a new claim, by expiry, by a     *)
(* recovered battery, or by an alert of the server's own.  What was        *)
(* released comes back by a new claim only.  DeviceHealth implements it.   *)
(***************************************************************************)
CONSTANTS Levels, Texts, NoText, ServerText, LowText

VARIABLES
    shown,     \* [level, message] the alert of the row
    claim,     \* [level, message] the device's last claim
    overdue,   \* the claim has not been repeated within the offline window
    fine       \* the battery is

vars == <<shown, claim, overdue, fine>>

Alert(level, message) ==
    [level |-> level, message |-> IF level = "" THEN "" ELSE message]
Nothing == Alert("", "")

Init ==
    /\ shown = claim
    /\ claim = Nothing \/ \E level \in Levels, text \in Texts : claim = Alert(level, text)
    /\ ~overdue /\ ~fine

\* A claim without a text of its own keeps the text that is shown.
Claim(level, text) ==
    /\ claim' = Alert(level, text)
    /\ shown' = Alert(level, IF text = NoText THEN shown.message ELSE text)
    /\ ~overdue'
    /\ UNCHANGED fine

\* No claim: time passes, readings arrive, the interval is edited.
Between == UNCHANGED claim /\ overdue' \in BOOLEAN /\ fine' \in BOOLEAN

Expire == shown.level # "" /\ overdue /\ shown' = Nothing /\ Between
Recover == shown = Alert("warning", LowText) /\ fine' /\ shown' = Nothing /\ Between
Flag == shown' = Alert("error", ServerText) /\ Between
Unflag == shown.message = ServerText /\ shown' = Nothing /\ Between
Wait == UNCHANGED shown /\ Between

Next ==
    \/ \E level \in Levels, text \in Texts \cup {NoText} : Claim(level, text)
    \/ Expire \/ Recover \/ Flag \/ Unflag \/ Wait

Spec == Init /\ [][Next]_vars
=============================================================================
