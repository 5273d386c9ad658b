--------------------------- MODULE MCDeviceHealth ---------------------------
(* Small instances of DeviceHealth.  One unit of time; an interval of 1 makes *)
(* the windows 3 and the poll cooldown 1.1, an unknown interval makes the     *)
(* offline window 2 and the capabilities window 2.                            *)
EXTENDS DeviceHealth

MCIntervals == {0, 1}
UnknownInterval == {0}
MCMessages == {"low_battery", ""}
ChannelUp == {TRUE}
ChannelMayFail == {TRUE, FALSE}
=============================================================================
