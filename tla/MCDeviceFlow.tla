---------------------------- MODULE MCDeviceFlow ----------------------------
(* Instances of DeviceFlow for TLC.                                        *)
EXTENDS DeviceFlow

CONSTANTS t1, t2, c1, c2

TwoTabs  == {t1, t2}
TwoCodes == {c1, c2}

=============================================================================
