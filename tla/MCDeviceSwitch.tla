---------------------------- MODULE MCDeviceSwitch ----------------------------
EXTENDS DeviceSwitch, TLC

CONSTANTS s1, s2
AllScenarios == [out : BOOLEAN, dummy : BOOLEAN]
=============================================================================
