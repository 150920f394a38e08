--------------------------- MODULE MCPublisherSetup ---------------------------
(* Every bus of up to three devices, on a joint channel each, an IMU or a    *)
(* pump, with every naming of them by three names.                           *)
EXTENDS PublisherSetup

MCIds == 1..3
MCChannels == {"Motor", "Gripper", "Valve", "Imu", "Pump"}
MCNames == {"left", "right", "base"}
=============================================================================
