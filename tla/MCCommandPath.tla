----------------------------- MODULE MCCommandPath -----------------------------
(***************************************************************************)
(* Devices 1 and 2 are a motor and a CiA 402 drive, device 3 is a gripper. *)
(* Commands name one or two of them, with the gripper, which a DDS motor   *)
(* command cannot address, between them or alone.                          *)
(***************************************************************************)
EXTENDS CommandPath

mc_commands == {<<1, 2>>, <<1, 3, 2>>, <<2>>}
mc_device_types == <<"RX_MOTOR", "RX_CIA402", "RX_GRIPPER">>
mc_topics == <<"joint", "motor">>
=============================================================================
