---------------------------- MODULE MCEcatDiscovery ----------------------------
(***************************************************************************)
(* A motor and a gripper are configured. The bus also has a motor nobody   *)
(* configured and a gripper that claims the index of the motor.            *)
(***************************************************************************)
EXTENDS EcatDiscovery

Device(index, type, at) == [index |-> index, type |-> type, channel |-> at]
mc_cycle ==
    <<Device(3, "RX_MOTOR", "Motor"), Device(1, "RX_CIA402", "Motor"),
      Device(1, "RX_GRIPPER", "Gripper"), Device(2, "RX_GRIPPER", "Gripper")>>
mc_slaves == {mc_cycle[n] : n \in DOMAIN mc_cycle}
mc_channels == <<"Motor", "Gripper">>
=============================================================================
