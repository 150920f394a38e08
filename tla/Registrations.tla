----------------------------- MODULE Registrations -----------------------------
(***************************************************************************)
(* What the plugins register with AdapterPublishers for a discovered bus:  *)
(* which channels a topic reads, which IDs it is configured with, and      *)
(* which PDO types its publisher can convert. A bus is the map discovery   *)
(* returns, reduced to ID -> receive channel.                              *)
(*                                                                         *)
(* Operators named Mutant... are wrong variants of the operator after      *)
(* them. No specification uses them: they show which property notices.     *)
(***************************************************************************)
EXTENDS Functions

CHANNELS == {"Imu", "Motor", "Gripper", "Pump", "PowerBoard", "ForceTorque", "Valve"}

(* The PDO types the master sends on each channel.                         *)
TypesOn ==
    [Imu |-> {"RX_IMU_VN"},
     Motor |-> {"RX_CIA402", "RX_XT_MOTOR", "RX_MOTOR"},
     Gripper |-> {"RX_GRIPPER"},
     Pump |-> {"RX_HYQ_HPU"},
     PowerBoard |-> {"RX_POW_F28M36"},
     ForceTorque |-> {"RX_FT6"},
     Valve |-> {"RX_HYQ_KNEE"}]

JointTopic == {"joint_states", "motors", "grippers", "valves"}
DeviceTopic == {"imu", "power_board", "pump", "force_torque"}

(* The channels given to register_publisher(), in the order they are read. *)
MutantMotorsAndGrippersOnly ==
    [joint_states |-> <<"Motor", "Gripper">>,
     motors |-> <<"Motor">>, grippers |-> <<"Gripper">>, valves |-> <<"Valve">>,
     imu |-> <<"Imu">>, power_board |-> <<"PowerBoard">>, pump |-> <<"Pump">>,
     force_torque |-> <<"ForceTorque">>]
ChannelsOf ==
    [joint_states |-> <<"Motor", "Gripper", "Valve">>,
     motors |-> <<"Motor">>, grippers |-> <<"Gripper">>, valves |-> <<"Valve">>,
     imu |-> <<"Imu">>, power_board |-> <<"PowerBoard">>, pump |-> <<"Pump">>,
     force_torque |-> <<"ForceTorque">>]

(* The IDs of a topic; those of joint_states are gathered from three lists. *)
filter(ecat_map, channel) == {id \in DOMAIN ecat_map : ecat_map[id] = channel}
joint_ids(ecat_map) ==
    filter(ecat_map, "Motor") \cup filter(ecat_map, "Gripper")
        \cup filter(ecat_map, "Valve")
ids_of(topic, ecat_map) ==
    IF topic = "joint_states"
    THEN joint_ids(ecat_map)
    ELSE filter(ecat_map, ChannelsOf[topic][1])

(* The switch in each DDS publisher's process().                           *)
process ==
    [joint_states |-> {"RX_CIA402", "RX_XT_MOTOR", "RX_MOTOR", "RX_GRIPPER"},
     motors |-> {"RX_CIA402", "RX_XT_MOTOR", "RX_MOTOR"},
     grippers |-> {"RX_GRIPPER"},
     valves |-> {"RX_HYQ_KNEE"},
     imu |-> {"RX_IMU_VN"},
     power_board |-> {"RX_POW_F28M36"},
     pump |-> {"RX_HYQ_HPU"},
     force_torque |-> {"RX_FT6"}]

(* The types serialize_cycle() accepts, per Ros2MessageType.               *)
MutantSerializeAsDds == process
serialize_cycle ==
    [process EXCEPT !.joint_states = @ \cup {"RX_HYQ_KNEE"}]

handles(kind, topic) ==
    CASE kind = "dds" -> process[topic]
      [] kind = "cdr" -> serialize_cycle[topic]
      [] OTHER -> UNION Range(TypesOn)

(* One call of create_publisher() or register_topic().                     *)
registration(kind, topic, name, ids) ==
    [topic |-> IF name = "" THEN <<topic>> ELSE <<topic, name>>,
     kind |-> kind, handles |-> handles(kind, topic),
     channels |-> ChannelsOf[topic], ids |-> ids]

=============================================================================
