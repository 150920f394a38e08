----------------------------- MODULE MCJointStates -----------------------------
(***************************************************************************)
(* AdapterPublishers with the joint_states topic exactly as the DDS        *)
(* plugins register it for a bus of one motor and one valve.               *)
(***************************************************************************)
EXTENDS AdapterPublishers

Setup == INSTANCE Registrations

MCBus == [id \in {0, 1} |-> IF id = 0 THEN "Motor" ELSE "Valve"]
MCChannels == <<"Motor", "Gripper", "Valve">>
MCTypes == {"Unspecified"} \cup UNION {Setup!TypesOn[c] : c \in Setup!CHANNELS}
MCSources ==
    {[channel |-> "Motor", has_index |-> TRUE, id |-> 0, type |-> "RX_CIA402"],
     [channel |-> "Valve", has_index |-> TRUE, id |-> 1, type |-> "RX_HYQ_KNEE"]}
MCSubscriptions ==
    <<Setup!registration("dds", "joint_states", "", Setup!joint_ids(MCBus))>>
MCMaxPush == [c \in {"Motor", "Gripper", "Valve"} |-> IF c = "Gripper" THEN 0 ELSE 2]

(***************************************************************************)
(* "Publishes the aggregated state of configured joints.": what            *)
(* JointStatePublisher writes names every joint it was configured with.    *)
(***************************************************************************)
AggregatesConfiguredJoints ==
    \A s \in Sub :
        subscriptions[s].topic = <<"joint_states">> /\ last[s] # <<>>
            => {e.id : e \in Batch(s)} = ids_allowed(s)

=============================================================================
