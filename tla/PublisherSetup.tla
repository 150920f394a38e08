----------------------------- MODULE PublisherSetup -----------------------------
(***************************************************************************)
(* DDSAdapterPublishers::init() and ZenohAdapterPublishers::init(): from   *)
(* the map discovery returned and the configured device names to the       *)
(* publishers registered with AdapterPublishers.                           *)
(*                                                                         *)
(* DDS gives up at the first problem: a second IMU, power board, pump or   *)
(* force sensor, an ID without a name, or a publisher that cannot be       *)
(* created. Zenoh registers what it can and reports failure at the end,    *)
(* and it gives every device a topic of its own.                           *)
(*                                                                         *)
(* Operators named Mutant... are wrong variants of the operator after      *)
(* them. No specification uses them: they show which property notices.     *)
(***************************************************************************)
EXTENDS Naturals, Sequences, FiniteSets, Registrations

CONSTANTS
    Ids,       \* the EtherCAT IDs a robot may be configured with
    Channels,  \* the channels its devices may be heard on
    Names      \* the names its devices may have

ASSUME SetupAssumption ==
    /\ IsFiniteSet(Ids)
    /\ Channels \subseteq CHANNELS
    /\ Names \subseteq STRING \ {""}

VARIABLES
    kind,           \* which plugin, and for Zenoh which wire format
    ecat_map,       \* what discovery returned: ID -> channel
    map_ecat_id,    \* RobotConfig: ID -> name
    step,           \* index of the topic being set up
    remaining,      \* Zenoh: devices of the topic still to be registered
    registrations,  \* the publishers registered so far, in order
    success,        \* Zenoh: no registration failed so far
    outcome         \* of init()

setup == <<kind, ecat_map, map_ecat_id>>
vars == <<setup, step, remaining, registrations, success, outcome>>

(* The order of the calls in init().                                       *)
Topics(k) ==
    (IF k = "dds" THEN <<"joint_states", "motors", "grippers", "valves">>
                  ELSE <<"joint_states", "motors", "valves", "grippers">>)
    \o <<"imu", "power_board", "pump", "force_torque">>
topic == Topics(kind)[step]

devices == ids_of(topic, ecat_map)

Init ==
    /\ kind \in {"dds", "cdr", "protobuf"}
    /\ \E known \in SUBSET Ids :
           /\ ecat_map \in [known -> Channels]
           /\ map_ecat_id \in [known -> Names]
    /\ step = 1
    /\ remaining = {}
    /\ registrations = <<>>
    /\ success = TRUE
    /\ outcome = "running"

MutantSkipsOne == step' = step + 2
NextTopic == step' = step + 1

Register(name, ids) ==
    registrations' = Append(registrations, registration(kind, topic, name, ids))

(* Zenoh registers the publisher first and then declares it, which may     *)
(* fail: that is remembered and not fatal yet.                             *)
Declare ==
    IF kind = "dds" THEN UNCHANGED success ELSE success' \in {success, FALSE}

Running(topics) ==
    /\ outcome = "running"
    /\ step <= Len(Topics(kind))
    /\ topic \in topics

(* A topic nobody on the bus feeds gets no publisher.                      *)
SkipTopic ==
    /\ Running(JointTopic \cup DeviceTopic)
    /\ devices = {}
    /\ NextTopic
    /\ UNCHANGED <<setup, remaining, registrations, success, outcome>>

(* The four aggregate topics.                                              *)
RegisterJoints ==
    /\ Running(JointTopic)
    /\ devices # {}
    /\ Register("", devices)
    /\ Declare
    /\ NextTopic
    /\ UNCHANGED <<setup, remaining, outcome>>

(* DDS: exactly one device of the kind, whose name is configured.          *)
OnlyOne == Cardinality(devices) = 1

named(id) == id \in DOMAIN map_ecat_id

DdsRegisterDevice ==
    /\ kind = "dds"
    /\ Running(DeviceTopic)
    /\ OnlyOne
    /\ \E id \in devices : named(id) /\ Register(map_ecat_id[id], devices)
    /\ NextTopic
    /\ UNCHANGED <<setup, remaining, success, outcome>>

DdsRefuseDevice ==
    /\ kind = "dds"
    /\ Running(DeviceTopic)
    /\ devices # {}
    /\ OnlyOne => \E id \in devices : ~named(id)
    /\ outcome' = "failed"
    /\ UNCHANGED <<setup, step, remaining, registrations, success>>

(* DDS: a writer that cannot be created throws out of init().              *)
DdsPublisherFails ==
    /\ kind = "dds"
    /\ Running(JointTopic \cup DeviceTopic)
    /\ devices # {}
    /\ topic \in DeviceTopic => OnlyOne
    /\ outcome' = "failed"
    /\ UNCHANGED <<setup, step, remaining, registrations, success>>

(* Zenoh, register_devices: one topic per device, in the map's order.      *)
ZenohBeginDevices ==
    /\ kind # "dds"
    /\ Running(DeviceTopic)
    /\ devices # {}
    /\ remaining = {}
    /\ remaining' = devices
    /\ UNCHANGED <<setup, step, registrations, success, outcome>>

ZenohRegisterDevice ==
    /\ kind # "dds"
    /\ Running(DeviceTopic)
    /\ \E id \in remaining :
           /\ remaining' = remaining \ {id}
           /\ IF named(id)
              THEN Register(map_ecat_id[id], {id}) /\ Declare
              ELSE success' = FALSE /\ UNCHANGED registrations
           /\ step' = IF remaining = {id} THEN step + 1 ELSE step
    /\ UNCHANGED <<setup, outcome>>

Return ==
    /\ outcome = "running"
    /\ step > Len(Topics(kind))
    /\ outcome' = IF success THEN "ok" ELSE "failed"
    /\ UNCHANGED <<setup, step, remaining, registrations, success>>

Next ==
    \/ SkipTopic
    \/ RegisterJoints
    \/ DdsRegisterDevice
    \/ DdsRefuseDevice
    \/ DdsPublisherFails
    \/ ZenohBeginDevices
    \/ ZenohRegisterDevice
    \/ Return

Spec == Init /\ [][Next]_vars

-----------------------------------------------------------------------------
Registered == Range(registrations)

(***************************************************************************)
(* Every publisher can complete a cycle: each of its IDs sends on one of   *)
(* the channels it reads. One that does not keeps dispatch's valid flag    *)
(* false for ever, and the topic silent.                                   *)
(***************************************************************************)
EveryIdIsHeard ==
    \A r \in Registered : \A id \in r.ids : ecat_map[id] \in Range(r.channels)

(***************************************************************************)
(* A successful init serves every device of the bus: some topic other than *)
(* the aggregate joint_states converts all that the device can send.       *)
(***************************************************************************)
EveryDeviceServed ==
    outcome = "ok" =>
        \A id \in DOMAIN ecat_map : \E r \in Registered :
            /\ r.topic # <<"joint_states">>
            /\ id \in r.ids
            /\ TypesOn[ecat_map[id]] \subseteq r.handles

(***************************************************************************)
(* serialize_cycle() refuses a whole cycle for one PDO it cannot convert,  *)
(* and serialize_device() one that is not of a single PDO: no Zenoh topic  *)
(* is configured with such an ID. The DDS device publishers overwrite      *)
(* their message with every PDO, so they too are given one device.         *)
(***************************************************************************)
CyclesAreConvertible ==
    \A r \in Registered :
        /\ r.topic[1] \in DeviceTopic => Cardinality(r.ids) = 1
        /\ r.kind = "cdr" => \A id \in r.ids : TypesOn[ecat_map[id]] \subseteq r.handles

=============================================================================
