------------------------ MODULE PublisherSetup_proofs ------------------------
(***************************************************************************)
(* Proofs about the registration of publishers: for every bus, whatever    *)
(* its size, its channels and its names, no publisher is configured with   *)
(* an ID it can never hear or convert, and a successful init() serves      *)
(* every device.                                                           *)
(***************************************************************************)
EXTENDS PublisherSetup, FiniteSetTheorems, TLAPS

AllTopics == JointTopic \cup DeviceTopic

(* The bus and the names are those init() was given.                       *)
SetupOK ==
    /\ kind \in {"dds", "cdr", "protobuf"}
    /\ \E known \in SUBSET Ids : ecat_map \in [known -> Channels]
    /\ step \in Nat \ {0}

(* What create_publisher() or register_topic() was called with; the joint  *)
(* topics have no name.                                                    *)
NoName == ""
Calls == {registration(kind, t, n, ids) :
              t \in AllTopics, n \in {NoName} \cup Range(map_ecat_id), ids \in SUBSET DOMAIN ecat_map}
WellFormed(r) ==
    \E t \in AllTopics :
        /\ r.topic[1] = t
        /\ r.kind = kind
        /\ r.handles = handles(kind, t)
        /\ r.channels = ChannelsOf[t]
        /\ r.ids \subseteq ids_of(t, ecat_map)
        /\ t \in DeviceTopic => Cardinality(r.ids) = 1
AllWellFormed ==
    /\ registrations \in Seq(Calls)
    /\ \A i \in 1..Len(registrations) : WellFormed(registrations[i])

(* A topic of its own converts what device id sends.                       *)
Served(t, id) ==
    \E i \in 1..Len(registrations) :
        /\ registrations[i].topic # <<"joint_states">>
        /\ id \in registrations[i].ids
        /\ registrations[i].handles = handles(kind, t)

(* The topics behind the current one are served, and of the current one    *)
(* the devices that are no longer to be registered.                        *)
DoneTopics ==
    success => \A k \in 1..(step - 1) : k <= 8 => \A id \in ids_of(Topics(kind)[k], ecat_map) :
        Topics(kind)[k] # "joint_states" => Served(Topics(kind)[k], id)
InProgress ==
    remaining # {} => /\ step <= 8 /\ topic \in DeviceTopic /\ kind # "dds"
                      /\ remaining \subseteq devices
                      /\ success => \A id \in devices \ remaining : Served(topic, id)
Returned == outcome = "ok" => success /\ step > 8

IInv == SetupOK /\ AllWellFormed /\ DoneTopics /\ InProgress /\ Returned

-----------------------------------------------------------------------------
(* The tables.                                                             *)

(* Both plugins set up the same eight topics.                              *)
LEMMA TopicsFacts ==
  ASSUME NEW k \in {"dds", "cdr", "protobuf"}
  PROVE  /\ Len(Topics(k)) = 8
         /\ \A i \in 1..8 : Topics(k)[i] \in AllTopics
         /\ \A t \in AllTopics : \E i \in 1..8 : Topics(k)[i] = t
<1>1. CASE k = "dds"
  <2>1. Topics(k) = <<"joint_states", "motors", "grippers", "valves">>
                    \o <<"imu", "power_board", "pump", "force_torque">>
    BY <1>1 DEF Topics
  <2>2. /\ Len(Topics(k)) = 8
        /\ Topics(k)[1] = "joint_states" /\ Topics(k)[2] = "motors"
        /\ Topics(k)[3] = "grippers" /\ Topics(k)[4] = "valves"
        /\ Topics(k)[5] = "imu" /\ Topics(k)[6] = "power_board"
        /\ Topics(k)[7] = "pump" /\ Topics(k)[8] = "force_torque"
    BY <2>1
  <2>3. \A i \in 1..8 : i \in {1, 2, 3, 4, 5, 6, 7, 8}
    OBVIOUS
  <2> QED BY <2>2, <2>3 DEF AllTopics, JointTopic, DeviceTopic
<1>2. CASE k # "dds"
  <2>1. Topics(k) = <<"joint_states", "motors", "valves", "grippers">>
                    \o <<"imu", "power_board", "pump", "force_torque">>
    BY <1>2 DEF Topics
  <2>2. /\ Len(Topics(k)) = 8
        /\ Topics(k)[1] = "joint_states" /\ Topics(k)[2] = "motors"
        /\ Topics(k)[3] = "valves" /\ Topics(k)[4] = "grippers"
        /\ Topics(k)[5] = "imu" /\ Topics(k)[6] = "power_board"
        /\ Topics(k)[7] = "pump" /\ Topics(k)[8] = "force_torque"
    BY <2>1
  <2>3. \A i \in 1..8 : i \in {1, 2, 3, 4, 5, 6, 7, 8}
    OBVIOUS
  <2> QED BY <2>2, <2>3 DEF AllTopics, JointTopic, DeviceTopic
<1> QED BY <1>1, <1>2

(* A topic reads the channels of its IDs, and the CDR publisher converts   *)
(* every type these channels carry.                                        *)
LEMMA TopicHears ==
  ASSUME NEW t \in AllTopics, NEW map, NEW id \in ids_of(t, map)
  PROVE  /\ map[id] \in Range(ChannelsOf[t])
         /\ TypesOn[map[id]] \subseteq handles("cdr", t)
         /\ id \in DOMAIN map
<1>1. CASE t = "joint_states"
  <2>1. ChannelsOf[t] = <<"Motor", "Gripper", "Valve">>
    BY <1>1 DEF ChannelsOf
  <2>2. map[id] \in {"Motor", "Gripper", "Valve"} /\ id \in DOMAIN map
    BY <1>1 DEF ids_of, joint_ids, filter
  <2>3. {"Motor", "Gripper", "Valve"} \subseteq Range(<<"Motor", "Gripper", "Valve">>)
    BY DEF Range
  <2>4. handles("cdr", t) = {"RX_CIA402", "RX_XT_MOTOR", "RX_MOTOR", "RX_GRIPPER", "RX_HYQ_KNEE"}
    BY <1>1 DEF handles, serialize_cycle, process
  <2>5. TypesOn[map[id]] \subseteq handles("cdr", t)
    BY <2>2, <2>4 DEF TypesOn
  <2> QED BY <2>1, <2>2, <2>3, <2>5
<1>2. CASE t # "joint_states"
  <2>1. map[id] = ChannelsOf[t][1] /\ id \in DOMAIN map
    BY <1>2 DEF ids_of, filter
  <2>2. ChannelsOf[t][1] \in Range(ChannelsOf[t])
    BY <1>2 DEF ChannelsOf, Range, AllTopics, JointTopic, DeviceTopic
  <2>3. handles("cdr", t) = process[t]
    BY <1>2 DEF handles, serialize_cycle, process, AllTopics, JointTopic, DeviceTopic
  <2>4. TypesOn[ChannelsOf[t][1]] \subseteq process[t]
    BY <1>2 DEF ChannelsOf, TypesOn, process, AllTopics, JointTopic, DeviceTopic
  <2> QED BY <2>1, <2>2, <2>3, <2>4
<1> QED BY <1>1, <1>2

(* Every channel has a topic of its own, which every plugin converts.      *)
LEMMA ChannelHasTopic ==
  ASSUME NEW c \in CHANNELS
  PROVE  \E t \in AllTopics \ {"joint_states"} :
             /\ \A map : \A id \in DOMAIN map : map[id] = c => id \in ids_of(t, map)
             /\ \A k \in {"dds", "cdr", "protobuf"} : TypesOn[c] \subseteq handles(k, t)
<1> DEFINE own == [Imu |-> "imu", Motor |-> "motors", Gripper |-> "grippers", Pump |-> "pump",
                   PowerBoard |-> "power_board", ForceTorque |-> "force_torque", Valve |-> "valves"]
           t == own[c]
<1>1. t \in AllTopics \ {"joint_states"} /\ ChannelsOf[t][1] = c
  BY DEF CHANNELS, AllTopics, JointTopic, DeviceTopic, ChannelsOf
<1>2. \A map : \A id \in DOMAIN map : map[id] = c => id \in ids_of(t, map)
  <2> HIDE DEF t
  <2> QED BY <1>1 DEF ids_of, filter
<1>3. TypesOn[c] \subseteq process[t] /\ TypesOn[c] \subseteq serialize_cycle[t]
  <2>1. TypesOn[c] \subseteq process[t]
    BY DEF CHANNELS, TypesOn, process
  <2>2. serialize_cycle[t] = process[t]
    <3> HIDE DEF t
    <3> QED BY <1>1 DEF serialize_cycle, process, AllTopics, JointTopic, DeviceTopic
  <2> QED BY <2>1, <2>2
<1>4. TypesOn[c] \subseteq UNION Range(TypesOn)
  BY DEF CHANNELS, TypesOn, Range
<1>5. \A k \in {"dds", "cdr", "protobuf"} : TypesOn[c] \subseteq handles(k, t)
  <2> HIDE DEF t
  <2> QED BY <1>3, <1>4 DEF handles
<1> HIDE DEF t
<1> QED BY <1>1, <1>2, <1>5

-----------------------------------------------------------------------------
(* Steps.                                                                  *)

(* Nothing changes the bus, the names or the kind of the plugin.           *)
LEMMA SetupStep ==
  ASSUME SetupOK, [Next]_vars
  PROVE  SetupOK' /\ UNCHANGED <<kind, ecat_map, map_ecat_id>>
<1>1. UNCHANGED <<kind, ecat_map, map_ecat_id>>
  BY DEF Next, vars, setup, SkipTopic, RegisterJoints, DdsRegisterDevice, DdsRefuseDevice,
         DdsPublisherFails, ZenohBeginDevices, ZenohRegisterDevice, Return
<1>2. step' \in {step, step + 1}
  BY DEF Next, vars, NextTopic, SkipTopic, RegisterJoints, DdsRegisterDevice, DdsRefuseDevice,
         DdsPublisherFails, ZenohBeginDevices, ZenohRegisterDevice, Return
<1>3. step' \in Nat \ {0}
  BY <1>2 DEF SetupOK
<1> QED BY <1>1, <1>3 DEF SetupOK

(* The topic that is set up, and its devices.                              *)
LEMMA TopicInTurn ==
  ASSUME SetupOK
  PROVE  /\ \A ts : Running(ts) => step \in 1..8
         /\ step \in 1..8 => topic \in AllTopics /\ devices \subseteq DOMAIN ecat_map
         /\ JointTopic \cap DeviceTopic = {}
<1>1. kind \in {"dds", "cdr", "protobuf"} /\ step \in Nat \ {0}
  BY DEF SetupOK
<1>2. Len(Topics(kind)) = 8 /\ \A i \in 1..8 : Topics(kind)[i] \in AllTopics
  BY <1>1, TopicsFacts
<1>3. \A ts : Running(ts) => step \in 1..8
  BY <1>1, <1>2 DEF Running
<1>4. step \in 1..8 => topic \in AllTopics
  BY <1>2 DEF topic
<1>5. topic \in AllTopics => devices \subseteq DOMAIN ecat_map
  BY TopicHears DEF devices
<1>6. JointTopic \cap DeviceTopic = {}
  BY DEF JointTopic, DeviceTopic
<1> QED BY <1>3, <1>4, <1>5, <1>6

(* The fields of a registration.                                           *)
LEMMA RegistrationFields ==
  ASSUME NEW k, NEW t, NEW name, NEW ids, NEW r, r = registration(k, t, name, ids)
  PROVE  /\ r.topic = <<t>> \/ r.topic = <<t, name>>
         /\ r.kind = k /\ r.handles = handles(k, t) /\ r.channels = ChannelsOf[t] /\ r.ids = ids
  BY Zenon DEF registration

(* One more publisher: it is well formed and serves what it is given.      *)
LEMMA RegisterFacts ==
  ASSUME SetupOK, AllWellFormed, UNCHANGED <<kind, ecat_map, map_ecat_id>>, step \in 1..8,
         NEW u, u = topic,
         NEW name \in {NoName} \cup Range(map_ecat_id), NEW ids \in SUBSET devices,
         topic \in DeviceTopic => Cardinality(ids) = 1,
         Register(name, ids)
  PROVE  /\ AllWellFormed'
         /\ \A t, id : Served(t, id) => Served(t, id)'
         /\ u # "joint_states" => \A id \in ids : Served(u, id)'
<1>1. u \in AllTopics /\ ids \subseteq DOMAIN ecat_map /\ ids \subseteq ids_of(u, ecat_map)
  BY TopicInTurn DEF devices
<1>2. PICK r : r = registration(kind, u, name, ids)
  OBVIOUS
<1>3. r \in Calls
  BY <1>1, <1>2 DEF Calls
<1>4. /\ r.topic = <<u>> \/ r.topic = <<u, name>>
      /\ r.kind = kind /\ r.handles = handles(kind, u) /\ r.channels = ChannelsOf[u] /\ r.ids = ids
  BY <1>2, RegistrationFields
<1>5. PICK q \in Seq(Calls) : q = registrations
  BY DEF AllWellFormed
<1>6. registrations' = Append(q, r)
  BY <1>2, <1>5 DEF Register
<1>7. Calls' = Calls
  BY DEF Calls
<1>8. Append(q, r) \in Seq(Calls) /\ Len(Append(q, r)) = Len(q) + 1 /\ Len(q) \in Nat
  BY <1>3, <1>5
<1>9. Append(q, r)[Len(q) + 1] = r /\ \A i \in 1..Len(q) : Append(q, r)[i] = q[i]
  BY <1>3, <1>5
<1>10. /\ \A i \in 1..(Len(q) + 1) : i \in 1..Len(q) \/ i = Len(q) + 1
       /\ \A i \in 1..Len(q) : i \in 1..(Len(q) + 1)
       /\ Len(q) + 1 \in 1..(Len(q) + 1)
  BY <1>8
<1>11. r.topic[1] = u
  BY <1>4
<1>12. WellFormed(r)
  BY <1>1, <1>4, <1>11 DEF WellFormed
<1>13. \A x : WellFormed(x) => WellFormed(x)'
  BY DEF WellFormed
<1>14. AllWellFormed'
  <2>1. \A i \in 1..Len(q) : WellFormed(q[i])
    BY <1>5 DEF AllWellFormed
  <2>2. ASSUME NEW i \in 1..Len(registrations') PROVE WellFormed(registrations[i])'
    <3>1. CASE i = Len(q) + 1
      BY <1>6, <1>9, <1>12, <1>13, <3>1 DEF WellFormed
    <3>2. CASE i \in 1..Len(q)
      <4>1. registrations'[i] = q[i] /\ WellFormed(q[i])'
        BY <1>6, <1>9, <1>13, <2>1, <3>2
      <4> QED BY <4>1 DEF WellFormed
    <3> QED BY <1>6, <1>8, <1>10, <3>1, <3>2
  <2> QED BY <1>6, <1>7, <1>8, <2>2 DEF AllWellFormed
<1>15. ASSUME NEW t, NEW id, Served(t, id) PROVE Served(t, id)'
  <2>1. PICK i \in 1..Len(q) : /\ q[i].topic # <<"joint_states">>
                               /\ id \in q[i].ids
                               /\ q[i].handles = handles(kind, t)
    BY <1>5, <1>15 DEF Served
  <2>2. i \in 1..Len(registrations') /\ registrations'[i] = q[i]
    BY <1>6, <1>8, <1>9, <1>10
  <2> QED BY <2>1, <2>2 DEF Served
<1>16. ASSUME u # "joint_states", NEW id \in ids PROVE Served(u, id)'
  <2>1. Len(q) + 1 \in 1..Len(registrations') /\ registrations'[Len(q) + 1] = r
    BY <1>6, <1>8, <1>9, <1>10
  <2>2. r.topic # <<"joint_states">>
    BY <1>11, <1>16
  <2> QED BY <1>4, <2>1, <2>2 DEF Served
<1> QED BY <1>14, <1>15, <1>16

(* No publisher more: the facts about those there are stay.                *)
LEMMA NothingRegistered ==
  ASSUME AllWellFormed, UNCHANGED <<kind, ecat_map, map_ecat_id, registrations>>
  PROVE  AllWellFormed' /\ \A t, id : Served(t, id) => Served(t, id)'
<1>1. AllWellFormed'
  BY DEF AllWellFormed, WellFormed, Calls
<1>2. \A t, id : Served(t, id) => Served(t, id)'
  BY DEF Served
<1> QED BY <1>1, <1>2

(* A topic is left behind when its devices are served.                     *)
LEMMA TopicLeft ==
  ASSUME SetupOK, step \in 1..8, DoneTopics, UNCHANGED <<kind, ecat_map, map_ecat_id>>,
         step' = step + 1, success' => success,
         \A t, id : Served(t, id) => Served(t, id)',
         NEW u, u = topic,
         success' /\ u # "joint_states" => \A id \in ids_of(u, ecat_map) : Served(u, id)'
  PROVE  DoneTopics'
<1> SUFFICES ASSUME success', NEW k \in 1..(step' - 1), k <= 8,
                    NEW id \in ids_of(Topics(kind)[k], ecat_map),
                    Topics(kind)[k] # "joint_states"
             PROVE  Served(Topics(kind)[k], id)'
  BY DEF DoneTopics, Served
<1>1. k \in 1..(step - 1) \/ k = step
  BY DEF SetupOK
<1>2. CASE k \in 1..(step - 1)
  <2>1. Served(Topics(kind)[k], id)
    BY <1>2 DEF DoneTopics
  <2> QED BY <2>1 DEF Served
<1>3. CASE k = step
  <2>1. Topics(kind)[k] = u
    BY <1>3 DEF topic
  <2>2. Served(u, id)'
    BY <2>1
  <2> QED BY <2>1, <2>2 DEF Served
<1> QED BY <1>1, <1>2, <1>3

(* While a topic is not left, those before it stay served.                 *)
LEMMA TopicStays ==
  ASSUME DoneTopics, UNCHANGED <<kind, ecat_map, map_ecat_id, step>>, success' => success,
         \A t, id : Served(t, id) => Served(t, id)'
  PROVE  DoneTopics'
<1> SUFFICES ASSUME success', NEW k \in 1..(step - 1), k <= 8,
                    NEW id \in ids_of(Topics(kind)[k], ecat_map),
                    Topics(kind)[k] # "joint_states"
             PROVE  Served(Topics(kind)[k], id)'
  BY DEF DoneTopics, Served
<1>1. Served(Topics(kind)[k], id)
  BY DEF DoneTopics
<1> QED BY <1>1 DEF Served

(* Only success turns into failure, never the other way.                   *)
LEMMA SuccessOnlyLost ==
  ASSUME [Next]_vars
  PROVE  success' => success
  BY DEF Next, vars, Declare, SkipTopic, RegisterJoints, DdsRegisterDevice, DdsRefuseDevice,
         DdsPublisherFails, ZenohBeginDevices, ZenohRegisterDevice, Return

LEMMA JointsStep ==
  ASSUME IInv, SetupOK', UNCHANGED <<kind, ecat_map, map_ecat_id>>, RegisterJoints
  PROVE  IInv'
<1> USE DEF IInv
<1>1. PICK u : u = topic
  OBVIOUS
<1>2. step \in 1..8 /\ u \in JointTopic /\ step' = step + 1 /\ Register(NoName, devices)
  BY <1>1, TopicInTurn DEF RegisterJoints, Running, NextTopic, NoName
<1>3. u \notin DeviceTopic /\ devices = ids_of(u, ecat_map)
  BY <1>1, <1>2, TopicInTurn DEF devices
<1>4. /\ AllWellFormed'
      /\ \A t, id : Served(t, id) => Served(t, id)'
      /\ u # "joint_states" => \A id \in devices : Served(u, id)'
  <2>1. NoName \in {NoName} \cup Range(map_ecat_id) /\ devices \in SUBSET devices
    OBVIOUS
  <2> QED BY <1>1, <1>2, <1>3, <2>1, RegisterFacts
<1>5. success' => success
  BY SuccessOnlyLost DEF Next
<1>6. DoneTopics'
  BY <1>1, <1>2, <1>3, <1>4, <1>5, TopicLeft
<1>7. remaining' = {}
  BY <1>1, <1>3 DEF InProgress, RegisterJoints
<1>8. outcome' = outcome /\ outcome = "running"
  BY DEF RegisterJoints, Running
<1> QED BY <1>4, <1>6, <1>7, <1>8 DEF InProgress, Returned

LEMMA DdsStep ==
  ASSUME IInv, SetupOK', UNCHANGED <<kind, ecat_map, map_ecat_id>>, DdsRegisterDevice
  PROVE  IInv'
<1> USE DEF IInv
<1>1. PICK u : u = topic
  OBVIOUS
<1>2. step \in 1..8 /\ u \in DeviceTopic /\ step' = step + 1 /\ Cardinality(devices) = 1
  BY <1>1, TopicInTurn DEF DdsRegisterDevice, Running, NextTopic, OnlyOne
<1>3. PICK name \in {NoName} \cup Range(map_ecat_id) : Register(name, devices)
  BY DEF DdsRegisterDevice, named, Range
<1>4. /\ AllWellFormed'
      /\ \A t, id : Served(t, id) => Served(t, id)'
      /\ u # "joint_states" => \A id \in devices : Served(u, id)'
  <2>1. devices \in SUBSET devices
    OBVIOUS
  <2> QED BY <1>1, <1>2, <1>3, <2>1, RegisterFacts
<1>5. success' => success
  BY SuccessOnlyLost DEF Next
<1>6. DoneTopics'
  BY <1>1, <1>2, <1>4, <1>5, TopicLeft DEF devices
<1>7. remaining' = {}
  BY DEF InProgress, DdsRegisterDevice
<1>8. outcome' = outcome /\ outcome = "running"
  BY DEF DdsRegisterDevice, Running
<1> QED BY <1>4, <1>6, <1>7, <1>8 DEF InProgress, Returned

LEMMA ZenohStep ==
  ASSUME IInv, SetupOK', UNCHANGED <<kind, ecat_map, map_ecat_id>>, ZenohRegisterDevice
  PROVE  IInv'
<1> USE DEF IInv
<1>1. PICK u, ds : u = topic /\ ds = devices
  OBVIOUS
<1>2. step \in 1..8 /\ u \in DeviceTopic
  BY <1>1, TopicInTurn DEF ZenohRegisterDevice, Running
<1>3. u # "joint_states" /\ ds = ids_of(u, ecat_map)
  BY <1>1, <1>2 DEF DeviceTopic, devices
<1>4. PICK d \in remaining :
          /\ remaining' = remaining \ {d}
          /\ \/ named(d) /\ Register(map_ecat_id[d], {d})
             \/ success' = FALSE /\ UNCHANGED registrations
          /\ step' = IF remaining = {d} THEN step + 1 ELSE step
  BY DEF ZenohRegisterDevice
<1>5. /\ remaining \subseteq ds /\ d \in ds /\ remaining # {}
      /\ success => \A id \in ds \ remaining : Served(u, id)
      /\ kind # "dds"
  BY <1>1, <1>4 DEF InProgress
<1>6. success' => success
  BY SuccessOnlyLost DEF Next
<1>7. /\ AllWellFormed'
      /\ \A t, id : Served(t, id) => Served(t, id)'
      /\ success' => Served(u, d)'
  <2>1. CASE success' = FALSE /\ UNCHANGED registrations
    BY <2>1, NothingRegistered
  <2>2. CASE named(d) /\ Register(map_ecat_id[d], {d})
    <3>1. map_ecat_id[d] \in {NoName} \cup Range(map_ecat_id)
      BY <2>2 DEF named, Range
    <3>2. Cardinality({d}) = 1 /\ {d} \in SUBSET devices
      BY <1>1, <1>5, FS_Singleton
    <3>3. /\ AllWellFormed'
          /\ \A t, id : Served(t, id) => Served(t, id)'
          /\ u # "joint_states" => \A id \in {d} : Served(u, id)'
      BY <1>1, <1>2, <2>2, <3>1, <3>2, RegisterFacts
    <3> QED BY <1>3, <3>3
  <2> QED BY <1>4, <2>1, <2>2
<1>8. ASSUME success', NEW id \in ds \ remaining' PROVE Served(u, id)'
  <2>1. CASE id = d
    BY <1>7, <1>8, <2>1
  <2>2. CASE id # d
    <3>1. id \in ds \ remaining
      BY <1>4, <2>2
    <3> QED BY <1>5, <1>6, <1>7, <1>8, <3>1
  <2> QED BY <2>1, <2>2
<1>9. outcome' = outcome /\ outcome = "running"
  BY DEF ZenohRegisterDevice, Running
<1>10. CASE remaining = {d}
  <2>1. step' = step + 1 /\ remaining' = {}
    BY <1>4, <1>10
  <2>2. success' => \A id \in ids_of(u, ecat_map) : Served(u, id)'
    BY <1>3, <1>8, <2>1
  <2>3. DoneTopics'
    BY <1>1, <1>2, <1>6, <1>7, <2>1, <2>2, TopicLeft
  <2> QED BY <1>7, <1>9, <2>1, <2>3 DEF InProgress, Returned
<1>11. CASE remaining # {d}
  <2>1. step' = step
    BY <1>4, <1>11
  <2>2. DoneTopics'
    BY <1>6, <1>7, <2>1, TopicStays
  <2>3. topic' = u /\ devices' = ds
    BY <1>1, <2>1 DEF topic, devices
  <2>4. InProgress'
    <3>1. step' <= 8 /\ u \in DeviceTopic /\ kind' # "dds" /\ remaining' \subseteq ds
      BY <1>2, <1>4, <1>5, <2>1
    <3>2. success' => \A id \in ds \ remaining' : Served(topic, id)'
      BY <1>8, <2>3 DEF Served
    <3> QED BY <2>3, <3>1, <3>2 DEF InProgress
  <2> QED BY <1>7, <1>9, <2>2, <2>4 DEF Returned
<1> QED BY <1>10, <1>11

LEMMA SetupInvariant == Spec => []IInv
<1>1. Init => IInv
  <2> SUFFICES ASSUME Init PROVE IInv
    OBVIOUS
  <2>1. SetupOK
    BY DEF Init, SetupOK
  <2>2. registrations = <<>> /\ remaining = {} /\ outcome = "running" /\ step = 1
    BY DEF Init
  <2>3. AllWellFormed
    BY <2>2 DEF AllWellFormed
  <2>4. DoneTopics
    BY <2>2 DEF DoneTopics
  <2> QED BY <2>1, <2>2, <2>3, <2>4 DEF IInv, InProgress, Returned
<1>2. IInv /\ [Next]_vars => IInv'
  <2> SUFFICES ASSUME IInv, [Next]_vars PROVE IInv'
    OBVIOUS
  <2>1. SetupOK' /\ UNCHANGED <<kind, ecat_map, map_ecat_id>>
    BY SetupStep DEF IInv
  <2>2. success' => success
    BY SuccessOnlyLost
  <2>3. CASE UNCHANGED <<step, remaining, registrations, success, outcome>>
    <3>1. AllWellFormed' /\ \A t, id : Served(t, id) => Served(t, id)'
      BY <2>1, <2>3, NothingRegistered DEF IInv
    <3>2. DoneTopics'
      BY <2>1, <2>2, <2>3, <3>1, TopicStays DEF IInv
    <3>3. topic' = topic /\ devices' = devices
      BY <2>1, <2>3 DEF topic, devices
    <3>4. InProgress' /\ Returned'
      BY <2>1, <2>3, <3>3 DEF IInv, InProgress, Served, Returned
    <3> QED BY <2>1, <3>1, <3>2, <3>4 DEF IInv
  <2>4. CASE SkipTopic
    <3>1. PICK u : u = topic
      OBVIOUS
    <3>2. step \in 1..8 /\ step' = step + 1 /\ ids_of(u, ecat_map) = {}
      BY <2>4, <3>1, TopicInTurn DEF IInv, SkipTopic, Running, NextTopic, devices
    <3>3. UNCHANGED <<remaining, registrations, success, outcome>> /\ devices = {}
      BY <2>4 DEF SkipTopic
    <3>4. AllWellFormed' /\ \A t, id : Served(t, id) => Served(t, id)'
      BY <2>1, <3>3, NothingRegistered DEF IInv
    <3>5. DoneTopics'
      BY <2>1, <2>2, <3>1, <3>2, <3>4, TopicLeft DEF IInv
    <3>6. remaining' = {}
      BY <3>3 DEF IInv, InProgress
    <3>7. outcome' = "running"
      BY <2>4, <3>3 DEF SkipTopic, Running
    <3> QED BY <2>1, <3>4, <3>5, <3>6, <3>7 DEF IInv, InProgress, Returned
  <2>5. CASE RegisterJoints
    BY <2>1, <2>5, JointsStep
  <2>6. CASE DdsRegisterDevice
    BY <2>1, <2>6, DdsStep
  <2>7. CASE ZenohRegisterDevice
    BY <2>1, <2>7, ZenohStep
  <2>8. CASE DdsRefuseDevice \/ DdsPublisherFails \/ ZenohBeginDevices \/ Return
    <3>1. UNCHANGED <<step, registrations, success>>
      BY <2>8 DEF DdsRefuseDevice, DdsPublisherFails, ZenohBeginDevices, Return
    <3>2. AllWellFormed' /\ \A t, id : Served(t, id) => Served(t, id)'
      BY <2>1, <3>1, NothingRegistered DEF IInv
    <3>3. DoneTopics'
      BY <2>1, <2>2, <3>1, <3>2, TopicStays DEF IInv
    <3>4. topic' = topic /\ devices' = devices
      BY <2>1, <3>1 DEF topic, devices
    <3>5. CASE ZenohBeginDevices
      <4>1. remaining' = devices /\ outcome' = "running"
        BY <3>5 DEF ZenohBeginDevices, Running
      <4>2. step <= 8 /\ topic \in DeviceTopic /\ kind # "dds"
        BY <3>5, TopicInTurn DEF IInv, ZenohBeginDevices, Running
      <4>3. InProgress'
        BY <2>1, <3>1, <3>4, <4>1, <4>2 DEF InProgress
      <4> QED BY <2>1, <3>2, <3>3, <4>1, <4>3 DEF IInv, Returned
    <3>6. CASE DdsRefuseDevice \/ DdsPublisherFails \/ Return
      <4>1. remaining' = remaining
        BY <3>6 DEF DdsRefuseDevice, DdsPublisherFails, Return
      <4>2. InProgress'
        BY <2>1, <3>1, <3>4, <4>1 DEF IInv, InProgress, Served
      <4>3. Returned'
        <5>1. Len(Topics(kind)) = 8
          BY TopicsFacts DEF IInv, SetupOK
        <5> QED BY <3>1, <3>6, <5>1 DEF DdsRefuseDevice, DdsPublisherFails, Return, Returned
      <4> QED BY <2>1, <3>2, <3>3, <4>2, <4>3 DEF IInv
    <3> QED BY <2>8, <3>5, <3>6
  <2> QED BY <2>3, <2>4, <2>5, <2>6, <2>7, <2>8 DEF Next, vars
<1> QED BY <1>1, <1>2, PTL DEF Spec

-----------------------------------------------------------------------------
(* The results.                                                            *)

(* Every publisher is well formed, said of the set of publishers.          *)
LEMMA RegisteredWellFormed ==
  ASSUME IInv, NEW r \in Registered
  PROVE  WellFormed(r)
<1>1. DOMAIN registrations = 1..Len(registrations)
  BY DEF IInv, AllWellFormed
<1> QED BY <1>1 DEF IInv, AllWellFormed, Registered, Range

(* Every ID a publisher is configured with sends on a channel the          *)
(* publisher reads, so that no topic waits for a device it cannot hear     *)
(* (the filters and channel lists of both init()s, for every bus).         *)
THEOREM IdsAreHeard == Spec => []EveryIdIsHeard
<1>1. IInv => EveryIdIsHeard
  <2> SUFFICES ASSUME IInv, NEW r \in Registered, NEW id \in r.ids
               PROVE  ecat_map[id] \in Range(r.channels)
    BY DEF EveryIdIsHeard
  <2>1. PICK t \in AllTopics : r.channels = ChannelsOf[t] /\ r.ids \subseteq ids_of(t, ecat_map)
    BY RegisteredWellFormed DEF WellFormed
  <2> QED BY <2>1, TopicHears
<1> QED BY <1>1, SetupInvariant, PTL

(* No publisher is configured with more devices, or with devices of other  *)
(* types, than serialize_device() and serialize_cycle() accept.            *)
THEOREM ConfiguredCyclesConvert == Spec => []CyclesAreConvertible
<1>1. IInv => CyclesAreConvertible
  <2> SUFFICES ASSUME IInv, NEW r \in Registered
               PROVE  /\ r.topic[1] \in DeviceTopic => Cardinality(r.ids) = 1
                      /\ r.kind = "cdr" => \A id \in r.ids : TypesOn[ecat_map[id]] \subseteq r.handles
    BY DEF CyclesAreConvertible
  <2>1. PICK t \in AllTopics : /\ r.topic[1] = t /\ r.kind = kind /\ r.handles = handles(kind, t)
                               /\ r.ids \subseteq ids_of(t, ecat_map)
                               /\ t \in DeviceTopic => Cardinality(r.ids) = 1
    BY RegisteredWellFormed DEF WellFormed
  <2> QED BY <2>1, TopicHears
<1> QED BY <1>1, SetupInvariant, PTL

(* When init() reports success, every device of the bus has a publisher of *)
(* a topic of its own that converts all it can send.                       *)
THEOREM SuccessServesEveryDevice == Spec => []EveryDeviceServed
<1>1. IInv => EveryDeviceServed
  <2> SUFFICES ASSUME IInv, outcome = "ok", NEW id \in DOMAIN ecat_map
               PROVE  \E r \in Registered : /\ r.topic # <<"joint_states">>
                                            /\ id \in r.ids
                                            /\ TypesOn[ecat_map[id]] \subseteq r.handles
    BY DEF EveryDeviceServed
  <2>1. ecat_map[id] \in CHANNELS
    <3>1. Channels \subseteq CHANNELS
      BY SetupAssumption, Zenon
    <3> QED BY <3>1 DEF IInv, SetupOK
  <2>2. PICK t \in AllTopics \ {"joint_states"} :
            /\ id \in ids_of(t, ecat_map)
            /\ \A k \in {"dds", "cdr", "protobuf"} : TypesOn[ecat_map[id]] \subseteq handles(k, t)
    BY <2>1, ChannelHasTopic
  <2>3. kind \in {"dds", "cdr", "protobuf"} /\ step \in Nat
    BY DEF IInv, SetupOK
  <2>4. PICK i \in 1..8 : Topics(kind)[i] = t
    BY <2>2, <2>3, TopicsFacts
  <2>5. success /\ step > 8
    BY DEF IInv, Returned
  <2>6. i \in 1..(step - 1) /\ i <= 8
    BY <2>3, <2>5
  <2>7. Served(t, id)
    BY <2>2, <2>4, <2>5, <2>6 DEF IInv, DoneTopics
  <2>8. PICK j \in 1..Len(registrations) : /\ registrations[j].topic # <<"joint_states">>
                                           /\ id \in registrations[j].ids
                                           /\ registrations[j].handles = handles(kind, t)
    BY <2>7 DEF Served
  <2>9. registrations[j] \in Registered
    <3>1. DOMAIN registrations = 1..Len(registrations)
      BY DEF IInv, AllWellFormed
    <3> QED BY <3>1 DEF Registered, Range
  <2> QED BY <2>2, <2>3, <2>8, <2>9
<1> QED BY <1>1, SetupInvariant, PTL
=============================================================================
