------------------------- MODULE EcatDiscovery_proofs -------------------------
(***************************************************************************)
(* For every bus and every set of configured IDs: discovery keeps its      *)
(* types, returns a complete map unless it never had a connection, and     *)
(* never changes what it learnt of an ID.                                  *)
(***************************************************************************)
EXTENDS EcatDiscovery, FiniteSetTheorems, WellFoundedInduction, TLAPS

(* The least of some places in a queue is one of them.                     *)
LEMMA MinIsElement ==
    ASSUME NEW S \in SUBSET Nat, S # {}
    PROVE  Min(S) \in S
  <1>1. PICK x \in S : \A y \in S : ~(<<y, x>> \in OpToRel(<, Nat))
    BY NatLessThanWellFounded, WFMin
  <1>2. \A y \in S : ~(y < x)
    BY <1>1 DEF OpToRel
  <1>3. \A y \in S : x =< y
    BY <1>2
  <1>. QED
    BY <1>3 DEF Min

(* What a queue shows is about configured IDs that are not in the map yet. *)
LEMMA ObservedType ==
    ASSUME TypeOK, NEW c \in Channel
    PROVE  /\ DOMAIN Observed(c) \subseteq ecat_ids \ DOMAIN ecat_map
           /\ \A id \in DOMAIN Observed(c) :
                  Observed(c)[id] \in EcatMetadata /\ Observed(c)[id].ecat_id = id
  <1> DEFINE wanted == {n \in DOMAIN queue[c] : Wanted(queue[c][n])}
             places(id) == {n \in wanted : queue[c][n].index = id}
             seen == {queue[c][n].index : n \in wanted}
  <1>1. Observed(c) = [id \in seen |->
            [ecat_id |-> id, type |-> queue[c][Min(places(id))].type, channel |-> c]]
    BY DEF Observed
  <1>2. seen \subseteq ecat_ids \ DOMAIN ecat_map
    BY DEF Wanted
  <1>3. ASSUME NEW id \in seen
        PROVE  queue[c][Min(places(id))].type \in {s.type : s \in Slave}
    <2>1. queue[c] \in Seq(Slave)
      BY DEF TypeOK
    <2>2. places(id) \in SUBSET DOMAIN queue[c] /\ places(id) # {}
      OBVIOUS
    <2>3. DOMAIN queue[c] \subseteq Nat
      BY <2>1
    <2> HIDE DEF places
    <2>4. Min(places(id)) \in DOMAIN queue[c]
      <3>1. places(id) \in SUBSET Nat
        BY <2>2, <2>3
      <3>. QED
        BY <2>2, <3>1, MinIsElement
    <2>. QED
      BY <2>1, <2>4
  <1> HIDE DEF wanted, places, seen
  <1>4. ASSUME NEW id \in seen
        PROVE  Observed(c)[id] \in EcatMetadata /\ Observed(c)[id].ecat_id = id
    BY <1>1, <1>2, <1>3 DEF EcatMetadata
  <1>. QED
    BY <1>1, <1>2, <1>4

(* What may happen to a queue: it may stay, grow by one PDO, lose its first *)
(* one or move on by one.                                                  *)
LEMMA QueueType ==
    ASSUME TypeOK, Bus
    PROVE  queue' \in [Channel -> Seq(Slave)] /\ \A c \in Channel : Len(queue'[c]) <= Capacity
  <1> USE CapacityAssumption DEF TypeOK
  <1>1. CASE MasterPush
    <2> DEFINE s == cycle[turn]
    <2>1. s \in Slave
      BY CycleAssumption
    <2>2. s.channel \in Channel
      BY <2>1, SlaveAssumption DEF Channel
    <2> HIDE DEF s
    <2>3. queue[s.channel] \in Seq(Slave)
      BY <2>2
    <2>4. CASE Push(s.channel, s)
      <3> DEFINE q == queue[s.channel]
                 p == IF Len(q) < Capacity THEN Append(q, s)
                      ELSE IF overwrites THEN Append(Tail(q), s) ELSE q
      <3>1. q \in Seq(Slave) /\ Len(q) \in Nat /\ Len(q) <= Capacity
        BY <2>2, <2>3
      <3> HIDE DEF q
      <3>2. Len(q) # 0 => /\ Tail(q) \in Seq(Slave)
                          /\ Len(Tail(q)) = Len(q) - 1
        BY <3>1
      <3>3. Append(q, s) \in Seq(Slave) /\ Len(Append(q, s)) = Len(q) + 1
        BY <2>1, <3>1
      <3>4. Len(q) # 0 => /\ Append(Tail(q), s) \in Seq(Slave)
                          /\ Len(Append(Tail(q), s)) = Len(q)
        BY <2>1, <3>1, <3>2
      <3>5. p \in Seq(Slave) /\ Len(p) <= Capacity
        BY <3>1, <3>3, <3>4
      <3>6. queue' = [queue EXCEPT ![s.channel] = p]
        BY <2>4 DEF Push, q
      <3> HIDE DEF p
      <3>. QED
        BY <2>2, <3>5, <3>6
    <2>5. CASE UNCHANGED queue
      BY <2>5
    <2>. QED
      BY <1>1, <2>4, <2>5 DEF MasterPush, s
  <1>2. CASE \E c \in Channel : OtherDrains(c)
    <2>1. PICK c \in Channel : /\ queue[c] # <<>>
                              /\ queue' = [queue EXCEPT ![c] = Tail(queue[c])]
      BY <1>2 DEF OtherDrains
    <2>2. queue[c] \in Seq(Slave) /\ Len(queue[c]) <= Capacity
      BY DEF TypeOK
    <2>3. Tail(queue[c]) \in Seq(Slave) /\ Len(Tail(queue[c])) <= Capacity
      <3> DEFINE q == queue[c]
      <3>1. q \in Seq(Slave) /\ q # <<>> /\ Len(q) <= Capacity
        BY <2>1, <2>2
      <3> HIDE DEF q
      <3>2. Tail(q) \in Seq(Slave) /\ Len(Tail(q)) = Len(q) - 1 /\ Len(q) \in Nat
        BY <3>1
      <3>. QED
        BY <3>1, <3>2 DEF q
    <2> DEFINE p == Tail(queue[c])
    <2>4. queue' = [queue EXCEPT ![c] = p]
      BY <2>1
    <2> HIDE DEF p
    <2>. QED
      BY <2>3, <2>4 DEF p
  <1>3. CASE UNCHANGED queue
    BY <1>3
  <1>. QED
    BY <1>1, <1>2, <1>3 DEF Bus, MasterEnds, SlaveComes, SlaveGoes

(* What discovery knows after it read one more channel.                    *)
LEMMA DiscoverOnceMap ==
    ASSUME TypeOK, DiscoverOnce
    PROVE  /\ DOMAIN ecat_map \subseteq DOMAIN ecat_map'
           /\ \A id \in DOMAIN ecat_map : ecat_map'[id] = ecat_map[id]
           /\ DOMAIN ecat_map' \subseteq ecat_ids
           /\ \A id \in DOMAIN ecat_map' :
                  ecat_map'[id] \in EcatMetadata /\ ecat_map'[id].ecat_id = id
  <1> DEFINE seen == Observed(channels[channel])
  <1>1. channels[channel] \in Channel
    BY DEF TypeOK, Channel
  <1>2. /\ DOMAIN seen \subseteq ecat_ids \ DOMAIN ecat_map
        /\ \A id \in DOMAIN seen : seen[id] \in EcatMetadata /\ seen[id].ecat_id = id
    BY <1>1, ObservedType
  <1>3. ecat_map' = [id \in DOMAIN ecat_map \cup DOMAIN seen |->
                        IF id \in DOMAIN seen THEN seen[id] ELSE ecat_map[id]]
    BY DEF DiscoverOnce
  <1> HIDE DEF seen
  <1>. QED
    BY <1>2, <1>3 DEF TypeOK

LEMMA InitTypeOK == Init => TypeOK
  <1> SUFFICES ASSUME Init
               PROVE  TypeOK
    OBVIOUS
  <1>1. /\ queue \in [Channel -> Seq(Slave)]
        /\ \A c \in Channel : Len(queue[c]) <= Capacity
    BY CapacityAssumption DEF Init
  <1>2. turn \in DOMAIN cycle
    BY CycleAssumption DEF Init
  <1>3. channel \in DOMAIN channels
    BY ChannelsAssumption DEF Init
  <1>. QED
    BY <1>1, <1>2, <1>3 DEF Init, TypeOK, Phase

LEMMA StepTypeOK == TypeOK /\ [Next]_vars => TypeOK'
  <1> SUFFICES ASSUME TypeOK, [Next]_vars
               PROVE  TypeOK'
    OBVIOUS
  <1>1. CASE Bus
    <2>1. queue' \in [Channel -> Seq(Slave)] /\ \A c \in Channel : Len(queue'[c]) <= Capacity
      BY <1>1, QueueType
    <2>2. turn' \in DOMAIN cycle
      <3>1. CASE MasterPush
        <4>1. Len(cycle) \in Nat \ {0} /\ turn \in 1..Len(cycle) /\ DOMAIN cycle = 1..Len(cycle)
          BY CycleAssumption DEF TypeOK
        <4>2. turn % Len(cycle) \in 0..(Len(cycle) - 1)
          BY <4>1
        <4>. QED
          BY <3>1, <4>1, <4>2 DEF MasterPush
      <3>2. CASE UNCHANGED turn
        BY <3>2 DEF TypeOK
      <3>. QED
        BY <1>1, <3>1, <3>2 DEF Bus, MasterEnds, SlaveComes, SlaveGoes, OtherDrains
    <2>3. /\ answering' \subseteq Slave
          /\ late' \in BOOLEAN /\ overwrites' \in BOOLEAN
          /\ master' \in BOOLEAN /\ other' \in BOOLEAN
      BY <1>1 DEF TypeOK, Bus, MasterPush, MasterEnds, SlaveComes, SlaveGoes, OtherDrains
    <2>4. UNCHANGED plugin
      BY <1>1 DEF Bus, MasterPush, MasterEnds, SlaveComes, SlaveGoes, OtherDrains
    <2>. QED
      BY <2>1, <2>2, <2>3, <2>4 DEF TypeOK, plugin
  <1>2. CASE Discovery
    <2>1. UNCHANGED bus
      BY <1>2 DEF Discovery, Start, Discover, DiscoverLoop, DiscoverOnce, Sleep
    <2>2. phase' \in Phase /\ was_ok' \in BOOLEAN
      BY <1>2 DEF TypeOK, Phase, Discovery, Start, Discover, DiscoverLoop, DiscoverOnce, Sleep
    <2>3. channel' \in DOMAIN channels
      BY <1>2, ChannelsAssumption
      DEF TypeOK, Discovery, Start, Discover, DiscoverLoop, DiscoverOnce, Sleep
    <2>4. /\ DOMAIN ecat_map' \subseteq ecat_ids
          /\ \A id \in DOMAIN ecat_map' :
                 ecat_map'[id] \in EcatMetadata /\ ecat_map'[id].ecat_id = id
      <3>1. CASE DiscoverOnce
        BY <3>1, DiscoverOnceMap
      <3>2. CASE UNCHANGED ecat_map
        BY <3>2 DEF TypeOK
      <3>. QED
        BY <1>2, <3>1, <3>2 DEF Discovery, Start, Discover, DiscoverLoop, Sleep
    <2>. QED
      BY <2>1, <2>2, <2>3, <2>4 DEF TypeOK, bus
  <1>3. CASE UNCHANGED vars
    BY <1>3 DEF TypeOK, vars, bus, plugin
  <1>. QED
    BY <1>1, <1>2, <1>3 DEF Next

(* Discovery keeps its types, whatever the bus is made of.                 *)
THEOREM TypeCorrect == Spec => []TypeOK
  <1>. QED
    BY InitTypeOK, StepTypeOK, PTL DEF Spec

(* A map with as many entries as there are configured IDs is complete.     *)
LEMMA SameSizeIsComplete ==
    ASSUME TypeOK, ~KeepLooking
    PROVE  DOMAIN ecat_map = ecat_ids
  <1>1. /\ Cardinality(DOMAIN ecat_map) <= Cardinality(ecat_ids)
        /\ Cardinality(ecat_ids) = Cardinality(DOMAIN ecat_map) => ecat_ids = DOMAIN ecat_map
        /\ IsFiniteSet(DOMAIN ecat_map)
    BY IdsAssumption, FS_Subset DEF TypeOK
  <1>2. Cardinality(DOMAIN ecat_map) \in Nat /\ Cardinality(ecat_ids) \in Nat
    BY <1>1, IdsAssumption, FS_CardinalityType
  <1>. QED
    BY <1>1, <1>2 DEF KeepLooking

(* discover() returns a complete map whenever its connection was usable    *)
(* when it began: comparing sizes is enough, for every bus.                *)
THEOREM Complete == Spec => []CompleteIfConnected
  <1> DEFINE IInv == CompleteIfConnected /\ (phase = "constructed" => ~was_ok)
  <1>1. Init => IInv
    BY DEF Init, CompleteIfConnected
  <1>2. TypeOK /\ IInv /\ [Next]_vars => IInv'
    <2> SUFFICES ASSUME TypeOK, IInv, [Next]_vars
                 PROVE  IInv'
      OBVIOUS
    <2>1. CASE Bus
      BY <2>1 DEF Bus, MasterPush, MasterEnds, SlaveComes, SlaveGoes, OtherDrains, plugin,
                  CompleteIfConnected
    <2>2. CASE DiscoverLoop
      BY <2>2, SameSizeIsComplete DEF DiscoverLoop, CompleteIfConnected
    <2>3. CASE Start \/ Discover \/ DiscoverOnce \/ Sleep
      BY <2>3 DEF Start, Discover, DiscoverOnce, Sleep, CompleteIfConnected, TypeOK
    <2>4. CASE UNCHANGED vars
      BY <2>4 DEF vars, plugin, CompleteIfConnected
    <2>. QED
      BY <2>1, <2>2, <2>3, <2>4 DEF Next, Discovery
  <1>3. IInv => CompleteIfConnected
    OBVIOUS
  <1>. QED
    BY <1>1, <1>2, <1>3, TypeCorrect, PTL DEF Spec

(* What discovery learnt of an ID never changes, although other devices    *)
(* may claim the same index on the same or on another channel.             *)
THEOREM FirstStands == Spec => FirstObservationStands
  <1> DEFINE Stands == \A id \in DOMAIN ecat_map :
                           id \in DOMAIN ecat_map' /\ ecat_map'[id] = ecat_map[id]
  <1>1. TypeOK /\ [Next]_vars => [Stands]_vars
    <2> SUFFICES ASSUME TypeOK, Next
                 PROVE  Stands
      OBVIOUS
    <2>1. CASE DiscoverOnce
      BY <2>1, DiscoverOnceMap
    <2>2. CASE UNCHANGED ecat_map
      BY <2>2
    <2>. QED
      BY <2>1, <2>2
      DEF Next, Bus, MasterPush, MasterEnds, SlaveComes, SlaveGoes, OtherDrains, plugin,
          Discovery, Start, Discover, DiscoverLoop, Sleep
  <1>. QED
    BY <1>1, TypeCorrect, PTL DEF Spec, FirstObservationStands

=============================================================================
