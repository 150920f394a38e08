----------------------------- MODULE EcatDiscovery -----------------------------
(***************************************************************************)
(* EcatDiscover: a plugin that starts connects to the shared memory of the *)
(* EtherCAT master and peeks its receive queues, again and again, until it *)
(* has seen a PDO of every configured ID. Peeking takes nothing away.      *)
(*                                                                         *)
(* The master is external: once per cycle it pushes one PDO of each slave  *)
(* that answers. What a full queue does with one more PDO is its own       *)
(* affair: it refuses the new one or gives up the oldest, and the model    *)
(* allows for both. Slaves come and go, the master may end, and a plugin   *)
(* that runs already may drain the same queues.                            *)
(*                                                                         *)
(* Operators named Mutant... are wrong variants of the operator after      *)
(* them. No specification uses them: they show which property notices.     *)
(***************************************************************************)
EXTENDS Integers, Sequences, FiniteSets, FiniteSetsExt

CONSTANTS
    Slave,     \* the slaves of the bus, each with the header its PDOs carry
    cycle,     \* the order in which the master serves them
    channels,  \* CHANNELS_ARRAY: the order in which discovery reads
    ecat_ids,  \* the configured IDs
    NoIndex,   \* the index of a PDO without one
    Capacity   \* of a receive queue

Index == Nat \cup {-1, NoIndex}

ASSUME SlaveAssumption ==
    /\ IsFiniteSet(Slave)
    /\ \A s \in Slave : s.index \in Index /\ \E c \in DOMAIN channels : channels[c] = s.channel
ASSUME ChannelsAssumption == channels \in Seq(STRING) /\ channels # <<>>
ASSUME CycleAssumption ==
    /\ cycle \in Seq(Slave)
    /\ cycle # <<>>
    /\ \A s \in Slave : \E n \in DOMAIN cycle : cycle[n] = s
ASSUME IdsAssumption == ecat_ids \subseteq Nat /\ IsFiniteSet(ecat_ids)
ASSUME NoIndexAssumption == NoIndex \notin Int
(* A receive queue holds at least one cycle.                               *)
ASSUME CapacityAssumption ==
    /\ Capacity \in Nat \ {0}
    /\ \A c \in DOMAIN channels :
           Cardinality({s \in Slave : s.channel = channels[c]}) <= Capacity

VARIABLES
    queue,       \* per channel: the PDOs in shared memory, oldest first
    turn,        \* the master's place in its cycle
    answering,   \* the slaves that answer the master
    late,        \* history: a slave answered only when discovery was running
    overwrites,  \* a full queue gives up its oldest PDO
    master,      \* the master's shared memory is up
    other,       \* a plugin that runs already drains the queues
    phase,       \* of this plugin's discovery
    channel,     \* index of the channel discover_once() reads next
    ecat_map,    \* ID -> metadata
    was_ok       \* history: discover() found the connection usable

bus == <<queue, turn, answering, late, overwrites, master, other>>
plugin == <<phase, channel, ecat_map, was_ok>>
vars == <<bus, plugin>>

Channel == {channels[c] : c \in DOMAIN channels}
EcatMetadata == [ecat_id: ecat_ids, type: {s.type : s \in Slave}, channel: Channel]
Phase == {"constructed", "started", "failed", "looping", "peeking", "sleeping", "returned"}

Init ==
    /\ queue = [c \in Channel |-> <<>>]
    /\ turn = 1
    /\ answering \in SUBSET Slave
    /\ late = FALSE
    /\ overwrites \in BOOLEAN
    /\ master = TRUE
    /\ other \in BOOLEAN
    /\ phase = "constructed"
    /\ channel = 1
    /\ ecat_map = [id \in {} |-> id]
    /\ was_ok = FALSE

-----------------------------------------------------------------------------
(* The bus.                                                                *)

Push(c, pdo) ==
    LET q == queue[c]
    IN  queue' = [queue EXCEPT ![c] =
            IF Len(q) < Capacity THEN Append(q, pdo)
            ELSE IF overwrites THEN Append(Tail(q), pdo) ELSE q]

MasterPush ==
    /\ master
    /\ LET s == cycle[turn]
       IN  IF s \in answering THEN Push(s.channel, s) ELSE UNCHANGED queue
    /\ turn' = (turn % Len(cycle)) + 1
    /\ UNCHANGED <<answering, late, overwrites, master, other, plugin>>

MasterEnds ==
    /\ master
    /\ master' = FALSE
    /\ UNCHANGED <<queue, turn, answering, late, overwrites, other, plugin>>

SlaveComes(s) ==
    /\ s \notin answering
    /\ answering' = answering \cup {s}
    /\ late' = TRUE
    /\ UNCHANGED <<queue, turn, overwrites, master, other, plugin>>

SlaveGoes(s) ==
    /\ s \in answering
    /\ answering' = answering \ {s}
    /\ UNCHANGED <<queue, turn, late, overwrites, master, other, plugin>>

(* drain() in fill_cache() of another plugin pops one PDO.                 *)
OtherDrains(c) ==
    /\ other
    /\ queue[c] # <<>>
    /\ queue' = [queue EXCEPT ![c] = Tail(@)]
    /\ UNCHANGED <<turn, answering, late, overwrites, master, other, plugin>>

-----------------------------------------------------------------------------
(* Discovery.                                                              *)

(* start(): the shared memory may fail to open for other reasons, too.     *)
Start ==
    /\ phase = "constructed"
    /\ \/ master /\ phase' = "started"
       \/ phase' = "failed"
    /\ UNCHANGED <<bus, channel, ecat_map, was_ok>>

(* discover() looks at the connection once, before its loop.               *)
Discover ==
    /\ phase = "started"
    /\ was_ok' = master
    /\ phase' = IF master THEN "looping" ELSE "returned"
    /\ UNCHANGED <<bus, channel, ecat_map>>

MutantEveryId == DOMAIN ecat_map # {s.index : s \in Slave}
KeepLooking == Cardinality(DOMAIN ecat_map) < Cardinality(ecat_ids)

DiscoverLoop ==
    /\ phase = "looping"
    /\ phase' = IF KeepLooking THEN "peeking" ELSE "returned"
    /\ channel' = 1
    /\ UNCHANGED <<bus, ecat_map, was_ok>>

MutantAnyId(pdo) == pdo.index \in Nat /\ pdo.index \notin DOMAIN ecat_map
MutantFoundAgain(pdo) == pdo.index \in ecat_ids
Wanted(pdo) ==
    /\ pdo.index # NoIndex
    /\ pdo.index >= 0
    /\ pdo.index \in ecat_ids
    /\ pdo.index \notin DOMAIN ecat_map

(* The callback of peek_all(): within a queue, too, the first PDO of an ID *)
(* is the one that is kept.                                                *)
Observed(c) ==
    LET wanted == {n \in DOMAIN queue[c] : Wanted(queue[c][n])}
        first(id) == queue[c][Min({n \in wanted : queue[c][n].index = id})]
    IN  [id \in {queue[c][n].index : n \in wanted} |->
            [ecat_id |-> id, type |-> first(id).type, channel |-> c]]

DiscoverOnce ==
    /\ phase = "peeking"
    /\ LET seen == Observed(channels[channel])
       IN  ecat_map' = [id \in DOMAIN ecat_map \cup DOMAIN seen |->
               IF id \in DOMAIN seen THEN seen[id] ELSE ecat_map[id]]
    /\ IF channel < Len(channels)
       THEN channel' = channel + 1 /\ UNCHANGED phase
       ELSE phase' = "sleeping" /\ UNCHANGED channel
    /\ UNCHANGED <<bus, was_ok>>

Sleep ==
    /\ phase = "sleeping"
    /\ phase' = "looping"
    /\ UNCHANGED <<bus, channel, ecat_map, was_ok>>

-----------------------------------------------------------------------------
Bus ==
    \/ MasterPush
    \/ MasterEnds
    \/ \E s \in Slave : SlaveComes(s) \/ SlaveGoes(s)
    \/ \E c \in Channel : OtherDrains(c)
Discovery == Start \/ Discover \/ DiscoverLoop \/ DiscoverOnce \/ Sleep
(* What the bus does when discovery is over is of no interest here.        *)
Running == phase \notin {"failed", "returned"}
Next == (Running /\ Bus) \/ Discovery

(* The master runs its cycles, and the thread of main() is scheduled.      *)
Fairness == WF_vars(Running /\ MasterPush) /\ WF_vars(Discovery)
Spec == Init /\ [][Next]_vars /\ Fairness

-----------------------------------------------------------------------------
(* The map holds configured IDs only, and a device is known by the PDO it  *)
(* was seen with.                                                          *)
TypeOK ==
    /\ queue \in [Channel -> Seq(Slave)]
    /\ \A c \in Channel : Len(queue[c]) <= Capacity
    /\ turn \in DOMAIN cycle
    /\ answering \subseteq Slave
    /\ late \in BOOLEAN /\ overwrites \in BOOLEAN /\ master \in BOOLEAN /\ other \in BOOLEAN
    /\ phase \in Phase
    /\ channel \in DOMAIN channels
    /\ DOMAIN ecat_map \subseteq ecat_ids
    /\ \A id \in DOMAIN ecat_map :
           ecat_map[id] \in EcatMetadata /\ ecat_map[id].ecat_id = id
    /\ was_ok \in BOOLEAN

(* When discover() returns, and the connection was usable when it began,   *)
(* every configured ID is in the map: the loop compares sizes only, so it  *)
(* depends on the filter of the callback that they mean the same.          *)
CompleteIfConnected == phase = "returned" /\ was_ok => DOMAIN ecat_map = ecat_ids

(* What discovery learnt of an ID never changes again: the channel and the *)
(* type of its first PDO stand, whatever else claims the same index.       *)
FirstObservationStands ==
    [][\A id \in DOMAIN ecat_map :
           id \in DOMAIN ecat_map' /\ ecat_map'[id] = ecat_map[id]]_vars

(* discover() returns when every slave with a configured ID answers, the   *)
(* master runs, and nobody else drains the queues: each cycle then leaves  *)
(* a PDO of every slave to be peeked. A slave that answers late must get   *)
(* into queues nobody drains, which takes a queue that gives up old PDOs.  *)
Settled ==
    /\ \A id \in ecat_ids : \E s \in Slave : s.index = id
    /\ \A s \in Slave : s.index \in ecat_ids => s \in answering
    /\ master
    /\ ~other
    /\ overwrites \/ ~late
DiscoveryReturns == phase = "looping" ~> phase = "returned" \/ ~Settled

=============================================================================
