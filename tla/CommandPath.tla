------------------------------ MODULE CommandPath ------------------------------
(***************************************************************************)
(* AdapterSubscribers: commands from DDS readers or Zenoh subscribers to   *)
(* the transmit queues of the EtherCAT master.                             *)
(*                                                                         *)
(* The network thread (the reader cache of DDS, the callback of            *)
(* ZenohSubscriber) keeps the last few commands of a topic; the worker     *)
(* takes them, converts each into transmit PDOs and pushes these one by    *)
(* one. CycloneDDS and Zenoh take all that is there, FastDDS one command   *)
(* after the other. A PDO that is refused costs a DDS command that element *)
(* only, and a Zenoh command all that follow it.                           *)
(*                                                                         *)
(* The clients, the network, which may lose commands, and the master,      *)
(* which pops the transmit queues, are external.                           *)
(*                                                                         *)
(* Operators named Mutant... are wrong variants of the operator after      *)
(* them. No specification uses them: they show which property notices.     *)
(***************************************************************************)
EXTENDS Integers, Sequences, FiniteSets, Functions

CONSTANTS
    Target,        \* the index elements of a command may name
    Command,       \* the element lists of the commands: sequences of Target
    device_types,  \* what discovery knows: ID -> received PDO type
    zenoh_topics,  \* the Zenoh topics in use, in the order of topics_
    history_depth, \* DDS: the depth of the readers
    TxCapacity,    \* of a transmit queue
    MaxCommands    \* bound: commands the clients send

Topic == {"joint", "motor", "valve", "gripper", "pump"}

ASSUME CommandAssumption ==
    /\ Target \subseteq Int
    /\ Command \subseteq Seq(Target)
    /\ DOMAIN device_types \subseteq Nat
ASSUME TopicsAssumption == zenoh_topics \in Seq(Topic) /\ IsInjective(zenoh_topics)
ASSUME BoundsAssumption ==
    /\ history_depth \in Nat \ {0}
    /\ TxCapacity \in Nat \ {0}
    /\ MaxCommands \in Nat

VARIABLES
    kind,        \* of the plugin; for Zenoh its wire format
    subscribers, \* how many subscribers are registered
    phase,       \* of the adapter
    sent,        \* commands sent so far: the stamp of the last
    arrived,     \* history: the stamp of the last command that arrived
    pending,     \* per topic: pending_ or the reader's cache
    current,     \* index of the subscriber the worker serves
    batch,       \* the commands taken, the one in progress first
    next,        \* the next element of the command in progress
    accepted,    \* history: its elements that are in the queue
    handled,     \* history: per topic, the stamp of the last command done
    tx,          \* per channel: the transmit queue, oldest first
    popped,      \* history: per topic, what the master saw last
    connected    \* the shared memory is usable

worker == <<phase, current, batch, next, accepted, handled>>
vars == <<kind, subscribers, sent, arrived, pending, tx, popped, connected, worker>>

Kind == {"cyclonedds", "fastdds", "cdr", "protobuf"}
IsDds == kind \in {"cyclonedds", "fastdds"}

(* The subscribers of each plugin, the type a topic carries and the        *)
(* channel it is pushed to.                                                *)
Topics == IF IsDds THEN <<"motor">> ELSE zenoh_topics
expected_type ==
    [joint |-> "TX_CIA402", motor |-> "TX_MOTOR", valve |-> "TX_HYQ_KNEE",
     gripper |-> "TX_GRIPPER", pump |-> "TX_HYQ_HPU"]
channel ==
    [joint |-> "Motor", motor |-> "Motor", valve |-> "Valve",
     gripper |-> "Gripper", pump |-> "Pump"]
Channel == Range(channel)

(* A Protobuf command is one PDO, and says itself what it is.              *)
PdoType == {"TX_CIA402", "TX_MOTOR", "TX_XT_MOTOR", "TX_HYQ_KNEE", "TX_GRIPPER", "TX_HYQ_HPU"}
Message == [stamp: 1..MaxCommands, elements: Command, type: PdoType]
Pdo == [topic: Topic, stamp: 1..MaxCommands, place: Nat, id: Target, type: PdoType]

Depth == IF IsDds THEN history_depth ELSE 1

Init ==
    /\ kind \in Kind
    /\ subscribers = 0
    /\ phase = "starting"
    /\ sent = 0
    /\ arrived = [t \in Topic |-> 0]
    /\ pending = [t \in Topic |-> <<>>]
    /\ current = 1
    /\ batch = <<>>
    /\ next = 1
    /\ accepted = {}
    /\ handled = [t \in Topic |-> 0]
    /\ tx = [c \in Channel |-> <<>>]
    /\ popped = [t \in Topic |-> <<0, 0>>]
    /\ connected = TRUE

-----------------------------------------------------------------------------
(* Registration: init() of the DDS adapters, start() of the Zenoh adapter. *)

RegisterSubscriber ==
    /\ phase = "starting"
    /\ subscribers < Len(Topics)
    /\ subscribers' = subscribers + 1
    /\ UNCHANGED <<kind, sent, arrived, pending, tx, popped, connected, worker>>

(* FastDDS ignores the failure and runs without the subscriber.            *)
RegisterFails ==
    /\ phase = "starting"
    /\ subscribers < Len(Topics)
    /\ subscribers' = 0
    /\ pending' = [t \in Topic |-> <<>>]
    /\ arrived' = handled
    /\ phase' = IF kind = "fastdds" THEN "waiting" ELSE "failed"
    /\ UNCHANGED <<kind, sent, current, batch, next, accepted, handled, tx, popped, connected>>

(* The Zenoh adapter connects before it registers, the DDS ones after.     *)
StartFails ==
    /\ phase = "starting"
    /\ subscribers = IF IsDds THEN Len(Topics) ELSE 0
    /\ phase' = "failed"
    /\ UNCHANGED <<kind, subscribers, sent, arrived, pending, current, batch, next,
                   accepted, handled, tx, popped, connected>>

Started ==
    /\ phase = "starting"
    /\ subscribers = Len(Topics)
    /\ phase' = "waiting"
    /\ UNCHANGED <<kind, subscribers, sent, arrived, pending, current, batch, next,
                   accepted, handled, tx, popped, connected>>

-----------------------------------------------------------------------------
(* The network thread.                                                     *)

(* A client's command arrives, unless the network loses it.                *)
Registered(t) == \E s \in 1..subscribers : Topics[s] = t

MutantDropNewest(q, m) == IF Len(q) < Depth THEN Append(q, m) ELSE q
MutantNewestFirst(q, m) == <<m>> \o (IF Len(q) < Depth THEN q ELSE <<>>)
Keep(q, m) ==
    IF Len(q) < Depth THEN Append(q, m) ELSE Append(Tail(q), m)

(* An empty list does not pass the CDR decoder; a DDS command may be empty. *)
Decodable(elements) ==
    CASE IsDds -> TRUE
      [] kind = "cdr" -> elements # <<>>
      [] kind = "protobuf" -> Len(elements) = 1

ClientTypes(t) ==
    IF kind = "protobuf" THEN {expected_type[t], "TX_XT_MOTOR"} ELSE {expected_type[t]}

Receive(t) ==
    /\ sent < MaxCommands
    /\ sent' = sent + 1
    /\ \E elements \in Command, type \in ClientTypes(t) :
           IF Decodable(elements)
           THEN /\ pending' = [pending EXCEPT ![t] =
                       Keep(@, [stamp |-> sent', elements |-> elements, type |-> type])]
                /\ arrived' = [arrived EXCEPT ![t] = sent']
           ELSE UNCHANGED <<pending, arrived>>
    /\ UNCHANGED <<kind, subscribers, tx, popped, connected, worker>>

Lose(t) ==
    /\ sent < MaxCommands
    /\ sent' = sent + 1
    /\ UNCHANGED <<kind, subscribers, arrived, pending, tx, popped, connected, worker>>

-----------------------------------------------------------------------------
(* The worker.                                                             *)

topic == Topics[current]

SpinOnce ==
    /\ phase = "waiting"
    /\ subscribers > 0
    /\ phase' = "taking"
    /\ current' = 1
    /\ UNCHANGED <<kind, subscribers, sent, arrived, pending, batch, next, accepted,
                   handled, tx, popped, connected>>

Taken(q) ==
    IF kind = "fastdds" /\ q # <<>> THEN <<SubSeq(q, 1, 1), Tail(q)>> ELSE <<q, <<>>>>

Take ==
    /\ phase = "taking"
    /\ pending[topic] # <<>>
    /\ batch' = Taken(pending[topic])[1]
    /\ pending' = [pending EXCEPT ![topic] = Taken(pending[topic])[2]]
    /\ phase' = "handling"
    /\ next' = 1
    /\ accepted' = {}
    /\ UNCHANGED <<kind, subscribers, sent, arrived, current, handled, tx, popped, connected>>

NextSubscriber ==
    IF current < subscribers
    THEN phase' = "taking" /\ current' = current + 1
    ELSE phase' = "waiting" /\ UNCHANGED current

TakeNothing ==
    /\ phase = "taking"
    /\ pending[topic] = <<>>
    /\ NextSubscriber
    /\ UNCHANGED <<kind, subscribers, sent, arrived, pending, batch, next, accepted,
                   handled, tx, popped, connected>>

(* The PDO of an element: DDS asks what discovery found at the ID, the CDR *)
(* decoder sets the type of the topic, Protobuf keeps what the client set. *)
tx_type ==
    [RX_MOTOR |-> "TX_MOTOR", RX_XT_MOTOR |-> "TX_XT_MOTOR", RX_CIA402 |-> "TX_CIA402"]
Converts(id) ==
    IsDds => id \in DOMAIN device_types /\ device_types[id] \in DOMAIN tx_type
decoded_type ==
    [joint |-> "TX_CIA402", motor |-> "TX_MOTOR", valve |-> "TX_HYQ_KNEE",
     gripper |-> "TX_GRIPPER", pump |-> "TX_HYQ_HPU"]
TypeOf(m, id) ==
    CASE IsDds -> tx_type[device_types[id]]
      [] kind = "cdr" -> decoded_type[topic]
      [] kind = "protobuf" -> m.type

(* enqueue() checks the type; push() checks connection and index, and the  *)
(* queue has the last word.                                                *)
Passes(id, type) ==
    /\ ~IsDds => type = expected_type[topic]
    /\ connected
    /\ id >= 0
MutantAlwaysRoom == TRUE
HasRoom == Len(tx[channel[topic]]) < TxCapacity

MutantGoOn == TRUE
GoOnBehindRefusal == IsDds

Enqueue(m, id) ==
    tx' = [tx EXCEPT ![channel[topic]] = Append(@,
        [topic |-> topic, stamp |-> m.stamp, place |-> next, id |-> id,
         type |-> TypeOf(m, id)])]

PushElement ==
    /\ phase = "handling"
    /\ next <= Len(batch[1].elements)
    /\ LET m == batch[1]
           id == m.elements[next]
       IN  IF Converts(id) /\ Passes(id, TypeOf(m, id)) /\ HasRoom
           THEN /\ Enqueue(m, id)
                /\ accepted' = accepted \cup {next}
                /\ next' = next + 1
           ELSE /\ next' = IF GoOnBehindRefusal THEN next + 1 ELSE Len(m.elements) + 1
                /\ UNCHANGED <<tx, accepted>>
    /\ UNCHANGED <<kind, subscribers, sent, arrived, pending, phase, current, batch,
                   handled, popped, connected>>

MutantForgetTheRest == <<>>
Rest == Tail(batch)

CommandDone ==
    /\ phase = "handling"
    /\ next > Len(batch[1].elements)
    /\ handled' = [handled EXCEPT ![topic] = batch[1].stamp]
    /\ batch' = Rest
    /\ next' = 1
    /\ accepted' = {}
    /\ IF Rest # <<>> THEN UNCHANGED <<phase, current>>
       ELSE IF kind = "fastdds" THEN phase' = "taking" /\ UNCHANGED current
       ELSE NextSubscriber
    /\ UNCHANGED <<kind, subscribers, sent, arrived, pending, tx, popped, connected>>

-----------------------------------------------------------------------------
(* The master, and the connection to it.                                   *)

MasterPops(c) ==
    /\ tx[c] # <<>>
    /\ tx' = [tx EXCEPT ![c] = Tail(@)]
    /\ LET pdo == Head(tx[c])
       IN  popped' = [popped EXCEPT ![pdo.topic] = <<pdo.stamp, pdo.place>>]
    /\ UNCHANGED <<kind, subscribers, sent, arrived, pending, connected, worker>>

ConnectionChanges ==
    /\ connected' = ~connected
    /\ UNCHANGED <<kind, subscribers, sent, arrived, pending, tx, popped, worker>>

-----------------------------------------------------------------------------
Worker ==
    \/ RegisterSubscriber \/ RegisterFails \/ StartFails \/ Started
    \/ SpinOnce \/ Take \/ TakeNothing \/ PushElement \/ CommandDone
Environment ==
    \/ \E t \in Topic : Registered(t) /\ (Receive(t) \/ Lose(t))
    \/ \E c \in Channel : MasterPops(c)
    \/ ConnectionChanges
Next == Worker \/ Environment

(* PluginExec calls spin_once() at the rate of the adapter.                *)
Spec == Init /\ [][Next]_vars /\ WF_vars(Worker)

-----------------------------------------------------------------------------
(* Queues stay within their limits, and a command is done before another.  *)
TypeOK ==
    /\ kind \in Kind
    /\ subscribers \in 0..Len(Topics)
    /\ phase \in {"starting", "failed", "waiting", "taking", "handling"}
    /\ sent \in 0..MaxCommands
    /\ arrived \in [Topic -> 0..MaxCommands]
    /\ pending \in [Topic -> Seq(Message)] /\ \A t \in Topic : Len(pending[t]) <= Depth
    /\ current \in Nat \ {0} /\ (phase \in {"taking", "handling"} => current <= subscribers)
    /\ batch \in Seq(Message) /\ (phase = "handling" <=> batch # <<>>)
    /\ next \in Nat \ {0} /\ accepted \subseteq 1..(next - 1)
    /\ handled \in [Topic -> 0..MaxCommands]
    /\ tx \in [Channel -> Seq(Pdo)] /\ \A c \in Channel : Len(tx[c]) <= TxCapacity
    /\ popped \in [Topic -> (0..MaxCommands) \X Nat]
    /\ connected \in BOOLEAN

(* The master never gets an older setpoint of a topic behind a newer one,  *)
(* nor one element of a command twice: the reader's history, the batch and *)
(* the transmit queue all keep the order of arrival.                       *)
Before(a, b) == a[1] < b[1] \/ (a[1] = b[1] /\ a[2] < b[2])
At(pdo) == <<pdo.stamp, pdo.place>>
SetpointsAdvance ==
    \A c \in Channel : \A i \in 1..Len(tx[c]) :
        LET pdo == tx[c][i]
        IN  /\ Before(popped[pdo.topic], At(pdo))
            /\ \A j \in 1..(i - 1) :
                   LET earlier == tx[c][j]
                   IN  earlier.topic = pdo.topic => Before(At(earlier), At(pdo))

(* However far the worker is behind, the command that arrived last on a    *)
(* topic is done, or it is the last of those taken, or of those pending.   *)
NewestIsKept ==
    \A s \in 1..subscribers :
        LET t == Topics[s]
            waiting == (IF s = current THEN batch ELSE <<>>) \o pending[t]
        IN  \/ arrived[t] = handled[t] /\ waiting = <<>>
            \/ waiting # <<>> /\ waiting[Len(waiting)].stamp = arrived[t]

(* What the master gets of a Zenoh command is its first elements, never    *)
(* some with a gap between them, though the queue may have room again for  *)
(* a later element or the connection be back.                              *)
NoGaps == ~IsDds => accepted = 1..Cardinality(accepted)

(* The newest command of a topic is handled, or a newer one arrives: the   *)
(* worker gets to every subscriber, behind refused commands as well.       *)
NewestIsHandled ==
    \A t \in Range(zenoh_topics) \cup {"motor"} : \A n \in 1..MaxCommands :
        Registered(t) /\ phase \notin {"starting", "failed"} /\ arrived[t] = n
            ~> handled[t] >= n \/ arrived[t] > n

=============================================================================
